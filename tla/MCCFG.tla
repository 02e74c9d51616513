-------------------------------- MODULE MCCFG --------------------------------
(***************************************************************************)
(* Small functions for CFGPaths.                                           *)
(***************************************************************************)
EXTENDS CFGPaths

Do(n) == [op |-> "do", id |-> n]
Return(n) == [op |-> "return", id |-> n]
Raise == [op |-> "raise"]
Break == [op |-> "break"]
Continue == [op |-> "continue"]
If(n, then, else) == [op |-> "if", id |-> n, body |-> then, orelse |-> else]
While(n, loop, else) == [op |-> "while", id |-> n, body |-> loop, orelse |-> else]
For(n, t, loop, else) == [op |-> "for", id |-> n, target |-> t, body |-> loop, orelse |-> else]
With(ns, block) == [op |-> "with", ids |-> ns, body |-> block]
Class(block) == [op |-> "class", body |-> block]
Except(block) == [any |-> TRUE, bind |-> <<>>, body |-> block]
ExceptAs(n, block) == [any |-> FALSE, bind |-> <<n>>, body |-> block]
Try(block, hs, else, final) ==
  [op |-> "try", body |-> block, handlers |-> hs, orelse |-> else, finalbody |-> final]

(***************************************************************************)
(* Short blocks, with and without a jump out of a loop.                    *)
(***************************************************************************)
Straight(n) == {<<Do(n)>>, <<Return(n)>>, <<Do(n), Raise>>}
NoReturn(n) == {<<Do(n)>>, <<Do(n), Raise>>}
Jumping(n) == Straight(n) \cup {<<Break>>, <<Continue>>, <<Do(n), Break>>, <<Do(n), Continue>>}

Ifs(Blocks(_), n) == {If(n, b, e) : b \in Blocks(n + 1), e \in {<<>>} \cup Blocks(n + 2)}

\* A loop, whose target nothing else uses, around a block; an else clause
\* only on a loop that nothing breaks out of.
Loops(blocks, n) == {While(n, b, <<>>) : b \in blocks} \cup {For(n, 99, b, <<>>) : b \in blocks}
LoopsElse(blocks, n) ==
  {While(n, b, <<Do(n + 1)>>) : b \in blocks} \cup {For(n, 99, b, <<Do(n + 1)>>) : b \in blocks}

\* What a loop body is made of, around an inner statement.
LoopBodies(inner) == {<<Do(20), s, Do(21)>> : s \in inner} \cup {<<s>> : s \in inner}

InnerLoops == Loops(Jumping(40), 30) \cup LoopsElse(Straight(40), 30)

Structured ==
  LET statements ==
        Ifs(Straight, 10)
        \cup Loops(LoopBodies(Ifs(Jumping, 30) \cup InnerLoops), 10)
        \cup LoopsElse(LoopBodies(Ifs(Straight, 30) \cup InnerLoops), 10)
        \cup {If(10, <<s>>, <<Do(12)>>) : s \in Ifs(Straight, 30) \cup InnerLoops}
        \cup {With(<<10, 11>>, <<s, Do(12)>>) : s \in Ifs(Straight, 30)}
        \cup {Class(<<Do(10), s>>) : s \in Ifs(NoReturn, 30)}
        \cup {While(10, <<While(30, <<Do(31)>>, <<jump>>), Do(20)>>, <<>>) : jump \in {Break, Continue}}
  IN  {<<Do(1), s, Do(2)>> : s \in statements}

\* try statements whose exceptions are raised where the body has not yet
\* left the block it starts in.
Guarded ==
  {<<Do(1), Try(b, hs, <<>>, f), Do(2)>> :
     b \in {<<Do(10), Raise>>, <<If(10, <<Raise>>, <<>>), Do(11)>>, <<If(10, <<Do(11)>>, <<Raise>>)>>},
     hs \in {<<Except(<<Do(20)>>)>>, <<ExceptAs(20, <<Do(21)>>), Except(<<Do(22)>>)>>},
     f \in {<<>>, <<Do(40)>>}}

Faithful == Structured \cup Guarded

-----------------------------------------------------------------------------
(***************************************************************************)
(* Functions with an execution that is not a path of their graph.          *)
(***************************************************************************)

\* x = input(); for x in rows: ...; system(x): when rows is empty, x keeps
\* what it had, yet every path of the graph binds it anew.
EmptyFor == {<<Do(1), For(10, 11, <<Do(12)>>, <<>>), Do(2)>>}

\* A break out of a loop with an else clause goes through the else clause.
BreakElse == {<<Do(1), While(10, <<Do(11), Break>>, <<Do(12)>>), Do(2)>>}

\* x = input(); try: x = parse() except: system(x): the handler is entered
\* with the try statement's first block done, x bound anew.
RaisedInBody == {<<Do(1), Try(<<Do(10)>>, <<Except(<<Do(20)>>)>>, <<>>, <<>>)>>}

\* A handled exception goes through the else clause.
HandlerElse == {<<Do(1), Try(<<Do(10), Raise>>, <<Except(<<Do(20)>>)>>, <<Do(30)>>, <<>>), Do(2)>>}

\* The finally clause of a body that returns is left out.
ReturnFinally == {<<Do(1), Try(<<Return(10)>>, <<>>, <<>>, <<Do(40)>>)>>}

=============================================================================
