----------------------------- MODULE MCDataflow -----------------------------
(***************************************************************************)
(* Small functions for TaintWalk: the control flow graphs the frontend     *)
(* builds for the compound statements of Python, with every choice of      *)
(* their statements from a menu.                                           *)
(***************************************************************************)
EXTENDS TaintWalk, FiniteSets, TLC

CONSTANTS x, y, a, b, d1, d2, m1, nospec, f, g, h, external

MCBase == {x, y}
MCStep == {a}
MCSpecId == {d1, d2, m1}
MCMarker == {m1}
MCParamOf == (m1 :> 1)
MCCallee == {f, g, h, external}

(***************************************************************************)
(* Statements.                                                             *)
(***************************************************************************)
X  == [base |-> x, steps |-> <<>>]
Y  == [base |-> y, steps |-> <<>>]
Xa == [base |-> x, steps |-> <<a>>]

Const == [kind |-> "const"]
Var(p) == [kind |-> "path", path |-> p]
Input(loc) == [kind |-> "source", sources |-> {d1, d2}, loc |-> loc]

Let(p, v) == [targets |-> <<p>>, dynamic |-> {}, aug |-> FALSE, returns |-> FALSE, value |-> v]
Aug(p, v) == [targets |-> <<p>>, dynamic |-> {}, aug |-> TRUE, returns |-> FALSE, value |-> v]
Eval(v) == [targets |-> <<>>, dynamic |-> {}, aug |-> FALSE, returns |-> FALSE, value |-> v]
Value(operand) == [op |-> "union", args |-> <<operand>>]
Invoke(callee, loc, arg) ==
  [op |-> "call",
   call |-> [callee |-> callee, loc |-> loc, args |-> <<arg>>, kwargs |-> <<>>,
             receiver |-> Const, sources |-> {}, sanitizes |-> {}, propagator |-> FALSE,
             moves |-> {}, strMethod |-> FALSE, sinks |-> {}]]
Sanitize(loc, arg) ==
  [Invoke(external, loc, arg) EXCEPT !.call.sanitizes = {d1, d2}]
SinkCall(loc, arg) ==
  [Invoke(external, loc, arg) EXCEPT !.call.sinks = {[spec |-> d, args |-> {1}] : d \in {d1, d2}}]

\* f returns its parameter, through a call of its own; the parameter of g
\* reaches a sink inside g; h returns what it read from a source, and its
\* receiver.
MCSummaries ==
  (f :> {[src |-> "param", index |-> 1, dst |-> "return", spec |-> nospec,
          fragment |-> <<<<PropagatorRole, 50>>>>, loc |-> 0]})
  @@ (g :> {[src |-> "param", index |-> 1, dst |-> "sink", spec |-> d1,
             fragment |-> <<<<SinkRole, 60>>>>, loc |-> 60]})
  @@ (h :> {[src |-> "source", index |-> 0, dst |-> "return", spec |-> d1,
             fragment |-> <<<<SourceRole, 70>>>>, loc |-> 0],
            [src |-> "param", index |-> 0, dst |-> "return", spec |-> nospec,
             fragment |-> <<>>, loc |-> 0]})

\* A statement of the body; loc tells two occurrences apart.
Menu(loc) ==
  {Let(X, Value(Input(loc))), Let(X, Value(Const)), Let(Y, Value(Var(X))),
   Let(X, Value(Var(Y))), Let(Xa, Value(Var(Y))), Let(Y, Value(Var(Xa))),
   Let(Y, Sanitize(loc, Var(Y))), Let(Y, Invoke(f, loc, Var(X))), Aug(Y, Value(Var(X))),
   Eval(Invoke(g, loc, Var(Y)))}

\* Statements that only move or remove a taint.
Moves(loc) ==
  {Let(X, Value(Const)), Let(X, Value(Var(Y))), Let(Y, Value(Var(Xa))), Let(Y, Sanitize(loc, Var(Y)))}

First == {Let(X, Value(Input(1))), Let(Xa, Value(Input(1)))}
Last == {Eval(SinkCall(9, Var(X))), Eval(SinkCall(9, Var(Y))), Eval(SinkCall(9, Var(Xa)))}

Function(succ, stmts) ==
  [kind |-> "engine", n |-> Cardinality(DOMAIN succ), entry |-> 0, succ |-> succ,
   stmts |-> stmts, entryEnv |-> EmptyEnv, summaries |-> MCSummaries]

\* while: 0 the code before it, 1 the header, 2 the body, 3 the code after.
WhileSucc == (0 :> {1}) @@ (1 :> {2, 3}) @@ (2 :> {1}) @@ (3 :> {})

\* if: 0 the code before it, 1 the then branch, 2 the join.
IfSucc == (0 :> {1, 2}) @@ (1 :> {2}) @@ (2 :> {})

\* if/else: 0 the code before it, 1 and 2 the branches, 3 the join.
IfElseSucc == (0 :> {1, 2}) @@ (1 :> {3}) @@ (2 :> {3}) @@ (3 :> {})

\* while with an if: break in its body: 2 the body up to the test, 3 the
\* branch that breaks, 4 the rest of the body, 5 the code after the loop.
BreakSucc == (0 :> {1}) @@ (1 :> {2, 5}) @@ (2 :> {3, 4}) @@ (3 :> {5}) @@ (4 :> {1}) @@ (5 :> {})

\* for inside for: 1 and 3 the headers, 2 the outer body, 4 the inner one,
\* 5 the join of the inner loop, 6 the code after.
NestedSucc ==
  (0 :> {1}) @@ (1 :> {2, 6}) @@ (2 :> {3}) @@ (3 :> {4, 5}) @@ (4 :> {3}) @@ (5 :> {1}) @@ (6 :> {})

WhilePrograms ==
  {Function(WhileSucc, (0 :> <<s0>>) @@ (1 :> <<>>) @@ (2 :> <<s1, s2>>) @@ (3 :> <<s3>>)) :
     s0 \in First, s1 \in Menu(3), s2 \in Menu(2), s3 \in Last}

IfElsePrograms ==
  {Function(IfElseSucc, (0 :> <<s0>>) @@ (1 :> <<s1>>) @@ (2 :> <<s2>>) @@ (3 :> <<s4, s3>>)) :
     s0 \in First, s1 \in Menu(3), s2 \in Menu(2), s4 \in Moves(4), s3 \in Last}

IfPrograms ==
  {Function(IfSucc, (0 :> <<s0>>) @@ (1 :> <<s1, s2>>) @@ (2 :> <<s3>>)) :
     s0 \in First, s1 \in Menu(3), s2 \in Menu(2), s3 \in Last}

BreakPrograms ==
  {Function(BreakSucc, (0 :> <<s0>>) @@ (1 :> <<>>) @@ (2 :> <<s1>>) @@ (3 :> <<s2>>)
                         @@ (4 :> <<s4>>) @@ (5 :> <<s3>>)) :
     s0 \in First, s1 \in Menu(3), s2 \in Moves(2), s4 \in Moves(4), s3 \in Last}

NestedPrograms ==
  {Function(NestedSucc, (0 :> <<s0>>) @@ (1 :> <<>>) @@ (2 :> <<s1>>) @@ (3 :> <<>>)
                          @@ (4 :> <<s2>>) @@ (5 :> <<>>) @@ (6 :> <<s3>>)) :
     s0 \in First, s1 \in Menu(3), s2 \in Menu(2), s3 \in Last}

\* Straight-line code around one call of every kind.
Calls ==
  {[op |-> "call",
    call |-> [callee |-> callee, loc |-> 3, args |-> <<a1, a2>>, kwargs |-> kw, receiver |-> r,
              sources |-> src, sanitizes |-> san, propagator |-> mv # {} , moves |-> mv,
              strMethod |-> sm, sinks |-> {}]] :
     callee \in {external, f, h}, a1 \in {Const, Var(X)}, a2 \in {Const, Input(4)},
     kw \in {<<>>, <<Var(X)>>, <<Input(4)>>}, r \in {Const, Var(Xa), Input(4)}, src \in {{}, {d2}},
     san \in {{}, {d1, d2}}, mv \in {{}, {0}, {2}, {1, 2}}, sm \in BOOLEAN}

CallPrograms ==
  {Function((0 :> {}), (0 :> <<Let(X, Value(Input(1))), Let(Y, c), Eval(SinkCall(9, Var(Y)))>>)) :
     c \in Calls}

\* Functions to summarize, with y as their parameter.
Summarized(succ, stmts) ==
  [Function(succ, stmts) EXCEPT
     !.kind = "summary",
     !.entryEnv = [EmptyEnv EXCEPT ![Y] = {[spec |-> m1, chain |-> <<<<PropagatorRole, 5>>>>]}]]

Returning(v) == [Eval(v) EXCEPT !.returns = TRUE]

SummaryPrograms ==
  {Summarized(WhileSucc, (0 :> <<>>) @@ (1 :> <<>>) @@ (2 :> <<s1, s2>>) @@ (3 :> <<s3>>)) :
     s1 \in Menu(3), s2 \in Menu(2),
     s3 \in {Returning(Value(Var(X))), Returning(Value(Var(Xa))),
             Returning(Invoke(f, 8, Var(X))), Eval(SinkCall(9, Var(X)))}}
  \cup
  {Summarized(BreakSucc, (0 :> <<>>) @@ (1 :> <<>>) @@ (2 :> <<s1>>) @@ (3 :> <<s2>>)
                           @@ (4 :> <<s4>>) @@ (5 :> <<Returning(Value(Var(X)))>>)) :
     s1 \in Menu(3), s2 \in Moves(2), s4 \in Menu(4)}

MCPrograms ==
  SummaryPrograms \cup CallPrograms \cup WhilePrograms \cup IfElsePrograms \cup IfPrograms
    \cup BreakPrograms \cup NestedPrograms

\* None of them is beyond what WalkProofs assumes of a function.
ASSUME RunsArePrecise == \A p \in MCPrograms : Precise(p) /\ Traceable(p)

=============================================================================
