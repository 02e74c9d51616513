----------------------------- MODULE CFGBuilder -----------------------------
(***************************************************************************)
(* The control flow graph that the frontend builds for a function          *)
(* (_CFGBuilder of frontends/python_frontend.py).                          *)
(*                                                                         *)
(* A statement is known by its kind and by an id for what it evaluates or  *)
(* binds; a body is a sequence of statements:                              *)
(*   do       id               an assignment, an expression, an import     *)
(*   return   id; raise; break; continue                                   *)
(*   if       id, body, orelse                  (id: the test)             *)
(*   while    id, body, orelse                  (id: the test)             *)
(*   for      id, target, body, orelse          (id: the iterable)         *)
(*   with     ids, body                         (one id for each item)     *)
(*   try      body, handlers, orelse, finalbody                            *)
(*            (a handler: bind, body, and any, when it catches everything) *)
(*   class    body                                                         *)
(* Statements that lower to nothing (pass, global, a nested def) are left  *)
(* out, and so are match and except* statements, which lower to one opaque *)
(* statement without their bodies; a raise calls nothing in its exception. *)
(* A set of heads stands for the code's list of block indices, which never *)
(* holds an index twice; blocks are numbered from 1.                       *)
(***************************************************************************)
EXTENDS Naturals, Sequences

EmptyGraph == [blocks |-> <<>>, succ |-> <<>>, loops |-> <<>>]

\* Mutant: the new block gets no list of successors.
NewBlockUnlisted(g) == [g EXCEPT !.blocks = Append(@, <<>>)]

NewBlock(g) == [g EXCEPT !.blocks = Append(@, <<>>), !.succ = Append(@, {})]

Newest(g) == Len(g.blocks)

Link(g, srcs, dst) ==
  [g EXCEPT !.succ = [b \in DOMAIN @ |-> IF b \in srcs THEN @[b] \cup {dst} ELSE @[b]]]

\* A new block, entered from the given ones.
BlockAfter(g, srcs) == Link(NewBlock(g), srcs, Newest(g) + 1)

Extend(g, heads, ids) ==
  [g EXCEPT !.blocks = [b \in DOMAIN @ |-> IF b \in heads THEN @[b] \o ids ELSE @[b]]]

(***************************************************************************)
(* The innermost loop, which break and continue refer to.                  *)
(***************************************************************************)
OpenLoop(g, header) == [g EXCEPT !.loops = Append(@, [header |-> header, breaks |-> {}])]
CloseLoop(g) == [g EXCEPT !.loops = SubSeq(@, 1, Len(@) - 1)]
InnermostLoop(g) == g.loops[Len(g.loops)]

Result(g, exits) == [g |-> g, exits |-> exits]

\* Mutant: the code after a break, a continue or a raise stays reachable.
EmitTerminatorFallsThrough(s, heads, g) ==
  CASE s.op = "return" -> Result(Extend(g, heads, <<s.id>>), {})
    [] s.op = "break" /\ g.loops # <<>> ->
         Result([g EXCEPT !.loops[Len(g.loops)].breaks = @ \cup heads], heads)
    [] s.op = "continue" /\ g.loops # <<>> -> Result(Link(g, heads, InnermostLoop(g).header), heads)
    [] OTHER -> Result(g, heads)

EmitTerminator(s, heads, g) ==
  CASE s.op = "return" -> Result(Extend(g, heads, <<s.id>>), {})
    [] s.op = "break" /\ g.loops # <<>> ->
         Result([g EXCEPT !.loops[Len(g.loops)].breaks = @ \cup heads], {})
    [] s.op = "continue" /\ g.loops # <<>> -> Result(Link(g, heads, InnermostLoop(g).header), {})
    [] OTHER -> Result(g, {})

RECURSIVE EmitSeq(_, _, _), EmitStmt(_, _, _), EmitHandlers(_, _, _, _)

\* The tail after a statement with no exit is unreachable and left out.
EmitSeq(body, heads, g) ==
  IF body = <<>> THEN Result(g, heads)
  ELSE LET r == EmitStmt(Head(body), heads, g)
       IN  IF r.exits = {} THEN r ELSE EmitSeq(Tail(body), r.exits, r.g)

\* Mutant: without an else branch the test is taken to hold.
EmitIfAlwaysTaken(s, heads, g) ==
  LET then == EmitSeq(s.body, {Newest(g) + 1}, BlockAfter(Extend(g, heads, <<s.id>>), heads))
      else == IF s.orelse = <<>> THEN Result(then.g, {})
              ELSE EmitSeq(s.orelse, {Newest(then.g) + 1}, BlockAfter(then.g, heads))
  IN  Result(BlockAfter(else.g, then.exits \cup else.exits), {Newest(else.g) + 1})

\* Mutant: the join is opened before the branches.
EmitIfJoinFirst(s, heads, g) ==
  LET join == NewBlock(Extend(g, heads, <<s.id>>))
      then == EmitSeq(s.body, {Newest(join) + 1}, BlockAfter(join, heads))
      else == IF s.orelse = <<>> THEN Result(then.g, heads)
              ELSE EmitSeq(s.orelse, {Newest(then.g) + 1}, BlockAfter(then.g, heads))
  IN  Result(Link(else.g, then.exits \cup else.exits, Newest(join)), {Newest(join)})

EmitIf(s, heads, g) ==
  LET then == EmitSeq(s.body, {Newest(g) + 1}, BlockAfter(Extend(g, heads, <<s.id>>), heads))
      else == IF s.orelse = <<>> THEN Result(then.g, heads)
              ELSE EmitSeq(s.orelse, {Newest(then.g) + 1}, BlockAfter(then.g, heads))
  IN  Result(BlockAfter(else.g, then.exits \cup else.exits), {Newest(else.g) + 1})

(***************************************************************************)
(* A loop, from its header block on: the body and the edge back, the join, *)
(* entered from the header and from every break, and the else clause.      *)
(***************************************************************************)
EmitLoop(s, header, g) ==
  LET entry == BlockAfter(OpenLoop(g, header), {header})
      body  == EmitSeq(s.body, {Newest(entry)}, entry)
      back  == Link(body.g, body.exits, header)
      join  == BlockAfter(CloseLoop(back), {header} \cup InnermostLoop(back).breaks)
      else  == EmitSeq(s.orelse, {Newest(join)}, join)
  IN  IF s.orelse = <<>> THEN Result(join, {Newest(join)})
      ELSE Result(BlockAfter(else.g, else.exits), {Newest(else.g) + 1})

\* The header binds the target.
EmitFor(s, heads, g) ==
  LET header == BlockAfter(Extend(g, heads, <<s.id>>), heads)
  IN  EmitLoop(s, Newest(header), Extend(header, {Newest(header)}, <<s.target>>))

EmitWhile(s, heads, g) ==
  LET header == BlockAfter(g, heads)
  IN  EmitLoop(s, Newest(header), Extend(header, {Newest(header)}, <<s.id>>))

EmitWith(s, heads, g) == EmitSeq(s.body, heads, Extend(g, heads, s.ids))

(***************************************************************************)
(* Every handler is entered from the blocks in which the try statement     *)
(* starts.                                                                 *)
(***************************************************************************)
EmitHandlers(handlers, heads, exits, g) ==
  IF handlers = <<>> THEN Result(g, exits)
  ELSE LET h     == Head(handlers)
           entry == BlockAfter(g, heads)
           r     == EmitSeq(h.body, {Newest(entry)}, Extend(entry, {Newest(entry)}, h.bind))
       IN  EmitHandlers(Tail(handlers), heads, exits \cup r.exits, r.g)

EmitTry(s, heads, g) ==
  LET body     == EmitSeq(s.body, heads, g)
      handlers == EmitHandlers(s.handlers, heads, body.exits, body.g)
      else     == EmitSeq(s.orelse, handlers.exits, handlers.g)
  IN  EmitSeq(s.finalbody, else.exits, else.g)

EmitStmt(s, heads, g) ==
  CASE s.op = "do"    -> Result(Extend(g, heads, <<s.id>>), heads)
    [] s.op = "class" -> EmitSeq(s.body, heads, g)
    [] s.op = "if"    -> EmitIf(s, heads, g)
    [] s.op = "for"   -> EmitFor(s, heads, g)
    [] s.op = "while" -> EmitWhile(s, heads, g)
    [] s.op = "with"  -> EmitWith(s, heads, g)
    [] s.op = "try"   -> EmitTry(s, heads, g)
    [] OTHER          -> EmitTerminator(s, heads, g)

Build(body) == EmitSeq(body, {1}, NewBlock(EmptyGraph)).g

=============================================================================
