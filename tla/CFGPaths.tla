------------------------------ MODULE CFGPaths ------------------------------
(***************************************************************************)
(* The executions of a function, as Python defines them, against the paths *)
(* of the control flow graph built for it.                                 *)
(*                                                                         *)
(* Two machines run in lockstep on what they evaluate.  Either the program *)
(* leads, taking one of its executions, and the graph follows with every   *)
(* place its paths can have reached by evaluating the same ids; or the     *)
(* graph leads and the program follows with every state it can be in.  A   *)
(* follower left without any place or state cannot do what the leader did. *)
(***************************************************************************)
EXTENDS CFGBuilder

CONSTANTS
  Scopes,     \* the bodies of the functions considered
  MayRaise,   \* whether evaluating anything may raise an exception
  Quiet       \* ids whose evaluation is not observed

ASSUME MayRaiseAssumption == MayRaise \in BOOLEAN

VARIABLES
  body,    \* the function
  graph,   \* its control flow graph
  lead,    \* who leads: "program" or "graph"
  stacks,  \* the states of the program
  places   \* the places in the graph: a block, and how much of it is done

vars == <<body, graph, lead, stacks, places>>

-----------------------------------------------------------------------------
(***************************************************************************)
(* The program.  Its state is the stack of what is left to run: statements *)
(* and the marks of the loops, try and finally clauses under way.          *)
(***************************************************************************)
LoopMark(s)      == [op |-> "again", loop |-> s]
CatchMark(s)     == [op |-> "catch", handlers |-> s.handlers, orelse |-> s.orelse]
FinallyMark(s)   == [op |-> "finally", body |-> s.finalbody]
AbruptMark(kind) == [op |-> "abrupt", kind |-> kind]

\* Evaluations of their own: the items of a with, the targets of a for and
\* of a handler.
Evaluations(ids) == [i \in DOMAIN ids |-> [op |-> "do", id |-> ids[i]]]

\* The stacks after an exception or a jump: it ends whatever is under way
\* up to the mark that stops it, running the finally clauses it passes.
RECURSIVE Unwind(_, _)
Unwind(kind, stack) ==
  IF stack = <<>> THEN {<<>>}
  ELSE LET top == Head(stack)
           rest == Tail(stack)
       IN  CASE top.op = "again" /\ kind = "break"    -> {rest}
             [] top.op = "again" /\ kind = "continue" -> {stack}
             [] top.op = "catch" /\ kind = "raise" ->
                  {Evaluations(h.bind) \o h.body \o rest :
                     h \in {top.handlers[i] : i \in DOMAIN top.handlers}}
                  \cup (IF \E i \in DOMAIN top.handlers : top.handlers[i].any THEN {}
                        ELSE Unwind(kind, rest))
             [] top.op = "finally" -> {top.body \o <<AbruptMark(kind)>> \o rest}
             [] OTHER -> Unwind(kind, rest)

Silent(next) == [ids |-> {}, next |-> next]
Evaluates(id, next) == [ids |-> {id} \ Quiet, next |-> next]

\* The id that a statement evaluates before it goes on, if it does.
Subject(s) == IF s.op \in {"do", "return", "if", "while", "for"} THEN {s.id} ELSE {}

\* One step of the program: what it evaluates (at most one id) and the
\* stack it leaves.
Steps(stack) ==
  IF stack = <<>> THEN {}
  ELSE LET s == Head(stack)
           rest == Tail(stack)
       IN  (IF MayRaise /\ Subject(s) # {} THEN {Silent(k) : k \in Unwind("raise", rest)} ELSE {})
           \cup
           CASE s.op = "do"      -> {Evaluates(s.id, rest)}
             [] s.op = "return"  -> {Evaluates(s.id, k) : k \in Unwind("return", rest)}
             [] s.op \in {"raise", "break", "continue"} -> {Silent(k) : k \in Unwind(s.op, rest)}
             [] s.op = "abrupt"  -> {Silent(k) : k \in Unwind(s.kind, rest)}
             [] s.op = "class"   -> {Silent(s.body \o rest)}
             [] s.op = "if"      -> {Evaluates(s.id, s.body \o rest), Evaluates(s.id, s.orelse \o rest)}
             [] s.op = "while"   -> {Evaluates(s.id, s.body \o <<LoopMark(s)>> \o rest),
                                     Evaluates(s.id, s.orelse \o rest)}
             [] s.op = "for"     -> {Evaluates(s.id, <<LoopMark(s)>> \o rest)}
             [] s.op = "again"   ->
                  IF s.loop.op = "while" THEN {Silent(<<s.loop>> \o rest)}
                  ELSE {Evaluates(s.loop.target, s.loop.body \o stack), Silent(s.loop.orelse \o rest)}
             [] s.op = "with"    -> {Silent(Evaluations(s.ids) \o s.body \o rest)}
             [] s.op = "try"     -> {Silent(s.body \o <<CatchMark(s), FinallyMark(s)>> \o rest)}
             [] s.op = "catch"   -> {Silent(s.orelse \o rest)}
             [] s.op = "finally" -> {Silent(s.body \o rest)}

(***************************************************************************)
(* The graph.                                                              *)
(***************************************************************************)
PlaceMoves(p) ==
  LET stmts == graph.blocks[p.blk]
  IN  IF p.done < Len(stmts)
      THEN {[ids |-> {stmts[p.done + 1]} \ Quiet, next |-> [p EXCEPT !.done = @ + 1]]}
      ELSE {Silent([blk |-> b, done |-> 0]) : b \in graph.succ[p.blk]}

-----------------------------------------------------------------------------
(***************************************************************************)
(* The follower: everything it can reach without evaluating anything, and  *)
(* from there by evaluating the leader's id.                               *)
(***************************************************************************)
Follow(states, Moves(_), ids) ==
  LET RECURSIVE Settle(_)
      Settle(known) ==
        LET more == known \cup UNION {{m.next : m \in {n \in Moves(s) : n.ids = {}}} : s \in known}
        IN  IF more = known THEN known ELSE Settle(more)
  IN  IF ids = {} THEN states
      ELSE UNION {{m.next : m \in {n \in Moves(s) : n.ids = ids}} : s \in Settle(states)}

Init ==
  /\ body \in Scopes
  /\ graph = Build(body)
  /\ lead \in {"program", "graph"}
  /\ stacks = {body}
  /\ places = {[blk |-> 1, done |-> 0]}

ProgramLeads ==
  /\ lead = "program"
  /\ \E stack \in stacks : \E step \in Steps(stack) :
       /\ stacks' = {step.next}
       /\ places' = Follow(places, PlaceMoves, step.ids)
  /\ UNCHANGED <<body, graph, lead>>

GraphLeads ==
  /\ lead = "graph"
  /\ \E p \in places : \E move \in PlaceMoves(p) :
       /\ places' = {move.next}
       /\ stacks' = Follow(stacks, Steps, move.ids)
  /\ UNCHANGED <<body, graph, lead>>

Next == ProgramLeads \/ GraphLeads

Spec == Init /\ [][Next]_vars

-----------------------------------------------------------------------------
\* The graph is well formed: as many lists of successors as blocks, every
\* successor a block, and no loop left open.
TypeOK ==
  /\ lead \in {"program", "graph"}
  /\ Len(graph.succ) = Len(graph.blocks)
  /\ \A b \in DOMAIN graph.succ : graph.succ[b] \subseteq DOMAIN graph.blocks
  /\ graph.loops = <<>>
  /\ \A p \in places : p.blk \in DOMAIN graph.blocks /\ p.done \in 0..Len(graph.blocks[p.blk])

\* Every execution of the function is a path of its graph: the successors
\* of a block are the blocks control may flow to (IRBlock in ir.py), so
\* what the engine joins along paths covers every execution.
NoLostPath == lead = "program" => places # {}

\* Every path of the graph is an execution of the function: a terminator
\* ends its block, break goes to the join of its loop and continue to the
\* header (docs/ir-reference.md), so no finding rests on impossible control
\* flow.
NoInventedPath == lead = "graph" => stacks # {}

\* What the headers of the loops in a body begin with.
Nested(s) ==
  CASE s.op \in {"if", "while", "for"} -> {s.body, s.orelse}
    [] s.op \in {"with", "class"}      -> {s.body}
    [] s.op = "try" -> {s.body, s.orelse, s.finalbody} \cup {s.handlers[i].body : i \in DOMAIN s.handlers}
    [] OTHER -> {}

RECURSIVE Headers(_)
Headers(stmts) ==
  {stmts[i].id : i \in {j \in DOMAIN stmts : stmts[j].op = "while"}}
  \cup {stmts[i].target : i \in {j \in DOMAIN stmts : stmts[j].op = "for"}}
  \cup UNION {Headers(b) : b \in UNION {Nested(stmts[i]) : i \in DOMAIN stmts}}

\* The numbers of the blocks are an order in which the worklist, which takes
\* the lowest first, comes to a block after all that lead to it: an edge goes
\* back to the header of a loop and nowhere else, whatever jumps, handlers
\* and joins are nested in one another.
OnlyLoopsLeadBack ==
  \A b \in DOMAIN graph.succ : \A c \in graph.succ[b] :
    c <= b => graph.blocks[c] # <<>> /\ Head(graph.blocks[c]) \in Headers(body)

=============================================================================
