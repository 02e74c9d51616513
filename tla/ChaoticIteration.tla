-------------------------- MODULE ChaoticIteration --------------------------
(***************************************************************************)
(* What the analysis of one function computes, whatever its strategy: the  *)
(* blocks are visited in any order and any number of times, each from the  *)
(* join of what the others have last left behind, and the answer is given  *)
(* when no visit would change anything, from that solution alone.          *)
(*                                                                         *)
(* There is no worklist, no bound, no order of the blocks and no second    *)
(* pass.  The lattice, the statements and what a statement contributes to  *)
(* the answer are parameters: this is the forward dataflow of the engine   *)
(* reference (docs/engine-reference.md, section 1) and nothing more.       *)
(***************************************************************************)
EXTENDS Naturals, Sequences

CONSTANTS
  Bottom,              \* the environment without taint
  BlocksOf(_),         \* the blocks of a function
  JoinAt(_, _, _),     \* of a function, a block and the out-environments
  Apply(_, _, _),      \* of a function, a statement and an environment
  Collected(_, _, _),  \* what a statement of a function yields there
  AnswerOf(_, _)       \* the answer made of all that was yielded

VARIABLES
  prog,      \* the function
  out,       \* the environment each block has last left behind
  runs,      \* the environments of that visit, empty while it goes on
  answered,
  answer

vars == <<prog, out, runs, answered, answer>>

(***************************************************************************)
(* r is what running block b on the out-environments goes through: one     *)
(* environment before each statement and one at the end.                   *)
(***************************************************************************)
IsRun(r, b) ==
  /\ Len(r) = Len(prog.stmts[b]) + 1
  /\ r[1] = JoinAt(prog, b, out)
  /\ \A i \in 1..Len(prog.stmts[b]) : r[i + 1] = Apply(prog, prog.stmts[b][i], r[i])

\* No visit of block b would change anything.
Stable(b) == IsRun(runs[b], b) /\ out[b] = runs[b][Len(prog.stmts[b]) + 1]

Solution ==
  UNION {{Collected(prog, prog.stmts[b][i], runs[b][i]) : i \in 1..Len(prog.stmts[b])}
         : b \in BlocksOf(prog)}

Init ==
  /\ out = [b \in BlocksOf(prog) |-> Bottom]
  /\ runs = [b \in BlocksOf(prog) |-> <<>>]
  /\ ~ answered
  /\ answer = {}

Open(b) ==
  /\ ~ answered
  /\ runs' = [runs EXCEPT ![b] = <<>>]
  /\ UNCHANGED <<prog, out, answered, answer>>

Close(b) ==
  /\ ~ answered
  /\ IsRun(runs'[b], b)
  /\ runs' = [runs EXCEPT ![b] = runs'[b]]
  /\ out' = [out EXCEPT ![b] = runs'[b][Len(prog.stmts[b]) + 1]]
  /\ UNCHANGED <<prog, answered, answer>>

Answer ==
  /\ ~ answered
  /\ \A b \in BlocksOf(prog) : Stable(b)
  /\ answered'
  /\ answer' = AnswerOf(prog, UNION Solution)
  /\ UNCHANGED <<prog, out, runs>>

Next == (\E b \in BlocksOf(prog) : Open(b) \/ Close(b)) \/ Answer

Spec == Init /\ [][Next]_vars

=============================================================================
