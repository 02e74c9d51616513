------------------------------ MODULE Dataflow ------------------------------
(***************************************************************************)
(* The analysis of one function: the forward worklist over its control     *)
(* flow graph, the emission pass over the computed environments, and the   *)
(* finalization of what that pass reported.                                *)
(*                                                                         *)
(* The code holds this algorithm twice.  An "engine" program is what       *)
(* analyze_function and _finalize (engine/taint.py) do, a "summary"        *)
(* program what _summarize_function (engine/summaries.py) does: they       *)
(* differ in the bound on iterations and in what the second pass collects. *)
(* A step of the model is one visit of the loop over the worklist, or one  *)
(* statement of the loops over a block.                                    *)
(***************************************************************************)
EXTENDS Propagation

CONSTANTS
  Programs,              \* the functions analysed
  FIXPOINT_CAP,          \* engine/taint.py
  SUMMARY_FIXPOINT_CAP   \* engine/summaries.py

\* A parameter's marker arises in one step, at the parameter.
Seeded(e) ==
  \A p, q \in AccessPath : \A l \in e[p], m \in e[q] :
    l.spec \in Marker /\ m.spec = l.spec => m.chain[1] = l.chain[1]

(***************************************************************************)
(* A function: n basic blocks, numbered from 0 in the order of their       *)
(* creation, their successors and statements, the entry block and the      *)
(* environment in which it is entered, and the summaries of its module.    *)
(***************************************************************************)
IsProgram(p) ==
  /\ p.kind \in {"engine", "summary"}
  /\ p.n \in Nat \ {0}
  /\ p.entry \in 0..(p.n - 1)
  /\ p.succ \in [0..(p.n - 1) -> SUBSET (0..(p.n - 1))]
  /\ p.stmts \in [0..(p.n - 1) -> Seq(Stmt)]
  /\ p.entryEnv \in Env /\ Seeded(p.entryEnv)
  /\ IsSummaries(p.summaries)

ASSUME ProgramsAssumption == \A p \in Programs : IsProgram(p)

ASSUME CapsAssumption == FIXPOINT_CAP \in Nat /\ SUMMARY_FIXPOINT_CAP \in Nat

VARIABLES
  prog,        \* the function under analysis
  phase,       \* "solve" between visits, "visit" inside one, "emit", "done"
  worklist,    \* the sorted worklist, as the set of its members
  iterations,  \* visits so far
  in_env,      \* the environment on entry to each block
  out_env,     \* the environment on exit from each block
  cur,         \* the block being visited or emitted
  pos,         \* the next statement of that block
  env,         \* the environment before that statement
  raw,         \* what the emission pass has collected
  result,      \* what the analysis returns
  at           \* history: the environments of each block's last visit

vars == <<prog, phase, worklist, iterations, in_env, out_env, cur, pos, env, raw, result, at>>

BlocksOf(p) == 0..(p.n - 1)

Blocks == BlocksOf(prog)

Preds(p, b) == {c \in BlocksOf(p) : b \in p.succ[c]}

\* Mutant: as many visits as there are blocks.
CapPerBlock == prog.n

Cap == IF prog.kind = "engine"
       THEN FIXPOINT_CAP * (prog.n + 1) * (prog.n + 1) + prog.n
       ELSE (prog.n + 1) * SUMMARY_FIXPOINT_CAP + prog.n

(***************************************************************************)
(* The join of the predecessors' out-environments, one after the other,    *)
(* onto the entry environment or the empty one.  Merge keeps a best label, *)
(* so the order of the joins is immaterial.                                *)
(***************************************************************************)
JoinAt(p, b, outs) ==
  [ap \in AccessPath |->
     Merge((IF b = p.entry THEN p.entryEnv[ap] ELSE {})
             \cup UNION {outs[c][ap] : c \in Preds(p, b)})]

JoinOf(b, outs) == JoinAt(prog, b, outs)

Init ==
  /\ prog \in Programs
  /\ phase = "solve"
  /\ worklist = Blocks
  /\ iterations = 0
  /\ in_env = [b \in Blocks |-> IF prog.kind = "engine" /\ b = prog.entry
                                THEN prog.entryEnv ELSE EmptyEnv]
  /\ out_env = [b \in Blocks |-> EmptyEnv]
  /\ cur = prog.entry
  /\ pos = 1
  /\ env = EmptyEnv
  /\ raw = {}
  /\ result = {}
  /\ at = [b \in Blocks |-> <<>>]

(***************************************************************************)
(* The worklist loop.                                                      *)
(***************************************************************************)
Pop(b) ==
  /\ phase = "solve"
  /\ b \in worklist
  /\ \A c \in worklist : b <= c
  /\ iterations < Cap
  /\ phase' = "visit"
  /\ worklist' = worklist \ {b}
  /\ iterations' = iterations + 1
  /\ in_env' = [in_env EXCEPT ![b] = JoinOf(b, out_env)]
  /\ cur' = b
  /\ pos' = 1
  /\ env' = JoinOf(b, out_env)
  /\ at' = [at EXCEPT ![b] = <<JoinOf(b, out_env)>>]
  /\ UNCHANGED <<prog, out_env, raw, result>>

Stmts == prog.stmts[cur]

Execute ==
  /\ phase = "visit"
  /\ pos \in 1..Len(Stmts)
  /\ env' = Transfer(Stmts[pos], env, prog.summaries)
  /\ pos' = pos + 1
  /\ at' = [at EXCEPT ![cur] = Append(@, env')]
  /\ UNCHANGED <<prog, phase, worklist, iterations, in_env, out_env, cur, raw, result>>

\* Mutant: only the successors that come later in the order are put back.
LeaveForward ==
  /\ phase = "visit"
  /\ pos = Len(Stmts) + 1
  /\ phase' = "solve"
  /\ out_env' = [out_env EXCEPT ![cur] = env]
  /\ worklist' = IF env # out_env[cur]
                 THEN worklist \cup {b \in prog.succ[cur] : b > cur} ELSE worklist
  /\ UNCHANGED <<prog, iterations, in_env, cur, pos, env, raw, result, at>>

\* Mutant: the successors are put back whether or not anything changed.
LeaveAlways ==
  /\ phase = "visit"
  /\ pos = Len(Stmts) + 1
  /\ phase' = "solve"
  /\ out_env' = [out_env EXCEPT ![cur] = env]
  /\ worklist' = worklist \cup prog.succ[cur]
  /\ UNCHANGED <<prog, iterations, in_env, cur, pos, env, raw, result, at>>

\* A changed out-environment puts the successors back on the worklist.
Leave ==
  /\ phase = "visit"
  /\ pos = Len(Stmts) + 1
  /\ phase' = "solve"
  /\ out_env' = [out_env EXCEPT ![cur] = env]
  /\ worklist' = IF env # out_env[cur] THEN worklist \cup prog.succ[cur] ELSE worklist
  /\ UNCHANGED <<prog, iterations, in_env, cur, pos, env, raw, result, at>>

Stop ==
  /\ phase = "solve"
  /\ worklist = {} \/ iterations >= Cap
  /\ phase' = "emit"
  /\ cur' = 0
  /\ pos' = 1
  /\ env' = in_env[0]
  /\ UNCHANGED <<prog, worklist, iterations, in_env, out_env, raw, result, at>>

(***************************************************************************)
(* The second pass: every block once, in order, from its in-environment.   *)
(***************************************************************************)
Collected(p, stmt, e) ==
  IF p.kind = "engine"
  THEN StmtFindings(stmt, e, p.summaries)
  ELSE StmtFlows(stmt, e, p.summaries)

Emit ==
  /\ phase = "emit"
  /\ pos \in 1..Len(Stmts)
  /\ raw' = raw \cup Collected(prog, Stmts[pos], env)
  /\ env' = Transfer(Stmts[pos], env, prog.summaries)
  /\ pos' = pos + 1
  /\ UNCHANGED <<prog, phase, worklist, iterations, in_env, out_env, cur, result, at>>

\* Mutant: the position is not reset.
NextBlockKeepsPosition ==
  /\ phase = "emit"
  /\ pos = Len(Stmts) + 1
  /\ cur + 1 \in Blocks
  /\ cur' = cur + 1
  /\ env' = in_env[cur + 1]
  /\ UNCHANGED <<prog, phase, worklist, iterations, in_env, out_env, pos, raw, result, at>>

\* Mutant: the environment of the block before is carried on.
NextBlockCarriesEnv ==
  /\ phase = "emit"
  /\ pos = Len(Stmts) + 1
  /\ cur + 1 \in Blocks
  /\ cur' = cur + 1
  /\ pos' = 1
  /\ UNCHANGED <<prog, phase, worklist, iterations, in_env, out_env, env, raw, result, at>>

NextBlock ==
  /\ phase = "emit"
  /\ pos = Len(Stmts) + 1
  /\ cur + 1 \in Blocks
  /\ cur' = cur + 1
  /\ pos' = 1
  /\ env' = in_env[cur + 1]
  /\ UNCHANGED <<prog, phase, worklist, iterations, in_env, out_env, raw, result, at>>

(***************************************************************************)
(* Findings of one detector with one sink and one source are the same      *)
(* vulnerability: the one with the best witness is kept.                   *)
(***************************************************************************)
SameVulnerability(f, g) ==
  f.spec = g.spec /\ f.sink = g.sink /\ f.witness[1] = g.witness[1]

Finalize(findings) ==
  {f \in findings :
     \A g \in findings : SameVulnerability(f, g) => ~ BetterChain(g.witness, f.witness)}

AnswerOf(p, found) == IF p.kind = "engine" THEN Finalize(found) ELSE found

Return ==
  /\ phase = "emit"
  /\ pos = Len(Stmts) + 1
  /\ cur + 1 \notin Blocks
  /\ phase' = "done"
  /\ result' = AnswerOf(prog, raw)
  /\ UNCHANGED <<prog, worklist, iterations, in_env, out_env, cur, pos, env, raw, at>>

Next ==
  \/ \E b \in Blocks : Pop(b)
  \/ Execute
  \/ Leave
  \/ Stop
  \/ Emit
  \/ NextBlock
  \/ Return

Spec == Init /\ [][Next]_vars

-----------------------------------------------------------------------------
(***************************************************************************)
(* Properties.                                                             *)
(***************************************************************************)

\* Every variable has its type.
TypeOK ==
  /\ IsProgram(prog)
  /\ phase \in {"solve", "visit", "emit", "done"}
  /\ worklist \subseteq Blocks
  /\ iterations \in Nat
  /\ in_env \in [Blocks -> Env]
  /\ out_env \in [Blocks -> Env]
  /\ cur \in Blocks
  /\ pos \in 1..(Len(Stmts) + 1)
  /\ env \in Env
  /\ at \in [Blocks -> Seq(Env)]
  /\ IF prog.kind = "engine" THEN raw \subseteq Finding /\ result \subseteq Finding
                             ELSE raw \subseteq Flow /\ result \subseteq Flow

(***************************************************************************)
(* Block b satisfies its dataflow equations: its in-environment is the     *)
(* join of its predecessors' out-environments, its out-environment is what *)
(* its statements, one after the other, make of it.                        *)
(***************************************************************************)
Solved(b) ==
  /\ Len(at[b]) = Len(prog.stmts[b]) + 1
  /\ at[b][1] = JoinOf(b, out_env)
  /\ \A i \in 1..Len(prog.stmts[b]) :
       at[b][i + 1] = Transfer(prog.stmts[b][i], at[b][i], prog.summaries)
  /\ in_env[b] = at[b][1]
  /\ out_env[b] = at[b][Len(prog.stmts[b]) + 1]

\* Why that is so: every block off the worklist satisfies its equations,
\* except the one under visit, which satisfies them up to the statement the
\* visit has reached.  (The inductive invariant of DataflowProofs.)
Visiting ==
  /\ cur \notin worklist
  /\ in_env[cur] = JoinOf(cur, out_env)
  /\ Len(at[cur]) = pos
  /\ at[cur][1] = in_env[cur]
  /\ at[cur][pos] = env
  /\ \A i \in 1..(pos - 1) : at[cur][i + 1] = Transfer(Stmts[i], at[cur][i], prog.summaries)

SettledOffWorklist ==
  /\ phase = "visit" => Visiting
  /\ \A b \in Blocks \ worklist : (phase = "visit" => b # cur) => Solved(b)

\* When the worklist runs empty every block satisfies its equations: no
\* change of an out-environment is ever lost on its successors (the
\* "fixpoint" of _run_dataflow and _function_fixpoint).
EmptyWorklistIsFixpoint ==
  phase # "visit" /\ worklist = {} => \A b \in Blocks : Solved(b)

\* The bound on iterations is only a safety net: the loop ends because the
\* worklist is empty, so the second pass always works on a fixpoint.
CapIsSafetyNet == phase \in {"emit", "done"} => worklist = {}

\* Environment f knows all the taint of e, by witnesses at least as good.
Covers(f, e) ==
  \A p \in AccessPath : \A l \in e[p] :
    \E m \in f[p] : m.spec = l.spec /\ ~ BetterChain(l.chain, m.chain)

\* The lattice is climbed monotonically: a later visit of a block never
\* loses a taint of its out-environment nor worsens the witness of one.
OutEnvsOnlyGrow == [][\A b \in Blocks : Covers(out_env'[b], out_env[b])]_vars

\* Every function is analysed to the end, and its worklist drained: the
\* visits of a loop do not go on for ever, nor for as long as the bound lets
\* them (the engine reference, "forward dataflow always reaches a fixpoint").
Terminates == <>(phase = "done" /\ worklist = {})

-----------------------------------------------------------------------------
(***************************************************************************)
(* The abstract specification.  A block under visit has no run yet, the    *)
(* steps of a visit and of the second pass stutter, Pop opens, Leave       *)
(* closes, and Return gives the answer.                                    *)
(***************************************************************************)
Apply(p, stmt, e) == Transfer(stmt, e, p.summaries)

Runs == [b \in Blocks |-> IF phase = "visit" /\ b = cur THEN <<>> ELSE at[b]]

Chaotic == INSTANCE ChaoticIteration WITH
  Bottom <- EmptyEnv, out <- out_env, runs <- Runs,
  answered <- (phase = "done"), answer <- result

\* The worklist with its order, its bound and its separate second pass
\* computes what chaotic iteration computes: the result is everything the
\* statements yield on a solution of the dataflow equations, however the
\* visits were scheduled.
ImplementsChaotic == Chaotic!Spec

=============================================================================
