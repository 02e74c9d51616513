----------------------------- MODULE TaintState -----------------------------
(***************************************************************************)
(* The access-path taint lattice of engine/taint_state.py and the witness  *)
(* selection of engine/witness.py.                                         *)
(*                                                                         *)
(* A witness step is the pair of its role and its location, ordered as the *)
(* code orders them: "propagator" < "sink" < "source" as strings, then the *)
(* location, a natural number that stands for the tuple (file, line,       *)
(* column, end_line, end_column).  Descriptions are left out.              *)
(***************************************************************************)
EXTENDS Naturals, Sequences

CONSTANTS
  Base,       \* base variable names
  Step,       \* attribute or constant-subscript steps
  STEPS_CAP,  \* the longest suffix of steps tracked precisely
  SpecId      \* detector ids, and the parameter markers of a summary

ASSUME StepsCapAssumption == STEPS_CAP \in Nat

(***************************************************************************)
(* Access paths.                                                           *)
(***************************************************************************)
Steps == UNION {[1..n -> Step] : n \in 0..STEPS_CAP}

AccessPath == [base : Base, steps : Steps]

\* A path as the program writes it, of any length.
TextPath == [base : Base, steps : Seq(Step)]

IsPrefixOf(p, q) ==
  /\ p.base = q.base
  /\ Len(p.steps) <= Len(q.steps)
  /\ \A i \in 1..Len(p.steps) : p.steps[i] = q.steps[i]

\* Extending step by step, a path stays at the cap once it has reached it.
Collapse(p) == [p EXCEPT !.steps = IF Len(@) <= STEPS_CAP THEN @
                                   ELSE SubSeq(@, 1, STEPS_CAP)]

(***************************************************************************)
(* Witness chains: the shortest wins, then the lexicographically smallest. *)
(***************************************************************************)
PropagatorRole == 0
SinkRole       == 1
SourceRole     == 2

WitnessStep == (0..2) \X Nat

Chain == Seq(WitnessStep)

StepBefore(s, t) == s[1] < t[1] \/ (s[1] = t[1] /\ s[2] < t[2])

BetterChain(a, b) ==
  \/ Len(a) < Len(b)
  \/ /\ Len(a) = Len(b)
     /\ \E i \in 1..Len(a) : /\ StepBefore(a[i], b[i])
                             /\ \A j \in 1..(i - 1) : a[j] = b[j]

(***************************************************************************)
(* Labels.  A label set keeps one best chain for each spec id.  A chain    *)
(* starts with the step where the taint arose.                             *)
(***************************************************************************)
Label == [spec : SpecId, chain : Chain \ {<<>>}]

\* Mutant: the longest chain wins.
MergeLongest(labels) ==
  {l \in labels : \A m \in labels : m.spec = l.spec => ~ BetterChain(l.chain, m.chain)}

Merge(labels) ==
  {l \in labels : \A m \in labels : m.spec = l.spec => ~ BetterChain(m.chain, l.chain)}

(***************************************************************************)
(* Environments: total functions from access paths to label sets, where    *)
(* the code's absent key is the empty set.                                 *)
(***************************************************************************)
Env == [AccessPath -> SUBSET Label]

EmptyEnv == [p \in AccessPath |-> {}]

\* Mutant: a read sees the labels of exactly the path it names.
GetExact(env, ap) == Merge(UNION {env[p] : p \in AccessPath \cap {ap}})

\* A read sees the labels of the path and of every prefix of it.
Get(env, ap) == Merge(UNION {env[p] : p \in {q \in AccessPath : IsPrefixOf(q, ap)}})

\* Mutant: a binding leaves the extensions of its target as they were.
AssignKeepsMembers(env, targets, labels) ==
  [p \in AccessPath |-> IF \E i \in DOMAIN targets : targets[i] = p THEN Merge(labels) ELSE env[p]]

\* Kill each target and its extensions, then bind the labels, target after
\* target: the last target that covers a path decides what it holds.
Assign(env, targets, labels) ==
  [p \in AccessPath |->
     LET covering == {i \in DOMAIN targets : IsPrefixOf(targets[i], p)}
     IN  IF covering = {} THEN env[p]
         ELSE IF \E i \in covering : targets[i] = p /\ \A j \in covering : j <= i
              THEN Merge(labels)
              ELSE {}]

Join(env, other) == [p \in AccessPath |-> Merge(env[p] \cup other[p])]

=============================================================================
