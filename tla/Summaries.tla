------------------------------ MODULE Summaries ------------------------------
(***************************************************************************)
(* compute_summaries of engine/summaries.py: the functions of a module are *)
(* summarized component after component of the call graph, a cyclic one in *)
(* rounds until nothing changes or SUMMARY_FIXPOINT_CAP rounds are over.   *)
(*                                                                         *)
(* The summary of a function is reduced to its flow from a parameter to    *)
(* the return value, known by the length of its witness fragment.  A body  *)
(* returns its parameter itself (own), or what the calls named in via make *)
(* of it, or both.  What is left of a module is how its names resolve.     *)
(***************************************************************************)
EXTENDS CallGraph

CONSTANTS
  Modules,              \* the modules considered
  SUMMARY_FIXPOINT_CAP  \* rounds over a cyclic component

ASSUME SummaryCapAssumption == SUMMARY_FIXPOINT_CAP \in Nat \ {0}

VARIABLES
  module,     \* its functions in the order of their qualnames, and of their creation
  summaries,  \* the summaries so far
  at,         \* the component under way, as a position in the order
  round,      \* the round over it, 0 before the first
  todo,       \* its functions left in this round
  changed     \* whether this round has changed a summary

summaryVars == <<module, summaries, at, round, todo, changed>>

allVars == <<tarjanVars, summaryVars>>

-----------------------------------------------------------------------------
(***************************************************************************)
(* Names.  A qualname or a callee path is a sequence of identifiers.       *)
(***************************************************************************)
Simple(path) == <<path[Len(path)]>>

\* _function_name_index: the first function created with this name or qualname.
Named(m, name) == {i \in DOMAIN m.fns : name \in {m.fns[i].qual, Simple(m.fns[i].qual)}}

FirstCreated(m, S) == CHOOSE i \in S : \A j \in S : m.created[i] <= m.created[j]

\* _resolve_callee: 0 when the call leaves the file.
Resolve(m, path) ==
  IF Named(m, path) # {} THEN FirstCreated(m, Named(m, path))
  ELSE IF Named(m, Simple(path)) # {} THEN FirstCreated(m, Named(m, Simple(path)))
  ELSE 0

BuildCallGraph(m) == [i \in DOMAIN m.fns |-> {Resolve(m, p) : p \in m.fns[i].via} \ {0}]

\* Functions are numbered from 1, and the call graphs of modules are considered.
ASSUME ModulesAssumption ==
  /\ \A m \in Modules : 0 \notin DOMAIN m.fns
  /\ {BuildCallGraph(m) : m \in Modules} \subseteq CallGraphs

\* resolve_summary: a summary of that very qualname comes first; 0 when
\* there is no summary to apply.
ResolveSummary(path, known) ==
  LET direct == {i \in known : module.fns[i].qual = path}
      target == Resolve(module, path)
  IN  IF direct # {} THEN Least(direct) ELSE IF target \in known THEN target ELSE 0

(***************************************************************************)
(* Summarizing one function with the summaries so far.  A call without a   *)
(* summary passes its argument through.                                    *)
(***************************************************************************)
Fragments(path) ==
  LET callee == ResolveSummary(path, DOMAIN summaries)
  IN  IF callee = 0 THEN {0} ELSE {n + 1 : n \in summaries[callee]}

\* Mutant: every witness is kept, not the best one.
SummarizeAll(i) ==
  (IF module.fns[i].own THEN {0} ELSE {}) \cup UNION {Fragments(p) : p \in module.fns[i].via}

Summarize(i) ==
  LET found == (IF module.fns[i].own THEN {0} ELSE {})
                 \cup UNION {Fragments(p) : p \in module.fns[i].via}
  IN  IF found = {} THEN {} ELSE {Least(found)}

-----------------------------------------------------------------------------
Init ==
  /\ module \in Modules
  /\ calls = BuildCallGraph(module)
  /\ InitOrder
  /\ summaries = <<>>
  /\ at = 1
  /\ round = 0
  /\ todo = {}
  /\ changed = FALSE

Order == ~ Ordered /\ TarjanNext /\ UNCHANGED summaryVars

Pending == Ordered /\ at \in DOMAIN order

\* Mutant: only a function that calls itself is recursive.
IsCyclicSelfOnly(component) == \E n \in component : n \in calls[n]

IsCyclic(component) == Cardinality(component) > 1 \/ \E n \in component : n \in calls[n]

\* Mutant: every component is summarized in one go.
SummarizeAloneAlways ==
  /\ Pending /\ round = 0
  /\ summaries' = [i \in DOMAIN summaries \cup order[at] |->
                     IF i \in order[at] THEN Summarize(i) ELSE summaries[i]]
  /\ at' = at + 1
  /\ UNCHANGED <<tarjanVars, module, round, todo, changed>>

SummarizeAlone ==
  /\ Pending /\ round = 0
  /\ ~ IsCyclic(order[at])
  /\ \E i \in order[at] : summaries' = With(summaries, i, Summarize(i))
  /\ at' = at + 1
  /\ UNCHANGED <<tarjanVars, module, round, todo, changed>>

\* Mutant: the members get no summary before their own turn.
OpenComponentBare ==
  /\ Pending /\ round = 0
  /\ IsCyclic(order[at])
  /\ round' = 1
  /\ todo' = order[at]
  /\ changed' = FALSE
  /\ UNCHANGED <<tarjanVars, module, summaries, at>>

OpenComponent ==
  /\ Pending /\ round = 0
  /\ IsCyclic(order[at])
  /\ summaries' = [i \in DOMAIN summaries \cup order[at] |->
                     IF i \in order[at] THEN {} ELSE summaries[i]]
  /\ round' = 1
  /\ todo' = order[at]
  /\ changed' = FALSE
  /\ UNCHANGED <<tarjanVars, module, at>>

SummarizeMember ==
  /\ Pending /\ todo # {}
  /\ LET i == Least(todo)
     IN  /\ summaries' = With(summaries, i, Summarize(i))
         /\ changed' = (changed \/ summaries' # summaries)
         /\ todo' = todo \ {i}
  /\ UNCHANGED <<tarjanVars, module, at, round>>

\* Mutant: one round is enough.
CloseRoundAtOnce ==
  /\ Pending /\ round > 0 /\ todo = {}
  /\ at' = at + 1 /\ round' = 0
  /\ UNCHANGED <<tarjanVars, module, summaries, todo, changed>>

\* Mutant: every round starts from empty summaries.
CloseRoundResets ==
  /\ Pending /\ round > 0 /\ todo = {}
  /\ IF changed /\ round < SUMMARY_FIXPOINT_CAP
     THEN /\ round' = round + 1
          /\ todo' = order[at]
          /\ changed' = FALSE
          /\ summaries' = [i \in DOMAIN summaries |-> IF i \in order[at] THEN {} ELSE summaries[i]]
          /\ UNCHANGED at
     ELSE /\ at' = at + 1
          /\ round' = 0
          /\ UNCHANGED <<summaries, todo, changed>>
  /\ UNCHANGED <<tarjanVars, module>>

CloseRound ==
  /\ Pending /\ round > 0 /\ todo = {}
  /\ IF changed /\ round < SUMMARY_FIXPOINT_CAP
     THEN /\ round' = round + 1
          /\ todo' = order[at]
          /\ changed' = FALSE
          /\ UNCHANGED at
     ELSE /\ at' = at + 1
          /\ round' = 0
          /\ UNCHANGED <<todo, changed>>
  /\ UNCHANGED <<tarjanVars, module, summaries>>

Next == Order \/ SummarizeAlone \/ OpenComponent \/ SummarizeMember \/ CloseRound

Spec == Init /\ [][Next]_allVars /\ WF_allVars(Next)

Done == Ordered /\ at \notin DOMAIN order

-----------------------------------------------------------------------------
(***************************************************************************)
(* Properties.                                                             *)
(***************************************************************************)
\* Every variable has its type; a summary keeps one flow at most.
TypeOK ==
  /\ TarjanTypeOK
  /\ DOMAIN summaries \subseteq Nodes
  /\ \A i \in DOMAIN summaries : summaries[i] \subseteq Nat /\ Cardinality(summaries[i]) <= 1
  /\ at \in 1..(Len(order) + 1) /\ round \in 0..SUMMARY_FIXPOINT_CAP
  /\ todo \subseteq Nodes /\ changed \in BOOLEAN

\* The functions whose summaries the next step computes.
Underway ==
  IF ~ Pending THEN {}
  ELSE IF todo # {} THEN {Least(todo)}
  ELSE IF round = 0 /\ ~ IsCyclic(order[at]) THEN order[at]
  ELSE {}

\* The call graph and the application of summaries agree on the function a
\* call targets (build_callee_resolver): when a function is summarized,
\* each of its calls finds the summary it will find once all are computed.
ResolutionAgrees ==
  \A i \in Underway : \A p \in module.fns[i].via :
    ResolveSummary(p, DOMAIN summaries) = ResolveSummary(p, Nodes)

\* The summaries are a fixpoint: summarizing any function of the module
\* once more, with all the summaries, would not change it.
Stable == Done => \A i \in Nodes : summaries[i] = Summarize(i)

\* The function a call reaches, by the names of the file.
Reached(path) == ResolveSummary(path, Nodes)

\* The parameter of i comes back through k calls within the file.
ReturnsThrough(i, k) ==
  \E chain \in [0..k -> Nodes] :
    /\ chain[0] = i
    /\ \A j \in 1..k : \E p \in module.fns[chain[j - 1]].via : Reached(p) = chain[j]
    /\ \/ module.fns[chain[k]].own
       \/ \E p \in module.fns[chain[k]].via : Reached(p) = 0

\* A summary says what the calls of the file do: the parameter comes back
\* if and only if some chain of calls returns it, by the shortest one.
SummariesExact ==
  Done => \A i \in Nodes :
    LET lengths == {k \in 0..Cardinality(Nodes) : ReturnsThrough(i, k)}
    IN  summaries[i] = IF lengths = {} THEN {} ELSE {Least(lengths)}

\* Within a component the flows of a member only improve from round to
\* round: a flow once found is never lost, nor its witness lengthened
\* (the engine reference, "flows only ever grow, so it terminates").
FlowsOnlyImprove ==
  [][\A i \in DOMAIN summaries :
       \A n \in summaries[i] : \E m \in summaries'[i] : m <= n]_allVars

\* Recursion does not keep compute_summaries from ending.
AllSummarized == <>(Done /\ DOMAIN summaries = Nodes)

=============================================================================
