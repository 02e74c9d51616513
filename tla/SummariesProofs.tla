--------------------------- MODULE SummariesProofs ---------------------------
(***************************************************************************)
(* Theorems about Summaries, for any modules and any cap on the rounds.    *)
(***************************************************************************)
EXTENDS Summaries, CallGraphProofs

(***************************************************************************)
(* What a summary depends on: the module m and the summaries s so far.     *)
(***************************************************************************)
ResolveIn(m, path, known) ==
  LET direct == {i \in known : m.fns[i].qual = path}
      target == Resolve(m, path)
  IN  IF direct # {} THEN Least(direct) ELSE IF target \in known THEN target ELSE 0

FragmentsIn(m, s, path) ==
  LET callee == ResolveIn(m, path, DOMAIN s)
  IN  IF callee = 0 THEN {0} ELSE {n + 1 : n \in s[callee]}

FoundIn(m, s, i) ==
  (IF m.fns[i].own THEN {0} ELSE {}) \cup UNION {FragmentsIn(m, s, p) : p \in m.fns[i].via}

Best(S) == IF S = {} THEN {} ELSE {Least(S)}

SummaryIn(m, s, i) == Best(FoundIn(m, s, i))

LEMMA SummarizeIsSummaryIn ==
  ASSUME NEW i
  PROVE  Summarize(i) = SummaryIn(module, summaries, i)
<1>1. ASSUME NEW p PROVE Fragments(p) = FragmentsIn(module, summaries, p)
  BY DEF Fragments, FragmentsIn, ResolveSummary, ResolveIn
<1>2. QED BY <1>1 DEF Summarize, SummaryIn, FoundIn, Best

\* No flow, or one.
Flow == {{}} \cup {{n} : n \in Nat}

\* Summaries of functions of m.
SummariesOf(m, s) ==
  /\ DOMAIN s \subseteq DOMAIN m.fns
  /\ \A i \in DOMAIN s : s[i] \in Flow

\* Whatever flows a has, b has as short ones.
Improves(a, b) == \A n \in a : \E k \in b : k <= n

LEMMA BestProperty ==
  ASSUME NEW S \in SUBSET Nat
  PROVE  /\ Best(S) \in Flow /\ Best(S) \subseteq S
         /\ Improves(S, Best(S))
<1>1. CASE S = {}
  BY <1>1 DEF Best, Flow, Improves
<1>2. CASE S # {}
  BY <1>2, LeastProperty DEF Best, Flow, Improves
<1>3. QED BY <1>1, <1>2

LEMMA ModuleType ==
  ASSUME NEW m \in Modules
  PROVE  /\ BuildCallGraph(m) \in CallGraphs
         /\ DOMAIN m.fns \subseteq Nat \ {0} /\ IsFiniteSet(DOMAIN m.fns)
         /\ \A i \in DOMAIN m.fns : BuildCallGraph(m)[i] \subseteq DOMAIN m.fns
<1>1. BuildCallGraph(m) \in CallGraphs
  BY ModulesAssumption
<1>2. DOMAIN BuildCallGraph(m) = DOMAIN m.fns
  BY DEF BuildCallGraph
<1>3. QED BY <1>1, <1>2, CallGraphsAssumption, ModulesAssumption

LEMMA ResolveInKnown ==
  ASSUME NEW m \in Modules, NEW known \in SUBSET DOMAIN m.fns, NEW path
  PROVE  ResolveIn(m, path, known) = 0 \/ ResolveIn(m, path, known) \in known
<1> DEFINE direct == {i \in known : m.fns[i].qual = path}
<1>1. direct # {} => Least(direct) \in direct
  BY ModuleType, LeastProperty
<1>2. QED BY <1>1 DEF ResolveIn

LEMMA FoundType ==
  ASSUME NEW m \in Modules, NEW s, SummariesOf(m, s), NEW i
  PROVE  FoundIn(m, s, i) \in SUBSET Nat
<1>1. ASSUME NEW p PROVE FragmentsIn(m, s, p) \subseteq Nat
  BY ResolveInKnown DEF FragmentsIn, SummariesOf, Flow
<1>2. QED BY <1>1 DEF FoundIn

LEMMA SummaryType ==
  ASSUME NEW m \in Modules, NEW s, SummariesOf(m, s), NEW i
  PROVE  /\ SummaryIn(m, s, i) \in Flow /\ SummaryIn(m, s, i) \subseteq FoundIn(m, s, i)
         /\ Improves(FoundIn(m, s, i), SummaryIn(m, s, i))
BY FoundType, BestProperty DEF SummaryIn

LEMMA ImprovesTrans ==
  ASSUME NEW a \in SUBSET Nat, NEW b \in SUBSET Nat, NEW c \in SUBSET Nat,
         Improves(a, b), Improves(b, c)
  PROVE  Improves(a, c)
<1> SUFFICES ASSUME NEW n \in a PROVE \E k \in c : k <= n
  BY DEF Improves
<1>1. PICK k \in b : k <= n
  BY DEF Improves
<1>2. PICK l \in c : l <= k
  BY DEF Improves
<1>3. QED BY <1>1, <1>2

\* With better summaries of the same functions, a function gets no worse one.
LEMMA SummaryMonotone ==
  ASSUME NEW m \in Modules, NEW s, NEW t, SummariesOf(m, s), SummariesOf(m, t),
         DOMAIN t = DOMAIN s, \A j \in DOMAIN s : Improves(s[j], t[j]), NEW i
  PROVE  Improves(SummaryIn(m, s, i), SummaryIn(m, t, i))
<1>1. ASSUME NEW p, NEW n \in FragmentsIn(m, s, p)
      PROVE  \E k \in FragmentsIn(m, t, p) : k <= n
  <2> DEFINE callee == ResolveIn(m, p, DOMAIN s)
  <2>1. CASE callee = 0
    BY <2>1 DEF FragmentsIn
  <2>2. CASE callee # 0
    <3>1. callee \in DOMAIN s
      BY <2>2, ResolveInKnown DEF SummariesOf
    <3>2. PICK l \in s[callee] : n = l + 1
      BY <2>2 DEF FragmentsIn
    <3>3. PICK k \in t[callee] : k <= l
      BY <3>1, <3>2 DEF Improves
    <3>4. k + 1 \in FragmentsIn(m, t, p)
      BY <2>2, <3>3 DEF FragmentsIn
    <3>5. k \in Nat /\ l \in Nat
      BY <3>1, <3>2, <3>3 DEF SummariesOf, Flow
    <3>6. QED BY <3>2, <3>3, <3>4, <3>5
  <2>3. QED BY <2>1, <2>2
<1>2. ASSUME NEW n \in FoundIn(m, s, i) PROVE \E k \in FoundIn(m, t, i) : k <= n
  <2>1. CASE m.fns[i].own /\ n = 0
    BY <2>1 DEF FoundIn
  <2>2. CASE \E p \in m.fns[i].via : n \in FragmentsIn(m, s, p)
    BY <2>2, <1>1 DEF FoundIn
  <2>3. QED BY <2>1, <2>2 DEF FoundIn
<1>3. Improves(SummaryIn(m, s, i), FoundIn(m, t, i))
  BY <1>2, SummaryType DEF Improves
<1>4. /\ SummaryIn(m, s, i) \in SUBSET Nat /\ FoundIn(m, t, i) \in SUBSET Nat
      /\ SummaryIn(m, t, i) \in SUBSET Nat /\ Improves(FoundIn(m, t, i), SummaryIn(m, t, i))
  BY FoundType, SummaryType
<1>5. QED BY <1>3, <1>4, ImprovesTrans

(***************************************************************************)
(* The inductive invariant: the functions summarized are those of the      *)
(* components behind, and of the one under way once its rounds have begun; *)
(* none of these would get a worse summary if it were summarized next.     *)
(***************************************************************************)
Behind == UNION {order[j] : j \in 1..(at - 1)}

Opened == IF round > 0 THEN order[at] ELSE {}

Graphed == IInv /\ module \in Modules /\ calls = BuildCallGraph(module)

Counters ==
  /\ at \in 1..(Len(order) + 1) /\ round \in 0..SUMMARY_FIXPOINT_CAP /\ changed \in BOOLEAN
  /\ ~ Ordered => at = 1 /\ round = 0
  /\ round > 0 => Ordered /\ at <= Len(order)

Summarized ==
  /\ todo \subseteq Opened
  /\ DOMAIN summaries = Behind \cup Opened
  /\ \A i \in DOMAIN summaries : summaries[i] \in Flow

Improving ==
  \A i \in Opened : Improves(summaries[i], SummaryIn(module, summaries, i))

SInv == Graphed /\ Counters /\ Summarized /\ Improving

LEMMA SetupFacts ==
  ASSUME SInv
  PROVE  /\ Nodes = DOMAIN module.fns /\ Nodes \subseteq Nat /\ IsFiniteSet(Nodes)
         /\ DOMAIN order = 1..Len(order) /\ Len(order) \in Nat
         /\ \A j \in 1..Len(order) : order[j] \subseteq Nodes
         /\ SummariesOf(module, summaries)
         /\ Pending => at \in 1..Len(order)
         /\ Pending /\ round = 0 => order[at] \cap DOMAIN summaries = {}
<1>1. Nodes = DOMAIN module.fns /\ Nodes \subseteq Nat /\ IsFiniteSet(Nodes)
  BY ModuleType DEF SInv, Graphed, Nodes, BuildCallGraph
<1>2. DOMAIN order = 1..Len(order) /\ Len(order) \in Nat
  BY StateType DEF SInv, Graphed
<1>3. ASSUME NEW j \in 1..Len(order) PROVE order[j] \subseteq Nodes
  <2>1. IInv
    BY DEF SInv, Graphed
  <2>2. order[j] \subseteq Visited
    BY <1>2, <2>1 DEF IInv, Partition, Ranked
  <2>3. Visited \subseteq Nodes
    BY <2>1, StateType
  <2>4. QED BY <2>2, <2>3
<1>4. Pending => at \in 1..Len(order)
  BY <1>2 DEF Pending
<1>5. \A j \in 1..(at - 1) : j \in DOMAIN order /\ j # at
  BY <1>2 DEF SInv, Counters
<1>6. DOMAIN summaries \subseteq Nodes
  <2>1. Behind \subseteq Nodes
    BY <1>2, <1>3, <1>5 DEF Behind
  <2>2. Opened \subseteq Nodes
    BY <1>2, <1>3 DEF Opened, SInv, Counters
  <2>3. QED BY <2>1, <2>2 DEF SInv, Summarized
<1>7. Pending /\ round = 0 => order[at] \cap DOMAIN summaries = {}
  <2>1. \A j \in 1..(at - 1) : at \in DOMAIN order => order[at] \cap order[j] = {}
    BY <1>5 DEF SInv, Graphed, IInv, Partition
  <2>2. QED BY <2>1 DEF Pending, SInv, Summarized, Behind, Opened
<1>8. SummariesOf(module, summaries)
  BY <1>1, <1>6 DEF SummariesOf, SInv, Summarized
<1>9. QED BY <1>1, <1>2, <1>3, <1>4, <1>7, <1>8

LEMMA InitSInv == Init => SInv
<1> SUFFICES ASSUME Init PROVE SInv
  OBVIOUS
<1>1. module \in Modules /\ calls = BuildCallGraph(module) /\ calls \in CallGraphs
  BY ModuleType DEF Init
<1>2. IInv
  BY <1>1, InitHolds DEF Init
<1>3. order = <<>> /\ Len(order) = 0 /\ at = 1 /\ round = 0 /\ todo = {} /\ DOMAIN summaries = {} /\ changed = FALSE
  BY DEF Init, InitOrder
<1>4. Behind = {} /\ Opened = {}
  BY <1>3 DEF Behind, Opened
<1>5. Graphed
  BY <1>1, <1>2 DEF Graphed
<1>6. Counters
  <2>1. at \in 1..(Len(order) + 1) /\ 0 \in 0..SUMMARY_FIXPOINT_CAP
    BY <1>3, SummaryCapAssumption
  <2>2. changed \in BOOLEAN
    BY Zenon DEF Init
  <2>3. round \in 0..SUMMARY_FIXPOINT_CAP /\ ~ (round > 0) /\ at = 1 /\ round = 0
    BY <1>3, <2>1
  <2>4. QED BY <2>1, <2>2, <2>3 DEF Counters
<1>7. Summarized /\ Improving
  BY <1>3, <1>4 DEF Summarized, Improving
<1>8. QED BY <1>5, <1>6, <1>7 DEF SInv

\* While the functions are being ordered, nothing is summarized.
LEMMA OrderSInv == SInv /\ Order => SInv'
<1> SUFFICES ASSUME SInv, Order PROVE SInv'
  OBVIOUS
<1>1. /\ ~ Ordered /\ TarjanNext /\ module' = module /\ summaries' = summaries /\ at' = at
      /\ round' = round /\ todo' = todo /\ changed' = changed
  BY DEF Order, summaryVars
<1>2. IInv'
  BY <1>1, TarjanStep DEF SInv, Graphed
<1>3. at = 1 /\ round = 0 /\ todo = {} /\ DOMAIN summaries = {}
  BY <1>1 DEF SInv, Counters, Summarized, Behind, Opened
<1>4. calls' = calls
  BY <1>1 DEF TarjanNext, StartRoot, Descend, Enter, Skip, Finish, Complete
<1>5. Len(order') \in Nat
  BY <1>2 DEF IInv, Typed
<1>6. Behind' = {} /\ Opened' = {}
  BY <1>1, <1>3 DEF Behind, Opened
<1>7. at' \in 1..(Len(order') + 1)
  BY <1>1, <1>3, <1>5
<1>8. Graphed'
  BY <1>1, <1>2, <1>4 DEF SInv, Graphed
<1>9. Counters'
  BY <1>1, <1>3, <1>7 DEF SInv, Counters
<1>10. Summarized' /\ Improving'
  BY <1>1, <1>3, <1>6 DEF Summarized, Improving
<1>11. QED BY <1>8, <1>9, <1>10 DEF SInv

\* Once they are ordered, the call graph and the order stay.
LEMMA OrderStays ==
  ASSUME SInv, UNCHANGED <<tarjanVars, module>>
  PROVE  /\ Graphed' /\ calls' = calls /\ order' = order /\ module' = module
         /\ Ordered' = Ordered /\ Nodes' = Nodes
<1>1. /\ calls' = calls /\ indices' = indices /\ lowlink' = lowlink /\ stack' = stack
      /\ frames' = frames /\ order' = order
  BY DEF tarjanVars
<1>2. IInv'
  BY TarjanStep DEF SInv, Graphed
<1>3. Graphed'
  BY <1>1, <1>2 DEF SInv, Graphed
<1>4. QED BY <1>1, <1>3 DEF Ordered, Nodes, Visited

\* The next component is the first that is not behind.
LEMMA Advance ==
  ASSUME SInv, Pending
  PROVE  /\ at + 1 \in 1..(Len(order) + 1)
         /\ UNION {order[j] : j \in 1..((at + 1) - 1)} = Behind \cup order[at]
<1>1. at \in 1..Len(order) /\ Len(order) \in Nat
  BY SetupFacts
<1>2. (at + 1) - 1 = at /\ \A j \in 1..at : j \in 1..(at - 1) \/ j = at
  BY <1>1
<1>3. 1..(at - 1) \subseteq 1..at /\ at \in 1..at
  BY <1>1
<1>4. QED BY <1>1, <1>2, <1>3 DEF Behind

LEMMA Lone ==
  ASSUME SInv, Pending, ~ IsCyclic(order[at]), NEW i \in order[at]
  PROVE  order[at] = {i}
<1>1. IsFiniteSet(order[at])
  BY SetupFacts, FS_Subset
<1>2. Cardinality(order[at]) \in Nat /\ Cardinality(order[at]) # 0 /\ ~ (Cardinality(order[at]) > 1)
  BY <1>1, FS_CardinalityType, FS_EmptySet DEF IsCyclic
<1>3. Cardinality(order[at]) = 1
  BY <1>2
<1>4. QED BY <1>1, <1>3, FS_Singleton

LEMMA SummarizeAloneSInv == SInv /\ SummarizeAlone => SInv'
<1> SUFFICES ASSUME SInv, SummarizeAlone PROVE SInv'
  OBVIOUS
<1>1. /\ Pending /\ round = 0 /\ ~ IsCyclic(order[at]) /\ at' = at + 1
      /\ UNCHANGED <<tarjanVars, module>> /\ round' = round /\ todo' = todo /\ changed' = changed
  BY DEF SummarizeAlone
<1>2. PICK i \in order[at] : summaries' = With(summaries, i, Summarize(i))
  BY DEF SummarizeAlone
<1>3. order[at] = {i}
  BY <1>1, <1>2, Lone
<1>4. Behind' = Behind \cup order[at] /\ Opened' = {} /\ Opened = {} /\ at' \in 1..(Len(order') + 1)
  BY <1>1, Advance, OrderStays DEF Behind, Opened
<1>5. DOMAIN summaries' = Behind' \cup Opened'
  BY <1>2, <1>3, <1>4 DEF With, SInv, Summarized
<1>6. Summarize(i) \in Flow
  BY SummarizeIsSummaryIn, SummaryType, SetupFacts DEF SInv, Graphed
<1>7. \A j \in DOMAIN summaries' : summaries'[j] \in Flow
  BY <1>2, <1>6 DEF With, SInv, Summarized
<1>8. Graphed' /\ Counters'
  BY <1>1, <1>4, OrderStays DEF SInv, Counters, Pending
<1>9. todo' = {}
  BY <1>1, <1>4 DEF SInv, Summarized
<1>10. QED BY <1>4, <1>5, <1>7, <1>8, <1>9 DEF SInv, Summarized, Improving

LEMMA OpenComponentSInv == SInv /\ OpenComponent => SInv'
<1> SUFFICES ASSUME SInv, OpenComponent PROVE SInv'
  OBVIOUS
<1>1. /\ Pending /\ round = 0 /\ round' = 1 /\ todo' = order[at] /\ changed' = FALSE
      /\ UNCHANGED <<tarjanVars, module>> /\ at' = at
      /\ summaries' = [i \in DOMAIN summaries \cup order[at] |->
                         IF i \in order[at] THEN {} ELSE summaries[i]]
  BY DEF OpenComponent
<1>2. at \in 1..Len(order) /\ 1 \in 0..SUMMARY_FIXPOINT_CAP
  BY <1>1, SetupFacts, SummaryCapAssumption DEF SInv
<1>3. Behind' = Behind /\ Opened' = order[at] /\ Opened = {}
  BY <1>1, OrderStays DEF Behind, Opened
<1>4. DOMAIN summaries' = Behind' \cup Opened'
  BY <1>1, <1>3 DEF SInv, Summarized
<1>5. {} \in Flow /\ \A i \in DOMAIN summaries' : summaries'[i] \in Flow
  BY <1>1 DEF Flow, SInv, Summarized
<1>6. Improving'
  BY <1>1, <1>3 DEF Improving, Improves
<1>7. Graphed' /\ Counters'
  <2>1. Ordered' /\ at' <= Len(order') /\ at' \in 1..(Len(order') + 1)
    BY <1>1, <1>2, OrderStays DEF Pending
  <2>2. QED BY <1>1, <1>2, <2>1, OrderStays DEF Counters
<1>8. QED BY <1>1, <1>3, <1>4, <1>5, <1>6, <1>7 DEF SInv, Summarized

\* The summary of a member of the component under way is replaced.
LEMMA MemberEffect ==
  ASSUME SInv, SummarizeMember
  PROVE  LET i == Least(todo)
         IN  /\ Pending /\ round > 0 /\ i \in todo /\ i \in order[at]
             /\ Opened = order[at] /\ i \in DOMAIN summaries
             /\ UNCHANGED <<tarjanVars, module>> /\ at' = at /\ round' = round
             /\ todo' = todo \ {i}
             /\ changed' = (changed \/ summaries' # summaries)
             /\ DOMAIN summaries' = DOMAIN summaries
             /\ summaries'[i] = SummaryIn(module, summaries, i)
             /\ \A j \in DOMAIN summaries : j # i => summaries'[j] = summaries[j]
             /\ SummariesOf(module, summaries')
             /\ \A j \in DOMAIN summaries : Improves(summaries[j], summaries'[j])
<1> DEFINE i == Least(todo)
<1>1. /\ Pending /\ todo # {} /\ UNCHANGED <<tarjanVars, module>> /\ at' = at /\ round' = round
      /\ todo' = todo \ {i} /\ changed' = (changed \/ summaries' # summaries)
      /\ summaries' = With(summaries, i, Summarize(i))
  BY DEF SummarizeMember
<1>2. round > 0 /\ Opened = order[at]
  BY <1>1 DEF SInv, Counters, Summarized, Opened
<1>3. order[at] \subseteq Nat
  BY <1>1, SetupFacts
<1>4. i \in todo /\ i \in order[at] /\ i \in DOMAIN summaries
  BY <1>1, <1>2, <1>3, LeastProperty DEF SInv, Summarized
<1> HIDE DEF i
<1>5. /\ DOMAIN summaries' = DOMAIN summaries
      /\ summaries'[i] = SummaryIn(module, summaries, i)
      /\ \A j \in DOMAIN summaries : j # i => summaries'[j] = summaries[j]
  BY <1>1, <1>4, SummarizeIsSummaryIn DEF With
<1>6. SummariesOf(module, summaries) /\ module \in Modules
  BY SetupFacts DEF SInv, Graphed
<1>7. SummariesOf(module, summaries')
  BY <1>5, <1>6, SummaryType DEF SummariesOf
<1>8. ASSUME NEW j \in DOMAIN summaries PROVE Improves(summaries[j], summaries'[j])
  <2>1. CASE j = i
    BY <2>1, <1>2, <1>4, <1>5 DEF SInv, Improving
  <2>2. CASE j # i
    BY <2>2, <1>5, <1>6 DEF Improves, SummariesOf, Flow
  <2>3. QED BY <2>1, <2>2
<1>9. QED BY <1>1, <1>2, <1>4, <1>5, <1>7, <1>8 DEF i

LEMMA SummarizeMemberSInv == SInv /\ SummarizeMember => SInv'
<1> SUFFICES ASSUME SInv, SummarizeMember PROVE SInv'
  OBVIOUS
<1> DEFINE i == Least(todo)
<1>1. /\ round > 0 /\ i \in order[at] /\ Opened = order[at]
      /\ UNCHANGED <<tarjanVars, module>> /\ at' = at /\ round' = round /\ todo' = todo \ {i}
      /\ changed' = (changed \/ summaries' # summaries)
  BY MemberEffect
<1>2. /\ DOMAIN summaries' = DOMAIN summaries
      /\ summaries'[i] = SummaryIn(module, summaries, i)
      /\ \A j \in DOMAIN summaries : j # i => summaries'[j] = summaries[j]
      /\ SummariesOf(module, summaries')
      /\ \A j \in DOMAIN summaries : Improves(summaries[j], summaries'[j])
  BY MemberEffect
<1> HIDE DEF i
<1>3. Behind' = Behind /\ Opened' = Opened /\ Opened \subseteq DOMAIN summaries
  BY <1>1, OrderStays DEF Behind, Opened, SInv, Summarized
<1>4. SummariesOf(module, summaries) /\ module \in Modules
  BY SetupFacts DEF SInv, Graphed
<1>5. ASSUME NEW j \in Opened PROVE Improves(summaries'[j], SummaryIn(module, summaries', j))
  <2>1. Improves(SummaryIn(module, summaries, j), SummaryIn(module, summaries', j))
    BY <1>2, <1>4, SummaryMonotone
  <2>2. Improves(summaries'[j], SummaryIn(module, summaries, j))
    <3>1. CASE j = i
      BY <3>1, <1>2, <1>4, SummaryType DEF Improves, Flow
    <3>2. CASE j # i
      BY <3>2, <1>2, <1>3 DEF SInv, Improving
    <3>3. QED BY <3>1, <3>2
  <2>3. /\ summaries'[j] \in SUBSET Nat /\ SummaryIn(module, summaries, j) \in SUBSET Nat
        /\ SummaryIn(module, summaries', j) \in SUBSET Nat
    BY <1>2, <1>3, <1>4, SummaryType DEF SummariesOf, Flow
  <2>4. QED BY <2>1, <2>2, <2>3, ImprovesTrans
<1>6. Improving'
  BY <1>1, <1>3, <1>5 DEF Improving
<1>7. Graphed' /\ Counters'
  BY <1>1, OrderStays DEF SInv, Counters
<1>8. Summarized'
  BY <1>1, <1>2, <1>3 DEF SInv, Summarized, SummariesOf
<1>9. QED BY <1>6, <1>7, <1>8 DEF SInv

LEMMA CloseRoundSInv == SInv /\ CloseRound => SInv'
<1> SUFFICES ASSUME SInv, CloseRound PROVE SInv'
  OBVIOUS
<1>1. /\ Pending /\ round > 0 /\ todo = {} /\ UNCHANGED <<tarjanVars, module>> /\ summaries' = summaries
      /\ Opened = order[at]
  BY DEF CloseRound, Opened
<1>2. CASE changed /\ round < SUMMARY_FIXPOINT_CAP
  <2>1. round' = round + 1 /\ todo' = order[at] /\ changed' = FALSE /\ at' = at
    BY <1>2 DEF CloseRound
  <2>2. round' \in 0..SUMMARY_FIXPOINT_CAP /\ round' > 0
    BY <1>2, <2>1, SummaryCapAssumption DEF SInv, Counters
  <2>3. Behind' = Behind /\ Opened' = order[at]
    BY <1>1, <2>1, <2>2, OrderStays DEF Behind, Opened
  <2>4. Graphed' /\ Counters'
    BY <2>1, <2>2, <1>1, OrderStays DEF SInv, Counters
  <2>5. Summarized' /\ Improving'
    BY <1>1, <2>1, <2>3 DEF SInv, Summarized, Improving
  <2>6. QED BY <2>4, <2>5 DEF SInv
<1>3. CASE ~ (changed /\ round < SUMMARY_FIXPOINT_CAP)
  <2>1. at' = at + 1 /\ round' = 0 /\ todo' = todo /\ changed' = changed
    BY <1>3 DEF CloseRound
  <2>2. Behind' = Behind \cup order[at] /\ Opened' = {} /\ at' \in 1..(Len(order') + 1)
    BY <1>1, <2>1, Advance, OrderStays DEF Behind, Opened
  <2>3. 0 \in 0..SUMMARY_FIXPOINT_CAP
    BY SummaryCapAssumption
  <2>4. Graphed' /\ Counters'
    BY <1>1, <2>1, <2>2, <2>3, OrderStays DEF SInv, Counters, Pending
  <2>5. Summarized' /\ Improving'
    BY <1>1, <2>1, <2>2 DEF SInv, Summarized, Improving
  <2>6. QED BY <2>4, <2>5 DEF SInv
<1>4. QED BY <1>2, <1>3

LEMMA SInvStep == SInv /\ [Next]_allVars => SInv'
<1> SUFFICES ASSUME SInv, [Next]_allVars PROVE SInv'
  OBVIOUS
<1>1. CASE Order
  BY <1>1, OrderSInv
<1>2. CASE SummarizeAlone
  BY <1>2, SummarizeAloneSInv
<1>3. CASE OpenComponent
  BY <1>3, OpenComponentSInv
<1>4. CASE SummarizeMember
  BY <1>4, SummarizeMemberSInv
<1>5. CASE CloseRound
  BY <1>5, CloseRoundSInv
<1>6. CASE UNCHANGED allVars
  <2>1. /\ UNCHANGED <<tarjanVars, module>> /\ summaries' = summaries /\ at' = at
        /\ round' = round /\ todo' = todo /\ changed' = changed
    BY <1>6 DEF allVars, summaryVars
  <2>2. Behind' = Behind /\ Opened' = Opened
    BY <2>1, OrderStays DEF Behind, Opened
  <2>3. Graphed' /\ Counters'
    BY <2>1, OrderStays DEF SInv, Counters
  <2>4. Summarized' /\ Improving'
    BY <2>1, <2>2 DEF SInv, Summarized, Improving
  <2>5. QED BY <2>3, <2>4 DEF SInv
<1>7. QED BY <1>1, <1>2, <1>3, <1>4, <1>5, <1>6 DEF Next

LEMMA SInvHolds == Spec => []SInv
BY InitSInv, SInvStep, PTL DEF Spec

(***************************************************************************)
(* What holds of any module.                                               *)
(***************************************************************************)
LEMMA FlowSize ==
  ASSUME NEW s \in Flow
  PROVE  s \subseteq Nat /\ Cardinality(s) <= 1
<1>1. CASE s = {}
  BY <1>1, FS_EmptySet
<1>2. CASE \E n \in Nat : s = {n}
  BY <1>2, FS_Singleton
<1>3. QED BY <1>1, <1>2 DEF Flow

LEMMA SInvTypes == SInv => TypeOK
<1> SUFFICES ASSUME SInv PROVE TypeOK
  OBVIOUS
<1>1. TarjanTypeOK
  BY TypesFollow DEF SInv, Graphed
<1>2. DOMAIN summaries \subseteq Nodes
  BY SetupFacts DEF SummariesOf
<1>3. todo \subseteq Nodes
  <2>1. CASE round > 0
    <3>1. at \in 1..Len(order) /\ Opened = order[at]
      BY <2>1, SetupFacts DEF SInv, Counters, Opened
    <3>2. QED BY <3>1, SetupFacts DEF SInv, Summarized
  <2>2. CASE ~ (round > 0)
    BY <2>2 DEF SInv, Summarized, Opened
  <2>3. QED BY <2>1, <2>2
<1>4. \A i \in DOMAIN summaries : summaries[i] \subseteq Nat /\ Cardinality(summaries[i]) <= 1
  BY FlowSize DEF SInv, Summarized
<1>5. QED BY <1>1, <1>2, <1>3, <1>4 DEF TypeOK, SInv, Counters

\* The variables keep their types, and a function has one flow at most.
THEOREM SummaryTypes == Spec => []TypeOK
BY SInvHolds, SInvTypes, PTL

\* The components are ordered as Tarjan's algorithm promises, for the call
\* graph of any module and to the end of the summarization: callees first,
\* each component complete and with nothing else in it.
THEOREM OrderIsSound == Spec => [](CalleesFirst /\ ComponentsExact /\ LowlinkSound)
<1>1. SInv => CalleesFirst /\ ComponentsExact /\ LowlinkSound
  BY ComponentsFollow, LowlinksFollow DEF SInv, Graphed, IInv
<1>2. QED BY <1>1, SInvHolds, PTL

LEMMA StepImproves ==
  SInv /\ [Next]_allVars => \A i \in DOMAIN summaries : Improves(summaries[i], summaries'[i])
<1> SUFFICES ASSUME SInv, [Next]_allVars, NEW i \in DOMAIN summaries
             PROVE  Improves(summaries[i], summaries'[i])
  OBVIOUS
<1>1. summaries[i] \subseteq Nat
  BY FlowSize DEF SInv, Summarized
<1>2. CASE summaries'[i] = summaries[i]
  BY <1>1, <1>2 DEF Improves
<1>3. CASE SummarizeMember
  BY <1>3, MemberEffect
<1>4. CASE SummarizeAlone
  <2>1. PICK j \in order[at] : summaries' = With(summaries, j, Summarize(j))
    BY <1>4 DEF SummarizeAlone
  <2>2. j # i
    BY <1>4, SetupFacts DEF SummarizeAlone
  <2>3. summaries'[i] = summaries[i]
    BY <2>1, <2>2 DEF With
  <2>4. QED BY <2>3, <1>2
<1>5. CASE OpenComponent
  <2>1. i \notin order[at]
    BY <1>5, SetupFacts DEF OpenComponent
  <2>2. summaries'[i] = summaries[i]
    BY <1>5, <2>1 DEF OpenComponent
  <2>3. QED BY <2>2, <1>2
<1>6. CASE Order \/ CloseRound \/ UNCHANGED allVars
  BY <1>2, <1>6 DEF Order, CloseRound, allVars, summaryVars
<1>7. QED BY <1>3, <1>4, <1>5, <1>6 DEF Next

\* A flow once found is never lost, nor its witness lengthened, however the
\* functions of a component call each other and however many rounds there are.
THEOREM FlowsImprove == Spec => FlowsOnlyImprove
<1>1. SInv /\ [Next]_allVars =>
        [\A i \in DOMAIN summaries : \A n \in summaries[i] : \E m \in summaries'[i] : m <= n]_allVars
  BY StepImproves DEF Improves
<1>2. QED BY <1>1, SInvHolds, PTL DEF Spec, FlowsOnlyImprove

(***************************************************************************)
(* Chains of calls.                                                        *)
(***************************************************************************)
ReachedIn(m, path) == ResolveIn(m, path, DOMAIN m.fns)

Linked(m, i, j) == \E p \in m.fns[i].via : ReachedIn(m, p) = j

\* The body of i returns its parameter, or what a call out of the file makes of it.
Returns(m, i) == m.fns[i].own \/ Linked(m, i, 0)

ChainsFrom(m, i, k) ==
  {chain \in [0..k -> DOMAIN m.fns] :
     chain[0] = i /\ \A j \in 1..k : Linked(m, chain[j - 1], chain[j])}

ReturnsIn(m, i, k) == \E chain \in ChainsFrom(m, i, k) : Returns(m, chain[k])

LEMMA ReturnsThroughIsReturnsIn ==
  ASSUME SInv, NEW i, NEW k
  PROVE  ReturnsThrough(i, k) <=> ReturnsIn(module, i, k)
<1>1. Nodes = DOMAIN module.fns
  BY SetupFacts
<1>2. ASSUME NEW p PROVE Reached(p) = ReachedIn(module, p)
  BY <1>1 DEF Reached, ReachedIn, ResolveSummary, ResolveIn
<1>3. QED BY <1>1, <1>2 DEF ReturnsThrough, ReturnsIn, ChainsFrom, Linked, Returns

LEMMA ReturnsBase ==
  ASSUME NEW m \in Modules, NEW i \in DOMAIN m.fns
  PROVE  ReturnsIn(m, i, 0) <=> Returns(m, i)
<1>1. ASSUME ReturnsIn(m, i, 0) PROVE Returns(m, i)
  BY <1>1 DEF ReturnsIn, ChainsFrom
<1>2. ASSUME Returns(m, i) PROVE ReturnsIn(m, i, 0)
  <2> DEFINE chain == [j \in 0..0 |-> i]
  <2>1. chain \in ChainsFrom(m, i, 0) /\ chain[0] = i
    BY DEF ChainsFrom
  <2>2. QED BY <1>2, <2>1 DEF ReturnsIn
<1>3. QED BY <1>1, <1>2

\* A chain of k + 1 calls is one call and a chain of k.
LEMMA ReturnsCall ==
  ASSUME NEW m \in Modules, NEW i \in DOMAIN m.fns, NEW k \in Nat
  PROVE  ReturnsIn(m, i, k + 1) <=> \E j \in DOMAIN m.fns : Linked(m, i, j) /\ ReturnsIn(m, j, k)
<1>1. ASSUME ReturnsIn(m, i, k + 1)
      PROVE  \E j \in DOMAIN m.fns : Linked(m, i, j) /\ ReturnsIn(m, j, k)
  <2>1. PICK chain \in ChainsFrom(m, i, k + 1) : Returns(m, chain[k + 1])
    BY <1>1 DEF ReturnsIn
  <2>2. /\ chain \in [0..(k + 1) -> DOMAIN m.fns] /\ chain[0] = i
        /\ \A j \in 1..(k + 1) : Linked(m, chain[j - 1], chain[j])
    BY DEF ChainsFrom
  <2> DEFINE rest == [j \in 0..k |-> chain[j + 1]]
  <2>3. Linked(m, i, chain[1]) /\ chain[1] \in DOMAIN m.fns
    BY <2>2
  <2>4. rest \in [0..k -> DOMAIN m.fns] /\ rest[0] = chain[1] /\ rest[k] = chain[k + 1]
    BY <2>2
  <2>5. ASSUME NEW j \in 1..k PROVE Linked(m, rest[j - 1], rest[j])
    <3>1. j + 1 \in 1..(k + 1) /\ j - 1 \in 0..k /\ j \in 0..k /\ (j - 1) + 1 = j /\ (j + 1) - 1 = j
      OBVIOUS
    <3>2. Linked(m, chain[j], chain[j + 1])
      BY <2>2, <3>1
    <3>3. QED BY <3>1, <3>2
  <2>6. rest \in ChainsFrom(m, chain[1], k)
    BY <2>4, <2>5 DEF ChainsFrom
  <2>7. QED BY <2>1, <2>3, <2>4, <2>6 DEF ReturnsIn
<1>2. ASSUME NEW j \in DOMAIN m.fns, Linked(m, i, j), ReturnsIn(m, j, k)
      PROVE  ReturnsIn(m, i, k + 1)
  <2>1. PICK rest \in ChainsFrom(m, j, k) : Returns(m, rest[k])
    BY <1>2 DEF ReturnsIn
  <2>2. /\ rest \in [0..k -> DOMAIN m.fns] /\ rest[0] = j
        /\ \A n \in 1..k : Linked(m, rest[n - 1], rest[n])
    BY DEF ChainsFrom
  <2> DEFINE chain == [n \in 0..(k + 1) |-> IF n = 0 THEN i ELSE rest[n - 1]]
  <2>3. \A n \in 0..(k + 1) : n # 0 => n - 1 \in 0..k
    OBVIOUS
  <2>4. chain \in [0..(k + 1) -> DOMAIN m.fns] /\ chain[0] = i /\ chain[k + 1] = rest[k]
    BY <2>2, <2>3
  <2>5. ASSUME NEW n \in 1..(k + 1) PROVE Linked(m, chain[n - 1], chain[n])
    <3>1. n \in 0..(k + 1) /\ n - 1 \in 0..(k + 1) /\ n # 0 /\ chain[n] = rest[n - 1]
      OBVIOUS
    <3>2. CASE n = 1
      BY <3>1, <3>2, <2>2, <1>2
    <3>3. CASE n # 1
      <4>1. n - 1 \in 1..k /\ n - 1 # 0
        BY <3>3
      <4>2. chain[n - 1] = rest[(n - 1) - 1]
        BY <3>1, <4>1
      <4>3. QED BY <2>2, <3>1, <4>1, <4>2
    <3>4. QED BY <3>2, <3>3
  <2>6. chain \in ChainsFrom(m, i, k + 1)
    BY <2>4, <2>5 DEF ChainsFrom
  <2>7. QED BY <2>1, <2>4, <2>6 DEF ReturnsIn
<1>3. QED BY <1>1, <1>2

\* A shortest chain visits no function twice.
LEMMA ShortestIsShort ==
  ASSUME NEW m \in Modules, NEW i \in DOMAIN m.fns, NEW k \in Nat, ReturnsIn(m, i, k),
         \A l \in Nat : ReturnsIn(m, i, l) => k <= l
  PROVE  k <= Cardinality(DOMAIN m.fns)
<1> DEFINE fns == DOMAIN m.fns
<1>1. IsFiniteSet(fns) /\ Cardinality(fns) \in Nat
  BY ModuleType, FS_CardinalityType
<1>2. PICK chain \in ChainsFrom(m, i, k) : Returns(m, chain[k])
  BY DEF ReturnsIn
<1>3. /\ chain \in [0..k -> fns] /\ chain[0] = i
      /\ \A j \in 1..k : Linked(m, chain[j - 1], chain[j])
  BY DEF ChainsFrom
<1>4. SUFFICES ASSUME k > Cardinality(fns) PROVE FALSE
  BY <1>1
<1>5. IsFiniteSet(0..k) /\ Cardinality(0..k) = k + 1
  <2>1. 0 \in Int /\ k \in Int /\ ~ (0 > k) /\ k - 0 + 1 = k + 1
    OBVIOUS
  <2>2. QED BY <2>1, FS_Interval
<1>6. \E x, y \in 0..k : x # y /\ chain[x] = chain[y]
  BY <1>1, <1>3, <1>4, <1>5, FS_PigeonHole
<1>7. PICK x \in 0..k, y \in 0..k : x < y /\ chain[x] = chain[y]
  BY <1>6
<1> DEFINE gap == y - x
           short == [j \in 0..(k - gap) |-> IF j <= x THEN chain[j] ELSE chain[j + gap]]
<1>8. gap \in Nat /\ gap > 0 /\ k - gap \in Nat /\ x \in 0..(k - gap) /\ k - gap < k /\ x + gap = y
  BY <1>7
<1>9. \A j \in 0..(k - gap) : j \in 0..k /\ j + gap \in 0..k
  BY <1>8
<1> HIDE DEF gap
<1>10. short \in [0..(k - gap) -> fns] /\ short[0] = i
  BY <1>3, <1>8, <1>9
<1>11. short[k - gap] = chain[k]
  <2>1. k - gap \in 0..(k - gap) /\ (k - gap) + gap = k
    BY <1>8
  <2>2. CASE k - gap <= x
    <3>1. k - gap = x /\ y = k
      BY <1>8, <2>2
    <3>2. QED BY <2>1, <2>2, <3>1, <1>7
  <2>3. CASE ~ (k - gap <= x)
    BY <2>1, <2>3
  <2>4. QED BY <2>2, <2>3
<1>12. ASSUME NEW j \in 1..(k - gap) PROVE Linked(m, short[j - 1], short[j])
  <2>1. j \in 0..(k - gap) /\ j - 1 \in 0..(k - gap) /\ j \in 1..k /\ j + gap \in 1..k /\ j \in Nat
    BY <1>8
  <2>2. CASE j <= x
    <3>1. short[j] = chain[j] /\ short[j - 1] = chain[j - 1]
      BY <2>1, <2>2
    <3>2. QED BY <2>1, <3>1, <1>3
  <2>3. CASE j = x + 1
    <3>1. short[j] = chain[j + gap] /\ short[j - 1] = chain[x]
      BY <2>1, <2>3
    <3>2. (j + gap) - 1 = y
      BY <1>8, <2>3
    <3>3. QED BY <2>1, <3>1, <3>2, <1>3, <1>7
  <2>4. CASE j > x + 1
    <3>1. ~ (j <= x) /\ ~ (j - 1 <= x) /\ (j - 1) + gap = (j + gap) - 1
      BY <1>8, <2>1, <2>4
    <3>2. short[j] = chain[j + gap] /\ short[j - 1] = chain[(j + gap) - 1]
      BY <2>1, <3>1
    <3>3. QED BY <2>1, <3>2, <1>3
  <2>5. QED BY <2>1, <2>2, <2>3, <2>4, <1>8
<1> HIDE DEF short
<1>13. ReturnsIn(m, i, k - gap)
  BY <1>2, <1>10, <1>11, <1>12 DEF ReturnsIn, ChainsFrom
<1>14. QED BY <1>8, <1>13

(***************************************************************************)
(* A flow is sound if a chain of its length returns the parameter, and     *)
(* complete if no chain is shorter.                                        *)
(***************************************************************************)
SoundFor(m, i, f) == \A n \in f : ReturnsIn(m, i, n)

CompleteFor(m, i, f) == \A k \in Nat : ReturnsIn(m, i, k) => \E n \in f : n <= k

\* The calls of i find the summaries they are to find in the end.
AgreesIn(m, s, i) == \A p \in m.fns[i].via : ResolveIn(m, p, DOMAIN s) = ReachedIn(m, p)

LEMMA SummarySound ==
  ASSUME NEW m \in Modules, NEW s, SummariesOf(m, s), NEW i \in DOMAIN m.fns, AgreesIn(m, s, i),
         \A j \in DOMAIN s : SoundFor(m, j, s[j])
  PROVE  SoundFor(m, i, SummaryIn(m, s, i))
<1> SUFFICES ASSUME NEW n \in FoundIn(m, s, i) PROVE ReturnsIn(m, i, n)
  BY SummaryType DEF SoundFor
<1>1. CASE m.fns[i].own /\ n = 0
  BY <1>1, ReturnsBase DEF Returns
<1>2. ASSUME NEW p \in m.fns[i].via, n \in FragmentsIn(m, s, p) PROVE ReturnsIn(m, i, n)
  <2> DEFINE j == ResolveIn(m, p, DOMAIN s)
  <2>1. Linked(m, i, j)
    BY DEF AgreesIn, Linked
  <2>2. CASE j = 0
    BY <1>2, <2>1, <2>2, ReturnsBase DEF FragmentsIn, Returns
  <2>3. CASE j # 0
    <3>1. j \in DOMAIN s /\ j \in DOMAIN m.fns
      BY <2>3, ResolveInKnown DEF SummariesOf
    <3>2. PICK l \in s[j] : n = l + 1
      BY <1>2, <2>3 DEF FragmentsIn
    <3>3. ReturnsIn(m, j, l) /\ l \in Nat
      BY <3>1, <3>2, FlowSize DEF SoundFor, SummariesOf
    <3>4. QED BY <2>1, <3>1, <3>2, <3>3, ReturnsCall
  <2>4. QED BY <2>2, <2>3
<1>3. QED BY <1>1, <1>2 DEF FoundIn

\* When the shorter chains of its callees are accounted for, so is a chain of i.
LEMMA SummaryFinds ==
  ASSUME NEW m \in Modules, NEW s, SummariesOf(m, s), NEW i \in DOMAIN m.fns, AgreesIn(m, s, i),
         NEW k \in Nat, ReturnsIn(m, i, k),
         \A j \in DOMAIN s, l \in Nat : l < k /\ ReturnsIn(m, j, l) => \E n \in s[j] : n <= l
  PROVE  \E n \in SummaryIn(m, s, i) : n <= k
<1>1. \E n \in FoundIn(m, s, i) : n <= k
  <2>1. CASE k = 0
    <3>1. Returns(m, i)
      BY <2>1, ReturnsBase
    <3>2. CASE m.fns[i].own
      BY <3>2, <2>1 DEF FoundIn
    <3>3. CASE Linked(m, i, 0)
      <4>1. PICK p \in m.fns[i].via : ResolveIn(m, p, DOMAIN s) = 0
        BY <3>3 DEF Linked, AgreesIn
      <4>2. 0 \in FragmentsIn(m, s, p)
        BY <4>1 DEF FragmentsIn
      <4>3. QED BY <4>2, <2>1 DEF FoundIn
    <3>4. QED BY <3>1, <3>2, <3>3 DEF Returns
  <2>2. CASE k # 0
    <3>1. k - 1 \in Nat /\ (k - 1) + 1 = k /\ k - 1 < k
      BY <2>2
    <3>2. PICK j \in DOMAIN m.fns : Linked(m, i, j) /\ ReturnsIn(m, j, k - 1)
      BY <3>1, ReturnsCall
    <3>3. PICK p \in m.fns[i].via : ResolveIn(m, p, DOMAIN s) = j
      BY <3>2 DEF Linked, AgreesIn
    <3>4. j # 0 /\ j \in DOMAIN s
      BY <3>3, ModuleType, ResolveInKnown DEF SummariesOf
    <3>5. PICK n \in s[j] : n <= k - 1
      BY <3>1, <3>2, <3>4
    <3>6. n + 1 \in FragmentsIn(m, s, p)
      BY <3>3, <3>4, <3>5 DEF FragmentsIn
    <3>7. n \in Nat
      BY <3>4, <3>5, FlowSize DEF SummariesOf
    <3>8. n + 1 \in FoundIn(m, s, i) /\ n + 1 <= k
      BY <3>1, <3>5, <3>6, <3>7 DEF FoundIn
    <3>9. QED BY <3>8
  <2>3. QED BY <2>1, <2>2
<1>2. PICK n \in FoundIn(m, s, i) : n <= k
  BY <1>1
<1>3. PICK l \in SummaryIn(m, s, i) : l <= n
  BY SummaryType DEF Improves
<1>4. l \in Nat /\ n \in Nat
  BY SummaryType, FoundType
<1>5. QED BY <1>2, <1>3, <1>4

\* The functions of C, of which the rest of s is complete.
Group(m, s, C) ==
  /\ SummariesOf(m, s) /\ C \subseteq DOMAIN s
  /\ \A i \in C : AgreesIn(m, s, i)
  /\ \A j \in DOMAIN s \ C : CompleteFor(m, j, s[j])

\* If some member is not complete, one would be if it were summarized next:
\* the one with the shortest chain that is not accounted for.
LEMMA SomeMemberRipe ==
  ASSUME NEW m \in Modules, NEW s, NEW C, Group(m, s, C), NEW b \in C, ~ CompleteFor(m, b, s[b])
  PROVE  \E i \in C : ~ CompleteFor(m, i, s[i]) /\ CompleteFor(m, i, SummaryIn(m, s, i))
<1> DEFINE Missed(i, k) == ReturnsIn(m, i, k) /\ ~ \E n \in s[i] : n <= k
           lengths == {k \in Nat : \E i \in C : Missed(i, k)}
<1>1. lengths # {} /\ lengths \in SUBSET Nat
  BY DEF CompleteFor
<1> DEFINE k == Least(lengths)
<1>2. k \in lengths /\ \A l \in lengths : k <= l
  BY <1>1, LeastProperty
<1> HIDE DEF k
<1>3. PICK i \in C : Missed(i, k)
  BY <1>2
<1>4. k \in Nat /\ i \in DOMAIN m.fns /\ SummariesOf(m, s) /\ AgreesIn(m, s, i)
  BY <1>2 DEF Group, SummariesOf
<1>5. ASSUME NEW j \in DOMAIN s, NEW l \in Nat, l < k, ReturnsIn(m, j, l) PROVE \E n \in s[j] : n <= l
  <2>1. CASE j \in C
    BY <2>1, <1>2, <1>4, <1>5
  <2>2. CASE j \notin C
    BY <2>2, <1>5 DEF Group, CompleteFor
  <2>3. QED BY <2>1, <2>2
<1>6. ASSUME NEW q \in Nat, q <= k, ReturnsIn(m, i, q) PROVE \E n \in SummaryIn(m, s, i) : n <= q
  <2>1. \A j \in DOMAIN s, l \in Nat : l < q /\ ReturnsIn(m, j, l) => \E n \in s[j] : n <= l
    BY <1>4, <1>5, <1>6
  <2>2. QED BY <2>1, <1>4, <1>6, SummaryFinds
<1>7. CompleteFor(m, i, SummaryIn(m, s, i))
  <2> SUFFICES ASSUME NEW q \in Nat, ReturnsIn(m, i, q) PROVE \E n \in SummaryIn(m, s, i) : n <= q
    BY DEF CompleteFor
  <2>1. CASE q <= k
    BY <2>1, <1>6
  <2>2. CASE ~ (q <= k)
    <3>1. PICK n \in SummaryIn(m, s, i) : n <= k
      BY <1>3, <1>4, <1>6
    <3>2. n \in Nat
      BY <1>4, SummaryType, FoundType
    <3>3. QED BY <2>2, <3>1, <3>2, <1>4
  <2>3. QED BY <2>1, <2>2
<1>8. ~ CompleteFor(m, i, s[i])
  BY <1>3, <1>4 DEF CompleteFor
<1>9. QED BY <1>7, <1>8

\* When summarizing a member once more changes nothing, every member is complete.
LEMMA FixpointComplete ==
  ASSUME NEW m \in Modules, NEW s, NEW C, Group(m, s, C), \A i \in C : s[i] = SummaryIn(m, s, i)
  PROVE  \A i \in C : CompleteFor(m, i, s[i])
BY SomeMemberRipe

LEMMA CompleteImproves ==
  ASSUME NEW m, NEW i, NEW a \in SUBSET Nat, NEW b \in SUBSET Nat,
         CompleteFor(m, i, a), Improves(a, b)
  PROVE  CompleteFor(m, i, b)
<1> SUFFICES ASSUME NEW k \in Nat, ReturnsIn(m, i, k) PROVE \E n \in b : n <= k
  BY DEF CompleteFor
<1>1. PICK l \in a : l <= k
  BY DEF CompleteFor
<1>2. PICK n \in b : n <= l
  BY DEF Improves
<1>3. QED BY <1>1, <1>2

\* There is one flow that is both.
LEMMA FlowUnique ==
  ASSUME NEW m, NEW i, NEW a \in Flow, NEW b \in Flow,
         SoundFor(m, i, a), CompleteFor(m, i, a), SoundFor(m, i, b), CompleteFor(m, i, b)
  PROVE  a = b
<1>1. ASSUME NEW x \in Flow, NEW y \in Flow, SoundFor(m, i, x), CompleteFor(m, i, y), NEW n \in x
      PROVE  \E l \in y : l <= n
  BY <1>1, FlowSize DEF SoundFor, CompleteFor
<1>2. CASE a = {}
  BY <1>1, <1>2 DEF Flow
<1>3. CASE \E n \in Nat : a = {n}
  <2>1. PICK n \in Nat : a = {n}
    BY <1>3
  <2>2. PICK l \in b : l <= n
    BY <1>1, <2>1
  <2>3. l \in Nat /\ b = {l}
    BY <2>2 DEF Flow
  <2>4. n <= l
    BY <1>1, <2>1, <2>2
  <2>5. QED BY <2>1, <2>2, <2>3, <2>4
<1>4. QED BY <1>2, <1>3 DEF Flow

(***************************************************************************)
(* Names.  The call graph and the application of summaries agree when a    *)
(* function is found by its own qualname, which a homonym may prevent.     *)
(***************************************************************************)
QualnamesFound ==
  \A m \in Modules : \A i \in DOMAIN m.fns : Resolve(m, m.fns[i].qual) = i

LEMMA ResolutionsAgree ==
  ASSUME QualnamesFound, NEW m \in Modules, NEW known \in SUBSET DOMAIN m.fns, NEW p,
         Resolve(m, p) = 0 \/ Resolve(m, p) \in known
  PROVE  ResolveIn(m, p, known) = ReachedIn(m, p)
<1> DEFINE direct(K) == {i \in K : m.fns[i].qual = p}
<1>1. \A i \in DOMAIN m.fns : i # 0
  BY ModuleType
<1>2. CASE direct(DOMAIN m.fns) = {}
  <2>1. direct(known) = {}
    BY <1>2
  <2>2. Resolve(m, p) \in DOMAIN m.fns \/ Resolve(m, p) = 0
    OBVIOUS
  <2>3. QED BY <1>1, <1>2, <2>1, <2>2 DEF ResolveIn, ReachedIn
<1>3. ASSUME NEW j \in direct(DOMAIN m.fns) PROVE ResolveIn(m, p, known) = ReachedIn(m, p)
  <2>1. j = Resolve(m, p) /\ j \in known
    BY <1>1, <1>3 DEF QualnamesFound
  <2>2. \A i \in direct(DOMAIN m.fns) : i = j
    BY <2>1 DEF QualnamesFound
  <2>3. direct(known) = {j} /\ direct(DOMAIN m.fns) = {j}
    BY <2>1, <2>2
  <2>4. QED BY <2>3 DEF ResolveIn, ReachedIn
<1>4. QED BY <1>2, <1>3

\* Every callee of a function that is summarized has a summary.
LEMMA CalleesKnown ==
  ASSUME SInv, Pending, round > 0 \/ ~ IsCyclic(order[at]), NEW i \in order[at]
  PROVE  calls[i] \subseteq DOMAIN summaries
<1>1. at \in 1..Len(order) /\ at \in DOMAIN order /\ IsFiniteSet(order[at]) /\ i \in Nodes
  BY SetupFacts, FS_Subset DEF Pending
<1>2. calls[i] \subseteq Behind \cup order[at]
  <2>1. calls[i] \subseteq UNION {order[j] : j \in 1..at}
    BY <1>1 DEF SInv, Graphed, IInv, CalleesFirst
  <2>2. (at + 1) - 1 = at
    BY <1>1
  <2>3. QED BY <2>1, <2>2, Advance
<1>3. CASE round > 0
  BY <1>2, <1>3 DEF SInv, Summarized, Opened
<1>4. CASE ~ IsCyclic(order[at])
  <2>1. order[at] = {i}
    BY <1>4, Lone
  <2>2. i \notin calls[i]
    BY <1>4 DEF IsCyclic
  <2>3. QED BY <1>2, <2>1, <2>2 DEF SInv, Summarized
<1>5. QED BY <1>3, <1>4

LEMMA CallsAgree ==
  ASSUME QualnamesFound, SInv, Pending, round > 0 \/ ~ IsCyclic(order[at]), NEW i \in order[at]
  PROVE  AgreesIn(module, summaries, i) /\ i \in DOMAIN module.fns
<1>1. /\ i \in DOMAIN module.fns /\ module \in Modules
      /\ DOMAIN summaries \in SUBSET DOMAIN module.fns
  BY SetupFacts DEF Pending, SInv, Graphed, SummariesOf
<1>2. ASSUME NEW p \in module.fns[i].via PROVE Resolve(module, p) = 0 \/ Resolve(module, p) \in DOMAIN summaries
  <2>1. calls[i] = {Resolve(module, q) : q \in module.fns[i].via} \ {0}
    BY <1>1 DEF SInv, Graphed, BuildCallGraph
  <2>2. QED BY <2>1, CalleesKnown
<1>3. QED BY <1>1, <1>2, ResolutionsAgree DEF AgreesIn

LEMMA SInvResolution == QualnamesFound => (SInv => ResolutionAgrees)
<1> SUFFICES ASSUME QualnamesFound, SInv, NEW i \in Underway, NEW p \in module.fns[i].via
             PROVE  ResolveSummary(p, DOMAIN summaries) = ResolveSummary(p, Nodes)
  BY DEF ResolutionAgrees
<1>1. Pending /\ i \in order[at] /\ (round > 0 \/ ~ IsCyclic(order[at]))
  <2>1. Pending
    BY DEF Underway
  <2>2. CASE todo # {}
    <3>1. round > 0 /\ todo \subseteq order[at]
      BY <2>2 DEF SInv, Summarized, Opened
    <3>2. todo \in SUBSET Nat
      BY <2>1, <3>1, SetupFacts
    <3>3. i \in todo
      BY <2>1, <2>2, <3>2, LeastProperty DEF Underway
    <3>4. QED BY <2>1, <3>1, <3>3
  <2>3. CASE todo = {}
    BY <2>1, <2>3 DEF Underway
  <2>4. QED BY <2>2, <2>3
<1>2. ResolveIn(module, p, DOMAIN summaries) = ReachedIn(module, p)
  BY <1>1, CallsAgree DEF AgreesIn
<1>3. Nodes = DOMAIN module.fns
  BY SetupFacts
<1>4. QED BY <1>2, <1>3 DEF ResolveSummary, ResolveIn, ReachedIn

\* A function that is summarized finds, for each of its calls, the summary of
\* the function the call reaches, unless a qualname of the module resolves to
\* another function: no summary is applied before it exists.
THEOREM NoSummaryTooLate == ASSUME QualnamesFound PROVE Spec => []ResolutionAgrees
BY SInvHolds, SInvResolution, PTL

(***************************************************************************)
(* Rounds.  A component has no more members than the cap allows rounds.    *)
(***************************************************************************)
GroupsWithinCap ==
  \A m \in Modules : \A i \in DOMAIN m.fns :
    Cardinality({j \in DOMAIN m.fns : /\ Reach(BuildCallGraph(m), i, j)
                                      /\ Reach(BuildCallGraph(m), j, i)}) <= SUMMARY_FIXPOINT_CAP

\* The members of C whose summaries are complete.
Finished(m, s, C) == {i \in C : CompleteFor(m, i, s[i])}

\* After r - 1 rounds over C, r - 1 members are finished; the r-th finishes one
\* more, which has its turn in this round or has had it.
Advanced(m, s, C, turns, r) ==
  \/ Finished(m, s, C) = C
  \/ Cardinality(Finished(m, s, C)) >= r
  \/ /\ Cardinality(Finished(m, s, C)) >= r - 1
     /\ \E i \in turns : ~ CompleteFor(m, i, s[i]) /\ CompleteFor(m, i, SummaryIn(m, s, i))

LEMMA FinishedType ==
  ASSUME NEW m, NEW s, NEW C, IsFiniteSet(C)
  PROVE  /\ Finished(m, s, C) \subseteq C /\ IsFiniteSet(Finished(m, s, C))
         /\ Cardinality(Finished(m, s, C)) \in Nat /\ Cardinality(C) \in Nat
         /\ Cardinality(Finished(m, s, C)) >= Cardinality(C) => Finished(m, s, C) = C
<1> DEFINE F == Finished(m, s, C)
<1>1. F \subseteq C
  BY DEF Finished
<1> HIDE DEF F
<1>2. IsFiniteSet(F) /\ Cardinality(F) <= Cardinality(C) /\ (Cardinality(C) = Cardinality(F) => C = F)
  BY <1>1, FS_Subset
<1>3. Cardinality(F) \in Nat /\ Cardinality(C) \in Nat
  BY <1>2, FS_CardinalityType
<1>4. QED BY <1>1, <1>2, <1>3 DEF F

\* A round begins: some member is ripe, if any is not finished.
LEMMA RoundBegins ==
  ASSUME NEW m \in Modules, NEW s, NEW C, Group(m, s, C), NEW r,
         Finished(m, s, C) = C \/ Cardinality(Finished(m, s, C)) >= r - 1
  PROVE  Advanced(m, s, C, C, r)
<1>1. CASE Finished(m, s, C) = C
  BY <1>1 DEF Advanced
<1>2. CASE Finished(m, s, C) # C
  <2>1. PICK b \in C : ~ CompleteFor(m, b, s[b])
    BY <1>2 DEF Finished
  <2>2. \E i \in C : ~ CompleteFor(m, i, s[i]) /\ CompleteFor(m, i, SummaryIn(m, s, i))
    BY <2>1, SomeMemberRipe
  <2>3. QED BY <1>2, <2>2 DEF Advanced
<1>3. QED BY <1>1, <1>2

\* A member has its turn: if it was ripe it is finished; another that was
\* ripe is still, with the better summaries.
LEMMA TurnAdvances ==
  ASSUME NEW m \in Modules, NEW s, NEW t, SummariesOf(m, s), SummariesOf(m, t),
         DOMAIN t = DOMAIN s, \A j \in DOMAIN s : Improves(s[j], t[j]),
         NEW C, IsFiniteSet(C), C \subseteq DOMAIN s, NEW turns \in SUBSET C, NEW i \in turns,
         t[i] = SummaryIn(m, s, i), \A j \in DOMAIN s : j # i => t[j] = s[j],
         NEW r \in Nat, Advanced(m, s, C, turns, r)
  PROVE  Advanced(m, t, C, turns \ {i}, r)
<1> DEFINE F == Finished(m, s, C)
           G == Finished(m, t, C)
<1>1. \A j \in DOMAIN s : s[j] \in SUBSET Nat /\ t[j] \in SUBSET Nat
  BY FlowSize DEF SummariesOf
<1>2. F \subseteq G
  BY <1>1, CompleteImproves DEF Finished
<1>3. G \subseteq C /\ IsFiniteSet(G) /\ Cardinality(G) \in Nat /\ IsFiniteSet(F) /\ Cardinality(F) \in Nat
  BY FinishedType
<1>4. Cardinality(F) <= Cardinality(G)
  BY <1>2, <1>3, FS_Subset
<1>5. CASE F = C
  <2>1. G = C
    BY <1>2, <1>3, <1>5
  <2>2. QED BY <2>1 DEF Advanced
<1>6. CASE Cardinality(F) >= r
  <2>1. Cardinality(G) >= r
    BY <1>3, <1>4, <1>6
  <2>2. QED BY <2>1 DEF Advanced
<1>7. ASSUME Cardinality(F) >= r - 1, NEW j \in turns,
             ~ CompleteFor(m, j, s[j]), CompleteFor(m, j, SummaryIn(m, s, j))
      PROVE  Advanced(m, t, C, turns \ {i}, r)
  <2>1. CASE j = i
    <3>1. i \in G /\ i \notin F
      BY <1>7, <2>1 DEF Finished
    <3>2. Cardinality(F \cup {i}) = Cardinality(F) + 1
      BY <1>3, <3>1, FS_AddElement
    <3>3. Cardinality(F \cup {i}) <= Cardinality(G)
      <4>1. F \cup {i} \in SUBSET G
        BY <1>2, <3>1
      <4>2. QED BY <4>1, <1>3, FS_Subset
    <3>4. Cardinality(G) >= r
      BY <1>3, <1>7, <3>2, <3>3
    <3>5. QED BY <3>4 DEF Advanced
  <2>2. CASE j # i
    <3>1. j \in DOMAIN s /\ t[j] = s[j]
      BY <2>2
    <3>2. Improves(SummaryIn(m, s, j), SummaryIn(m, t, j))
      BY SummaryMonotone
    <3>3. SummaryIn(m, s, j) \in SUBSET Nat /\ SummaryIn(m, t, j) \in SUBSET Nat
      BY SummaryType, FlowSize
    <3>4. CompleteFor(m, j, SummaryIn(m, t, j)) /\ ~ CompleteFor(m, j, t[j])
      BY <1>7, <3>1, <3>2, <3>3, CompleteImproves
    <3>5. Cardinality(G) >= r - 1
      BY <1>3, <1>4, <1>7
    <3>6. QED BY <2>2, <3>4, <3>5 DEF Advanced
  <2>3. QED BY <2>1, <2>2
<1>8. QED BY <1>5, <1>6, <1>7 DEF Advanced

(***************************************************************************)
(* The second invariant: all summaries are sound, and those behind are     *)
(* complete.  Of the component under way one more member is finished each  *)
(* round, and a round that changes nothing leaves a fixpoint.              *)
(***************************************************************************)
AllSound == \A i \in DOMAIN summaries : SoundFor(module, i, summaries[i])

BehindComplete == \A i \in Behind : CompleteFor(module, i, summaries[i])

Settled == ~ changed => \A i \in Opened \ todo : summaries[i] = SummaryIn(module, summaries, i)

Progress == round > 0 => Advanced(module, summaries, order[at], todo, round)

EInv == AllSound /\ BehindComplete /\ Settled /\ Progress

\* The calls of the component under way agree.
Agreed == \A i \in Opened : AgreesIn(module, summaries, i)

LEMMA SInvAgreed == QualnamesFound => (SInv => Agreed)
<1> SUFFICES ASSUME QualnamesFound, SInv, NEW i \in Opened PROVE AgreesIn(module, summaries, i)
  BY DEF Agreed
<1>1. round > 0 /\ i \in order[at]
  BY DEF Opened
<1>2. Pending
  BY <1>1, SetupFacts DEF SInv, Counters, Pending
<1>3. QED BY <1>1, <1>2, CallsAgree

LEMMA UnderwayGroup ==
  ASSUME SInv, Agreed, BehindComplete, round > 0
  PROVE  /\ Group(module, summaries, order[at]) /\ Opened = order[at]
         /\ IsFiniteSet(order[at]) /\ order[at] \subseteq Nodes /\ at \in DOMAIN order
<1>1. Opened = order[at] /\ at \in 1..Len(order)
  BY DEF SInv, Counters, Opened
<1>2. IsFiniteSet(order[at]) /\ order[at] \subseteq Nodes /\ at \in DOMAIN order
  BY <1>1, SetupFacts, FS_Subset
<1>3. DOMAIN summaries = Behind \cup Opened
  BY DEF SInv, Summarized
<1>4. SummariesOf(module, summaries)
  BY SetupFacts
<1>5. QED BY <1>1, <1>2, <1>3, <1>4 DEF Group, Agreed, BehindComplete

LEMMA InitEInv == Init => EInv
<1> SUFFICES ASSUME Init PROVE EInv
  OBVIOUS
<1>1. at = 1 /\ round = 0 /\ DOMAIN summaries = {}
  BY DEF Init
<1>2. Behind = {} /\ Opened = {}
  BY <1>1 DEF Behind, Opened
<1>3. Settled
  BY <1>2 DEF Settled
<1>4. QED BY <1>1, <1>2, <1>3 DEF EInv, AllSound, BehindComplete, Progress

LEMMA OrderEInv == SInv /\ Order => EInv'
<1> SUFFICES ASSUME SInv, Order PROVE EInv'
  OBVIOUS
<1>1. ~ Ordered /\ summaries' = summaries /\ at' = at /\ round' = round
  BY DEF Order, summaryVars
<1>2. at = 1 /\ round = 0 /\ DOMAIN summaries = {}
  BY <1>1 DEF SInv, Counters, Summarized, Behind, Opened
<1>3. Behind' = {} /\ Opened' = {}
  BY <1>1, <1>2 DEF Behind, Opened
<1>4. Settled'
  BY <1>3 DEF Settled
<1>5. QED BY <1>1, <1>2, <1>3, <1>4 DEF EInv, AllSound, BehindComplete, Progress

\* A function that no cycle of calls contains is summarized with complete
\* summaries of its callees, and so is its own.
LEMMA SummarizeAloneEInv == QualnamesFound => (SInv /\ EInv /\ SummarizeAlone => EInv')
<1> SUFFICES ASSUME QualnamesFound, SInv, EInv, SummarizeAlone PROVE EInv'
  OBVIOUS
<1>1. /\ Pending /\ round = 0 /\ ~ IsCyclic(order[at]) /\ at' = at + 1 /\ round' = round
      /\ UNCHANGED <<tarjanVars, module>>
  BY DEF SummarizeAlone
<1>2. PICK i \in order[at] : summaries' = With(summaries, i, Summarize(i))
  BY DEF SummarizeAlone
<1>3. AgreesIn(module, summaries, i) /\ i \in DOMAIN module.fns
  BY <1>1, CallsAgree
<1>4. SummariesOf(module, summaries) /\ module \in Modules /\ i \notin DOMAIN summaries
  BY <1>1, SetupFacts DEF SInv, Graphed
<1>5. /\ DOMAIN summaries' = DOMAIN summaries \cup {i}
      /\ summaries'[i] = SummaryIn(module, summaries, i)
      /\ \A j \in DOMAIN summaries : summaries'[j] = summaries[j]
  BY <1>2, <1>4, SummarizeIsSummaryIn DEF With
<1>6. SoundFor(module, i, summaries'[i])
  BY <1>3, <1>4, <1>5, SummarySound DEF EInv, AllSound
<1>7. DOMAIN summaries = Behind
  BY <1>1 DEF SInv, Summarized, Opened
<1>8. CompleteFor(module, i, summaries'[i])
  <2> SUFFICES ASSUME NEW k \in Nat, ReturnsIn(module, i, k)
               PROVE  \E n \in SummaryIn(module, summaries, i) : n <= k
    BY <1>5 DEF CompleteFor
  <2>1. \A j \in DOMAIN summaries, l \in Nat :
          l < k /\ ReturnsIn(module, j, l) => \E n \in summaries[j] : n <= l
    BY <1>7 DEF EInv, BehindComplete, CompleteFor
  <2>2. QED BY <1>3, <1>4, <2>1, SummaryFinds
<1>9. order[at] = {i}
  BY <1>1, Lone
<1>10. Behind' = Behind \cup {i} /\ Opened' = {}
  <2>1. Behind' = Behind \cup order[at] /\ Opened' = {}
    BY <1>1, Advance, OrderStays DEF Behind, Opened
  <2>2. QED BY <2>1, <1>9
<1>11. AllSound'
  BY <1>1, <1>5, <1>6 DEF EInv, AllSound
<1>12. BehindComplete'
  BY <1>1, <1>5, <1>7, <1>8, <1>10 DEF EInv, BehindComplete
<1>13. Settled' /\ Progress'
  BY <1>1, <1>10 DEF Settled, Progress
<1>14. QED BY <1>11, <1>12, <1>13 DEF EInv

\* The members of a cyclic component begin without a flow: that is sound, and
\* if it is not complete one of them is ripe.
LEMMA OpenComponentEInv == SInv /\ EInv /\ OpenComponent /\ Agreed' => EInv'
<1> SUFFICES ASSUME SInv, EInv, OpenComponent, Agreed' PROVE EInv'
  OBVIOUS
<1>1. /\ Pending /\ round = 0 /\ round' = 1 /\ todo' = order[at] /\ at' = at
      /\ UNCHANGED <<tarjanVars, module>>
      /\ summaries' = [i \in DOMAIN summaries \cup order[at] |->
                         IF i \in order[at] THEN {} ELSE summaries[i]]
  BY DEF OpenComponent
<1>2. /\ order[at] \subseteq Nodes /\ IsFiniteSet(order[at]) /\ order[at] \cap DOMAIN summaries = {}
      /\ SummariesOf(module, summaries) /\ Nodes = DOMAIN module.fns /\ module \in Modules
  BY <1>1, SetupFacts, FS_Subset DEF SInv, Graphed
<1>3. Behind' = Behind /\ Opened' = order[at] /\ order' = order /\ module' = module
  BY <1>1, OrderStays DEF Behind, Opened
<1>4. /\ DOMAIN summaries' = Behind \cup order[at]
      /\ \A j \in Behind : j \in DOMAIN summaries /\ summaries'[j] = summaries[j]
      /\ \A j \in order[at] : summaries'[j] = {}
  BY <1>1, <1>2 DEF SInv, Summarized, Opened
<1>5. AllSound'
  BY <1>3, <1>4 DEF EInv, AllSound, SoundFor
<1>6. BehindComplete'
  BY <1>3, <1>4 DEF EInv, BehindComplete
<1>7. Settled'
  BY <1>1, <1>3 DEF Settled
<1>8. Group(module, summaries', order[at])
  <2>1. SummariesOf(module, summaries')
    BY <1>1, <1>2 DEF SummariesOf, Flow
  <2>2. \A i \in order[at] : AgreesIn(module, summaries', i)
    BY <1>3 DEF Agreed
  <2>3. \A j \in DOMAIN summaries' \ order[at] : CompleteFor(module, j, summaries'[j])
    BY <1>4 DEF EInv, BehindComplete
  <2>4. QED BY <1>4, <2>1, <2>2, <2>3 DEF Group
<1>9. Cardinality(Finished(module, summaries', order[at])) >= 1 - 1
  BY <1>2, FinishedType
<1>10. Progress'
  BY <1>1, <1>2, <1>3, <1>8, <1>9, RoundBegins DEF Progress
<1>11. QED BY <1>5, <1>6, <1>7, <1>10 DEF EInv

LEMMA SummarizeMemberEInv == QualnamesFound => (SInv /\ EInv /\ SummarizeMember => EInv')
<1> SUFFICES ASSUME QualnamesFound, SInv, EInv, SummarizeMember PROVE EInv'
  OBVIOUS
<1> DEFINE i == Least(todo)
<1>1. /\ Pending /\ round > 0 /\ i \in todo /\ i \in order[at] /\ Opened = order[at]
      /\ i \in DOMAIN summaries /\ UNCHANGED <<tarjanVars, module>> /\ at' = at /\ round' = round
      /\ todo' = todo \ {i} /\ changed' = (changed \/ summaries' # summaries)
  BY MemberEffect
<1>2. /\ DOMAIN summaries' = DOMAIN summaries
      /\ summaries'[i] = SummaryIn(module, summaries, i)
      /\ \A j \in DOMAIN summaries : j # i => summaries'[j] = summaries[j]
      /\ SummariesOf(module, summaries')
      /\ \A j \in DOMAIN summaries : Improves(summaries[j], summaries'[j])
  BY MemberEffect
<1> HIDE DEF i
<1>3. Behind' = Behind /\ Opened' = Opened /\ order' = order /\ module' = module
  BY <1>1, OrderStays DEF Behind, Opened
<1>4. /\ SummariesOf(module, summaries) /\ module \in Modules
      /\ order[at] \subseteq Nodes /\ IsFiniteSet(order[at])
      /\ Behind \subseteq DOMAIN summaries /\ order[at] \subseteq DOMAIN summaries /\ todo \subseteq order[at]
  BY <1>1, SetupFacts, FS_Subset DEF SInv, Graphed, Summarized
<1>5. AgreesIn(module, summaries, i) /\ i \in DOMAIN module.fns
  BY <1>1, CallsAgree
<1>6. AllSound'
  <2>1. SoundFor(module, i, summaries'[i])
    BY <1>2, <1>4, <1>5, SummarySound DEF EInv, AllSound
  <2>2. QED BY <1>2, <1>3, <2>1 DEF EInv, AllSound
<1>7. BehindComplete'
  <2> SUFFICES ASSUME NEW j \in Behind PROVE CompleteFor(module, j, summaries'[j])
    BY <1>3 DEF BehindComplete
  <2>1. summaries[j] \in SUBSET Nat /\ summaries'[j] \in SUBSET Nat
    BY <1>2, <1>4, FlowSize DEF SummariesOf
  <2>2. QED BY <1>2, <1>4, <2>1, CompleteImproves DEF EInv, BehindComplete
<1>8. Settled'
  <2> SUFFICES ASSUME ~ changed', NEW j \in Opened \ todo'
               PROVE  summaries'[j] = SummaryIn(module, summaries', j)
    BY <1>3, Zenon DEF Settled
  <2>1. ~ changed /\ summaries' = summaries
    BY <1>1, Zenon
  <2>2. j = i \/ j \in Opened \ todo
    BY <1>1
  <2>3. summaries[j] = SummaryIn(module, summaries, j)
    <3>1. CASE j = i
      BY <3>1, <1>2, <2>1
    <3>2. CASE j \in Opened \ todo
      BY <3>2, <2>1, Zenon DEF EInv, Settled
    <3>3. QED BY <2>2, <3>1, <3>2
  <2>4. QED BY <2>1, <2>3
<1>9. Progress'
  <2>1. round \in Nat /\ Advanced(module, summaries, order[at], todo, round)
    BY <1>1 DEF EInv, Progress, SInv, Counters
  <2>2. Advanced(module, summaries', order[at], todo \ {i}, round)
    BY <1>1, <1>2, <1>4, <2>1, TurnAdvances
  <2>3. QED BY <1>1, <1>3, <2>2 DEF Progress
<1>10. QED BY <1>6, <1>7, <1>8, <1>9 DEF EInv

\* A component of the order is a group of functions that reach each other.
LEMMA WithinCap ==
  ASSUME GroupsWithinCap, SInv, Pending
  PROVE  Cardinality(order[at]) <= SUMMARY_FIXPOINT_CAP
<1>1. at \in DOMAIN order /\ order[at] \subseteq Nodes /\ Nodes = DOMAIN module.fns /\ IsFiniteSet(order[at])
  BY SetupFacts, FS_Subset DEF Pending
<1>2. CASE order[at] = {}
  BY <1>2, FS_EmptySet, SummaryCapAssumption
<1>3. CASE order[at] # {}
  <2>1. PICK i \in order[at] : TRUE
    BY <1>3
  <2>2. order[at] = {j \in DOMAIN module.fns : /\ Reach(BuildCallGraph(module), i, j)
                                                /\ Reach(BuildCallGraph(module), j, i)}
    BY <1>1 DEF SInv, Graphed, IInv, Exact
  <2>3. QED BY <1>1, <2>2 DEF GroupsWithinCap, SInv, Graphed
<1>4. QED BY <1>2, <1>3

\* A round ends.  If there is another, one more member is finished than it
\* takes; if not, nothing has changed or there were as many rounds as members.
LEMMA CloseRoundEInv ==
  GroupsWithinCap => (SInv /\ Agreed /\ EInv /\ CloseRound => EInv')
<1> SUFFICES ASSUME GroupsWithinCap, SInv, Agreed, EInv, CloseRound PROVE EInv'
  OBVIOUS
<1>1. /\ Pending /\ round > 0 /\ todo = {} /\ UNCHANGED <<tarjanVars, module>>
      /\ summaries' = summaries /\ module' = module /\ order' = order
  BY OrderStays DEF CloseRound
<1>2. /\ Group(module, summaries, order[at]) /\ Opened = order[at]
      /\ IsFiniteSet(order[at]) /\ order[at] \subseteq Nodes /\ at \in DOMAIN order
  BY <1>1, UnderwayGroup DEF EInv
<1>3. module \in Modules /\ round \in Nat /\ Nodes = DOMAIN module.fns
  BY SetupFacts DEF SInv, Graphed, Counters
<1> DEFINE F == Finished(module, summaries, order[at])
<1>4. F = order[at] \/ Cardinality(F) >= round
  BY <1>1 DEF EInv, Progress, Advanced
<1>5. AllSound'
  BY <1>1 DEF EInv, AllSound
<1>6. CASE changed /\ round < SUMMARY_FIXPOINT_CAP
  <2>1. round' = round + 1 /\ todo' = order[at] /\ at' = at
    BY <1>6 DEF CloseRound
  <2>2. round' > 0
    BY <1>3, <2>1
  <2>3. Behind' = Behind /\ Opened' = order[at]
    BY <1>1, <2>1, <2>2, OrderStays DEF Behind, Opened
  <2>4. BehindComplete' /\ Settled'
    BY <1>1, <2>1, <2>3 DEF EInv, BehindComplete, Settled
  <2>5. Advanced(module, summaries, order[at], order[at], round + 1)
    <3>1. (round + 1) - 1 = round
      BY <1>3
    <3>2. QED BY <1>2, <1>3, <1>4, <3>1, RoundBegins
  <2>6. QED BY <1>1, <1>5, <2>1, <2>4, <2>5 DEF EInv, Progress
<1>7. CASE ~ (changed /\ round < SUMMARY_FIXPOINT_CAP)
  <2>1. round' = 0 /\ at' = at + 1
    BY <1>7 DEF CloseRound
  <2>2. Behind' = Behind \cup order[at] /\ Opened' = {}
    BY <1>1, <2>1, Advance, OrderStays DEF Behind, Opened
  <2>3. F = order[at]
    <3>1. CASE ~ changed
      <4>1. \A i \in order[at] : summaries[i] = SummaryIn(module, summaries, i)
        <5>1. Opened \ todo = order[at]
          BY <1>1, <1>2
        <5>2. QED BY <3>1, <5>1, Zenon DEF EInv, Settled
      <4>2. \A i \in order[at] : CompleteFor(module, i, summaries[i])
        BY <1>2, <1>3, <4>1, FixpointComplete
      <4>3. QED BY <4>2 DEF Finished
    <3>2. CASE changed
      <4>1. round >= SUMMARY_FIXPOINT_CAP
        <5>1. ~ (round < SUMMARY_FIXPOINT_CAP)
          BY <1>7, <3>2, Zenon
        <5>2. QED BY <5>1, <1>3, SummaryCapAssumption
      <4>2. Cardinality(order[at]) <= SUMMARY_FIXPOINT_CAP
        BY <1>1, <1>2, WithinCap
      <4>3. /\ Cardinality(F) \in Nat /\ Cardinality(order[at]) \in Nat
            /\ Cardinality(F) >= Cardinality(order[at]) => F = order[at]
        BY <1>2, FinishedType
      <4>4. QED BY <1>3, <1>4, <4>1, <4>2, <4>3, SummaryCapAssumption
    <3>3. QED BY <3>1, <3>2, Zenon
  <2>4. BehindComplete'
    BY <1>1, <2>2, <2>3 DEF EInv, BehindComplete, Finished
  <2>5. QED BY <1>5, <2>1, <2>2, <2>4 DEF EInv, Settled, Progress
<1>8. QED BY <1>6, <1>7

LEMMA EInvStep ==
  QualnamesFound /\ GroupsWithinCap =>
    (SInv /\ Agreed /\ Agreed' /\ EInv /\ [Next]_allVars => EInv')
<1> SUFFICES ASSUME QualnamesFound, GroupsWithinCap, SInv, Agreed, Agreed', EInv, [Next]_allVars
             PROVE  EInv'
  OBVIOUS
<1>1. CASE Order
  BY <1>1, OrderEInv
<1>2. CASE SummarizeAlone
  BY <1>2, SummarizeAloneEInv
<1>3. CASE OpenComponent
  BY <1>3, OpenComponentEInv
<1>4. CASE SummarizeMember
  BY <1>4, SummarizeMemberEInv
<1>5. CASE CloseRound
  BY <1>5, CloseRoundEInv
<1>6. CASE UNCHANGED allVars
  <2>1. /\ summaries' = summaries /\ at' = at /\ round' = round /\ todo' = todo
        /\ changed' = changed /\ module' = module /\ order' = order
    BY <1>6 DEF allVars, summaryVars, tarjanVars
  <2>2. Behind' = Behind /\ Opened' = Opened
    BY <2>1 DEF Behind, Opened
  <2>3. AllSound' /\ BehindComplete' /\ Progress'
    BY <2>1, <2>2 DEF EInv, AllSound, BehindComplete, Progress
  <2>4. Settled'
    BY <2>1, <2>2, Zenon DEF EInv, Settled
  <2>5. QED BY <2>3, <2>4 DEF EInv
<1>7. QED BY <1>1, <1>2, <1>3, <1>4, <1>5, <1>6 DEF Next

LEMMA EInvHolds == ASSUME QualnamesFound, GroupsWithinCap PROVE Spec => []EInv
<1>1. SInv => Agreed
  BY SInvAgreed
<1>2. SInv /\ Agreed /\ Agreed' /\ EInv /\ [Next]_allVars => EInv'
  BY EInvStep
<1>3. QED BY <1>1, <1>2, InitEInv, SInvHolds, PTL DEF Spec

\* In the end every function has its summary, sound and complete.
LEMMA AtTheEnd ==
  ASSUME SInv, EInv, Done
  PROVE  /\ DOMAIN summaries = Nodes /\ module \in Modules /\ SummariesOf(module, summaries)
         /\ Nodes = DOMAIN module.fns
         /\ \A i \in Nodes : /\ SoundFor(module, i, summaries[i])
                            /\ CompleteFor(module, i, summaries[i])
<1>1. Ordered /\ at \notin DOMAIN order
  BY DEF Done
<1>2. at = Len(order) + 1 /\ DOMAIN order = 1..(at - 1)
  BY <1>1, SetupFacts DEF SInv, Counters
<1>3. Opened = {}
  BY <1>2, SetupFacts DEF SInv, Counters, Opened
<1>4. Behind = Ranked
  BY <1>2 DEF Behind, Ranked
<1>5. Ranked = Nodes
  <2>1. OnStack = {}
    BY <1>1, NothingUnderWay DEF SInv, Graphed, Ordered
  <2>2. Visited = Nodes
    BY <1>1 DEF Ordered
  <2>3. QED BY <2>1, <2>2 DEF SInv, Graphed, IInv, Partition
<1>6. DOMAIN summaries = Nodes
  BY <1>3, <1>4, <1>5 DEF SInv, Summarized
<1>7. QED BY <1>4, <1>5, <1>6, SetupFacts DEF SInv, Graphed, EInv, AllSound, BehindComplete

LEMMA EndIsExact == SInv /\ EInv => SummariesExact
<1> SUFFICES ASSUME SInv, EInv, Done, NEW i \in Nodes
             PROVE  summaries[i] = Best({k \in 0..Cardinality(Nodes) : ReturnsThrough(i, k)})
  BY DEF SummariesExact, Best
<1> DEFINE lengths == {k \in 0..Cardinality(Nodes) : ReturnsIn(module, i, k)}
<1>1. {k \in 0..Cardinality(Nodes) : ReturnsThrough(i, k)} = lengths
  BY ReturnsThroughIsReturnsIn
<1>2. /\ DOMAIN summaries = Nodes /\ module \in Modules /\ SummariesOf(module, summaries)
      /\ Nodes = DOMAIN module.fns
      /\ SoundFor(module, i, summaries[i]) /\ CompleteFor(module, i, summaries[i])
  BY AtTheEnd
<1>3. /\ Best(lengths) \in Flow /\ Best(lengths) \subseteq lengths
      /\ Improves(lengths, Best(lengths))
  <2>1. lengths \in SUBSET Nat
    OBVIOUS
  <2>2. QED BY <2>1, BestProperty
<1>4. SoundFor(module, i, Best(lengths))
  BY <1>3 DEF SoundFor
<1>5. CompleteFor(module, i, Best(lengths))
  <2> SUFFICES ASSUME NEW k \in Nat, ReturnsIn(module, i, k) PROVE \E n \in Best(lengths) : n <= k
    BY DEF CompleteFor
  <2> DEFINE all == {l \in Nat : ReturnsIn(module, i, l)}
             shortest == Least(all)
  <2>1. all # {} /\ all \in SUBSET Nat /\ k \in all
    OBVIOUS
  <2>2. shortest \in all /\ \A l \in all : shortest <= l
    BY <2>1, LeastProperty
  <2> HIDE DEF shortest
  <2>3. shortest <= Cardinality(Nodes)
    BY <1>2, <2>2, ShortestIsShort
  <2>4. IsFiniteSet(Nodes) /\ Cardinality(Nodes) \in Nat
    BY SetupFacts, FS_CardinalityType
  <2>5. shortest \in lengths /\ shortest <= k
    BY <2>1, <2>2, <2>3, <2>4
  <2>6. PICK n \in Best(lengths) : n <= shortest
    BY <1>3, <2>5 DEF Improves
  <2>7. n \in Nat
    BY <1>3, <2>6
  <2>8. QED BY <2>2, <2>5, <2>6, <2>7
<1> HIDE DEF lengths
<1>6. summaries[i] \in Flow
  BY <1>2 DEF SummariesOf
<1>7. QED BY <1>1, <1>2, <1>3, <1>4, <1>5, <1>6, FlowUnique

LEMMA EndIsStable == SInv /\ EInv => Stable
<1> SUFFICES ASSUME SInv, EInv, Done, NEW i \in Nodes
             PROVE  summaries[i] = SummaryIn(module, summaries, i)
  BY SummarizeIsSummaryIn DEF Stable
<1>1. /\ DOMAIN summaries = Nodes /\ module \in Modules /\ SummariesOf(module, summaries)
      /\ Nodes = DOMAIN module.fns
      /\ \A j \in Nodes : /\ SoundFor(module, j, summaries[j])
                          /\ CompleteFor(module, j, summaries[j])
  BY AtTheEnd
<1>2. AgreesIn(module, summaries, i)
  BY <1>1 DEF AgreesIn, ReachedIn
<1>3. SoundFor(module, i, SummaryIn(module, summaries, i))
  BY <1>1, <1>2, SummarySound
<1>4. CompleteFor(module, i, SummaryIn(module, summaries, i))
  <2> SUFFICES ASSUME NEW k \in Nat, ReturnsIn(module, i, k)
               PROVE  \E n \in SummaryIn(module, summaries, i) : n <= k
    BY DEF CompleteFor
  <2>1. \A j \in DOMAIN summaries, l \in Nat :
          l < k /\ ReturnsIn(module, j, l) => \E n \in summaries[j] : n <= l
    BY <1>1 DEF CompleteFor
  <2>2. QED BY <1>1, <1>2, <2>1, SummaryFinds
<1>5. summaries[i] \in Flow /\ SummaryIn(module, summaries, i) \in Flow
  BY <1>1, SummaryType DEF SummariesOf
<1>6. QED BY <1>1, <1>3, <1>4, <1>5, FlowUnique

\* When all is summarized, a summary says exactly what the calls of the file
\* do: the parameter of a function comes back if and only if some chain of
\* calls returns it, and the witness is the shortest such chain.  It takes
\* that qualnames resolve to their functions, and that no group of mutually
\* recursive functions has more members than the cap allows rounds.
THEOREM SummariesAreExact ==
  ASSUME QualnamesFound, GroupsWithinCap PROVE Spec => []SummariesExact
<1>1. Spec => []EInv
  BY EInvHolds
<1>2. QED BY <1>1, SInvHolds, EndIsExact, PTL

\* Under the same conditions the summaries are a fixpoint: the cap has cut no
\* component short, and summarizing any function once more changes nothing.
THEOREM SummariesAreStable ==
  ASSUME QualnamesFound, GroupsWithinCap PROVE Spec => []Stable
<1>1. Spec => []EInv
  BY EInvHolds
<1>2. QED BY <1>1, SInvHolds, EndIsStable, PTL
=============================================================================
