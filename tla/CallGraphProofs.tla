--------------------------- MODULE CallGraphProofs ---------------------------
(***************************************************************************)
(* Theorems about CallGraph, for any call graphs: what Tarjan's algorithm  *)
(* keeps true until the functions are ordered.                             *)
(***************************************************************************)
EXTENDS CallGraph, FiniteSetTheorems, SequenceTheorems, WellFoundedInduction, TLAPS

(***************************************************************************)
(* Reachability in a call graph, from the closed sets that define it.      *)
(***************************************************************************)
Reach(graph, a, b) ==
  \A S \in SUBSET DOMAIN graph : a \in S /\ (\A n \in S : graph[n] \subseteq S) => b \in S

LEMMA ReachesIsReach ==
  ASSUME NEW a, NEW b
  PROVE  Reaches(a, b) <=> Reach(calls, a, b)
BY DEF Reaches, Reach, Nodes

LEMMA ReachRefl ==
  ASSUME NEW graph, NEW a
  PROVE  Reach(graph, a, a)
BY DEF Reach

LEMMA ReachTrans ==
  ASSUME NEW graph, NEW a, NEW b, NEW c, Reach(graph, a, b), Reach(graph, b, c)
  PROVE  Reach(graph, a, c)
BY DEF Reach

\* A caller reaches what its callee reaches.
LEMMA ReachCallee ==
  ASSUME NEW graph, NEW a, NEW b, Reach(graph, a, b), NEW c \in graph[b]
  PROVE  Reach(graph, a, c)
BY DEF Reach

(***************************************************************************)
(* The inductive invariant.                                                *)
(***************************************************************************)
Frame == [node : Nat, left : SUBSET Nat]

Ranked == UNION {order[i] : i \in DOMAIN order}

Typed ==
  /\ calls \in CallGraphs
  /\ Visited \subseteq Nodes /\ DOMAIN lowlink = Visited
  /\ \A n \in Visited : indices[n] \in Nat /\ lowlink[n] \in Nat /\ lowlink[n] <= indices[n]
  /\ stack \in Seq(Nat)
  /\ frames \in Seq(Frame)
  /\ order \in Seq(SUBSET Nat)

\* Nodes are numbered in the order of their visits.
Numbered ==
  /\ \A n \in Visited : indices[n] < Cardinality(Visited)
  /\ \A m, n \in Visited : indices[m] = indices[n] => m = n

\* The stack and the frames follow that order.
Stacked ==
  /\ OnStack \subseteq Visited
  /\ \A i, j \in DOMAIN stack : i < j => indices[stack[i]] < indices[stack[j]]

Framed ==
  /\ \A i \in DOMAIN frames : frames[i].node \in OnStack /\ frames[i].left \subseteq calls[frames[i].node]
  /\ \A i, j \in DOMAIN frames : i < j => indices[frames[i].node] < indices[frames[j].node]

\* A visited node is on the stack or in one component.
Partition ==
  /\ Visited = OnStack \cup Ranked /\ OnStack \cap Ranked = {}
  /\ \A i, j \in DOMAIN order : i # j => order[i] \cap order[j] = {}

\* The calls of a node on the stack have been followed, or are left to its frame.
CalleesVisited ==
  \A n \in OnStack : \A m \in calls[n] :
     m \in Visited \/ \E i \in DOMAIN frames : frames[i].node = n /\ m \in frames[i].left

\* A node under way reaches all that lies above it on the stack ...
Down ==
  \A i \in DOMAIN frames : \A n \in OnStack :
     indices[frames[i].node] <= indices[n] => Reach(calls, frames[i].node, n)

\* ... and a node on the stack reaches one under way below it.
Up ==
  \A n \in OnStack : \E i \in DOMAIN frames :
     indices[frames[i].node] <= indices[n] /\ Reach(calls, n, frames[i].node)

LowReached ==
  \A n \in OnStack : \E m \in OnStack : indices[m] = lowlink[n] /\ Reach(calls, n, m)

\* The lowlink of a node under way accounts for every call followed so far
\* from it, or from a node above it and below the next one under way.
LowComplete ==
  \A i \in DOMAIN frames : \A n \in OnStack : \A m \in calls[n] \cap OnStack :
     \/ indices[n] < indices[frames[i].node]
     \/ i < Len(frames) /\ indices[frames[i + 1].node] <= indices[n]
     \/ n = frames[i].node /\ m \in frames[i].left
     \/ lowlink[frames[i].node] <= indices[m]

\* A component holds the nodes that reach each other.
Exact ==
  \A i \in DOMAIN order : \A n \in order[i] : \A b \in Nodes :
     b \in order[i] <=> Reach(calls, n, b) /\ Reach(calls, b, n)

IInv ==
  /\ Typed /\ Numbered /\ Stacked /\ Framed /\ Partition /\ CalleesVisited
  /\ Down /\ Up /\ LowReached /\ LowComplete
  /\ CalleesFirst /\ Exact

(***************************************************************************)
(* Facts about the state.                                                  *)
(***************************************************************************)
LEMMA GraphType ==
  ASSUME calls \in CallGraphs
  PROVE  /\ Nodes \subseteq Nat /\ IsFiniteSet(Nodes)
         /\ calls \in [Nodes -> SUBSET Nodes]
BY CallGraphsAssumption DEF Nodes

\* A set of natural numbers that is not empty has a least element.
LEMMA LeastProperty ==
  ASSUME NEW S \in SUBSET Nat, S # {}
  PROVE  Least(S) \in S /\ \A n \in S : Least(S) <= n
<1>1. IsWellFoundedOn(OpToRel(<, Nat), Nat)
  BY NatLessThanWellFounded
<1>2. PICK n \in S : \A m \in S : ~ (<<m, n>> \in OpToRel(<, Nat))
  BY <1>1, WFMin, Zenon
<1>3. \A m \in S : ~ (m < n)
  BY <1>2 DEF OpToRel
<1>4. \A m \in S : n <= m
  BY <1>3
<1>5. QED BY <1>4 DEF Least

\* The domains and ranges of the variables.
LEMMA StateType ==
  ASSUME IInv
  PROVE  /\ IsFiniteSet(Visited) /\ Cardinality(Visited) \in Nat
         /\ Nodes \subseteq Nat /\ calls \in [Nodes -> SUBSET Nodes]
         /\ Visited \subseteq Nodes /\ OnStack \subseteq Visited
         /\ DOMAIN indices = Visited /\ DOMAIN lowlink = Visited
         /\ \A n \in Visited : indices[n] \in Nat /\ lowlink[n] \in Nat /\ lowlink[n] <= indices[n]
         /\ Len(stack) \in Nat /\ DOMAIN stack = 1..Len(stack)
         /\ Len(frames) \in Nat /\ DOMAIN frames = 1..Len(frames)
         /\ Len(order) \in Nat /\ DOMAIN order = 1..Len(order)
         /\ \A i \in 1..Len(frames) : frames[i] \in Frame /\ frames[i].node \in OnStack
<1>1. Nodes \subseteq Nat /\ IsFiniteSet(Nodes) /\ calls \in [Nodes -> SUBSET Nodes]
  BY GraphType DEF IInv, Typed
<1>2. IsFiniteSet(Visited) /\ Cardinality(Visited) \in Nat
  BY <1>1, FS_Subset, FS_CardinalityType DEF IInv, Typed
<1>3. Len(frames) \in Nat /\ DOMAIN frames = 1..Len(frames) /\ \A i \in 1..Len(frames) : frames[i] \in Frame
  BY DEF IInv, Typed
<1>4. Len(stack) \in Nat /\ DOMAIN stack = 1..Len(stack) /\ Len(order) \in Nat /\ DOMAIN order = 1..Len(order)
  BY DEF IInv, Typed
<1>5. QED BY <1>1, <1>2, <1>3, <1>4 DEF IInv, Typed, Stacked, Framed, Visited

\* The frame on top of the stack of frames.
LEMMA TopType ==
  ASSUME IInv, frames # <<>>
  PROVE  /\ Len(frames) \in Nat \ {0} /\ Len(frames) \in DOMAIN frames
         /\ Top \in Frame /\ Top.node \in OnStack /\ Top.left \subseteq calls[Top.node]
         /\ \A i \in DOMAIN frames : indices[frames[i].node] <= indices[Top.node]
<1>1. Len(frames) \in Nat \ {0}
  BY EmptySeq DEF IInv, Typed
<1>2. Len(frames) \in DOMAIN frames
  BY <1>1, StateType
<1>3. Top \in Frame /\ Top.node \in OnStack /\ Top.left \subseteq calls[Top.node]
  BY <1>2, StateType DEF Top, IInv, Framed
<1>4. ASSUME NEW i \in DOMAIN frames PROVE indices[frames[i].node] <= indices[Top.node]
  <2>1. i = Len(frames) \/ i < Len(frames)
    BY StateType
  <2>2. indices[frames[i].node] \in Nat
    BY StateType
  <2>3. CASE i = Len(frames)
    BY <2>2, <2>3 DEF Top
  <2>4. CASE i < Len(frames)
    <3>1. indices[frames[i].node] < indices[frames[Len(frames)].node]
      BY <1>2, <2>4 DEF IInv, Framed
    <3>2. indices[frames[Len(frames)].node] \in Nat
      BY <1>3, StateType DEF Top
    <3>3. QED BY <2>2, <3>1, <3>2 DEF Top
  <2>5. QED BY <2>1, <2>3, <2>4
<1>5. QED BY <1>1, <1>2, <1>3, <1>4

\* Without a call under way the stack is empty.
LEMMA NothingUnderWay ==
  ASSUME IInv, frames = <<>>
  PROVE  OnStack = {} /\ Visited = Ranked
BY DEF IInv, Up, Partition

(***************************************************************************)
(* Initially.                                                              *)
(***************************************************************************)
LEMMA InitHolds == calls \in CallGraphs /\ InitOrder => IInv
<1> SUFFICES ASSUME calls \in CallGraphs, InitOrder PROVE IInv
  OBVIOUS
<1>1. /\ Visited = {} /\ OnStack = {} /\ Ranked = {} /\ DOMAIN lowlink = {}
      /\ DOMAIN frames = {} /\ DOMAIN order = {} /\ DOMAIN stack = {}
  BY DEF InitOrder, Visited, OnStack, Ranked
<1>2. Typed
  BY <1>1 DEF Typed, InitOrder
<1>3. QED
  BY <1>1, <1>2 DEF IInv, Numbered, Stacked, Framed, Partition, CalleesVisited, Down, Up,
    LowReached, LowComplete, CalleesFirst, Exact

(***************************************************************************)
(* A call of strongconnect begins.                                         *)
(***************************************************************************)
LEMMA AppendElements ==
  ASSUME NEW T, NEW seq \in Seq(T), NEW e \in T
  PROVE  LET longer == Append(seq, e)
         IN  {longer[i] : i \in DOMAIN longer} = {seq[i] : i \in DOMAIN seq} \cup {e}
<1> DEFINE longer == Append(seq, e)
<1>1. /\ DOMAIN longer = 1..(Len(seq) + 1) /\ DOMAIN seq = 1..Len(seq) /\ Len(seq) \in Nat
      /\ \A i \in 1..Len(seq) : longer[i] = seq[i]
      /\ longer[Len(seq) + 1] = e
  BY AppendProperties
<1> HIDE DEF longer
<1>2. \A i \in 1..(Len(seq) + 1) : i \in 1..Len(seq) \/ i = Len(seq) + 1
  BY <1>1
<1>3. 1..Len(seq) \subseteq 1..(Len(seq) + 1) /\ Len(seq) + 1 \in 1..(Len(seq) + 1)
  BY <1>1
<1>4. QED BY <1>1, <1>2, <1>3 DEF longer

\* The frames when n is entered: those of the callers, with at most n taken
\* from what is left to them.
Resumes(callers, n) ==
  /\ callers \in Seq(Frame) /\ Len(callers) = Len(frames)
  /\ \A i \in 1..Len(frames) :
        /\ callers[i].node = frames[i].node
        /\ callers[i].left \subseteq frames[i].left
        /\ frames[i].left \subseteq callers[i].left \cup {n}

KeepsFrame(i, n) ==
  /\ frames'[i].node = frames[i].node
  /\ frames'[i].left \subseteq frames[i].left
  /\ frames[i].left \subseteq frames'[i].left \cup {n}

LEMMA EnterEffect ==
  ASSUME IInv, NEW n \in Nodes \ Visited, NEW callers, Resumes(callers, n), Enter(n, callers)
  PROVE  /\ calls' = calls /\ order' = order /\ Nodes' = Nodes /\ Ranked' = Ranked
         /\ Visited' = Visited \cup {n} /\ DOMAIN lowlink' = Visited'
         /\ \A m \in Visited : indices'[m] = indices[m] /\ lowlink'[m] = lowlink[m]
         /\ indices'[n] = Cardinality(Visited) /\ lowlink'[n] = Cardinality(Visited)
         /\ Cardinality(Visited') = Cardinality(Visited) + 1
         /\ stack' \in Seq(Nat) /\ DOMAIN stack' = 1..(Len(stack) + 1)
         /\ \A i \in 1..Len(stack) : stack'[i] = stack[i]
         /\ stack'[Len(stack) + 1] = n
         /\ OnStack' = OnStack \cup {n}
         /\ frames' \in Seq(Frame) /\ Len(frames') = Len(frames) + 1
         /\ DOMAIN frames' = 1..(Len(frames) + 1)
         /\ \A i \in 1..Len(frames) : KeepsFrame(i, n)
         /\ frames'[Len(frames) + 1] = [node |-> n, left |-> calls[n]]
<1>1. calls' = calls /\ order' = order /\ Nodes' = Nodes /\ Ranked' = Ranked
  BY DEF Enter, Nodes, Ranked
<1>2. /\ Visited' = Visited \cup {n} /\ DOMAIN lowlink' = Visited'
      /\ \A m \in Visited : indices'[m] = indices[m] /\ lowlink'[m] = lowlink[m]
      /\ indices'[n] = Cardinality(Visited) /\ lowlink'[n] = Cardinality(Visited)
  BY StateType DEF Enter, With, Visited
<1>3. Cardinality(Visited') = Cardinality(Visited) + 1
  <2>1. Cardinality(Visited \cup {n}) = Cardinality(Visited) + 1
    <3>1. IsFiniteSet(Visited) /\ n \notin Visited
      BY StateType
    <3>2. QED BY <3>1, FS_AddElement
  <2>2. QED BY <1>2, <2>1
<1>4. n \in Nat /\ calls[n] \in SUBSET Nat
  BY StateType
<1>5. /\ stack' \in Seq(Nat) /\ DOMAIN stack' = 1..(Len(stack) + 1)
      /\ \A i \in 1..Len(stack) : stack'[i] = stack[i]
      /\ stack'[Len(stack) + 1] = n
  BY <1>4, AppendProperties DEF Enter, IInv, Typed
<1>6. OnStack' = OnStack \cup {n}
  <2>1. stack \in Seq(Nat) /\ stack' = Append(stack, n)
    BY DEF Enter, IInv, Typed
  <2>2. {Append(stack, n)[i] : i \in DOMAIN Append(stack, n)} = {stack[i] : i \in DOMAIN stack} \cup {n}
    BY <1>4, <2>1, AppendElements
  <2>3. QED BY <2>1, <2>2 DEF OnStack
<1>7. /\ frames' \in Seq(Frame) /\ Len(frames') = Len(frames) + 1
      /\ DOMAIN frames' = 1..(Len(frames) + 1)
      /\ \A i \in 1..Len(frames) : KeepsFrame(i, n)
      /\ frames'[Len(frames) + 1] = [node |-> n, left |-> calls[n]]
  <2>1. callers \in Seq(Frame) /\ Len(callers) = Len(frames) /\ Len(frames) \in Nat
    BY StateType DEF Resumes
  <2>2. [node |-> n, left |-> calls[n]] \in Frame
    BY <1>4 DEF Frame
  <2>3. frames' = Append(callers, [node |-> n, left |-> calls[n]])
    BY DEF Enter
  <2>4. \A i \in 1..Len(frames) : frames'[i] = callers[i]
    BY <2>1, <2>2, <2>3, AppendProperties
  <2>5. \A i \in 1..Len(frames) : KeepsFrame(i, n)
    BY <2>4 DEF Resumes, KeepsFrame
  <2>6. QED BY <2>1, <2>2, <2>3, <2>5, AppendProperties, LenProperties
<1>8. QED BY <1>1, <1>2, <1>3, <1>5, <1>6, <1>7

\* The node entered is called by the one on top, when there is one.
LEMMA EnterHolds ==
  ASSUME IInv, NEW n \in Nodes \ Visited, NEW callers, Resumes(callers, n), Enter(n, callers),
         frames # <<>> => n \in calls[Top.node]
  PROVE  IInv'
<1> DEFINE card == Cardinality(Visited)
           last == Len(frames) + 1
<1>1. /\ Visited' = Visited \cup {n} /\ OnStack' = OnStack \cup {n} /\ n \notin Visited
      /\ calls' = calls /\ order' = order /\ Nodes' = Nodes /\ Ranked' = Ranked
      /\ \A m \in Visited : indices'[m] = indices[m] /\ lowlink'[m] = lowlink[m]
      /\ indices'[n] = card /\ lowlink'[n] = card
  BY EnterEffect
<1>2. /\ card \in Nat /\ OnStack \subseteq Visited
      /\ \A m \in Visited : indices[m] \in Nat /\ lowlink[m] \in Nat /\ lowlink[m] <= indices[m] /\ indices[m] < card
  BY StateType DEF IInv, Numbered
<1>3. /\ last \in Nat /\ Len(frames) \in Nat /\ DOMAIN frames = 1..Len(frames)
      /\ DOMAIN frames' = 1..last /\ Len(frames') = last
      /\ \A i \in 1..last : i \in 1..Len(frames) \/ i = last
      /\ frames'[last].node = n /\ frames'[last].left = calls[n]
  <2>1. Len(frames) \in Nat /\ DOMAIN frames = 1..Len(frames)
    BY StateType
  <2>2. /\ DOMAIN frames' = 1..(Len(frames) + 1) /\ Len(frames') = Len(frames) + 1
        /\ frames'[Len(frames) + 1] = [node |-> n, left |-> calls[n]]
    BY EnterEffect
  <2>3. QED BY <2>1, <2>2
<1>b. \A i \in 1..Len(frames) : KeepsFrame(i, n)
  BY EnterEffect
<1>4. ASSUME NEW i \in 1..Len(frames)
      PROVE  /\ frames'[i].node = frames[i].node /\ frames[i].node \in OnStack
             /\ frames[i].node \in Visited
             /\ frames'[i].left \subseteq frames[i].left
             /\ frames[i].left \subseteq frames'[i].left \cup {n}
             /\ indices'[frames'[i].node] = indices[frames[i].node]
             /\ indices[frames[i].node] \in Nat
             /\ indices[frames[i].node] < card
  <2>1. frames'[i].node = frames[i].node /\ frames'[i].left \subseteq frames[i].left
        /\ frames[i].left \subseteq frames'[i].left \cup {n}
    BY <1>b DEF KeepsFrame
  <2>2. frames[i].node \in OnStack
    BY StateType
  <2>3. QED BY <2>1, <2>2, <1>1, <1>2
<1>a. n \in OnStack' /\ n \notin OnStack
  BY <1>1, <1>2
<1> HIDE DEF card, last
<1>5. Typed'
  <2>1. Visited' \subseteq Nodes' /\ DOMAIN lowlink' = Visited'
    <3>1. DOMAIN lowlink' = Visited'
      BY EnterEffect
    <3>2. Visited \subseteq Nodes
      BY StateType
    <3>3. QED BY <1>1, <3>1, <3>2
  <2>2. ASSUME NEW m \in Visited'
        PROVE  indices'[m] \in Nat /\ lowlink'[m] \in Nat /\ lowlink'[m] <= indices'[m]
    BY <1>1, <1>2
  <2>3. QED BY <1>1, <2>1, <2>2, EnterEffect DEF IInv, Typed
<1>6. Numbered'
  <2>1. Cardinality(Visited') = card + 1
    BY EnterEffect DEF card
  <2>2. ASSUME NEW m \in Visited' PROVE indices'[m] < Cardinality(Visited')
    BY <1>1, <1>2, <2>1
  <2>3. ASSUME NEW m \in Visited', NEW k \in Visited', indices'[m] = indices'[k] PROVE m = k
    BY <1>1, <1>2, <2>3 DEF IInv, Numbered
  <2>4. QED BY <2>2, <2>3 DEF Numbered
<1>7. Stacked'
  <2>1. OnStack' \subseteq Visited'
    BY <1>1, <1>2
  <2>2. /\ DOMAIN stack' = 1..(Len(stack) + 1) /\ Len(stack) \in Nat /\ DOMAIN stack = 1..Len(stack)
        /\ \A i \in 1..Len(stack) : stack'[i] = stack[i]
        /\ stack'[Len(stack) + 1] = n
    BY EnterEffect, StateType
  <2>3. \A i \in 1..Len(stack) : stack[i] \in Visited
    BY <2>2, <1>2 DEF OnStack
  <2>4. ASSUME NEW i \in DOMAIN stack', NEW j \in DOMAIN stack', i < j
        PROVE  indices'[stack'[i]] < indices'[stack'[j]]
    <3>1. i \in 1..Len(stack) /\ (j \in 1..Len(stack) \/ j = Len(stack) + 1)
      BY <2>2, <2>4
    <3>2. CASE j \in 1..Len(stack)
      BY <3>1, <3>2, <2>2, <2>3, <2>4, <1>1 DEF IInv, Stacked
    <3>3. CASE j = Len(stack) + 1
      BY <3>1, <3>3, <2>2, <2>3, <1>1, <1>2
    <3>4. QED BY <3>1, <3>2, <3>3
  <2>5. QED BY <2>1, <2>4 DEF Stacked
<1>8. Framed'
  <2>1. ASSUME NEW i \in DOMAIN frames'
        PROVE  frames'[i].node \in OnStack' /\ frames'[i].left \subseteq calls'[frames'[i].node]
    <3>1. CASE i = last
      BY <3>1, <1>1, <1>3
    <3>2. CASE i \in 1..Len(frames)
      BY <3>2, <1>1, <1>3, <1>4 DEF IInv, Framed
    <3>3. QED BY <1>3, <3>1, <3>2
  <2>2. ASSUME NEW i \in DOMAIN frames', NEW j \in DOMAIN frames', i < j
        PROVE  indices'[frames'[i].node] < indices'[frames'[j].node]
    <3>1. i \in 1..Len(frames) /\ (j \in 1..Len(frames) \/ j = last)
      BY <1>3, <2>2 DEF last
    <3>2. CASE j \in 1..Len(frames)
      BY <3>1, <3>2, <2>2, <1>3, <1>4 DEF IInv, Framed
    <3>3. CASE j = last
      BY <3>1, <3>3, <1>1, <1>3, <1>4
    <3>4. QED BY <3>1, <3>2, <3>3
  <2>3. QED BY <2>1, <2>2 DEF Framed
<1>9. Partition'
  BY <1>1, <1>2 DEF IInv, Partition
<1>10. CalleesVisited'
  <2>1. ASSUME NEW x \in OnStack', NEW m \in calls[x], m \notin Visited'
        PROVE  \E i \in DOMAIN frames' : frames'[i].node = x /\ m \in frames'[i].left
    <3>1. CASE x = n
      <4>1. last \in DOMAIN frames'
        BY <1>3 DEF last
      <4>2. QED BY <3>1, <4>1, <2>1, <1>3
    <3>2. CASE x \in OnStack
      <4>1. m \notin Visited /\ m # n
        BY <2>1, <1>1
      <4>2. PICK i \in DOMAIN frames : frames[i].node = x /\ m \in frames[i].left
        BY <3>2, <4>1, <2>1 DEF IInv, CalleesVisited
      <4>3. i \in DOMAIN frames' /\ i \in 1..Len(frames)
        BY <1>3, <4>2 DEF last
      <4>4. QED BY <4>1, <4>2, <4>3, <1>4
    <3>3. QED BY <3>1, <3>2, <1>1
  <2>2. QED BY <2>1, <1>1 DEF CalleesVisited
<1>11. Down'
  <2>1. ASSUME NEW i \in DOMAIN frames', NEW x \in OnStack', indices'[frames'[i].node] <= indices'[x]
        PROVE  Reach(calls, frames'[i].node, x)
    <3>1. CASE i = last
      <4>1. x = n
        BY <3>1, <2>1, <1>1, <1>2, <1>3
      <4>2. QED BY <4>1, <3>1, <1>3, ReachRefl
    <3>2. CASE i \in 1..Len(frames) /\ x \in OnStack
      BY <3>2, <2>1, <1>1, <1>2, <1>3, <1>4 DEF IInv, Down
    <3>3. CASE i \in 1..Len(frames) /\ x = n
      <4>1. frames # <<>>
        BY <3>3, <1>3
      <4>2. Top.node \in OnStack /\ indices[frames[i].node] <= indices[Top.node]
        BY <4>1, <3>3, <1>3, TopType
      <4>3. Reach(calls, frames[i].node, Top.node)
        BY <3>3, <4>2, <1>3 DEF IInv, Down
      <4>4. n \in calls[Top.node]
        BY <4>1
      <4>5. QED BY <3>3, <4>3, <4>4, <1>4, ReachCallee
    <3>4. QED BY <3>1, <3>2, <3>3, <1>1, <1>3
  <2>2. QED BY <2>1, <1>1 DEF Down
<1>12. Up'
  <2>1. ASSUME NEW x \in OnStack'
        PROVE  \E i \in DOMAIN frames' :
                  indices'[frames'[i].node] <= indices'[x] /\ Reach(calls, x, frames'[i].node)
    <3>1. CASE x = n
      <4>1. last \in DOMAIN frames' /\ indices'[frames'[last].node] <= indices'[x]
        BY <3>1, <1>1, <1>2, <1>3 DEF last
      <4>2. Reach(calls, x, frames'[last].node)
        BY <3>1, <1>3, ReachRefl
      <4>3. QED BY <4>1, <4>2
    <3>2. CASE x \in OnStack
      <4>1. PICK i \in DOMAIN frames : indices[frames[i].node] <= indices[x] /\ Reach(calls, x, frames[i].node)
        BY <3>2 DEF IInv, Up
      <4>2. i \in DOMAIN frames' /\ i \in 1..Len(frames)
        BY <1>3, <4>1 DEF last
      <4>3. QED BY <4>1, <4>2, <3>2, <1>1, <1>2, <1>4
    <3>3. QED BY <3>1, <3>2, <1>1
  <2>2. QED BY <2>1, <1>1 DEF Up
<1>13. LowReached'
  <2>1. ASSUME NEW x \in OnStack'
        PROVE  \E m \in OnStack' : indices'[m] = lowlink'[x] /\ Reach(calls, x, m)
    <3>1. CASE x = n
      BY <3>1, <1>1, ReachRefl
    <3>2. CASE x \in OnStack
      <4>1. PICK m \in OnStack : indices[m] = lowlink[x] /\ Reach(calls, x, m)
        BY <3>2 DEF IInv, LowReached
      <4>2. QED BY <4>1, <3>2, <1>1, <1>2
    <3>3. QED BY <3>1, <3>2, <1>1
  <2>2. QED BY <2>1, <1>1 DEF LowReached
<1>14. LowComplete'
  <2>1. ASSUME NEW i \in DOMAIN frames', NEW x \in OnStack', NEW m \in calls[x] \cap OnStack'
        PROVE  \/ indices'[x] < indices'[frames'[i].node]
               \/ i < last /\ indices'[frames'[i + 1].node] <= indices'[x]
               \/ x = frames'[i].node /\ m \in frames'[i].left
               \/ lowlink'[frames'[i].node] <= indices'[m]
    <3>1. CASE i = last
      BY <3>1, <1>1, <1>2, <1>3
    <3>2. CASE i \in 1..Len(frames) /\ x = n
      <4>1. i < last /\ i + 1 \in 1..last
        BY <3>2, <1>3 DEF last
      <4>2. indices'[frames'[i + 1].node] <= indices'[n]
        <5>1. CASE i + 1 = last
          BY <5>1, <1>1, <1>2, <1>3
        <5>2. CASE i + 1 \in 1..Len(frames)
          BY <5>2, <1>1, <1>2, <1>4
        <5>3. QED BY <5>1, <5>2, <4>1, <1>3
      <4>3. QED BY <4>1, <4>2, <3>2
    <3>3. CASE i \in 1..Len(frames) /\ x \in OnStack /\ m = n
      BY <3>3, <1>1, <1>2, <1>4
    <3>4. CASE i \in 1..Len(frames) /\ x \in OnStack /\ m \in OnStack
      <4>1. m # n /\ x # n
        BY <3>4, <1>a
      <4>2. CASE indices[x] < indices[frames[i].node]
        BY <3>4, <4>2, <1>1, <1>2, <1>4
      <4>3. CASE i < Len(frames) /\ indices[frames[i + 1].node] <= indices[x]
        <5>1. i + 1 \in 1..Len(frames) /\ i < last
          BY <3>4, <4>3, <1>3 DEF last
        <5>2. QED BY <5>1, <3>4, <4>3, <1>1, <1>2, <1>4
      <4>4. CASE x = frames[i].node /\ m \in frames[i].left
        BY <3>4, <4>1, <4>4, <1>4
      <4>5. CASE lowlink[frames[i].node] <= indices[m]
        BY <3>4, <4>5, <1>1, <1>2, <1>4
      <4>6. QED BY <3>4, <2>1, <4>2, <4>3, <4>4, <4>5, <1>3 DEF IInv, LowComplete
    <3>5. QED BY <3>1, <3>2, <3>3, <3>4, <1>1, <1>3
  <2>2. QED BY <2>1, <1>1, <1>3 DEF LowComplete
<1>15. CalleesFirst' /\ Exact'
  BY <1>1 DEF IInv, CalleesFirst, Exact
<1>16. QED
  BY <1>5, <1>6, <1>7, <1>8, <1>9, <1>10, <1>11, <1>12, <1>13, <1>14, <1>15 DEF IInv

LEMMA StartRootHolds == IInv /\ StartRoot => IInv'
<1> SUFFICES ASSUME IInv, StartRoot PROVE IInv'
  OBVIOUS
<1> DEFINE n == Least(Nodes \ Visited)
<1>1. frames = <<>> /\ Nodes \ Visited # {} /\ Enter(n, <<>>)
  BY DEF StartRoot
<1>2. n \in Nodes \ Visited
  BY <1>1, StateType, LeastProperty
<1> HIDE DEF n
<1>3. Resumes(<<>>, n)
  BY <1>1, EmptySeq DEF Resumes
<1>4. QED BY <1>1, <1>2, <1>3, EnterHolds

\* Taking a callee from what is left to the call on top.
LEMMA LeftEffect ==
  ASSUME IInv, frames # <<>>, NEW n
  PROVE  /\ Left(n) \in Seq(Frame) /\ Len(Left(n)) = Len(frames)
         /\ \A i \in 1..Len(frames) :
               /\ Left(n)[i].node = frames[i].node
               /\ Left(n)[i].left = IF i = Len(frames) THEN frames[i].left \ {n} ELSE frames[i].left
<1> DEFINE last == Len(frames)
           less == [frames[last] EXCEPT !.left = @ \ {n}]
<1>1. frames \in Seq(Frame) /\ last \in 1..Len(frames) /\ frames[last] \in Frame
  BY TopType, StateType DEF IInv, Typed
<1>2. less \in Frame /\ less.node = frames[last].node /\ less.left = frames[last].left \ {n}
  BY <1>1 DEF Frame
<1>3. Left(n) = [frames EXCEPT ![last] = less]
  BY DEF Left
<1> HIDE DEF last, less
<1>4. /\ Left(n) \in Seq(Frame) /\ Len(Left(n)) = Len(frames)
      /\ \A i \in 1..Len(frames) : Left(n)[i] = IF i = last THEN less ELSE frames[i]
  BY <1>1, <1>2, <1>3, ExceptSeq
<1>5. QED BY <1>2, <1>4 DEF last

LEMMA DescendHolds == IInv /\ Descend => IInv'
<1> SUFFICES ASSUME IInv, Descend PROVE IInv'
  OBVIOUS
<1> DEFINE n == Least(Top.left)
<1>1. frames # <<>> /\ Top.left # {} /\ n \notin Visited /\ Enter(n, Left(n))
  BY DEF Descend
<1>2. n \in Top.left
  <2>1. Top.left \in SUBSET Nat
    BY <1>1, TopType DEF Frame
  <2>2. QED BY <1>1, <2>1, LeastProperty
<1> HIDE DEF n
<1>3. n \in calls[Top.node] /\ n \in Nodes
  BY <1>1, <1>2, TopType, StateType
<1>4. Resumes(Left(n), n)
  BY <1>1, LeftEffect DEF Resumes
<1>5. QED BY <1>1, <1>3, <1>4, EnterHolds

(***************************************************************************)
(* A callee visited before.                                                *)
(***************************************************************************)
LEMMA LowerProperty ==
  ASSUME NEW a \in Nat, NEW b \in Nat
  PROVE  /\ Lower(a, b) \in Nat /\ Lower(a, b) <= a /\ Lower(a, b) <= b
         /\ Lower(a, b) = a \/ Lower(a, b) = b
BY DEF Lower

\* What the visits and the components determine, a step that adds to neither keeps.
LEMMA OrderKept ==
  ASSUME Numbered, Stacked, Partition, CalleesFirst, Exact,
         UNCHANGED <<calls, indices, stack, order>>
  PROVE  Numbered' /\ Stacked' /\ Partition' /\ CalleesFirst' /\ Exact'
<1>1. Visited' = Visited /\ OnStack' = OnStack /\ Nodes' = Nodes /\ Ranked' = Ranked
  BY DEF Visited, OnStack, Nodes, Ranked
<1>2. Numbered'
  BY <1>1 DEF Numbered
<1>3. Stacked'
  BY <1>1 DEF Stacked
<1>4. Partition'
  BY <1>1 DEF Partition
<1>5. CalleesFirst' /\ Exact'
  BY <1>1 DEF CalleesFirst, Exact
<1>6. QED BY <1>2, <1>3, <1>4, <1>5

LEMMA SkipHolds == IInv /\ Skip => IInv'
<1> SUFFICES ASSUME IInv, Skip PROVE IInv'
  OBVIOUS
<1> DEFINE n == Least(Top.left)
           w == Top.node
<1>1. /\ frames # <<>> /\ Top.left # {} /\ n \in Visited
      /\ lowlink' = IF n \in OnStack THEN [lowlink EXCEPT ![w] = Lower(@, indices[n])] ELSE lowlink
      /\ frames' = Left(n)
      /\ calls' = calls /\ indices' = indices /\ stack' = stack /\ order' = order
  BY DEF Skip
<1>2. n \in Top.left
  <2>1. Top.left \in SUBSET Nat
    BY <1>1, TopType DEF Frame
  <2>2. QED BY <1>1, <2>1, LeastProperty
<1>3. w \in OnStack /\ w \in Visited /\ n \in calls[w]
  BY <1>1, <1>2, TopType, StateType
<1>4. \A m \in Visited : indices[m] \in Nat /\ lowlink[m] \in Nat /\ lowlink[m] <= indices[m]
  BY StateType
<1>5. Visited' = Visited /\ OnStack' = OnStack /\ Nodes' = Nodes /\ Ranked' = Ranked
  BY <1>1 DEF Visited, OnStack, Nodes, Ranked
<1>6. /\ frames' \in Seq(Frame) /\ Len(frames') = Len(frames)
      /\ DOMAIN frames' = 1..Len(frames) /\ DOMAIN frames = 1..Len(frames)
      /\ Len(frames) \in Nat /\ Len(frames) \in DOMAIN frames
      /\ \A i \in 1..Len(frames) :
            /\ frames'[i].node = frames[i].node
            /\ frames'[i].left = IF i = Len(frames) THEN frames[i].left \ {n} ELSE frames[i].left
  <2>1. /\ frames' \in Seq(Frame) /\ Len(frames') = Len(frames)
        /\ \A i \in 1..Len(frames) :
            /\ frames'[i].node = frames[i].node
            /\ frames'[i].left = IF i = Len(frames) THEN frames[i].left \ {n} ELSE frames[i].left
    BY <1>1, LeftEffect
  <2>2. DOMAIN frames = 1..Len(frames) /\ Len(frames) \in Nat /\ Len(frames) \in DOMAIN frames
    BY <1>1, StateType, TopType
  <2>3. QED BY <2>1, <2>2, LenProperties
<1>7. w = frames[Len(frames)].node
  BY DEF Top
<1> HIDE DEF n, w
<1>8. /\ DOMAIN lowlink' = Visited /\ DOMAIN lowlink = Visited
      /\ \A m \in Visited : lowlink'[m] \in Nat /\ lowlink'[m] <= lowlink[m]
      /\ \A m \in Visited : m # w => lowlink'[m] = lowlink[m]
      /\ n \notin OnStack => lowlink'[w] = lowlink[w]
      /\ n \in OnStack => /\ lowlink'[w] <= indices[n]
                          /\ lowlink'[w] = lowlink[w] \/ lowlink'[w] = indices[n]
  <2>1. DOMAIN lowlink = Visited
    BY StateType
  <2>2. CASE n \in OnStack
    <3>1. lowlink' = [lowlink EXCEPT ![w] = Lower(lowlink[w], indices[n])]
      BY <1>1, <2>2
    <3>2. /\ Lower(lowlink[w], indices[n]) \in Nat
          /\ Lower(lowlink[w], indices[n]) <= lowlink[w] /\ Lower(lowlink[w], indices[n]) <= indices[n]
          /\ Lower(lowlink[w], indices[n]) = lowlink[w] \/ Lower(lowlink[w], indices[n]) = indices[n]
      BY <1>1, <1>3, <1>4, LowerProperty
    <3>3. QED BY <2>1, <2>2, <3>1, <3>2, <1>3, <1>4
  <2>3. CASE n \notin OnStack
    BY <2>1, <2>3, <1>1, <1>4
  <2>4. QED BY <2>2, <2>3
<1>9. Typed' /\ Numbered' /\ Stacked' /\ Partition' /\ CalleesFirst' /\ Exact'
  <2>1. \A m \in Visited : lowlink'[m] <= indices[m]
    BY <1>4, <1>8
  <2>2. Typed'
    BY <2>1, <1>1, <1>4, <1>5, <1>6, <1>8 DEF IInv, Typed
  <2>3. Numbered' /\ Stacked' /\ Partition' /\ CalleesFirst' /\ Exact'
    BY <1>1, OrderKept DEF IInv
  <2>4. QED BY <2>2, <2>3
<1>10. Framed'
  BY <1>1, <1>5, <1>6 DEF IInv, Framed
<1>11. CalleesVisited'
  <2>1. ASSUME NEW x \in OnStack, NEW m \in calls[x], m \notin Visited
        PROVE  \E i \in DOMAIN frames' : frames'[i].node = x /\ m \in frames'[i].left
    <3>1. PICK i \in DOMAIN frames : frames[i].node = x /\ m \in frames[i].left
      BY <2>1 DEF IInv, CalleesVisited
    <3>2. m # n
      BY <2>1, <1>1
    <3>3. QED BY <3>1, <3>2, <1>6
  <2>2. QED BY <2>1, <1>1, <1>5 DEF CalleesVisited
<1>12. Down' /\ Up'
  BY <1>1, <1>5, <1>6 DEF IInv, Down, Up
<1>13. LowReached'
  <2>1. ASSUME NEW x \in OnStack
        PROVE  \E m \in OnStack : indices[m] = lowlink'[x] /\ Reach(calls, x, m)
    <3>1. CASE lowlink'[x] = lowlink[x]
      BY <3>1 DEF IInv, LowReached
    <3>2. CASE x = w /\ n \in OnStack /\ lowlink'[w] = indices[n]
      BY <3>2, <1>3, ReachRefl, ReachCallee
    <3>3. QED BY <3>1, <3>2, <1>8, StateType
  <2>2. QED BY <2>1, <1>1, <1>5 DEF LowReached
<1>14. LowComplete'
  <2>1. ASSUME NEW i \in DOMAIN frames, NEW x \in OnStack, NEW m \in calls[x] \cap OnStack
        PROVE  \/ indices[x] < indices[frames[i].node]
               \/ i < Len(frames) /\ indices[frames[i + 1].node] <= indices[x]
               \/ x = frames[i].node /\ m \in frames'[i].left
               \/ lowlink'[frames[i].node] <= indices[m]
    <3>1. frames[i].node \in Visited /\ m \in Visited /\ i \in 1..Len(frames)
      BY <1>6, StateType
    <3>2. CASE x = frames[i].node /\ m \in frames[i].left
      <4>1. CASE i = Len(frames) /\ m = n
        BY <4>1, <1>7, <1>8
      <4>2. CASE ~ (i = Len(frames) /\ m = n)
        BY <4>2, <3>1, <3>2, <1>6
      <4>3. QED BY <4>1, <4>2
    <3>3. CASE lowlink[frames[i].node] <= indices[m]
      BY <3>1, <3>3, <1>4, <1>8
    <3>4. QED BY <3>2, <3>3 DEF IInv, LowComplete
  <2>2. ASSUME NEW i \in DOMAIN frames', i < Len(frames')
        PROVE  frames'[i + 1].node = frames[i + 1].node
    <3>1. i \in 1..Len(frames) /\ i < Len(frames) /\ Len(frames) \in Nat
      BY <2>2, <1>6
    <3>2. i + 1 \in 1..Len(frames)
      BY <3>1
    <3>3. QED BY <3>2, <1>6
  <2>3. ASSUME NEW i \in DOMAIN frames', NEW x \in OnStack, NEW m \in calls[x] \cap OnStack
        PROVE  \/ indices[x] < indices[frames'[i].node]
               \/ i < Len(frames') /\ indices[frames'[i + 1].node] <= indices[x]
               \/ x = frames'[i].node /\ m \in frames'[i].left
               \/ lowlink'[frames'[i].node] <= indices[m]
    <3>1. i \in DOMAIN frames /\ frames'[i].node = frames[i].node /\ Len(frames') = Len(frames)
      BY <1>6
    <3>2. QED BY <2>1, <2>2, <3>1
  <2>4. QED BY <2>3, <1>1, <1>5 DEF LowComplete
<1>15. QED
  BY <1>9, <1>10, <1>11, <1>12, <1>13, <1>14 DEF IInv

(***************************************************************************)
(* A call of strongconnect ends.                                           *)
(***************************************************************************)
LEMMA PrefixProperties ==
  ASSUME NEW T, NEW s \in Seq(T), NEW k \in 0..Len(s)
  PROVE  /\ SubSeq(s, 1, k) \in Seq(T) /\ Len(SubSeq(s, 1, k)) = k /\ DOMAIN SubSeq(s, 1, k) = 1..k
         /\ \A i \in 1..k : SubSeq(s, 1, k)[i] = s[i]
<1>1. 1 \in Int /\ k \in Int /\ k \in Nat
  BY LenProperties
<1>2. \A i \in 1..k : s[i] \in T
  BY <1>1, LenProperties
<1>3. /\ SubSeq(s, 1, k) \in Seq(T)
      /\ Len(SubSeq(s, 1, k)) = IF 1 <= k THEN k - 1 + 1 ELSE 0
      /\ \A i \in 1..(k - 1 + 1) : SubSeq(s, 1, k)[i] = s[1 + i - 1]
  BY <1>1, <1>2, SubSeqProperties
<1>4. (IF 1 <= k THEN k - 1 + 1 ELSE 0) = k /\ \A i \in 1..k : i \in 1..(k - 1 + 1) /\ 1 + i - 1 = i
  BY <1>1
<1>5. QED BY <1>3, <1>4, LenProperties

LEMMA CallersEffect ==
  ASSUME IInv, frames # <<>>
  PROVE  /\ Callers \in Seq(Frame) /\ Len(Callers) = Len(frames) - 1
         /\ DOMAIN Callers = 1..(Len(frames) - 1)
         /\ \A i \in 1..(Len(frames) - 1) : Callers[i] = frames[i]
<1>1. frames \in Seq(Frame) /\ Len(frames) - 1 \in 0..Len(frames)
  BY TopType DEF IInv, Typed
<1>2. QED BY <1>1, PrefixProperties DEF Callers

\* The caller learns the lowlink of its callee, if that is lower than its own.
LEMMA CallerLowlinkEffect ==
  ASSUME IInv, frames # <<>>, Len(frames) > 1
  PROVE  LET p == frames[Len(frames) - 1].node
             low == CallerLowlink(Top.node)
         IN  /\ DOMAIN low = Visited
             /\ p \in OnStack
             /\ indices[p] < indices[Top.node]
             /\ \A m \in Visited : low[m] = IF m = p THEN Lower(lowlink[p], lowlink[Top.node])
                                                     ELSE lowlink[m]
<1> DEFINE k == Len(frames) - 1
           p == frames[k].node
<1>1. k \in DOMAIN frames /\ Len(frames) \in DOMAIN frames /\ k < Len(frames)
  BY StateType, TopType
<1>2. p \in OnStack /\ indices[p] < indices[Top.node]
  BY <1>1 DEF IInv, Framed, Top
<1>3. CallerLowlink(Top.node) = [lowlink EXCEPT ![p] = Lower(@, lowlink[Top.node])]
  BY StateType DEF CallerLowlink
<1> HIDE DEF k, p
<1>4. DOMAIN CallerLowlink(Top.node) = Visited
  BY <1>3, StateType
<1>5. \A m \in Visited : CallerLowlink(Top.node)[m] = IF m = p THEN Lower(lowlink[p], lowlink[Top.node])
                                                               ELSE lowlink[m]
  BY <1>3, StateType
<1>6. QED BY <1>2, <1>4, <1>5 DEF k, p

LEMMA FinishHolds == IInv /\ Finish => IInv'
<1> SUFFICES ASSUME IInv, Finish PROVE IInv'
  OBVIOUS
<1> DEFINE w == Top.node
           last == Len(frames)
           k == Len(frames) - 1
           p == frames[k].node
<1>1. /\ frames # <<>> /\ Top.left = {} /\ lowlink[w] # indices[w]
      /\ lowlink' = CallerLowlink(w)
      /\ frames' = Callers
      /\ calls' = calls /\ indices' = indices /\ stack' = stack /\ order' = order
  BY DEF Finish
<1>2. \A m \in Visited : indices[m] \in Nat /\ lowlink[m] \in Nat /\ lowlink[m] <= indices[m]
  BY StateType
<1>3. /\ last \in Nat \ {0} /\ last \in DOMAIN frames /\ DOMAIN frames = 1..last
      /\ w \in OnStack /\ w \in Visited /\ OnStack \subseteq Visited
      /\ frames[last].node = w /\ frames[last].left = {}
  BY <1>1, TopType, StateType DEF Top
<1>4. \A i \in DOMAIN frames : frames[i].node \in OnStack
  BY StateType
<1>5. lowlink[w] < indices[w]
  BY <1>1, <1>2, <1>3
<1>6. PICK below \in OnStack : indices[below] = lowlink[w] /\ Reach(calls, w, below)
  BY <1>3 DEF IInv, LowReached
<1>7. PICK j \in DOMAIN frames : indices[frames[j].node] <= indices[below] /\ Reach(calls, below, frames[j].node)
  BY <1>6 DEF IInv, Up
<1>8. indices[frames[j].node] < indices[w] /\ j # last /\ j \in 1..k /\ k \in 1..last /\ k < last
  <2>1. indices[frames[j].node] \in Nat /\ indices[below] \in Nat /\ indices[w] \in Nat /\ lowlink[w] \in Nat
    BY <1>2, <1>3, <1>4, <1>6, <1>7
  <2>2. indices[frames[j].node] < indices[w]
    BY <2>1, <1>5, <1>6, <1>7
  <2>3. j # last
    BY <2>1, <2>2, <1>3
  <2>4. QED BY <2>2, <2>3, <1>3, <1>7
<1>9. Reach(calls, w, frames[j].node)
  BY <1>6, <1>7, ReachTrans
<1>10. /\ frames' \in Seq(Frame) /\ Len(frames') = k /\ DOMAIN frames' = 1..k /\ k \in Nat
       /\ \A i \in 1..k : frames'[i] = frames[i] /\ i \in DOMAIN frames
  <2>1. \A i \in 1..k : i \in DOMAIN frames
    BY <1>3
  <2>2. /\ Callers \in Seq(Frame) /\ Len(Callers) = k /\ DOMAIN Callers = 1..k
        /\ \A i \in 1..k : Callers[i] = frames[i]
    BY <1>1, CallersEffect
  <2>3. QED BY <1>1, <1>8, <2>1, <2>2, <1>3
<1>11. /\ DOMAIN lowlink' = Visited /\ p \in OnStack /\ p \in Visited /\ indices[p] < indices[w]
       /\ \A m \in Visited : lowlink'[m] = IF m = p THEN Lower(lowlink[p], lowlink[w]) ELSE lowlink[m]
  <2>1. Len(frames) > 1
    BY <1>3, <1>8
  <2>2. QED BY <1>1, <1>3, <2>1, CallerLowlinkEffect
<1>12. Visited' = Visited /\ OnStack' = OnStack /\ Nodes' = Nodes
  BY <1>1 DEF Visited, OnStack, Nodes
<1> HIDE DEF w, last, k, p
<1>13. /\ \A m \in Visited : lowlink'[m] \in Nat /\ lowlink'[m] <= lowlink[m] /\ lowlink'[m] <= indices[m]
       /\ lowlink'[p] <= lowlink[w]
       /\ lowlink'[p] = lowlink[p] \/ lowlink'[p] = lowlink[w]
  <2>1. /\ Lower(lowlink[p], lowlink[w]) \in Nat
        /\ Lower(lowlink[p], lowlink[w]) <= lowlink[p] /\ Lower(lowlink[p], lowlink[w]) <= lowlink[w]
        /\ Lower(lowlink[p], lowlink[w]) = lowlink[p] \/ Lower(lowlink[p], lowlink[w]) = lowlink[w]
    BY <1>2, <1>3, <1>11, LowerProperty
  <2>2. lowlink'[p] = Lower(lowlink[p], lowlink[w]) /\ \A m \in Visited : m # p => lowlink'[m] = lowlink[m]
    BY <1>11
  <2>3. QED BY <2>1, <2>2, <1>2, <1>11
<1>14. Typed'
  BY <1>1, <1>2, <1>10, <1>11, <1>12, <1>13 DEF IInv, Typed
<1>15. Numbered' /\ Stacked' /\ Partition' /\ CalleesFirst' /\ Exact'
  BY <1>1, OrderKept DEF IInv
<1>16. Framed'
  BY <1>1, <1>10, <1>12 DEF IInv, Framed
<1>17. CalleesVisited'
  <2>1. ASSUME NEW x \in OnStack, NEW m \in calls[x], m \notin Visited
        PROVE  \E i \in DOMAIN frames' : frames'[i].node = x /\ m \in frames'[i].left
    <3>1. PICK i \in DOMAIN frames : frames[i].node = x /\ m \in frames[i].left
      BY <2>1 DEF IInv, CalleesVisited
    <3>2. i # last /\ i \in 1..k
      BY <3>1, <1>3 DEF k, last
    <3>3. QED BY <3>1, <3>2, <1>10
  <2>2. QED BY <2>1, <1>1, <1>12 DEF CalleesVisited
<1>18. Down'
  BY <1>1, <1>10, <1>12 DEF IInv, Down
<1>19. Up'
  <2>1. ASSUME NEW x \in OnStack
        PROVE  \E i \in 1..k : indices[frames[i].node] <= indices[x] /\ Reach(calls, x, frames[i].node)
    <3>1. PICK i \in DOMAIN frames : indices[frames[i].node] <= indices[x] /\ Reach(calls, x, frames[i].node)
      BY DEF IInv, Up
    <3>2. CASE i = last
      <4>1. Reach(calls, x, frames[j].node)
        BY <3>1, <3>2, <1>3, <1>9, ReachTrans
      <4>2. indices[frames[j].node] <= indices[x]
        BY <3>1, <3>2, <1>2, <1>3, <1>4, <1>7, <1>8
      <4>3. QED BY <4>1, <4>2, <1>8
    <3>3. CASE i # last
      <4>1. i \in 1..k
        BY <3>1, <3>3, <1>3 DEF k, last
      <4>2. QED BY <3>1, <4>1
    <3>4. QED BY <3>2, <3>3
  <2>2. QED BY <2>1, <1>1, <1>10, <1>12 DEF Up
<1>20. LowReached'
  <2>1. ASSUME NEW x \in OnStack
        PROVE  \E m \in OnStack : indices[m] = lowlink'[x] /\ Reach(calls, x, m)
    <3>1. CASE lowlink'[x] = lowlink[x]
      BY <3>1 DEF IInv, LowReached
    <3>2. CASE x = p /\ lowlink'[p] = lowlink[w]
      <4>1. Reach(calls, p, w)
        <5>1. k \in DOMAIN frames /\ p = frames[k].node /\ indices[p] <= indices[w]
          BY <1>2, <1>3, <1>8, <1>11 DEF p
        <5>2. QED BY <5>1, <1>3 DEF IInv, Down
      <4>2. Reach(calls, p, below)
        BY <4>1, <1>6, ReachTrans
      <4>3. QED BY <3>2, <4>2, <1>6
    <3>3. QED BY <3>1, <3>2, <1>3, <1>11, <1>13
  <2>2. QED BY <2>1, <1>1, <1>12 DEF LowReached
<1>21. LowComplete'
  <2>1. ASSUME NEW i \in 1..k, NEW x \in OnStack, NEW m \in calls[x] \cap OnStack
        PROVE  \/ indices[x] < indices[frames[i].node]
               \/ i < k /\ indices[frames[i + 1].node] <= indices[x]
               \/ x = frames[i].node /\ m \in frames[i].left
               \/ lowlink'[frames[i].node] <= indices[m]
    <3>1. frames[i].node \in Visited /\ m \in Visited /\ i \in DOMAIN frames /\ x \in Visited
      BY <1>3, <1>4, <1>10
    <3>2. CASE lowlink[frames[i].node] <= indices[m]
      BY <3>1, <3>2, <1>2, <1>13
    <3>3. CASE i = k /\ indices[w] <= indices[x]
      <4>1. lowlink[w] <= indices[m]
        <5>1. \/ indices[x] < indices[frames[last].node]
              \/ last < last
              \/ x = frames[last].node /\ m \in frames[last].left
              \/ lowlink[frames[last].node] <= indices[m]
          BY <1>3 DEF IInv, LowComplete, last
        <5>2. QED BY <5>1, <3>1, <3>3, <1>2, <1>3
      <4>2. QED BY <4>1, <3>1, <3>3, <1>2, <1>3, <1>11, <1>13 DEF p
    <3>4. CASE i < last /\ indices[frames[i + 1].node] <= indices[x]
      <4>1. i < k \/ (i = k /\ i + 1 = last)
        <5>1. k \in Nat /\ last = k + 1
          BY <1>3, <1>10 DEF k, last
        <5>2. QED BY <5>1, <3>4
      <4>2. QED BY <4>1, <3>3, <3>4, <1>3
    <3>5. QED BY <3>1, <3>2, <3>4 DEF IInv, LowComplete, last
  <2>2. ASSUME NEW i \in DOMAIN frames', NEW x \in OnStack, NEW m \in calls[x] \cap OnStack
        PROVE  \/ indices[x] < indices[frames'[i].node]
               \/ i < Len(frames') /\ indices[frames'[i + 1].node] <= indices[x]
               \/ x = frames'[i].node /\ m \in frames'[i].left
               \/ lowlink'[frames'[i].node] <= indices[m]
    <3>1. i \in 1..k /\ frames'[i] = frames[i] /\ Len(frames') = k
      BY <1>10
    <3>2. i < k => frames'[i + 1] = frames[i + 1]
      <4>1. i < k => i + 1 \in 1..k
        BY <3>1, <1>10
      <4>2. QED BY <4>1, <1>10
    <3>3. QED BY <2>1, <3>1, <3>2
  <2>3. QED BY <2>2, <1>1, <1>12 DEF LowComplete
<1>22. QED
  BY <1>14, <1>15, <1>16, <1>17, <1>18, <1>19, <1>20, <1>21 DEF IInv

(***************************************************************************)
(* A component is complete.                                                *)
(***************************************************************************)
\* What lies on the stack from the node on top on: a component in the making.
Cut == {x \in OnStack : indices[Top.node] <= indices[x]}

\* A set closed under calls holds all that its elements reach.
LEMMA ClosedReach ==
  ASSUME NEW S \in SUBSET Nodes, \A x \in S : calls[x] \subseteq S,
         NEW a \in S, NEW b, Reach(calls, a, b)
  PROVE  b \in S
BY DEF Reach, Nodes

\* Complete components call no function outside of them.
LEMMA RankedClosed ==
  ASSUME IInv
  PROVE  \A x \in Ranked : calls[x] \subseteq Ranked
<1> SUFFICES ASSUME NEW x \in Ranked PROVE calls[x] \subseteq Ranked
  OBVIOUS
<1>1. PICK i \in DOMAIN order : x \in order[i]
  BY DEF Ranked
<1>2. calls[x] \subseteq UNION {order[j] : j \in 1..i}
  BY <1>1 DEF IInv, CalleesFirst
<1>3. \A j \in 1..i : j \in DOMAIN order
  BY <1>1, StateType
<1>4. QED BY <1>2, <1>3 DEF Ranked

\* The functions of the cut call nothing but each other and complete components ...
LEMMA CutClosed ==
  ASSUME IInv, frames # <<>>, Top.left = {}, lowlink[Top.node] = indices[Top.node]
  PROVE  \A x \in Cut : calls[x] \subseteq Cut \cup Ranked
<1> SUFFICES ASSUME NEW x \in Cut, NEW m \in calls[x] PROVE m \in Cut \cup Ranked
  OBVIOUS
<1> DEFINE last == Len(frames)
<1>1. /\ last \in DOMAIN frames /\ frames[last] = Top /\ Top.node \in OnStack
      /\ x \in OnStack /\ indices[Top.node] <= indices[x]
      /\ \A i \in DOMAIN frames : indices[frames[i].node] \in Nat
      /\ \A n \in OnStack : indices[n] \in Nat
  BY TopType, StateType DEF Cut, Top
<1>2. ASSUME NEW i \in DOMAIN frames, frames[i].node = x PROVE frames[i].left = {}
  <2>1. i = last \/ i < last
    BY StateType
  <2>2. i < last => indices[frames[i].node] < indices[Top.node]
    BY <1>1 DEF IInv, Framed
  <2>3. i = last
    BY <2>1, <2>2, <1>1, <1>2
  <2>4. QED BY <2>3, <1>1
<1>3. m \in Visited
  BY <1>1, <1>2 DEF IInv, CalleesVisited
<1>4. CASE m \in OnStack
  <2>1. \/ indices[x] < indices[frames[last].node]
        \/ last < last
        \/ x = frames[last].node /\ m \in frames[last].left
        \/ lowlink[frames[last].node] <= indices[m]
    BY <1>1, <1>4 DEF IInv, LowComplete
  <2>2. last \in Nat
    BY StateType
  <2>3. indices[Top.node] <= indices[m]
    BY <2>1, <2>2, <1>1
  <2>4. QED BY <2>3, <1>4 DEF Cut
<1>5. QED BY <1>3, <1>4 DEF IInv, Partition

\* ... and reach each other and no other function that reaches them.
LEMMA CutExact ==
  ASSUME IInv, frames # <<>>, Top.left = {}, lowlink[Top.node] = indices[Top.node]
  PROVE  \A a \in Cut, b \in Nodes : b \in Cut <=> Reach(calls, a, b) /\ Reach(calls, b, a)
<1>1. /\ Len(frames) \in DOMAIN frames /\ frames[Len(frames)] = Top /\ Top.node \in OnStack
      /\ \A i \in DOMAIN frames : indices[frames[i].node] <= indices[Top.node]
  BY TopType DEF Top
<1>2. ASSUME NEW c \in Cut PROVE Reach(calls, Top.node, c) /\ Reach(calls, c, Top.node)
  <2>1. c \in OnStack /\ indices[Top.node] <= indices[c]
    BY DEF Cut
  <2>2. Reach(calls, Top.node, c)
    BY <1>1, <2>1 DEF IInv, Down
  <2>3. PICK i \in DOMAIN frames : Reach(calls, c, frames[i].node)
    BY <2>1 DEF IInv, Up
  <2>4. Reach(calls, frames[i].node, Top.node)
    BY <1>1 DEF IInv, Down
  <2>5. QED BY <2>2, <2>3, <2>4, ReachTrans
<1>3. ASSUME NEW a \in Cut, NEW b \in Cut PROVE Reach(calls, a, b)
  <2>1. Reach(calls, a, Top.node) /\ Reach(calls, Top.node, b)
    BY <1>2
  <2>2. QED BY <2>1, ReachTrans
<1>4. ASSUME NEW a \in Cut, NEW b \in Nodes, Reach(calls, a, b), Reach(calls, b, a) PROVE b \in Cut
  <2>1. Cut \subseteq Nodes /\ Ranked \subseteq Nodes /\ a \notin Ranked
    BY StateType DEF Cut, IInv, Partition
  <2>2. \A x \in Cut \cup Ranked : calls[x] \subseteq Cut \cup Ranked
    BY CutClosed, RankedClosed
  <2>3. b \in Cut \cup Ranked
    <3>1. Cut \cup Ranked \in SUBSET Nodes /\ a \in Cut \cup Ranked
      BY <2>1
    <3>2. QED BY <2>2, <3>1, <1>4, ClosedReach
  <2>4. b \notin Ranked
    <3>1. ASSUME b \in Ranked PROVE FALSE
      <4>1. Ranked \in SUBSET Nodes
        BY <2>1
      <4>2. a \in Ranked
        BY <3>1, <4>1, <1>4, RankedClosed, ClosedReach
      <4>3. QED BY <2>1, <4>2
    <3>2. QED BY <3>1
  <2>5. QED BY <2>3, <2>4
<1>5. QED BY <1>3, <1>4

\* The stack is cut at the node on top.
LEMMA CutEffect ==
  ASSUME IInv, frames # <<>>, NEW first \in DOMAIN stack, stack[first] = Top.node
  PROVE  /\ {stack[i] : i \in first..Len(stack)} = Cut
         /\ SubSeq(stack, 1, first - 1) \in Seq(Nat)
         /\ DOMAIN SubSeq(stack, 1, first - 1) = 1..(first - 1) /\ first \in 1..Len(stack)
         /\ \A i \in 1..(first - 1) : SubSeq(stack, 1, first - 1)[i] = stack[i]
         /\ {stack[i] : i \in 1..(first - 1)} = OnStack \ Cut
<1>1. DOMAIN stack = 1..Len(stack) /\ Len(stack) \in Nat /\ stack \in Seq(Nat)
  BY StateType DEF IInv, Typed
<1>2. first \in 1..Len(stack) /\ stack[first] = Top.node
  BY <1>1
<1>3. \A i \in 1..Len(stack) : stack[i] \in OnStack /\ indices[stack[i]] \in Nat
  BY <1>1, StateType DEF OnStack
<1>4. ASSUME NEW i \in 1..Len(stack) PROVE i >= first <=> indices[Top.node] <= indices[stack[i]]
  <2>1. i < first => indices[stack[i]] < indices[stack[first]]
    BY <1>1, <1>2 DEF IInv, Stacked
  <2>2. first < i => indices[stack[first]] < indices[stack[i]]
    BY <1>1, <1>2 DEF IInv, Stacked
  <2>3. i = first \/ i < first \/ first < i
    BY <1>1, <1>2
  <2>4. indices[stack[first]] \in Nat /\ indices[stack[i]] \in Nat
    BY <1>2, <1>3
  <2>5. QED BY <2>1, <2>2, <2>3, <2>4, <1>2
<1>5. {stack[i] : i \in first..Len(stack)} = Cut
  <2>1. ASSUME NEW x \in Cut PROVE \E i \in first..Len(stack) : x = stack[i]
    <3>1. PICK i \in 1..Len(stack) : x = stack[i]
      BY <1>1 DEF Cut, OnStack
    <3>2. i >= first
      BY <3>1, <1>4 DEF Cut
    <3>3. QED BY <3>1, <3>2, <1>1, <1>2
  <2>2. ASSUME NEW i \in first..Len(stack) PROVE stack[i] \in Cut
    <3>1. i \in 1..Len(stack) /\ i >= first
      BY <1>1, <1>2
    <3>2. QED BY <3>1, <1>3, <1>4 DEF Cut
  <2>3. QED BY <2>1, <2>2
<1>6. {stack[i] : i \in 1..(first - 1)} = OnStack \ Cut
  <2>1. ASSUME NEW x \in OnStack, x \notin Cut PROVE \E i \in 1..(first - 1) : x = stack[i]
    <3>1. PICK i \in 1..Len(stack) : x = stack[i]
      BY <1>1 DEF OnStack
    <3>2. ~ (i >= first)
      BY <2>1, <3>1, <1>4 DEF Cut
    <3>3. QED BY <3>1, <3>2, <1>1, <1>2
  <2>2. ASSUME NEW i \in 1..(first - 1) PROVE stack[i] \in OnStack /\ stack[i] \notin Cut
    <3>1. i \in 1..Len(stack) /\ ~ (i >= first)
      BY <1>1, <1>2
    <3>2. QED BY <3>1, <1>3, <1>4 DEF Cut
  <2>3. QED BY <2>1, <2>2
<1>7. /\ SubSeq(stack, 1, first - 1) \in Seq(Nat)
      /\ DOMAIN SubSeq(stack, 1, first - 1) = 1..(first - 1)
      /\ \A i \in 1..(first - 1) : SubSeq(stack, 1, first - 1)[i] = stack[i]
  <2>1. first - 1 \in 0..Len(stack)
    BY <1>1, <1>2
  <2>2. QED BY <1>1, <2>1, PrefixProperties
<1>8. QED BY <1>2, <1>5, <1>6, <1>7

LEMMA CompleteEffect ==
  ASSUME IInv, Complete
  PROVE  /\ frames # <<>> /\ Top.left = {} /\ lowlink[Top.node] = indices[Top.node]
         /\ Visited' = Visited /\ OnStack' = OnStack \ Cut /\ Nodes' = Nodes
         /\ calls' = calls /\ indices' = indices
         /\ DOMAIN lowlink' = Visited /\ \A m \in Visited : lowlink'[m] = lowlink[m]
         /\ stack' \in Seq(Nat) /\ \A i \in DOMAIN stack' : i \in DOMAIN stack /\ stack'[i] = stack[i]
         /\ order' \in Seq(SUBSET Nat) /\ DOMAIN order' = 1..(Len(order) + 1)
         /\ \A i \in 1..Len(order) : order'[i] = order[i]
         /\ order'[Len(order) + 1] = Cut
         /\ Ranked' = Ranked \cup Cut
         /\ frames' \in Seq(Frame) /\ Len(frames') = Len(frames) - 1
         /\ DOMAIN frames' = 1..(Len(frames) - 1)
         /\ \A i \in 1..(Len(frames) - 1) : frames'[i] = frames[i]
<1> DEFINE v == Top.node
           first == CHOOSE i \in DOMAIN stack : stack[i] = v
           component == {stack[i] : i \in first..Len(stack)}
           rest == SubSeq(stack, 1, first - 1)
<1>1. /\ frames # <<>> /\ Top.left = {} /\ lowlink[v] = indices[v]
      /\ order' = Append(order, component) /\ stack' = rest
      /\ lowlink' = CallerLowlink(v) /\ frames' = Callers
      /\ calls' = calls /\ indices' = indices
  BY DEF Complete
<1>2. v \in OnStack /\ Visited' = Visited /\ Nodes' = Nodes
  BY <1>1, TopType DEF Visited, Nodes
<1>3. first \in DOMAIN stack /\ stack[first] = v
  BY <1>2 DEF OnStack
<1>4. /\ DOMAIN stack = 1..Len(stack) /\ Len(stack) \in Nat
      /\ DOMAIN order = 1..Len(order) /\ Len(order) \in Nat /\ order \in Seq(SUBSET Nat)
  BY StateType DEF IInv, Typed
<1> HIDE DEF first
<1>5. /\ component = Cut /\ rest \in Seq(Nat) /\ DOMAIN rest = 1..(first - 1)
      /\ \A i \in 1..(first - 1) : rest[i] = stack[i]
      /\ {stack[i] : i \in 1..(first - 1)} = OnStack \ Cut
  BY <1>1, <1>3, CutEffect
<1> HIDE DEF component, rest
<1>6. stack' \in Seq(Nat) /\ \A i \in DOMAIN stack' : i \in DOMAIN stack /\ stack'[i] = stack[i]
  <2>1. \A i \in 1..(first - 1) : i \in DOMAIN stack
    BY <1>3, <1>4
  <2>2. QED BY <2>1, <1>1, <1>5
<1>7. OnStack' = OnStack \ Cut
  <2>1. {rest[i] : i \in DOMAIN rest} = {stack[i] : i \in 1..(first - 1)}
    BY <1>5
  <2>2. QED BY <2>1, <1>1, <1>5 DEF OnStack
<1>8. /\ order' \in Seq(SUBSET Nat) /\ DOMAIN order' = 1..(Len(order) + 1)
      /\ \A i \in 1..Len(order) : order'[i] = order[i]
      /\ order'[Len(order) + 1] = Cut
  <2>1. Cut \in SUBSET Nat
    BY StateType DEF Cut
  <2>2. QED BY <2>1, <1>1, <1>4, <1>5, AppendProperties, LenProperties
<1>9. Ranked' = Ranked \cup Cut
  <2>1. \A i \in 1..(Len(order) + 1) : i \in 1..Len(order) \/ i = Len(order) + 1
    BY <1>4
  <2>2. 1..Len(order) \subseteq 1..(Len(order) + 1) /\ Len(order) + 1 \in 1..(Len(order) + 1)
    BY <1>4
  <2>3. Ranked' = UNION {order'[i] : i \in 1..(Len(order) + 1)}
    BY <1>8 DEF Ranked
  <2>4. QED BY <1>4, <1>8, <2>1, <2>2, <2>3 DEF Ranked
<1>10. DOMAIN lowlink' = Visited /\ \A m \in Visited : lowlink'[m] = lowlink[m]
  <2>1. CASE Len(frames) = 1
    BY <2>1, <1>1, StateType DEF CallerLowlink
  <2>2. CASE Len(frames) > 1
    <3> DEFINE p == frames[Len(frames) - 1].node
    <3>1. /\ DOMAIN lowlink' = Visited /\ p \in OnStack /\ indices[p] < indices[v]
          /\ \A m \in Visited : lowlink'[m] = IF m = p THEN Lower(lowlink[p], lowlink[v]) ELSE lowlink[m]
      BY <2>2, <1>1, CallerLowlinkEffect
    <3>2. /\ lowlink[p] \in Nat /\ indices[p] \in Nat /\ lowlink[p] <= indices[p] /\ indices[v] \in Nat
      BY <3>1, <1>2, StateType
    <3> HIDE DEF p
    <3>3. Lower(lowlink[p], lowlink[v]) = lowlink[p]
      BY <3>1, <3>2, <1>1 DEF Lower
    <3>4. QED BY <3>1, <3>3
  <2>3. Len(frames) = 1 \/ Len(frames) > 1
    <3>1. Len(frames) \in Nat \ {0}
      BY <1>1, TopType
    <3>2. \A n \in Nat \ {0} : n = 1 \/ n > 1
      OBVIOUS
    <3>3. QED BY <3>1, <3>2
  <2>4. QED BY <2>1, <2>2, <2>3
<1>11. /\ frames' \in Seq(Frame) /\ Len(frames') = Len(frames) - 1
       /\ DOMAIN frames' = 1..(Len(frames) - 1)
       /\ \A i \in 1..(Len(frames) - 1) : frames'[i] = frames[i]
  BY <1>1, CallersEffect
<1>12. QED BY <1>1, <1>2, <1>6, <1>7, <1>8, <1>9, <1>10, <1>11

LEMMA CompleteHolds == IInv /\ Complete => IInv'
<1> SUFFICES ASSUME IInv, Complete PROVE IInv'
  OBVIOUS
<1> DEFINE v == Top.node
           last == Len(frames)
           k == Len(frames) - 1
           count == Len(order) + 1
<1>1. /\ frames # <<>> /\ Top.left = {} /\ lowlink[v] = indices[v]
      /\ Visited' = Visited /\ OnStack' = OnStack \ Cut /\ Nodes' = Nodes
      /\ calls' = calls /\ indices' = indices
      /\ DOMAIN lowlink' = Visited /\ \A m \in Visited : lowlink'[m] = lowlink[m]
  BY CompleteEffect
<1>2. stack' \in Seq(Nat) /\ \A i \in DOMAIN stack' : i \in DOMAIN stack /\ stack'[i] = stack[i]
  BY CompleteEffect
<1>3. /\ order' \in Seq(SUBSET Nat) /\ DOMAIN order' = 1..count
      /\ \A i \in 1..Len(order) : order'[i] = order[i]
      /\ order'[count] = Cut
      /\ Ranked' = Ranked \cup Cut
  BY CompleteEffect
<1>4. /\ frames' \in Seq(Frame) /\ Len(frames') = k /\ DOMAIN frames' = 1..k
      /\ \A i \in 1..k : frames'[i] = frames[i]
  BY CompleteEffect
<1>5. /\ \A m \in Visited : indices[m] \in Nat /\ lowlink[m] \in Nat /\ lowlink[m] <= indices[m]
      /\ v \in OnStack /\ OnStack \subseteq Visited /\ Visited \subseteq Nodes
      /\ \A i \in DOMAIN frames : frames[i].node \in OnStack
      /\ DOMAIN frames = 1..last /\ frames[last] = Top /\ last \in DOMAIN frames
  BY <1>1, TopType, StateType DEF Top
<1>6. k \in Nat /\ last = k + 1 /\ \A i \in 1..k : i \in DOMAIN frames /\ i < last /\ i # last
  <2>1. last \in Nat \ {0}
    BY <1>1, TopType
  <2>2. \A n \in Nat \ {0} : n - 1 \in Nat /\ n = (n - 1) + 1
    OBVIOUS
  <2>3. k \in Nat /\ last = k + 1
    BY <2>1, <2>2
  <2> HIDE DEF k, last
  <2>4. \A i \in 1..k : i \in 1..last /\ i < last /\ i # last
    BY <2>3
  <2>5. QED BY <2>3, <2>4, <1>5
<1>7. /\ Len(order) \in Nat /\ DOMAIN order = 1..Len(order)
      /\ \A i \in 1..count : i \in 1..Len(order) \/ i = count
  BY StateType
<1>8. \A x \in OnStack : x \in OnStack' <=> indices[x] < indices[v]
  BY <1>1, <1>5 DEF Cut
<1>9. \A i \in 1..k : frames[i].node \in OnStack' /\ indices[frames[i].node] < indices[v]
  <2>1. \A i \in 1..k : indices[frames[i].node] < indices[v]
    BY <1>5, <1>6 DEF IInv, Framed
  <2>2. QED BY <2>1, <1>5, <1>6, <1>8
<1>10. Cut \subseteq OnStack
  BY DEF Cut
<1> HIDE DEF v, last, k, count
<1>11. Typed'
  BY <1>1, <1>2, <1>3, <1>4, <1>5 DEF IInv, Typed
<1>12. Numbered'
  BY <1>1 DEF IInv, Numbered
<1>13. Stacked'
  BY <1>1, <1>2 DEF IInv, Stacked
<1>14. Framed'
  BY <1>1, <1>4, <1>6, <1>9 DEF IInv, Framed
<1>15. Partition'
  <2>1. Visited' = OnStack' \cup Ranked' /\ OnStack' \cap Ranked' = {} /\ Cut \cap Ranked = {}
    BY <1>1, <1>3, <1>10 DEF IInv, Partition
  <2>2. ASSUME NEW i \in 1..count, NEW j \in 1..count, i # j PROVE order'[i] \cap order'[j] = {}
    <3>1. \A n \in 1..Len(order) : order'[n] = order[n] /\ order[n] \subseteq Ranked
      BY <1>3, <1>7 DEF Ranked
    <3>2. CASE i \in 1..Len(order) /\ j \in 1..Len(order)
      BY <2>2, <3>1, <3>2, <1>7 DEF IInv, Partition
    <3>3. CASE i \in 1..Len(order) /\ j = count
      BY <2>1, <3>1, <3>3, <1>3
    <3>4. CASE j \in 1..Len(order) /\ i = count
      BY <2>1, <3>1, <3>4, <1>3
    <3>5. QED BY <2>2, <3>2, <3>3, <3>4, <1>7
  <2>3. QED BY <2>1, <2>2, <1>3 DEF Partition
<1>16. CalleesVisited'
  <2>1. ASSUME NEW x \in OnStack', NEW m \in calls[x], m \notin Visited
        PROVE  \E i \in DOMAIN frames' : frames'[i].node = x /\ m \in frames'[i].left
    <3>1. PICK i \in DOMAIN frames : frames[i].node = x /\ m \in frames[i].left
      BY <2>1, <1>1 DEF IInv, CalleesVisited
    <3>2. i # last
      BY <3>1, <1>1, <1>5
    <3>3. i \in 1..k
      BY <3>2, <1>5, <1>6
    <3>4. QED BY <3>1, <3>3, <1>4
  <2>2. QED BY <2>1, <1>1 DEF CalleesVisited
<1>17. Down'
  BY <1>1, <1>4, <1>6 DEF IInv, Down
<1>18. Up'
  <2>1. ASSUME NEW x \in OnStack'
        PROVE  \E i \in DOMAIN frames' :
                  indices[frames'[i].node] <= indices[x] /\ Reach(calls, x, frames'[i].node)
    <3>1. PICK i \in DOMAIN frames : indices[frames[i].node] <= indices[x] /\ Reach(calls, x, frames[i].node)
      BY <1>1 DEF IInv, Up
    <3>2. x \in OnStack /\ indices[x] < indices[v] /\ indices[x] \in Nat /\ indices[v] \in Nat
      BY <1>1, <1>5, <1>8
    <3>3. i # last
      BY <3>1, <3>2, <1>5 DEF v
    <3>4. i \in 1..k
      BY <3>3, <1>5, <1>6
    <3>5. QED BY <3>1, <3>4, <1>4
  <2>2. QED BY <2>1, <1>1 DEF Up
<1>19. LowReached'
  <2>1. ASSUME NEW x \in OnStack'
        PROVE  \E m \in OnStack' : indices[m] = lowlink[x] /\ Reach(calls, x, m)
    <3>1. PICK m \in OnStack : indices[m] = lowlink[x] /\ Reach(calls, x, m)
      BY <1>1 DEF IInv, LowReached
    <3>2. x \in Visited /\ indices[x] < indices[v]
      BY <1>1, <1>5, <1>8
    <3>3. indices[m] < indices[v]
      BY <3>1, <3>2, <1>5
    <3>4. QED BY <3>1, <3>3, <1>8
  <2>2. QED BY <2>1, <1>1, <1>5 DEF LowReached
<1>20. LowComplete'
  <2>1. ASSUME NEW i \in 1..k, NEW x \in OnStack', NEW m \in calls[x] \cap OnStack'
        PROVE  \/ indices[x] < indices[frames[i].node]
               \/ i < k /\ indices[frames[i + 1].node] <= indices[x]
               \/ x = frames[i].node /\ m \in frames[i].left
               \/ lowlink[frames[i].node] <= indices[m]
    <3>1. i \in DOMAIN frames /\ x \in OnStack /\ m \in OnStack
      BY <1>1, <1>6
    <3>2. CASE i < Len(frames) /\ indices[frames[i + 1].node] <= indices[x]
      <4>1. i < k \/ i + 1 = last
        BY <1>6
      <4>2. i + 1 # last
        <5>1. indices[x] < indices[v] /\ indices[x] \in Nat /\ indices[v] \in Nat
          BY <3>1, <1>5, <1>8
        <5>2. QED BY <5>1, <3>2, <1>5 DEF v
      <4>3. QED BY <3>2, <4>1, <4>2
    <3>3. QED BY <3>1, <3>2 DEF IInv, LowComplete
  <2>2. ASSUME NEW i \in DOMAIN frames', NEW x \in OnStack', NEW m \in calls[x] \cap OnStack'
        PROVE  \/ indices[x] < indices[frames'[i].node]
               \/ i < Len(frames') /\ indices[frames'[i + 1].node] <= indices[x]
               \/ x = frames'[i].node /\ m \in frames'[i].left
               \/ lowlink'[frames'[i].node] <= indices[m]
    <3>1. i \in 1..k /\ frames'[i] = frames[i] /\ Len(frames') = k
      BY <1>4
    <3>2. i < k => frames'[i + 1] = frames[i + 1]
      <4>1. i < k => i + 1 \in 1..k
        BY <3>1, <1>6
      <4>2. QED BY <4>1, <1>4
    <3>3. lowlink'[frames[i].node] = lowlink[frames[i].node]
      BY <3>1, <1>1, <1>5, <1>6
    <3>4. QED BY <2>1, <3>1, <3>2, <3>3
  <2>3. QED BY <2>2, <1>1 DEF LowComplete
<1>21. CalleesFirst'
  <2>1. ASSUME NEW i \in 1..count, NEW n \in order'[i]
        PROVE  calls[n] \subseteq UNION {order'[j] : j \in 1..i}
    <3>1. CASE i \in 1..Len(order)
      <4>1. calls[n] \subseteq UNION {order[j] : j \in 1..i}
        BY <2>1, <3>1, <1>3, <1>7 DEF IInv, CalleesFirst
      <4>2. \A j \in 1..i : order'[j] = order[j]
        <5>1. \A j \in 1..i : j \in 1..Len(order)
          BY <3>1, <1>7
        <5>2. QED BY <5>1, <1>3
      <4>3. QED BY <4>1, <4>2
    <3>2. CASE i = count
      <4>1. calls[n] \subseteq Cut \cup Ranked
        BY <2>1, <3>2, <1>1, <1>3, CutClosed DEF v
      <4>2. Cut \cup Ranked = UNION {order'[j] : j \in 1..count}
        BY <1>3 DEF Ranked
      <4>3. QED BY <3>2, <4>1, <4>2
    <3>3. QED BY <3>1, <3>2, <1>7
  <2>2. QED BY <2>1, <1>1, <1>3 DEF CalleesFirst
<1>22. Exact'
  <2>1. ASSUME NEW i \in 1..count, NEW n \in order'[i], NEW b \in Nodes
        PROVE  b \in order'[i] <=> Reach(calls, n, b) /\ Reach(calls, b, n)
    <3>1. CASE i \in 1..Len(order)
      BY <3>1, <1>3, <1>7 DEF IInv, Exact
    <3>2. CASE i = count
      BY <3>2, <1>1, <1>3, CutExact DEF v
    <3>3. QED BY <3>1, <3>2, <1>7
  <2>2. QED BY <2>1, <1>1, <1>3 DEF Exact
<1>23. QED
  BY <1>11, <1>12, <1>13, <1>14, <1>15, <1>16, <1>17, <1>18, <1>19, <1>20, <1>21, <1>22 DEF IInv

(***************************************************************************)
(* The theorems.                                                           *)
(***************************************************************************)
LEMMA TarjanStep == IInv /\ [TarjanNext]_tarjanVars => IInv'
<1> SUFFICES ASSUME IInv, [TarjanNext]_tarjanVars PROVE IInv'
  OBVIOUS
<1>1. CASE StartRoot
  BY <1>1, StartRootHolds
<1>2. CASE Descend
  BY <1>2, DescendHolds
<1>3. CASE Skip
  BY <1>3, SkipHolds
<1>4. CASE Finish
  BY <1>4, FinishHolds
<1>5. CASE Complete
  BY <1>5, CompleteHolds
<1>6. CASE UNCHANGED tarjanVars
  <2>1. /\ calls' = calls /\ indices' = indices /\ lowlink' = lowlink /\ stack' = stack
        /\ frames' = frames /\ order' = order
    BY <1>6 DEF tarjanVars
  <2>2. Visited' = Visited /\ OnStack' = OnStack /\ Nodes' = Nodes /\ Ranked' = Ranked
    BY <2>1 DEF Visited, OnStack, Nodes, Ranked
  <2>3. Numbered' /\ Stacked' /\ Partition' /\ CalleesFirst' /\ Exact'
    BY <2>1, OrderKept DEF IInv
  <2>4. Typed' /\ Framed' /\ CalleesVisited'
    BY <2>1, <2>2 DEF IInv, Typed, Framed, CalleesVisited
  <2>5. Down' /\ Up' /\ LowReached' /\ LowComplete'
    BY <2>1, <2>2 DEF IInv, Down, Up, LowReached, LowComplete
  <2>6. QED BY <2>3, <2>4, <2>5 DEF IInv
<1>7. QED BY <1>1, <1>2, <1>3, <1>4, <1>5, <1>6 DEF TarjanNext

LEMMA Invariance == TarjanSpec => []IInv
<1>1. TarjanInit => IInv
  BY InitHolds DEF TarjanInit
<1>2. QED BY <1>1, TarjanStep, PTL DEF TarjanSpec

LEMMA TypesFollow == IInv => TarjanTypeOK
<1> SUFFICES ASSUME IInv PROVE TarjanTypeOK
  OBVIOUS
<1>1. \A i \in DOMAIN order : order[i] \subseteq Visited
  BY DEF IInv, Partition, Ranked
<1>2. QED BY <1>1, StateType DEF TarjanTypeOK, IInv, Framed

LEMMA LowlinksFollow == IInv => LowlinkSound
BY ReachesIsReach DEF IInv, LowReached, LowlinkSound

LEMMA ComponentsFollow == IInv => ComponentsExact
<1> SUFFICES ASSUME IInv, NEW i \in DOMAIN order, NEW n \in order[i] PROVE order[i] = Component(n)
  BY DEF ComponentsExact
<1>1. order[i] \subseteq Nodes
  BY StateType DEF IInv, Partition, Ranked
<1>2. \A b \in Nodes : b \in order[i] <=> Reaches(n, b) /\ Reaches(b, n)
  BY ReachesIsReach DEF IInv, Exact
<1>3. QED BY <1>1, <1>2 DEF Component

\* The variables of strongconnect keep their types: a node has a lowlink when
\* it has an index, and no lowlink is above it; the calls under way are on the
\* stack, with callees of theirs left.
THEOREM TarjanTypes == TarjanSpec => []TarjanTypeOK
BY Invariance, TypesFollow, PTL

\* Whatever the call graph, no function is given its place in the order before
\* a function that it calls and that does not call it back.
THEOREM CalleesComeFirst == TarjanSpec => []CalleesFirst
<1>1. IInv => CalleesFirst
  BY DEF IInv
<1>2. QED BY <1>1, Invariance, PTL

\* Every lowlink stands for a node on the stack that its node reaches.
THEOREM LowlinksSound == TarjanSpec => []LowlinkSound
BY Invariance, LowlinksFollow, PTL

\* Each set in the order is a strongly connected component of the call graph,
\* all of it.
THEOREM ComponentsAreExact == TarjanSpec => []ComponentsExact
BY Invariance, ComponentsFollow, PTL

=============================================================================
