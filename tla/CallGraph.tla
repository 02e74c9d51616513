------------------------------ MODULE CallGraph ------------------------------
(***************************************************************************)
(* The order in which functions are summarized: the strongly connected     *)
(* components of the call graph, callees before callers (Tarjan's          *)
(* algorithm, _reverse_topo_sccs of engine/summaries.py).                  *)
(*                                                                         *)
(* Functions are numbered in the sorted order of their qualnames.  The     *)
(* recursion of strongconnect is a stack of frames; a step is one turn of  *)
(* its loop over the callees, or what follows the loop.                    *)
(***************************************************************************)
EXTENDS Naturals, Sequences, FiniteSets

CONSTANT CallGraphs  \* the call graphs considered: from functions to their callees

ASSUME CallGraphsAssumption ==
  \A g \in CallGraphs : /\ DOMAIN g \subseteq Nat /\ IsFiniteSet(DOMAIN g)
                         /\ g \in [DOMAIN g -> SUBSET DOMAIN g]

VARIABLES
  calls,    \* the call graph
  indices,  \* the order in which nodes were first visited; unvisited nodes have none
  lowlink,  \* the earliest visited node on the stack each node is known to reach
  stack,    \* the visited nodes whose component is not complete
  frames,   \* the calls of strongconnect under way: a node and its callees left
  order     \* the components found so far

tarjanVars == <<calls, indices, lowlink, stack, frames, order>>

Nodes == DOMAIN calls

Visited == DOMAIN indices

OnStack == {stack[i] : i \in DOMAIN stack}

Least(S) == CHOOSE a \in S : \A b \in S : a <= b

Lower(a, b) == IF a <= b THEN a ELSE b

With(f, n, v) == [m \in DOMAIN f \cup {n} |-> IF m = n THEN v ELSE f[m]]

Top == frames[Len(frames)]

InitOrder ==
  /\ indices = <<>>
  /\ lowlink = <<>>
  /\ stack = <<>>
  /\ frames = <<>>
  /\ order = <<>>

TarjanInit == calls \in CallGraphs /\ InitOrder

\* strongconnect(n), up to its loop.
Enter(n, callers) ==
  /\ indices' = With(indices, n, Cardinality(Visited))
  /\ lowlink' = With(lowlink, n, Cardinality(Visited))
  /\ stack' = Append(stack, n)
  /\ frames' = Append(callers, [node |-> n, left |-> calls[n]])
  /\ UNCHANGED <<calls, order>>

\* Mutant: only what the first root reaches is visited.
StartRootOnce ==
  /\ frames = <<>>
  /\ Visited = {} /\ Nodes # {}
  /\ Enter(Least(Nodes), <<>>)

StartRoot ==
  /\ frames = <<>>
  /\ Nodes \ Visited # {}
  /\ Enter(Least(Nodes \ Visited), <<>>)

Left(n) == [frames EXCEPT ![Len(frames)].left = @ \ {n}]

\* The next callee is new: its own call comes first.
Descend ==
  /\ frames # <<>> /\ Top.left # {}
  /\ Least(Top.left) \notin Visited
  /\ Enter(Least(Top.left), Left(Least(Top.left)))

\* Mutant: a callee whose component is complete is taken for one on the stack.
SkipIgnoresStack ==
  /\ frames # <<>> /\ Top.left # {}
  /\ LET n == Least(Top.left)
     IN  /\ n \in Visited
         /\ lowlink' = [lowlink EXCEPT ![Top.node] = Lower(@, indices[n])]
         /\ frames' = Left(n)
  /\ UNCHANGED <<calls, indices, stack, order>>

\* Mutant: an edge back into the component under way is overlooked.
SkipForgets ==
  /\ frames # <<>> /\ Top.left # {}
  /\ Least(Top.left) \in Visited
  /\ frames' = Left(Least(Top.left))
  /\ UNCHANGED <<calls, indices, lowlink, stack, order>>

\* The next callee has been visited before.
Skip ==
  /\ frames # <<>> /\ Top.left # {}
  /\ LET n == Least(Top.left)
     IN  /\ n \in Visited
         /\ lowlink' = IF n \in OnStack
                       THEN [lowlink EXCEPT ![Top.node] = Lower(@, indices[n])]
                       ELSE lowlink
         /\ frames' = Left(n)
  /\ UNCHANGED <<calls, indices, stack, order>>

\* Back in the caller, which learns what its callee reaches.
CallerLowlink(n) ==
  IF Len(frames) = 1 THEN lowlink
  ELSE [lowlink EXCEPT ![frames[Len(frames) - 1].node] = Lower(@, lowlink[n])]

Callers == SubSeq(frames, 1, Len(frames) - 1)

\* Mutant: what a callee reaches is forgotten.
FinishForgets ==
  /\ frames # <<>> /\ Top.left = {}
  /\ lowlink[Top.node] # indices[Top.node]
  /\ frames' = Callers
  /\ UNCHANGED <<calls, indices, lowlink, stack, order>>

\* The end of a call whose node is not the first of its component.
Finish ==
  /\ frames # <<>> /\ Top.left = {}
  /\ lowlink[Top.node] # indices[Top.node]
  /\ lowlink' = CallerLowlink(Top.node)
  /\ frames' = Callers
  /\ UNCHANGED <<calls, indices, stack, order>>

\* The end of a call whose node is: what lies above it on the stack is its
\* component.
Complete ==
  /\ frames # <<>> /\ Top.left = {}
  /\ lowlink[Top.node] = indices[Top.node]
  /\ LET first == CHOOSE i \in DOMAIN stack : stack[i] = Top.node
     IN  /\ order' = Append(order, {stack[i] : i \in first..Len(stack)})
         /\ stack' = SubSeq(stack, 1, first - 1)
  /\ lowlink' = CallerLowlink(Top.node)
  /\ frames' = Callers
  /\ UNCHANGED <<calls, indices>>

TarjanNext == StartRoot \/ Descend \/ Skip \/ Finish \/ Complete

Ordered == frames = <<>> /\ Visited = Nodes

TarjanSpec == TarjanInit /\ [][TarjanNext]_tarjanVars /\ WF_tarjanVars(TarjanNext)

-----------------------------------------------------------------------------
(***************************************************************************)
(* What the order promises.                                                *)
(***************************************************************************)

\* a reaches b: b belongs to every set that holds a and is closed under calls.
Reaches(a, b) ==
  \A S \in SUBSET Nodes : a \in S /\ (\A n \in S : calls[n] \subseteq S) => b \in S

Component(a) == {b \in Nodes : Reaches(a, b) /\ Reaches(b, a)}

\* Nodes are visited once, the frames are the nodes of a call chain and all
\* on the stack.
TarjanTypeOK ==
  /\ Visited \subseteq Nodes /\ DOMAIN lowlink = Visited
  /\ \A n \in Visited : indices[n] \in Nat /\ lowlink[n] \in Nat /\ lowlink[n] <= indices[n]
  /\ OnStack \subseteq Visited
  /\ \A i \in DOMAIN frames : frames[i].node \in OnStack /\ frames[i].left \subseteq calls[frames[i].node]
  /\ \A i \in DOMAIN order : order[i] \subseteq Visited

\* A component is summarized after every function it calls outside itself
\* (docs/engine-reference.md: "callees before callers").
CalleesFirst ==
  \A i \in DOMAIN order : \A n \in order[i] :
    calls[n] \subseteq UNION {order[j] : j \in 1..i}

\* What is summarized together is exactly a set of mutually recursive
\* functions, so that a function is never iterated with one it does not
\* depend on, nor left out of a cycle it belongs to.
ComponentsExact ==
  \A i \in DOMAIN order : \A n \in order[i] : order[i] = Component(n)

\* The lowlink of a node on the stack is the index of a node on the stack
\* that it reaches.
LowlinkSound ==
  \A n \in OnStack : \E m \in OnStack : indices[m] = lowlink[n] /\ Reaches(n, m)

\* Every function gets its place in the order.
AllOrdered == <>(UNION {order[i] : i \in DOMAIN order} = Nodes)

=============================================================================
