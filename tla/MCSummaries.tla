----------------------------- MODULE MCSummaries -----------------------------
(***************************************************************************)
(* Small modules for Summaries.                                            *)
(***************************************************************************)
EXTENDS Summaries

\* Three functions f, g, h: at the top of the file, or h inside f.  A call
\* names one of them, by its name or as the method of a variable, or a
\* function of another file.
f == 1
g == 2
h == 3
other == 8
obj == 9

Qualnames == {<< <<f>>, <<g>>, <<h>> >>, << <<f>>, <<f, h>>, <<g>> >>}

Targets == {<<f>>, <<g>>, <<obj, h>>}

SmallModules ==
  {[fns |-> [i \in 1..3 |-> [qual |-> quals[i], own |-> i \in own,
                             via |-> via[i] \cup (IF i \in out THEN {<<other>>} ELSE {})]],
    created |-> <<1, 2, 3>>] :
     quals \in Qualnames, own \in SUBSET (1..3), via \in [1..3 -> SUBSET Targets], out \in {{}, {2}}}

\* Nine functions in a cycle, of which the last returns its parameter.
LongCycle ==
  {[fns |-> [i \in 1..9 |-> [qual |-> <<i>>, own |-> i = 9, via |-> {<<(i % 9) + 1>>}]],
    created |-> [i \in 1..9 |-> i]]}

\* caller returns run(p); run is at the top of the file and, first, inside
\* outer, where it does not return its parameter.
Homonyms ==
  {[fns |-> << [qual |-> <<f>>, own |-> FALSE, via |-> {<<h>>}],
               [qual |-> <<g>>, own |-> FALSE, via |-> {}],
               [qual |-> <<g, h>>, own |-> FALSE, via |-> {}],
               [qual |-> <<h>>, own |-> TRUE, via |-> {}] >>,
    created |-> <<3, 1, 2, 4>>]}

\* The call graphs among functions of which every name is found: one call for
\* each callee.
Calling(graph) ==
  [fns |-> [i \in DOMAIN graph |-> [qual |-> <<i>>, own |-> FALSE, via |-> {<<j>> : j \in graph[i]}]],
   created |-> [i \in DOMAIN graph |-> i]]

\* Every call graph of four functions that has no function calling itself;
\* those of three functions all occur in SmallModules.
FourFunctions ==
  {Calling(graph) : graph \in {g4 \in [1..4 -> SUBSET (1..4)] : \A n \in 1..4 : n \notin g4[n]}}

MCModules == SmallModules \cup FourFunctions

\* The call graphs of the modules considered.
ModuleGraphs == {BuildCallGraph(m) : m \in Modules}

=============================================================================
