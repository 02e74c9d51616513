---------------------------- MODULE Propagation ----------------------------
(***************************************************************************)
(* What one statement does to the taint environment: expr_taint and the    *)
(* call rules of engine/propagation.py, the assignment transfer and sink   *)
(* detection of engine/taint.py, and the flows that engine/summaries.py    *)
(* harvests from a statement.                                              *)
(*                                                                         *)
(* Expressions are one operator deep: a nested expression is written as    *)
(* assignments to temporaries (expr_taint is compositional).  How a call   *)
(* matches the detector specs does not depend on taint, so the result of   *)
(* matching is part of the call.                                           *)
(***************************************************************************)
EXTENDS TaintState

CONSTANTS
  Callee,   \* callee paths that occur at call sites
  Marker,   \* the spec ids that stand for parameters while summarizing
  ParamOf,  \* the position each marker stands for (0 is the receiver)
  NoSpec    \* the spec id of a flow that any spec's taint follows

ASSUME MarkerAssumption ==
  Marker \subseteq SpecId /\ ParamOf \in [Marker -> Nat] /\ NoSpec \notin SpecId

\* The markers are a namespace of their own: no detector is named so.
DetectorId == SpecId \ Marker

Operand ==
  [kind : {"const"}]
    \cup [kind : {"path"}, path : TextPath]
    \cup [kind : {"source"}, sources : SUBSET DetectorId, loc : Nat]

(***************************************************************************)
(* sources, sanitizes: the detectors with such a pattern that matches.     *)
(* propagator: some detector's propagator pattern matches; moves: the      *)
(* positions it moves to the return value (n for the n-th argument, 0 for  *)
(* the receiver).  sinks: each matching sink pattern with the arguments it *)
(* checks.  strMethod: the callee is a built-in str method.                *)
(***************************************************************************)
Call ==
  [callee : Callee, loc : Nat,
   args : Seq(Operand), kwargs : Seq(Operand), receiver : Operand,
   sources : SUBSET DetectorId, sanitizes : SUBSET DetectorId,
   propagator : BOOLEAN, moves : SUBSET Nat, strMethod : BOOLEAN,
   sinks : SUBSET [spec : DetectorId, args : SUBSET (Nat \ {0})]]

(***************************************************************************)
(* "union" is every value-preserving operator (string operators, and/or,   *)
(* the arms of a conditional, f-strings, containers, comprehensions),      *)
(* "drop" every other one (comparisons, arithmetic).                       *)
(***************************************************************************)
Expr ==
  [op : {"union", "drop"}, args : Seq(Operand)] \cup [op : {"call"}, call : Call]

\* Targets are flattened; those in dynamic are the containers of dynamic
\* subscripts, which the engine does not tell from the containers themselves.
Stmt ==
  [targets : Seq(TextPath), dynamic : SUBSET Nat, aug : BOOLEAN, returns : BOOLEAN, value : Expr]

(***************************************************************************)
(* A summary flow enters at a parameter (index n is the n-th argument, 0   *)
(* the receiver) or at a source inside the callee, and leaves at the       *)
(* return value or at a sink.                                              *)
(***************************************************************************)
Flow ==
  [src : {"param", "source"}, index : Nat, dst : {"return", "sink"},
   spec : DetectorId \cup {NoSpec}, fragment : Chain, loc : Nat]

\* Summaries of the functions the module defines, by callee path.
IsSummaries(s) == DOMAIN s \subseteq Callee /\ s \in [DOMAIN s -> SUBSET Flow]

-----------------------------------------------------------------------------
(***************************************************************************)
(* Operands.                                                               *)
(***************************************************************************)
SourceLabels(specs, loc) == {[spec |-> d, chain |-> <<<<SourceRole, loc>>>>] : d \in specs}

OperandTaint(a, env) ==
  CASE a.kind = "const"  -> {}
    [] a.kind = "path"   -> Get(env, Collapse(a.path))
    [] a.kind = "source" -> SourceLabels(a.sources, a.loc)

OperandsTaint(args, env) == UNION {OperandTaint(args[i], env) : i \in DOMAIN args}

\* The labels at one position of a call; a missing argument has none.
PositionTaint(call, n, env) ==
  IF n = 0 THEN OperandTaint(call.receiver, env)
  ELSE IF n \in DOMAIN call.args THEN OperandTaint(call.args[n], env)
  ELSE {}

(***************************************************************************)
(* Calls.                                                                  *)
(***************************************************************************)
IncomingTaint(call, env) ==
  OperandsTaint(call.args, env) \cup OperandsTaint(call.kwargs, env)
    \cup OperandTaint(call.receiver, env)

MovedTaint(call, env) == UNION {PositionTaint(call, n, env) : n \in call.moves}

FlowsOf(call, summaries) ==
  IF call.callee \in DOMAIN summaries THEN summaries[call.callee] ELSE {}

CallStep(call) == <<PropagatorRole, call.loc>>

SummaryTaint(call, env, summaries) ==
  UNION {IF flow.src = "source"
         THEN {[spec |-> d, chain |-> Append(flow.fragment, CallStep(call))]
                 : d \in {flow.spec} \ {NoSpec}}
         ELSE {[spec |-> l.spec, chain |-> Append(l.chain, CallStep(call)) \o flow.fragment]
                 : l \in PositionTaint(call, flow.index, env)}
         : flow \in {f \in FlowsOf(call, summaries) : f.dst = "return"}}

\* Mutant: what sanitizes is not known to do anything else.
KnownButForSanitizers(call, summaries) ==
  call.callee \in DOMAIN summaries \/ call.propagator

\* Explicit propagation suppresses the pass-through fallback, for every spec.
IsKnownCallee(call, summaries) ==
  \/ call.callee \in DOMAIN summaries
  \/ call.propagator
  \/ call.sanitizes # {}

PassThrough(call, env, summaries) ==
  IF call.strMethod \/ ~ IsKnownCallee(call, summaries)
  THEN IncomingTaint(call, env)
  ELSE {}

CallTaint(call, env, summaries) ==
  {l \in MovedTaint(call, env) \cup SummaryTaint(call, env, summaries)
                               \cup PassThrough(call, env, summaries)
     : l.spec \notin call.sanitizes}

ExprTaint(e, env, summaries) ==
  CASE e.op = "union" -> Merge(OperandsTaint(e.args, env))
    [] e.op = "drop"  -> {}
    [] e.op = "call"  -> Merge(SourceLabels(e.call.sources, e.call.loc)
                                 \cup CallTaint(e.call, env, summaries))

(***************************************************************************)
(* The assignment transfer.  The right-hand side is evaluated once; each   *)
(* element of an unpacking receives all of it; an augmented target keeps   *)
(* what it had.                                                            *)
(***************************************************************************)
Transfer(stmt, env, summaries) ==
  LET targets == [i \in 1..Len(stmt.targets) |-> Collapse(stmt.targets[i])]
      kept    == IF stmt.aug THEN UNION {Get(env, targets[i]) : i \in DOMAIN targets} ELSE {}
  IN  Assign(env, targets, kept \cup ExprTaint(stmt.value, env, summaries))

-----------------------------------------------------------------------------
(***************************************************************************)
(* What the emission pass reports for one statement, in the environment    *)
(* before it: a sink call with a tainted checked argument, and a sink      *)
(* inside the callee that a summary says the argument reaches.             *)
(***************************************************************************)
Finding == [spec : SpecId, sink : Nat, witness : Chain]

\* The labels at the positions that a sink pattern checks.
CheckedTaint(call, s, env) ==
  UNION {PositionTaint(call, n, env) : n \in s.args \cap DOMAIN call.args}

SinkStep(call) == <<SinkRole, call.loc>>

SinkFindings(call, env) ==
  UNION {{[spec |-> l.spec, sink |-> call.loc, witness |-> Append(l.chain, SinkStep(call))]
            : l \in {m \in CheckedTaint(call, s, env) : m.spec = s.spec}}
         : s \in call.sinks}

InterprocFindings(call, env, summaries) ==
  UNION {{[spec |-> flow.spec, sink |-> flow.loc,
           witness |-> Append(l.chain, CallStep(call)) \o flow.fragment]
            : l \in {m \in PositionTaint(call, flow.index, env) : m.spec = flow.spec}}
         : flow \in {f \in FlowsOf(call, summaries) : f.dst = "sink"}}

StmtFindings(stmt, env, summaries) ==
  IF stmt.value.op = "call"
  THEN SinkFindings(stmt.value.call, env)
         \cup InterprocFindings(stmt.value.call, env, summaries)
  ELSE {}

(***************************************************************************)
(* What summarization harvests from one statement: a marker (or a source   *)
(* of the body) that reaches a returned value, a marker that reaches a     *)
(* sink call.  The synthetic parameter step at the head is stripped.       *)
(***************************************************************************)
ReturnFlow(l) ==
  IF l.spec \in Marker
  THEN [src |-> "param", index |-> ParamOf[l.spec], dst |-> "return",
        spec |-> NoSpec, fragment |-> Tail(l.chain), loc |-> 0]
  ELSE [src |-> "source", index |-> 0, dst |-> "return",
        spec |-> l.spec, fragment |-> l.chain, loc |-> 0]

SinkFlows(call, env) ==
  UNION {{[src |-> "param", index |-> ParamOf[l.spec], dst |-> "sink", spec |-> s.spec,
           fragment |-> Append(Tail(l.chain), SinkStep(call)), loc |-> call.loc]
            : l \in {m \in CheckedTaint(call, s, env) : m.spec \in Marker}}
         : s \in call.sinks}

StmtFlows(stmt, env, summaries) ==
  (IF stmt.returns
   THEN {ReturnFlow(l) : l \in ExprTaint(stmt.value, env, summaries)}
   ELSE {})
  \cup (IF stmt.value.op = "call" THEN SinkFlows(stmt.value.call, env) ELSE {})

=============================================================================
