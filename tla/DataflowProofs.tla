--------------------------- MODULE DataflowProofs ---------------------------
(***************************************************************************)
(* Theorems about Dataflow, for every set of functions, every bound and    *)
(* every set of paths and detectors.                                       *)
(***************************************************************************)
EXTENDS Dataflow, WellFoundedInduction, TLAPS

(***************************************************************************)
(* The operators of the lattice and of propagation stay within the types.  *)
(***************************************************************************)
\* Keeping the best chains invents no label (_merge_labels).
LEMMA MergeType ==
  ASSUME NEW labels \in SUBSET Label
  PROVE  Merge(labels) \in SUBSET Label
BY DEF Merge

\* A read yields labels (TaintEnv.get).
LEMMA GetType ==
  ASSUME NEW e \in Env, NEW ap
  PROVE  Get(e, ap) \in SUBSET Label
<1>1. UNION {e[p] : p \in {q \in AccessPath : IsPrefixOf(q, ap)}} \in SUBSET Label
  BY DEF Env
<1>2. QED BY <1>1, MergeType DEF Get

\* A binding yields an environment (TaintEnv.assign).
LEMMA AssignType ==
  ASSUME NEW e \in Env, NEW targets, NEW labels \in SUBSET Label
  PROVE  Assign(e, targets, labels) \in Env
BY MergeType DEF Assign, Env

\* A source introduces labels whose chain starts at it.
LEMMA SourceLabelsType ==
  ASSUME NEW specs \in SUBSET SpecId, NEW loc \in Nat
  PROVE  SourceLabels(specs, loc) \in SUBSET Label
<1> DEFINE c == <<<<SourceRole, loc>>>>
<1>1. c \in Chain \ {<<>>}
  BY DEF Chain, WitnessStep, SourceRole
<1>2. SourceLabels(specs, loc) = {[spec |-> d, chain |-> c] : d \in specs}
  BY DEF SourceLabels
<1> HIDE DEF c
<1>3. QED BY <1>1, <1>2 DEF Label

\* An operand evaluates to labels.
LEMMA OperandType ==
  ASSUME NEW e \in Env, NEW o \in Operand
  PROVE  OperandTaint(o, e) \in SUBSET Label
<1>1. CASE o.kind = "const"
  BY <1>1 DEF OperandTaint
<1>2. CASE o.kind = "path"
  BY <1>2, GetType DEF OperandTaint
<1>3. CASE o.kind = "source"
  <2>1. o.sources \in SUBSET SpecId /\ o.loc \in Nat
    BY <1>3 DEF Operand, DetectorId
  <2>2. QED BY <1>3, <2>1, SourceLabelsType DEF OperandTaint
<1>4. QED BY <1>1, <1>2, <1>3 DEF Operand

\* Splicing a step and a fragment into a chain gives a chain.
LEMMA ChainType ==
  ASSUME NEW c \in Chain, NEW s \in WitnessStep, NEW d \in Chain
  PROVE  /\ Append(c, s) \in Chain \ {<<>>}
         /\ Append(c, s) \o d \in Chain \ {<<>>}
         /\ c # <<>> => Tail(c) \in Chain
<1> DEFINE W == WitnessStep
<1>1. c \in Seq(W) /\ d \in Seq(W)
  BY DEF Chain
<1> HIDE DEF W
<1>2. s \in W
  BY DEF W
<1>3. Append(c, s) \in Seq(W) /\ Append(c, s) # <<>>
  BY <1>1, <1>2
<1>4. Append(c, s) \o d \in Seq(W) /\ Append(c, s) \o d # <<>>
  BY <1>1, <1>3
<1>5. c # <<>> => Tail(c) \in Seq(W)
  BY <1>1
<1>6. QED BY <1>3, <1>4, <1>5 DEF Chain, W

\* What a call holds at a position is labels, also where nothing is passed.
LEMMA PositionType ==
  ASSUME NEW e \in Env, NEW call \in Call, NEW n
  PROVE  PositionTaint(call, n, e) \in SUBSET Label
<1>1. call.receiver \in Operand /\ call.args \in Seq(Operand)
  BY DEF Call
<1>2. n \in DOMAIN call.args => call.args[n] \in Operand
  BY <1>1
<1>3. QED BY <1>1, <1>2, OperandType DEF PositionTaint

\* So do several operands.
LEMMA OperandsType ==
  ASSUME NEW e \in Env, NEW args \in Seq(Operand)
  PROVE  OperandsTaint(args, e) \in SUBSET Label
<1>1. \A i \in DOMAIN args : args[i] \in Operand
  OBVIOUS
<1>2. QED BY <1>1, OperandType DEF OperandsTaint

\* The steps of a call are witness steps.
LEMMA CallStepType ==
  ASSUME NEW call \in Call
  PROVE  CallStep(call) \in WitnessStep /\ SinkStep(call) \in WitnessStep
<1>1. call.loc \in Nat
  BY DEF Call
<1>2. QED BY <1>1 DEF CallStep, SinkStep, WitnessStep, PropagatorRole, SinkRole

\* The flows applied at a call are flows of some summary.
LEMMA FlowsType ==
  ASSUME NEW call \in Call, NEW summaries, IsSummaries(summaries)
  PROVE  FlowsOf(call, summaries) \in SUBSET Flow
BY DEF FlowsOf, IsSummaries

\* Applying a summary yields labels (_apply_summary).
LEMMA SummaryTaintType ==
  ASSUME NEW e \in Env, NEW call \in Call, NEW summaries, IsSummaries(summaries)
  PROVE  SummaryTaint(call, e, summaries) \in SUBSET Label
<1> DEFINE st == CallStep(call)
<1> DEFINE One(flow) ==
      IF flow.src = "source"
      THEN {[spec |-> d, chain |-> Append(flow.fragment, st)] : d \in {flow.spec} \ {NoSpec}}
      ELSE {[spec |-> l.spec, chain |-> Append(l.chain, st) \o flow.fragment]
              : l \in PositionTaint(call, flow.index, e)}
<1>1. ASSUME NEW flow \in FlowsOf(call, summaries)
      PROVE  One(flow) \in SUBSET Label
  <2>1. flow.fragment \in Chain /\ flow.spec \in SpecId \cup {NoSpec}
    BY FlowsType DEF Flow, DetectorId
  <2>2. \A c \in Chain : Append(c, st) \in Chain \ {<<>>}
    BY CallStepType, ChainType
  <2>3. \A c \in Chain : Append(c, st) \o flow.fragment \in Chain \ {<<>>}
    BY <2>1, CallStepType, ChainType
  <2>4. \A l \in PositionTaint(call, flow.index, e) : l.spec \in SpecId /\ l.chain \in Chain
    BY PositionType DEF Label
  <2> HIDE DEF st
  <2>5. \A d \in {flow.spec} \ {NoSpec} : [spec |-> d, chain |-> Append(flow.fragment, st)] \in Label
    BY <2>1, <2>2 DEF Label
  <2>6. \A l \in PositionTaint(call, flow.index, e) :
          [spec |-> l.spec, chain |-> Append(l.chain, st) \o flow.fragment] \in Label
    BY <2>3, <2>4 DEF Label
  <2>7. QED BY <2>5, <2>6, Zenon
<1>2. SummaryTaint(call, e, summaries)
        = UNION {One(flow) : flow \in {f \in FlowsOf(call, summaries) : f.dst = "return"}}
  BY DEF SummaryTaint
<1> HIDE DEF One
<1>3. QED BY <1>1, <1>2

\* A call evaluates to labels, by whichever of its rules (_call_taint).
LEMMA CallTaintType ==
  ASSUME NEW e \in Env, NEW call \in Call, NEW summaries, IsSummaries(summaries)
  PROVE  CallTaint(call, e, summaries) \in SUBSET Label
<1>1. MovedTaint(call, e) \in SUBSET Label
  BY PositionType DEF MovedTaint
<1>2. IncomingTaint(call, e) \in SUBSET Label
  <2>1. call.receiver \in Operand /\ call.args \in Seq(Operand) /\ call.kwargs \in Seq(Operand)
    BY DEF Call
  <2>2. QED BY <2>1, OperandType, OperandsType DEF IncomingTaint
<1>3. PassThrough(call, e, summaries) \in SUBSET Label
  BY <1>2 DEF PassThrough
<1>4. QED BY <1>1, <1>3, SummaryTaintType DEF CallTaint

\* Every expression evaluates to labels (expr_taint).
LEMMA ExprTaintType ==
  ASSUME NEW e \in Env, NEW x \in Expr, NEW summaries, IsSummaries(summaries)
  PROVE  ExprTaint(x, e, summaries) \in SUBSET Label
<1>1. CASE x.op = "union"
  <2>1. x.args \in Seq(Operand)
    BY <1>1 DEF Expr
  <2>2. QED BY <1>1, <2>1, OperandsType, MergeType DEF ExprTaint
<1>2. CASE x.op = "drop"
  BY <1>2 DEF ExprTaint
<1>3. CASE x.op = "call"
  <2>1. x.call \in Call
    BY <1>3 DEF Expr
  <2>2. SourceLabels(x.call.sources, x.call.loc) \in SUBSET Label
    BY <2>1, SourceLabelsType DEF Call, DetectorId
  <2>3. QED BY <1>3, <2>1, <2>2, CallTaintType, MergeType DEF ExprTaint
<1>4. QED BY <1>1, <1>2, <1>3 DEF Expr

\* A statement takes environments to environments.
LEMMA TransferType ==
  ASSUME NEW e \in Env, NEW stmt \in Stmt, NEW summaries, IsSummaries(summaries)
  PROVE  Transfer(stmt, e, summaries) \in Env
<1> DEFINE targets == [i \in 1..Len(stmt.targets) |-> Collapse(stmt.targets[i])]
<1> DEFINE kept == IF stmt.aug THEN UNION {Get(e, targets[i]) : i \in DOMAIN targets} ELSE {}
<1>1. kept \in SUBSET Label
  BY GetType
<1>2. stmt.value \in Expr
  BY DEF Stmt
<1>3. kept \cup ExprTaint(stmt.value, e, summaries) \in SUBSET Label
  BY <1>1, <1>2, ExprTaintType
<1>4. Transfer(stmt, e, summaries) = Assign(e, targets, kept \cup ExprTaint(stmt.value, e, summaries))
  BY DEF Transfer
<1> HIDE DEF targets, kept
<1>5. QED BY <1>3, <1>4, AssignType

\* What a sink pattern checks is labels.
LEMMA CheckedType ==
  ASSUME NEW e \in Env, NEW call \in Call, NEW s
  PROVE  CheckedTaint(call, s, e) \in SUBSET Label
BY PositionType DEF CheckedTaint

\* What the emission pass collects is findings.
LEMMA StmtFindingsType ==
  ASSUME NEW e \in Env, NEW stmt \in Stmt, NEW summaries, IsSummaries(summaries)
  PROVE  StmtFindings(stmt, e, summaries) \in SUBSET Finding
<1> SUFFICES ASSUME stmt.value.op = "call"
             PROVE  StmtFindings(stmt, e, summaries) \in SUBSET Finding
  BY DEF StmtFindings
<1> DEFINE call == stmt.value.call
<1>1. call \in Call
  BY DEF Stmt, Expr
<1> HIDE DEF call
<1>2. call.loc \in Nat /\ \A s \in call.sinks : s.spec \in SpecId
  BY <1>1 DEF Call, DetectorId
<1>3. SinkFindings(call, e) \in SUBSET Finding
  <2> DEFINE st == SinkStep(call)
  <2> DEFINE Of(l) == [spec |-> l.spec, sink |-> call.loc, witness |-> Append(l.chain, st)]
  <2> DEFINE All(s) == {Of(l) : l \in {m \in CheckedTaint(call, s, e) : m.spec = s.spec}}
  <2>1. ASSUME NEW s \in call.sinks, NEW l \in CheckedTaint(call, s, e)
        PROVE  Of(l) \in Finding
    <3>1. l.spec \in SpecId /\ l.chain \in Chain
      BY <1>1, CheckedType DEF Label
    <3>2. Append(l.chain, st) \in Chain
      BY <1>1, <3>1, CallStepType, ChainType
    <3>3. QED BY <1>2, <3>1, <3>2 DEF Finding
  <2>2. SinkFindings(call, e) = UNION {All(s) : s \in call.sinks}
    BY DEF SinkFindings
  <2> HIDE DEF Of
  <2>3. \A s \in call.sinks : All(s) \in SUBSET Finding
    BY <2>1
  <2> HIDE DEF All
  <2>4. QED BY <2>2, <2>3
<1>4. InterprocFindings(call, e, summaries) \in SUBSET Finding
  <2> DEFINE st == CallStep(call)
  <2> DEFINE Of(flow, l) == [spec |-> flow.spec, sink |-> flow.loc,
                             witness |-> Append(l.chain, st) \o flow.fragment]
  <2> DEFINE All(flow) ==
        {Of(flow, l) : l \in {m \in PositionTaint(call, flow.index, e) : m.spec = flow.spec}}
  <2>1. ASSUME NEW flow \in FlowsOf(call, summaries),
               NEW l \in PositionTaint(call, flow.index, e), l.spec = flow.spec
        PROVE  Of(flow, l) \in Finding
    <3>1. l.spec \in SpecId /\ l.chain \in Chain
      BY <1>1, PositionType DEF Label
    <3>2. flow.fragment \in Chain /\ flow.loc \in Nat
      BY <1>1, FlowsType DEF Flow
    <3>3. Append(l.chain, st) \o flow.fragment \in Chain
      BY <1>1, <3>1, <3>2, CallStepType, ChainType
    <3>4. QED BY <2>1, <3>1, <3>2, <3>3 DEF Finding
  <2>2. InterprocFindings(call, e, summaries)
          = UNION {All(flow) : flow \in {f \in FlowsOf(call, summaries) : f.dst = "sink"}}
    BY DEF InterprocFindings
  <2> HIDE DEF Of
  <2>3. \A flow \in FlowsOf(call, summaries) : All(flow) \in SUBSET Finding
    BY <2>1
  <2> HIDE DEF All
  <2>4. QED BY <2>2, <2>3
<1>5. StmtFindings(stmt, e, summaries)
        = SinkFindings(call, e) \cup InterprocFindings(call, e, summaries)
  BY DEF StmtFindings, call
<1>6. QED BY <1>3, <1>4, <1>5

\* What summarization harvests is flows.
LEMMA StmtFlowsType ==
  ASSUME NEW e \in Env, NEW stmt \in Stmt, NEW summaries, IsSummaries(summaries)
  PROVE  StmtFlows(stmt, e, summaries) \in SUBSET Flow
<1>1. ASSUME NEW l \in Label
      PROVE  ReturnFlow(l) \in Flow
  <2>1. l.chain \in Chain /\ l.chain # <<>> /\ l.spec \in SpecId
    BY DEF Label
  <2>2. Tail(l.chain) \in Chain
    <3>1. PICK s \in WitnessStep : TRUE
      <4>1. <<0, 0>> \in WitnessStep
        BY DEF WitnessStep
      <4>2. QED BY <4>1
    <3>2. QED BY <2>1, <3>1, ChainType
  <2>3. l.spec \in Marker => ParamOf[l.spec] \in Nat
    BY MarkerAssumption
  <2>4. QED BY <2>1, <2>2, <2>3 DEF ReturnFlow, Flow, DetectorId
<1>2. stmt.value \in Expr
  BY DEF Stmt
<1>3. {ReturnFlow(l) : l \in ExprTaint(stmt.value, e, summaries)} \in SUBSET Flow
  BY <1>1, <1>2, ExprTaintType
<1>4. ASSUME stmt.value.op = "call"
      PROVE  SinkFlows(stmt.value.call, e) \in SUBSET Flow
  <2> DEFINE call == stmt.value.call
  <2>1. call \in Call
    BY <1>2, <1>4 DEF Expr
  <2> HIDE DEF call
  <2> DEFINE st == SinkStep(call)
  <2>2. call.loc \in Nat /\ \A s \in call.sinks : s.spec \in DetectorId
    BY <2>1 DEF Call
  <2> DEFINE Of(s, l) ==
        [src |-> "param", index |-> ParamOf[l.spec], dst |-> "sink", spec |-> s.spec,
         fragment |-> Append(Tail(l.chain), st), loc |-> call.loc]
  <2> DEFINE All(s) == {Of(s, l) : l \in {m \in CheckedTaint(call, s, e) : m.spec \in Marker}}
  <2>3. ASSUME NEW s \in call.sinks, NEW l \in CheckedTaint(call, s, e), l.spec \in Marker
        PROVE  Of(s, l) \in Flow
    <3>1. l.chain \in Chain /\ l.chain # <<>>
      BY <2>1, CheckedType DEF Label
    <3>2. Tail(l.chain) \in Chain
      BY <2>1, <3>1, CallStepType, ChainType
    <3>3. Append(Tail(l.chain), st) \in Chain
      BY <2>1, <3>2, CallStepType, ChainType
    <3>4. ParamOf[l.spec] \in Nat
      BY <2>3, MarkerAssumption
    <3>5. QED BY <2>2, <3>3, <3>4 DEF Flow
  <2>4. SinkFlows(call, e) = UNION {All(s) : s \in call.sinks}
    BY DEF SinkFlows
  <2> HIDE DEF Of
  <2>5. \A s \in call.sinks : All(s) \in SUBSET Flow
    BY <2>3
  <2> HIDE DEF All
  <2>6. SinkFlows(call, e) \in SUBSET Flow
    BY <2>4, <2>5
  <2>7. QED BY <2>6 DEF call
<1>5. QED BY <1>3, <1>4 DEF StmtFlows

-----------------------------------------------------------------------------
(***************************************************************************)
(* Type correctness.                                                       *)
(***************************************************************************)
\* The join of the predecessors is an environment.
LEMMA JoinType ==
  ASSUME IsProgram(prog), NEW outs \in [Blocks -> Env], NEW b
  PROVE  JoinOf(b, outs) \in Env
<1>1. ASSUME NEW p \in AccessPath
      PROVE  (IF b = prog.entry THEN prog.entryEnv[p] ELSE {})
               \cup UNION {outs[c][p] : c \in Preds(prog, b)} \in SUBSET Label
  <2>1. prog.entryEnv[p] \in SUBSET Label
    BY DEF IsProgram, Env
  <2>2. \A c \in Preds(prog, b) : outs[c][p] \in SUBSET Label
    BY DEF Preds, Blocks, Env
  <2>3. QED BY <2>1, <2>2
<1>2. QED BY <1>1, MergeType DEF JoinOf, JoinAt, Env

\* The analysis starts well typed.
LEMMA InitTypeOK == Init => TypeOK
<1> SUFFICES ASSUME Init PROVE TypeOK
  OBVIOUS
<1>1. IsProgram(prog)
  BY ProgramsAssumption DEF Init
<1>2. prog.entry \in Blocks /\ prog.n \in Nat \ {0} /\ prog.entryEnv \in Env
  BY <1>1 DEF IsProgram, Blocks, BlocksOf
<1>3. EmptyEnv \in Env
  BY DEF EmptyEnv, Env
<1>4. in_env \in [Blocks -> Env] /\ out_env \in [Blocks -> Env]
  BY <1>2, <1>3 DEF Init
<1>5. at \in [Blocks -> Seq(Env)]
  BY DEF Init
<1>6. Len(prog.stmts[cur]) \in Nat
  BY <1>1, <1>2 DEF Init, IsProgram, Blocks, BlocksOf
<1>7. QED BY <1>1, <1>2, <1>3, <1>4, <1>5, <1>6 DEF Init, TypeOK, Stmts

\* Every step keeps the types: one case for each action.
LEMMA TypeOKStep == TypeOK /\ [Next]_vars => TypeOK'
<1> SUFFICES ASSUME TypeOK, [Next]_vars PROVE TypeOK'
  OBVIOUS
<1>1. IsProgram(prog) /\ IsSummaries(prog.summaries)
  BY DEF TypeOK, IsProgram
<1>2. \A b \in Blocks : Len(prog.stmts[b]) \in Nat
  BY <1>1 DEF IsProgram, Blocks, BlocksOf
<1>3. pos \in 1..Len(Stmts) => Stmts[pos] \in Stmt
  <2>1. prog.stmts[cur] \in Seq(Stmt)
    BY <1>1 DEF TypeOK, IsProgram, Blocks, BlocksOf
  <2>2. QED BY <2>1 DEF Stmts
<1>4. ASSUME NEW b \in Blocks, Pop(b)
      PROVE  TypeOK'
  <2> DEFINE j == JoinOf(b, out_env)
  <2>1. j \in Env
    BY <1>1, JoinType DEF TypeOK
  <2> HIDE DEF j
  <2>2. env' = j /\ in_env' = [in_env EXCEPT ![b] = j] /\ at' = [at EXCEPT ![b] = <<j>>]
    BY <1>4 DEF Pop, j
  <2>3. <<j>> \in Seq(Env)
    BY <2>1
  <2>4. in_env' \in [Blocks -> Env] /\ at' \in [Blocks -> Seq(Env)] /\ env' \in Env
    BY <2>1, <2>2, <2>3 DEF TypeOK
  <2>5. QED BY <1>2, <1>4, <2>4 DEF Pop, TypeOK, Blocks, BlocksOf, Stmts
<1>5. CASE Execute
  <2>1. env' \in Env
    BY <1>1, <1>3, <1>5, TransferType DEF Execute, TypeOK
  <2>2. Append(at[cur], env') \in Seq(Env)
    BY <2>1 DEF TypeOK
  <2>3. at' \in [Blocks -> Seq(Env)]
    BY <1>5, <2>2 DEF Execute, TypeOK
  <2>4. pos' \in 1..(Len(Stmts) + 1)
    BY <1>2, <1>5 DEF Execute, TypeOK, Stmts
  <2>5. QED BY <1>5, <2>1, <2>3, <2>4 DEF Execute, TypeOK, Blocks, BlocksOf, Stmts
<1>6. CASE Leave
  <2>1. prog.succ[cur] \subseteq Blocks
    BY <1>1 DEF TypeOK, IsProgram, Blocks, BlocksOf
  <2>2. worklist' \subseteq Blocks /\ out_env' \in [Blocks -> Env]
    BY <1>6, <2>1 DEF Leave, TypeOK
  <2>3. QED BY <1>6, <2>2 DEF Leave, TypeOK, Blocks, BlocksOf, Stmts
<1>7. CASE Stop
  <2>1. 0 \in Blocks
    BY <1>1 DEF IsProgram, Blocks, BlocksOf
  <2>2. QED BY <1>2, <1>7, <2>1 DEF Stop, TypeOK, Blocks, BlocksOf, Stmts
<1>8. CASE Emit
  <2>1. env' \in Env
    BY <1>1, <1>3, <1>8, TransferType DEF Emit, TypeOK
  <2>2. IF prog.kind = "engine" THEN raw' \subseteq Finding ELSE raw' \subseteq Flow
    BY <1>1, <1>3, <1>8, StmtFindingsType, StmtFlowsType DEF Emit, Collected, TypeOK
  <2>3. pos' \in 1..(Len(Stmts) + 1)
    BY <1>2, <1>8 DEF Emit, TypeOK, Stmts
  <2>4. QED BY <1>8, <2>1, <2>2, <2>3 DEF Emit, TypeOK, Blocks, BlocksOf, Stmts
<1>9. CASE NextBlock
  BY <1>2, <1>9 DEF NextBlock, TypeOK, Blocks, BlocksOf, Stmts
<1>10. CASE Return
  BY <1>10 DEF Return, AnswerOf, Finalize, TypeOK, Blocks, BlocksOf, Stmts
<1>11. CASE UNCHANGED vars
  BY <1>11 DEF vars, TypeOK, Blocks, BlocksOf, Stmts
<1>12. QED
  BY <1>4, <1>5, <1>6, <1>7, <1>8, <1>9, <1>10, <1>11 DEF Next

\* Every variable keeps its type, whatever the function analysed: the
\* worklist only ever holds blocks of the function, and the two passes only
\* build environments, findings and flows out of well-formed labels.
THEOREM TypeCorrect == Spec => []TypeOK
<1>1. QED BY InitTypeOK, TypeOKStep, PTL DEF Spec

-----------------------------------------------------------------------------
(***************************************************************************)
(* The fixpoint.  EmptyWorklistIsFixpoint alone is not inductive: that the *)
(* last visit restored the last block says nothing unless every other      *)
(* block off the worklist was already solved, and stays solved when        *)
(* another one's out-environment changes.                                  *)
(***************************************************************************)

\* A block's equations mention only its predecessors' out-environments.
LEMMA JoinLocal ==
  ASSUME NEW b, NEW outs, NEW others, \A c \in Preds(prog, b) : outs[c] = others[c]
  PROVE  JoinOf(b, outs) = JoinOf(b, others)
<1>1. \A p : UNION {outs[c][p] : c \in Preds(prog, b)} = UNION {others[c][p] : c \in Preds(prog, b)}
  <2>1. TAKE p
  <2>2. {outs[c][p] : c \in Preds(prog, b)} = {others[c][p] : c \in Preds(prog, b)}
    OBVIOUS
  <2>3. QED BY <2>2
<1>2. QED BY <1>1 DEF JoinOf, JoinAt

\* The inductive invariant.
IInv == TypeOK /\ SettledOffWorklist

\* At the start every block is on the worklist, so nothing is owed.
LEMMA InitSettled == Init => IInv
<1>1. Init => worklist = Blocks /\ phase # "visit"
  BY DEF Init
<1>2. QED BY <1>1, InitTypeOK DEF IInv, SettledOffWorklist

\* Starting a visit takes its block off the worklist and touches no other.
LEMMA PopSettled ==
  ASSUME IInv, NEW b \in Blocks, Pop(b)
  PROVE  SettledOffWorklist'
<1> DEFINE j == JoinOf(b, out_env)
<1>1. /\ prog' = prog /\ out_env' = out_env /\ cur' = b /\ pos' = 1 /\ env' = j
      /\ in_env' = [in_env EXCEPT ![b] = j] /\ at' = [at EXCEPT ![b] = <<j>>]
      /\ phase' = "visit" /\ worklist' = worklist \ {b} /\ phase = "solve"
  BY DEF Pop
<1>2. \A c : JoinOf(c, out_env)' = JoinOf(c, out_env)
  BY <1>1 DEF JoinOf, JoinAt, Preds, Blocks, BlocksOf
<1> HIDE DEF j
<1>3. in_env'[b] = j /\ at'[b] = <<j>>
  BY <1>1 DEF IInv, TypeOK
<1>4. Visiting'
  <2>1. (cur \notin worklist)'
    BY <1>1
  <2>2. (in_env[cur] = JoinOf(cur, out_env))'
    BY <1>1, <1>2, <1>3 DEF j
  <2>3. (Len(at[cur]) = pos /\ at[cur][1] = in_env[cur] /\ at[cur][pos] = env)'
    BY <1>1, <1>3
  <2>4. (1..(pos - 1))' = {}
    BY <1>1
  <2>5. QED BY <2>1, <2>2, <2>3, <2>4 DEF Visiting
<1>5. ASSUME NEW c \in Blocks, c \notin worklist', c # b
      PROVE  Solved(c)'
  <2>1. Solved(c)
    BY <1>1, <1>5 DEF IInv, SettledOffWorklist
  <2>2. at'[c] = at[c] /\ in_env'[c] = in_env[c]
    BY <1>1, <1>5 DEF IInv, TypeOK
  <2>3. QED BY <1>1, <1>2, <2>1, <2>2 DEF Solved
<1>6. Blocks' = Blocks
  BY <1>1 DEF Blocks, BlocksOf
<1>7. QED BY <1>1, <1>4, <1>5, <1>6 DEF SettledOffWorklist

\* A statement extends the history of the visit by what it makes of env.
LEMMA ExecuteSettled ==
  ASSUME IInv, Execute
  PROVE  SettledOffWorklist'
<1> DEFINE next == Transfer(Stmts[pos], env, prog.summaries)
<1>1. /\ prog' = prog /\ out_env' = out_env /\ cur' = cur /\ in_env' = in_env
      /\ phase' = phase /\ worklist' = worklist /\ phase = "visit"
      /\ pos' = pos + 1 /\ env' = next /\ at' = [at EXCEPT ![cur] = Append(@, next)]
  BY DEF Execute
<1>2. \A c : JoinOf(c, out_env)' = JoinOf(c, out_env)
  BY <1>1 DEF JoinOf, JoinAt, Preds, Blocks, BlocksOf
<1>3. Visiting
  BY <1>1 DEF IInv, SettledOffWorklist
<1>4. at[cur] \in Seq(Env) /\ pos \in Nat \ {0} /\ cur \in Blocks
  <2>1. Len(at[cur]) \in Nat /\ pos \in 1..(Len(Stmts) + 1)
    BY DEF IInv, TypeOK
  <2>2. QED BY <2>1 DEF IInv, TypeOK, Execute
<1>5. Stmts' = Stmts
  BY <1>1 DEF Stmts
<1> HIDE DEF next
<1>6. at'[cur] = Append(at[cur], next)
  BY <1>1, <1>4 DEF IInv, TypeOK
<1>7. /\ Len(at'[cur]) = pos + 1
      /\ \A i \in 1..pos : at'[cur][i] = at[cur][i]
      /\ at'[cur][pos + 1] = next
  BY <1>3, <1>4, <1>6 DEF Visiting
<1>8. Visiting'
  <2>1. (cur \notin worklist)' /\ (in_env[cur] = JoinOf(cur, out_env))'
    BY <1>1, <1>2, <1>3 DEF Visiting
  <2>2. (Len(at[cur]) = pos /\ at[cur][1] = in_env[cur] /\ at[cur][pos] = env)'
    BY <1>1, <1>3, <1>4, <1>7 DEF Visiting
  <2>3. ASSUME NEW i \in 1..pos
        PROVE  at'[cur][i + 1] = Transfer(Stmts[i], at'[cur][i], prog.summaries)
    <3>1. CASE i = pos
      BY <1>3, <1>4, <1>7, <3>1 DEF Visiting, next
    <3>2. CASE i # pos
      BY <1>3, <1>4, <1>7, <3>2 DEF Visiting
    <3>3. QED BY <3>1, <3>2
  <2>4. (1..(pos - 1))' = 1..pos
    BY <1>1, <1>4
  <2>5. QED BY <1>1, <1>5, <2>1, <2>2, <2>3, <2>4 DEF Visiting
<1>9. ASSUME NEW c \in Blocks, c \notin worklist', c # cur
      PROVE  Solved(c)'
  <2>1. Solved(c) /\ at'[c] = at[c]
    BY <1>1, <1>9 DEF IInv, SettledOffWorklist, TypeOK
  <2>2. QED BY <1>1, <1>2, <2>1 DEF Solved
<1>10. Blocks' = Blocks
  BY <1>1 DEF Blocks, BlocksOf
<1>11. QED BY <1>1, <1>8, <1>9, <1>10 DEF SettledOffWorklist

\* Ending a visit solves its block, unless its own out-environment feeds it;
\* whoever is fed by a changed out-environment is back on the worklist.
LEMMA LeaveSettled ==
  ASSUME IInv, Leave
  PROVE  SettledOffWorklist'
<1>1. /\ prog' = prog /\ in_env' = in_env /\ at' = at /\ phase = "visit" /\ phase' = "solve"
      /\ pos = Len(Stmts) + 1 /\ out_env' = [out_env EXCEPT ![cur] = env]
      /\ worklist' = IF env # out_env[cur] THEN worklist \cup prog.succ[cur] ELSE worklist
  BY DEF Leave
<1>2. Visiting
  BY <1>1 DEF IInv, SettledOffWorklist
<1>3. cur \in Blocks /\ out_env \in [Blocks -> Env] /\ Len(Stmts) \in Nat
  <2>1. prog.stmts[cur] \in Seq(Stmt)
    BY DEF IInv, TypeOK, IsProgram, Blocks, BlocksOf
  <2>2. QED BY <2>1 DEF IInv, TypeOK, Stmts
<1>4. \A c \in Blocks : c # cur => out_env'[c] = out_env[c]
  BY <1>1, <1>3
<1>5. out_env'[cur] = env
  BY <1>1, <1>3
<1>6. ASSUME NEW c \in Blocks, c \notin worklist'
      PROVE  JoinOf(c, out_env)' = JoinOf(c, out_env)
  <2>1. \A d \in Preds(prog, c) : out_env'[d] = out_env[d]
    <3>1. CASE env = out_env[cur]
      BY <1>4, <1>5, <3>1 DEF Preds, Blocks
    <3>2. CASE env # out_env[cur]
      <4>1. cur \notin Preds(prog, c)
        BY <1>1, <1>6, <3>2 DEF Preds, Blocks
      <4>2. QED BY <1>4, <4>1 DEF Preds, Blocks
    <3>3. QED BY <3>1, <3>2
  <2>2. JoinOf(c, out_env') = JoinOf(c, out_env)
    BY <2>1, JoinLocal
  <2>3. JoinOf(c, out_env)' = JoinOf(c, out_env')
    BY <1>1 DEF JoinOf, JoinAt, Preds, Blocks, BlocksOf
  <2>4. QED BY <2>2, <2>3
<1>7. ASSUME NEW c \in Blocks, c \notin worklist'
      PROVE  Solved(c)'
  <2>1. c \notin worklist
    BY <1>1, <1>7
  <2>2. CASE c = cur
    <3>1. Len(at[c]) = Len(prog.stmts[c]) + 1 /\ at[c][Len(prog.stmts[c]) + 1] = env
      BY <1>1, <1>2, <2>2 DEF Visiting, Stmts
    <3>2. at[c][1] = JoinOf(c, out_env) /\ in_env[c] = at[c][1]
      BY <1>2, <2>2 DEF Visiting
    <3>3. \A i \in 1..Len(prog.stmts[c]) :
            at[c][i + 1] = Transfer(prog.stmts[c][i], at[c][i], prog.summaries)
      <4>1. 1..(pos - 1) = 1..Len(Stmts)
        BY <1>1, <1>3
      <4>2. QED BY <1>2, <2>2, <4>1 DEF Visiting, Stmts
    <3>4. QED BY <1>1, <1>5, <1>6, <1>7, <2>2, <3>1, <3>2, <3>3 DEF Solved
  <2>3. CASE c # cur
    <3>1. Solved(c)
      BY <1>1, <2>1, <2>3 DEF IInv, SettledOffWorklist
    <3>2. QED BY <1>1, <1>4, <1>6, <1>7, <2>3, <3>1 DEF Solved
  <2>4. QED BY <2>2, <2>3
<1>8. Blocks' = Blocks
  BY <1>1 DEF Blocks, BlocksOf
<1>9. QED BY <1>1, <1>7, <1>8 DEF SettledOffWorklist

\* The second pass leaves the solution alone.
LEMMA RestSettled ==
  ASSUME IInv, Stop \/ Emit \/ NextBlock \/ Return \/ UNCHANGED vars
  PROVE  SettledOffWorklist'
<1>1. /\ prog' = prog /\ in_env' = in_env /\ out_env' = out_env /\ at' = at
      /\ worklist' = worklist
      /\ phase' = "visit" => UNCHANGED vars
      /\ phase = "visit" => UNCHANGED vars
  BY DEF Stop, Emit, NextBlock, Return, vars
<1>2. \A c : JoinOf(c, out_env)' = JoinOf(c, out_env) /\ Blocks' = Blocks
  BY <1>1 DEF JoinOf, JoinAt, Preds, Blocks, BlocksOf
<1>3. \A c : Solved(c) => Solved(c)'
  BY <1>1, <1>2 DEF Solved
<1>4. CASE UNCHANGED vars
  <2>1. Stmts' = Stmts /\ Visiting' = Visiting
    BY <1>2, <1>4 DEF vars, Stmts, Visiting
  <2>2. QED BY <1>2, <1>3, <1>4, <2>1 DEF IInv, SettledOffWorklist, vars
<1>5. CASE phase' # "visit" /\ phase # "visit"
  BY <1>1, <1>2, <1>3, <1>5 DEF IInv, SettledOffWorklist
<1>6. QED BY <1>1, <1>4, <1>5

\* Every step keeps the inductive invariant.
LEMMA IInvStep == IInv /\ [Next]_vars => IInv'
<1> SUFFICES ASSUME IInv, [Next]_vars PROVE IInv'
  OBVIOUS
<1>1. TypeOK'
  BY TypeOKStep DEF IInv
<1>2. SettledOffWorklist'
  BY PopSettled, ExecuteSettled, LeaveSettled, RestSettled DEF Next
<1>3. QED BY <1>1, <1>2 DEF IInv

\* With an empty worklist the invariant says that every block is solved.
LEMMA IInvFixpoint == IInv => EmptyWorklistIsFixpoint
BY DEF IInv, SettledOffWorklist, EmptyWorklistIsFixpoint

\* Whatever the function, the statements and the sizes: the worklist of
\* _run_dataflow and _function_fixpoint never runs empty before every block
\* satisfies its dataflow equations.
THEOREM FixpointReached == Spec => []EmptyWorklistIsFixpoint
<1>1. Spec => []IInv
  BY InitSettled, IInvStep, PTL DEF Spec
<1>2. QED BY <1>1, IInvFixpoint, PTL

-----------------------------------------------------------------------------
(***************************************************************************)
(* Refinement: the worklist algorithm implements chaotic iteration, as     *)
(* long as its bound on visits is not what ends it.                        *)
(*                                                                         *)
(* The second pass recomputes the environments of each block's last visit: *)
(* on a solution it stands, before every statement, at the environment the *)
(* visit had there, and has collected what the statements behind it yield. *)
(***************************************************************************)
Behind(b, i) == b < cur \/ (b = cur /\ i < pos)

YieldedBehind(y) ==
  \E b \in Blocks : \E i \in 1..Len(prog.stmts[b]) :
    Behind(b, i) /\ y \in Collected(prog, prog.stmts[b][i], at[b][i])

Replays ==
  /\ phase \in {"solve", "visit"} => raw = {}
  /\ phase = "emit" /\ worklist = {} =>
       env = at[cur][pos] /\ \A y : y \in raw <=> YieldedBehind(y)

\* What the steps of the second pass rest on: every block is solved.
LEMMA SecondPassSolved ==
  ASSUME IInv, phase = "emit", worklist = {}
  PROVE  \A b \in Blocks : Solved(b)
BY DEF IInv, SettledOffWorklist

\* The lengths of blocks are numbers, and a position is in or after its block.
LEMMA Positions ==
  ASSUME IInv
  PROVE  /\ \A b \in Blocks : prog.stmts[b] \in Seq(Stmt) /\ Len(prog.stmts[b]) \in Nat
         /\ cur \in Blocks /\ pos \in 1..(Len(Stmts) + 1) /\ cur \in Nat /\ pos \in Nat
         /\ Blocks \subseteq Nat /\ prog.n \in Nat \ {0}
<1>1. prog.stmts \in [Blocks -> Seq(Stmt)] /\ prog.n \in Nat \ {0}
  BY DEF IInv, TypeOK, IsProgram, Blocks, BlocksOf
<1>2. \A b \in Blocks : prog.stmts[b] \in Seq(Stmt)
  BY <1>1
<1>3. cur \in Blocks /\ pos \in 1..(Len(Stmts) + 1)
  BY DEF IInv, TypeOK
<1>4. Len(Stmts) \in Nat
  BY <1>2, <1>3 DEF Stmts
<1>5. Blocks \subseteq Nat
  BY <1>1 DEF Blocks, BlocksOf
<1>6. QED BY <1>1, <1>2, <1>3, <1>4, <1>5

\* The second pass starts at the head of the first block.
LEMMA StopReplays ==
  ASSUME IInv, Replays, CapIsSafetyNet', Stop
  PROVE  Replays'
<1>1. /\ phase' = "emit" /\ worklist' = {} /\ worklist = {} /\ phase = "solve"
      /\ cur' = 0 /\ pos' = 1 /\ env' = in_env[0]
      /\ prog' = prog /\ at' = at /\ raw' = raw
  BY DEF Stop, CapIsSafetyNet
<1>2. Solved(0) /\ 0 \in Blocks
  <2>1. 0 \in Blocks
    BY Positions DEF Blocks, BlocksOf
  <2>2. QED BY <1>1, <2>1 DEF IInv, SettledOffWorklist
<1>3. env' = at[0][1]
  BY <1>1, <1>2 DEF Solved
<1>4. raw = {}
  BY <1>1 DEF Replays
<1>5. \A b \in Blocks : \A i \in 1..Len(prog.stmts[b]) : ~ Behind(b, i)'
  BY <1>1, Positions DEF Behind
<1>6. \A y : ~ YieldedBehind(y)'
  BY <1>1, <1>5 DEF YieldedBehind, Blocks, BlocksOf
<1>7. QED BY <1>1, <1>3, <1>4, <1>6 DEF Replays

\* One statement of the second pass.
LEMMA EmitReplays ==
  ASSUME IInv, Replays, Emit
  PROVE  Replays'
<1>1. /\ phase = "emit" /\ phase' = "emit" /\ worklist' = worklist
      /\ pos \in 1..Len(Stmts) /\ pos' = pos + 1 /\ cur' = cur
      /\ raw' = raw \cup Collected(prog, Stmts[pos], env)
      /\ env' = Transfer(Stmts[pos], env, prog.summaries)
      /\ prog' = prog /\ at' = at
  BY DEF Emit
<1> SUFFICES ASSUME worklist = {}
             PROVE  env' = at[cur][pos + 1] /\ \A y : y \in raw' <=> YieldedBehind(y)'
  BY <1>1 DEF Replays
<1>2. env = at[cur][pos] /\ \A y : y \in raw <=> YieldedBehind(y)
  BY <1>1 DEF Replays
<1>3. cur \in Blocks /\ Solved(cur)
  BY <1>1, Positions, SecondPassSolved
<1>4. env' = at[cur][pos + 1]
  BY <1>1, <1>2, <1>3 DEF Solved, Stmts
<1>5. ASSUME NEW b \in Blocks, NEW i \in 1..Len(prog.stmts[b])
      PROVE  Behind(b, i)' <=> Behind(b, i) \/ (b = cur /\ i = pos)
  BY <1>1, Positions DEF Behind
<1>6. \A y : YieldedBehind(y)'
               <=> YieldedBehind(y) \/ y \in Collected(prog, prog.stmts[cur][pos], at[cur][pos])
  BY <1>1, <1>3, <1>5 DEF YieldedBehind, Stmts, Blocks, BlocksOf
<1>7. \A y : y \in raw' <=> YieldedBehind(y)'
  BY <1>1, <1>2, <1>6 DEF Stmts
<1>8. QED BY <1>4, <1>7

\* The second pass goes on to the next block.
LEMMA NextBlockReplays ==
  ASSUME IInv, Replays, NextBlock
  PROVE  Replays'
<1>1. /\ phase = "emit" /\ phase' = "emit" /\ worklist' = worklist
      /\ pos = Len(Stmts) + 1 /\ pos' = 1 /\ cur' = cur + 1 /\ cur + 1 \in Blocks
      /\ raw' = raw /\ env' = in_env[cur + 1] /\ prog' = prog /\ at' = at
  BY DEF NextBlock
<1> SUFFICES ASSUME worklist = {}
             PROVE  env' = at[cur + 1][1] /\ \A y : y \in raw' <=> YieldedBehind(y)'
  BY <1>1 DEF Replays
<1>2. env' = at[cur + 1][1]
  BY <1>1, SecondPassSolved DEF Solved
<1>3. ASSUME NEW b \in Blocks, NEW i \in 1..Len(prog.stmts[b])
      PROVE  Behind(b, i)' <=> Behind(b, i)
  <2>1. b \in Nat /\ i \in Nat /\ cur \in Nat
    BY Positions
  <2>2. b = cur => i < pos
    BY <1>1, Positions DEF Stmts
  <2>3. QED BY <1>1, <2>1, <2>2 DEF Behind
<1>4. \A y : YieldedBehind(y)' <=> YieldedBehind(y)
  BY <1>1, <1>3 DEF YieldedBehind, Blocks, BlocksOf
<1>5. QED BY <1>1, <1>2, <1>4 DEF Replays

\* Every step keeps the replay.
LEMMA ReplaysStep ==
  ASSUME IInv, Replays, CapIsSafetyNet', [Next]_vars
  PROVE  Replays'
<1>1. CASE \E b \in Blocks : Pop(b)
  BY <1>1 DEF Pop, Replays
<1>2. CASE Execute
  BY <1>2 DEF Execute, Replays
<1>3. CASE Leave
  BY <1>3 DEF Leave, Replays
<1>4. CASE Return
  BY <1>4 DEF Return, Replays
<1>5. CASE UNCHANGED vars
  BY <1>5 DEF vars, Replays, YieldedBehind, Behind, Blocks, BlocksOf
<1>6. QED
  BY <1>1, <1>2, <1>3, <1>4, <1>5, StopReplays, EmitReplays, NextBlockReplays DEF Next

-----------------------------------------------------------------------------
(***************************************************************************)
(* The steps of the refinement.                                            *)
(***************************************************************************)
\* The analysis starts where chaotic iteration starts.
LEMMA InitRefines == Init => Chaotic!Init
<1> SUFFICES ASSUME Init PROVE Chaotic!Init
  OBVIOUS
<1>1. Runs = [b \in Blocks |-> <<>>]
  BY DEF Init, Runs
<1>2. QED BY <1>1 DEF Init, Chaotic!Init, Blocks

\* A visit that starts opens its block.
LEMMA PopRefines ==
  ASSUME IInv, NEW b \in Blocks, Pop(b)
  PROVE  Chaotic!Open(b)
<1>1. /\ phase = "solve" /\ phase' = "visit" /\ cur' = b
      /\ at' = [at EXCEPT ![b] = <<JoinOf(b, out_env)>>]
      /\ UNCHANGED <<prog, out_env, result>>
  BY DEF Pop
<1>2. Runs' = [Runs EXCEPT ![b] = <<>>]
  BY <1>1 DEF Runs, Blocks, IInv, TypeOK
<1>3. QED BY <1>1, <1>2 DEF Chaotic!Open

\* A statement of a visit changes nothing of the abstract state.
LEMMA ExecuteRefines ==
  ASSUME IInv, Execute
  PROVE  UNCHANGED Chaotic!vars
<1>1. /\ phase = "visit" /\ UNCHANGED <<prog, phase, out_env, cur, result>>
      /\ at' = [at EXCEPT ![cur] = Append(@, env')]
  BY DEF Execute
<1>2. Runs' = Runs
  BY <1>1 DEF Runs, Blocks, IInv, TypeOK
<1>3. QED BY <1>1, <1>2 DEF Chaotic!vars

\* A visit that ends closes its block.
LEMMA LeaveRefines ==
  ASSUME IInv, Leave
  PROVE  Chaotic!Close(cur)
<1>1. /\ phase = "visit" /\ phase' = "solve" /\ pos = Len(Stmts) + 1
      /\ UNCHANGED <<prog, cur, at, result>>
      /\ out_env' = [out_env EXCEPT ![cur] = env]
  BY DEF Leave
<1>2. Visiting /\ cur \in Blocks /\ Len(Stmts) \in Nat
  BY <1>1, Positions DEF IInv, SettledOffWorklist, Stmts
<1>3. Runs' = at /\ Runs'[cur] = at[cur]
  BY <1>1 DEF Runs, Blocks, IInv, TypeOK
<1>4. Runs' = [Runs EXCEPT ![cur] = Runs'[cur]]
  BY <1>1, <1>2, <1>3 DEF Runs, Blocks, IInv, TypeOK
<1>5. env = Runs'[cur][Len(prog.stmts[cur]) + 1]
  BY <1>1, <1>2, <1>3 DEF Visiting, Stmts
<1>6. Chaotic!IsRun(Runs'[cur], cur)
  <2>1. Len(at[cur]) = Len(prog.stmts[cur]) + 1 /\ at[cur][1] = JoinAt(prog, cur, out_env)
    BY <1>1, <1>2 DEF Visiting, Stmts, JoinOf
  <2>2. \A i \in 1..Len(prog.stmts[cur]) :
          at[cur][i + 1] = Apply(prog, prog.stmts[cur][i], at[cur][i])
    BY <1>1, <1>2 DEF Visiting, Stmts, Apply
  <2>3. QED BY <1>3, <2>1, <2>2 DEF Chaotic!IsRun
<1>7. QED BY <1>1, <1>4, <1>5, <1>6 DEF Chaotic!Close

\* The solution the worklist ends with is stable.
LEMMA SolvedStable ==
  ASSUME NEW b \in Blocks, Solved(b), phase # "visit"
  PROVE  Chaotic!Stable(b) /\ Runs[b] = at[b]
<1>1. Runs[b] = at[b]
  BY DEF Runs
<1>2. QED BY <1>1 DEF Solved, Chaotic!Stable, Chaotic!IsRun, JoinOf, Apply

\* The end of the second pass gives the answer of the solution.
LEMMA ReturnRefines ==
  ASSUME IInv, Replays, CapIsSafetyNet, Return
  PROVE  Chaotic!Answer
<1>1. /\ phase = "emit" /\ phase' = "done" /\ pos = Len(Stmts) + 1 /\ cur + 1 \notin Blocks
      /\ result' = AnswerOf(prog, raw) /\ UNCHANGED <<prog, out_env, at, cur>>
  BY DEF Return
<1>2. worklist = {}
  BY <1>1 DEF CapIsSafetyNet
<1>3. \A b \in Blocks : Chaotic!Stable(b) /\ Runs[b] = at[b]
  BY <1>1, <1>2, SecondPassSolved, SolvedStable
<1>4. \A b \in Blocks : \A i \in 1..Len(prog.stmts[b]) : Behind(b, i)
  <2> SUFFICES ASSUME NEW b \in Blocks, NEW i \in 1..Len(prog.stmts[b])
               PROVE  Behind(b, i)
    OBVIOUS
  <2>1. cur \in Nat /\ b \in Nat /\ cur \in Blocks /\ prog.n \in Nat
    BY Positions
  <2>2. b <= cur
    BY <1>1, <2>1 DEF Blocks, BlocksOf
  <2>3. b = cur => i < pos
    BY <1>1, Positions DEF Stmts
  <2>4. QED BY <2>1, <2>2, <2>3 DEF Behind
<1>5. \A y : y \in raw <=> y \in UNION Chaotic!Solution
  <2>1. \A y : y \in raw <=> YieldedBehind(y)
    BY <1>1, <1>2 DEF Replays
  <2>2. \A y : YieldedBehind(y)
                 <=> \E b \in Blocks : \E i \in 1..Len(prog.stmts[b]) :
                       y \in Collected(prog, prog.stmts[b][i], Runs[b][i])
    BY <1>3, <1>4 DEF YieldedBehind
  <2>3. QED BY <2>1, <2>2 DEF Chaotic!Solution, Blocks
<1>6. raw = UNION Chaotic!Solution
  BY <1>5
<1>7. UNCHANGED Runs
  BY <1>1 DEF Runs, Blocks
<1>8. QED BY <1>1, <1>3, <1>6, <1>7 DEF Chaotic!Answer, Blocks

\* The other steps of the second pass change nothing of the abstract state.
LEMMA RestRefines ==
  ASSUME Stop \/ Emit \/ NextBlock \/ UNCHANGED vars
  PROVE  UNCHANGED Chaotic!vars
<1>1. CASE UNCHANGED vars
  BY <1>1 DEF vars, Runs, Blocks, Chaotic!vars
<1>2. CASE Stop \/ Emit \/ NextBlock
  <2>1. /\ UNCHANGED <<prog, out_env, at, result>>
        /\ phase \notin {"visit", "done"} /\ phase' \notin {"visit", "done"}
    BY <1>2 DEF Stop, Emit, NextBlock
  <2>2. QED BY <2>1 DEF Runs, Blocks, Chaotic!vars
<1>3. QED BY <1>1, <1>2

\* Every step of the analysis is a step of chaotic iteration or none.
LEMMA NextRefines ==
  ASSUME IInv, Replays, CapIsSafetyNet, [Next]_vars
  PROVE  [Chaotic!Next]_(Chaotic!vars)
<1>1. CASE \E b \in Blocks : Pop(b)
  BY <1>1, PopRefines DEF Chaotic!Next, Blocks
<1>2. CASE Leave
  BY <1>2, LeaveRefines, Positions DEF Chaotic!Next, Blocks
<1>3. CASE Return
  BY <1>3, ReturnRefines DEF Chaotic!Next
<1>4. QED
  BY <1>1, <1>2, <1>3, ExecuteRefines, RestRefines DEF Next

\* Whatever the function and the sizes: as long as the bound on visits is
\* only a safety net, what analyze_function and _summarize_function return
\* is what chaotic iteration computes on their equations.
THEOREM WorklistIsChaotic == Spec /\ []CapIsSafetyNet => ImplementsChaotic
<1>1. Init => Replays
  BY DEF Init, Replays
<1>2. Spec => []IInv
  BY InitSettled, IInvStep, PTL DEF Spec
<1>3. IInv /\ Replays /\ CapIsSafetyNet' /\ [Next]_vars => Replays'
  BY ReplaysStep
<1>4. Spec /\ []CapIsSafetyNet => []Replays
  BY <1>1, <1>2, <1>3, PTL DEF Spec
<1>5. IInv /\ Replays /\ CapIsSafetyNet /\ [Next]_vars => [Chaotic!Next]_(Chaotic!vars)
  BY NextRefines
<1>6. QED
  BY <1>2, <1>4, <1>5, InitRefines, PTL DEF Spec, ImplementsChaotic, Chaotic!Spec

-----------------------------------------------------------------------------
(***************************************************************************)
(* The transfer of a statement is monotone, and so the environments only   *)
(* grow.                                                                   *)
(***************************************************************************)

(***************************************************************************)
(* Witness chains are ordered linearly, and any set of them has a best.    *)
(***************************************************************************)
NotWorse(a, b) == ~ BetterChain(b, a)

\* A set of natural numbers that is not empty has a least element.
LEMMA LeastNumber ==
  ASSUME NEW S \in SUBSET Nat, S # {}
  PROVE  \E n \in S : \A m \in S : n <= m
<1>1. IsWellFoundedOn(OpToRel(<, Nat), Nat)
  BY NatLessThanWellFounded
<1>2. PICK n \in S : \A m \in S : ~ (<<m, n>> \in OpToRel(<, Nat))
  BY <1>1, WFMin, Zenon
<1>3. \A m \in S : ~ (m < n)
  BY <1>2 DEF OpToRel
<1>4. QED BY <1>3

\* Steps are ordered linearly.
LEMMA StepOrder ==
  ASSUME NEW s \in WitnessStep, NEW t \in WitnessStep, NEW u \in WitnessStep
  PROVE  /\ ~ StepBefore(s, s)
         /\ StepBefore(s, t) \/ s = t \/ StepBefore(t, s)
         /\ StepBefore(s, t) /\ StepBefore(t, u) => StepBefore(s, u)
<1>1. /\ s = <<s[1], s[2]>> /\ t = <<t[1], t[2]>> /\ s[1] \in Int /\ t[1] \in Int /\ u[1] \in Int
      /\ s[2] \in Int /\ t[2] \in Int /\ u[2] \in Int
  BY DEF WitnessStep
<1>2. QED BY <1>1 DEF StepBefore

\* A chain consists of steps, up to its length.
LEMMA ChainElements ==
  ASSUME NEW c \in Chain
  PROVE  /\ Len(c) \in Nat /\ DOMAIN c = 1..Len(c)
         /\ \A i \in 1..Len(c) : c[i] \in WitnessStep
<1> DEFINE W == WitnessStep
<1>1. c \in Seq(W)
  BY DEF Chain
<1> HIDE DEF W
<1>2. Len(c) \in Nat /\ DOMAIN c = 1..Len(c) /\ \A i \in 1..Len(c) : c[i] \in W
  BY <1>1
<1>3. QED BY <1>2 DEF W

\* The order of chains is total.
LEMMA ChainTotal ==
  ASSUME NEW a \in Chain, NEW b \in Chain
  PROVE  BetterChain(a, b) \/ a = b \/ BetterChain(b, a)
<1>1. Len(a) \in Nat /\ Len(b) \in Nat
  BY ChainElements
<1>2. CASE Len(a) # Len(b)
  BY <1>1, <1>2 DEF BetterChain
<1>3. CASE Len(a) = Len(b)
  <2> DEFINE differ == {i \in 1..Len(a) : a[i] # b[i]}
  <2>1. CASE differ = {}
    <3>1. a = b
      <4> DEFINE W == WitnessStep
      <4>1. a \in Seq(W) /\ b \in Seq(W)
        BY DEF Chain
      <4> HIDE DEF W
      <4>2. \A i \in 1..Len(a) : a[i] = b[i]
        BY <2>1
      <4>3. QED BY <4>1, <4>2, <1>3
    <3>2. QED BY <3>1
  <2>2. CASE differ # {}
    <3>1. PICK i \in differ : \A j \in differ : i <= j
      <4>1. differ \in SUBSET Nat
        BY <1>1
      <4>2. QED BY <4>1, <2>2, LeastNumber
    <3>2. \A j \in 1..(i - 1) : a[j] = b[j]
      BY <1>1, <3>1
    <3>3. a[i] \in WitnessStep /\ b[i] \in WitnessStep /\ a[i] # b[i]
      BY <1>3, <3>1, ChainElements
    <3>4. StepBefore(a[i], b[i]) \/ StepBefore(b[i], a[i])
      BY <3>3, StepOrder
    <3>5. i \in 1..Len(a) /\ i \in 1..Len(b)
      BY <1>3, <3>1
    <3> HIDE DEF differ
    <3>6. CASE StepBefore(a[i], b[i])
      BY <1>3, <3>2, <3>5, <3>6 DEF BetterChain
    <3>7. CASE StepBefore(b[i], a[i])
      BY <1>3, <3>2, <3>5, <3>7 DEF BetterChain
    <3>8. QED BY <3>4, <3>6, <3>7
  <2>3. QED BY <2>1, <2>2
<1>4. QED BY <1>2, <1>3

\* No chain is better than itself.
LEMMA ChainIrreflexive ==
  ASSUME NEW a \in Chain
  PROVE  ~ BetterChain(a, a)
<1>1. Len(a) \in Nat /\ \A i \in 1..Len(a) : ~ StepBefore(a[i], a[i])
  BY ChainElements, StepOrder
<1>2. QED BY <1>1 DEF BetterChain

\* Being better is transitive.
LEMMA BetterTrans ==
  ASSUME NEW a \in Chain, NEW b \in Chain, NEW c \in Chain, BetterChain(a, b), BetterChain(b, c)
  PROVE  BetterChain(a, c)
<1>1. Len(a) \in Nat /\ Len(b) \in Nat /\ Len(c) \in Nat
  BY ChainElements
<1>2. CASE Len(a) < Len(b) \/ Len(b) < Len(c)
  BY <1>1, <1>2 DEF BetterChain
<1>3. CASE ~ (Len(a) < Len(b) \/ Len(b) < Len(c))
  <2>1. Len(a) = Len(b) /\ Len(b) = Len(c)
    BY <1>3 DEF BetterChain
  <2>2. PICK i \in 1..Len(a) : StepBefore(a[i], b[i]) /\ \A j \in 1..(i - 1) : a[j] = b[j]
    BY <1>3 DEF BetterChain
  <2>3. PICK k \in 1..Len(a) : StepBefore(b[k], c[k]) /\ \A j \in 1..(k - 1) : b[j] = c[j]
    BY <1>3, <2>1 DEF BetterChain
  <2>4. /\ a[i] \in WitnessStep /\ b[i] \in WitnessStep /\ c[i] \in WitnessStep
        /\ a[k] \in WitnessStep /\ b[k] \in WitnessStep /\ c[k] \in WitnessStep
    BY <2>1, ChainElements
  <2>5. CASE i < k
    <3>1. i \in 1..(k - 1) /\ \A j \in 1..(i - 1) : j \in 1..(k - 1)
      BY <1>1, <2>5
    <3>2. StepBefore(a[i], c[i]) /\ \A j \in 1..(i - 1) : a[j] = c[j]
      BY <2>2, <2>3, <3>1
    <3>3. QED BY <2>1, <3>2 DEF BetterChain
  <2>6. CASE i = k
    <3>1. StepBefore(a[i], c[i]) /\ \A j \in 1..(i - 1) : a[j] = c[j]
      BY <2>2, <2>3, <2>4, <2>6, StepOrder
    <3>2. QED BY <2>1, <3>1 DEF BetterChain
  <2>7. CASE k < i
    <3>1. k \in 1..(i - 1) /\ \A j \in 1..(k - 1) : j \in 1..(i - 1)
      BY <1>1, <2>7
    <3>2. StepBefore(a[k], c[k]) /\ \A j \in 1..(k - 1) : a[j] = c[j]
      BY <2>2, <2>3, <3>1
    <3>3. QED BY <2>1, <3>2 DEF BetterChain
  <2>8. QED BY <1>1, <2>5, <2>6, <2>7
<1>4. QED BY <1>2, <1>3

\* No worse is better or the same.
LEMMA NotWorseIs ==
  ASSUME NEW a \in Chain, NEW b \in Chain
  PROVE  NotWorse(a, b) <=> a = b \/ BetterChain(a, b)
BY ChainTotal, ChainIrreflexive, BetterTrans DEF NotWorse

\* And so is transitive, too.
LEMMA NotWorseTrans ==
  ASSUME NEW a \in Chain, NEW b \in Chain, NEW c \in Chain, NotWorse(a, b), NotWorse(b, c)
  PROVE  NotWorse(a, c)
BY NotWorseIs, BetterTrans

\* Of two chains that go on in the same way the better beginning decides.
LEMMA NotWorseExtends ==
  ASSUME NEW a \in Chain, NEW b \in Chain, NEW f \in Chain, NotWorse(a, b)
  PROVE  NotWorse(a \o f, b \o f)
<1> DEFINE W == WitnessStep
<1>1. a \in Seq(W) /\ b \in Seq(W) /\ f \in Seq(W)
  BY DEF Chain
<1> HIDE DEF W
<1>2. /\ a \o f \in Seq(W) /\ Len(a \o f) = Len(a) + Len(f) /\ Len(f) \in Nat
      /\ b \o f \in Seq(W) /\ Len(b \o f) = Len(b) + Len(f) /\ Len(a) \in Nat /\ Len(b) \in Nat
      /\ \A i \in 1..Len(a) : (a \o f)[i] = a[i]
      /\ \A i \in 1..Len(b) : (b \o f)[i] = b[i]
  BY <1>1
<1>3. a \o f \in Chain /\ b \o f \in Chain
  BY <1>2 DEF Chain, W
<1>4. CASE a = b
  BY <1>3, <1>4, NotWorseIs
<1>5. CASE BetterChain(a, b)
  <2>1. CASE Len(a) < Len(b)
    <3>1. Len(a \o f) < Len(b \o f)
      BY <1>2, <2>1
    <3>2. BetterChain(a \o f, b \o f)
      BY <3>1 DEF BetterChain
    <3>3. QED BY <3>2, <1>3, NotWorseIs
  <2>2. CASE ~ (Len(a) < Len(b))
    <3>1. Len(a) = Len(b)
      BY <1>5, <2>2 DEF BetterChain
    <3>2. PICK i \in 1..Len(a) : StepBefore(a[i], b[i]) /\ \A j \in 1..(i - 1) : a[j] = b[j]
      BY <1>5, <2>2 DEF BetterChain
    <3>3. i \in 1..Len(a \o f) /\ \A j \in 1..(i - 1) : j \in 1..Len(a) /\ j \in 1..Len(b)
      BY <1>2, <3>1
    <3>4. StepBefore((a \o f)[i], (b \o f)[i]) /\ \A j \in 1..(i - 1) : (a \o f)[j] = (b \o f)[j]
      BY <1>2, <3>1, <3>2, <3>3
    <3>5. Len(a \o f) = Len(b \o f)
      BY <1>2, <3>1
    <3>6. BetterChain(a \o f, b \o f)
      BY <3>3, <3>4, <3>5 DEF BetterChain
    <3>7. QED BY <3>6, <1>3, NotWorseIs
  <2>3. QED BY <2>1, <2>2
<1>6. QED BY <1>4, <1>5, NotWorseIs

\* A set of steps has a first one.
LEMMA FirstStep ==
  ASSUME NEW S \in SUBSET WitnessStep, S # {}
  PROVE  \E s \in S : \A t \in S : s = t \/ StepBefore(s, t)
<1>1. \A s \in S : s[1] \in Nat /\ s[2] \in Nat /\ s = <<s[1], s[2]>>
  BY DEF WitnessStep
<1> DEFINE roles == {s[1] : s \in S}
<1>2. PICK r \in roles : \A q \in roles : r <= q
  <2>1. roles \in SUBSET Nat /\ roles # {}
    BY <1>1
  <2>2. QED BY <2>1, LeastNumber
<1> DEFINE places == {s[2] : s \in {t \in S : t[1] = r}}
<1>3. PICK n \in places : \A m \in places : n <= m
  <2>1. places \in SUBSET Nat /\ places # {}
    BY <1>1, <1>2
  <2>2. QED BY <2>1, LeastNumber
<1>4. PICK s \in S : s[1] = r /\ s[2] = n
  BY <1>3
<1>5. ASSUME NEW t \in S PROVE s = t \/ StepBefore(s, t)
  <2>1. s[1] <= t[1] /\ (t[1] = s[1] => s[2] <= t[2])
    BY <1>2, <1>3, <1>4
  <2>2. QED BY <2>1, <1>1 DEF StepBefore
<1>6. QED BY <1>5

\* c comes no later than d on the first k steps.
NoLater(k, c, d) ==
  \/ \A j \in 1..k : c[j] = d[j]
  \/ \E i \in 1..k : StepBefore(c[i], d[i]) /\ \A j \in 1..(i - 1) : c[j] = d[j]

\* A set of chains has a best one: of the shortest, by the first step, by the
\* second, and so on.
LEMMA BestExists ==
  ASSUME NEW S \in SUBSET Chain, S # {}
  PROVE  \E c \in S : \A d \in S : NotWorse(c, d)
<1> DEFINE lengths == {Len(c) : c \in S}
<1>1. PICK n \in lengths : \A m \in lengths : n <= m
  <2>1. lengths \in SUBSET Nat /\ lengths # {}
    BY ChainElements
  <2>2. QED BY <2>1, LeastNumber
<1> DEFINE T == {c \in S : Len(c) = n}
<1>2. T # {} /\ n \in Nat /\ \A d \in S : n <= Len(d) /\ Len(d) \in Nat
  BY <1>1, ChainElements
<1>3. \A c \in T : Len(c) = n /\ c \in Chain /\ c \in S
  OBVIOUS
<1> HIDE DEF T, lengths
<1> DEFINE bad == {k \in 0..n : \A c \in T : \E d \in T : ~ NoLater(k, c, d)}
<1>4. ASSUME bad # {} PROVE FALSE
  <2>1. PICK k \in bad : \A l \in bad : k <= l
    <3>1. bad \in SUBSET Nat
      BY <1>2
    <3>2. QED BY <3>1, <1>4, LeastNumber
  <2>2. k # 0
    <3>1. \A c, d : NoLater(0, c, d)
      BY DEF NoLater
    <3>2. QED BY <1>2, <2>1, <3>1
  <2>3. k \in 1..n /\ k - 1 \in 0..n /\ k - 1 \notin bad
    BY <1>2, <2>1, <2>2
  <2>4. PICK c \in T : \A d \in T : NoLater(k - 1, c, d)
    BY <2>3
  <2> DEFINE alike == {d \in T : \A j \in 1..(k - 1) : c[j] = d[j]}
             steps == {d[k] : d \in alike}
  <2>5. PICK s \in steps : \A t \in steps : s = t \/ StepBefore(s, t)
    <3>1. steps \in SUBSET WitnessStep
      BY <1>3, <2>3, ChainElements
    <3>2. c \in alike
      OBVIOUS
    <3>3. QED BY <3>1, <3>2, FirstStep
  <2>6. PICK b \in alike : b[k] = s
    BY <2>5
  <2>7. ASSUME NEW d \in T PROVE NoLater(k, b, d)
    <3>1. CASE d \in alike
      <4>1. \A j \in 1..(k - 1) : b[j] = d[j]
        BY <2>6, <3>1
      <4>2. b[k] = d[k] \/ StepBefore(b[k], d[k])
        BY <2>5, <2>6, <3>1
      <4>3. \A j \in 1..k : j \in 1..(k - 1) \/ j = k
        BY <1>2, <2>3
      <4>4. k \in 1..k
        BY <1>2, <2>3
      <4>5. QED BY <4>1, <4>2, <4>3, <4>4 DEF NoLater
    <3>2. CASE d \notin alike
      <4>1. PICK i \in 1..(k - 1) : StepBefore(c[i], d[i]) /\ \A j \in 1..(i - 1) : c[j] = d[j]
        BY <2>4, <3>2 DEF NoLater
      <4>2. i \in 1..k /\ \A j \in 1..(i - 1) : j \in 1..(k - 1)
        BY <1>2, <2>3
      <4>3. StepBefore(b[i], d[i]) /\ \A j \in 1..(i - 1) : b[j] = d[j]
        BY <2>6, <4>1, <4>2
      <4>4. QED BY <4>2, <4>3 DEF NoLater
    <3>3. QED BY <3>1, <3>2
  <2>8. b \in T
    BY <2>6
  <2>9. QED BY <2>1, <2>7, <2>8
<1>5. n \in 0..n /\ n \notin bad
  <2>1. bad = {}
    BY <1>4
  <2> HIDE DEF bad
  <2>2. QED BY <1>2, <2>1
<1>6. PICK c \in T : \A d \in T : NoLater(n, c, d)
  BY <1>5
<1>7. ASSUME NEW d \in S PROVE NotWorse(c, d)
  <2>1. c \in Chain /\ d \in Chain /\ Len(c) = n
    BY <1>3
  <2>2. CASE d \in T
    <3>1. Len(d) = n
      BY <1>3, <2>2
    <3>2. CASE \A j \in 1..n : c[j] = d[j]
      <4>1. c = d
        <5> DEFINE W == WitnessStep
        <5>1. c \in Seq(W) /\ d \in Seq(W)
          BY <2>1 DEF Chain
        <5> HIDE DEF W
        <5>2. QED BY <5>1, <2>1, <3>1, <3>2
      <4>2. QED BY <2>1, <4>1, NotWorseIs
    <3>3. CASE \E i \in 1..n : StepBefore(c[i], d[i]) /\ \A j \in 1..(i - 1) : c[j] = d[j]
      <4>1. BetterChain(c, d)
        BY <2>1, <3>1, <3>3 DEF BetterChain
      <4>2. QED BY <2>1, <4>1, NotWorseIs
    <3>4. QED BY <1>6, <2>2, <3>2, <3>3 DEF NoLater
  <2>3. CASE d \notin T
    <3>1. Len(c) < Len(d)
      <4>1. Len(d) # n
        BY <2>3 DEF T
      <4>2. QED BY <1>2, <2>1, <4>1
    <3>2. QED BY <2>1, <3>1, NotWorseIs DEF BetterChain
  <2>4. QED BY <2>2, <2>3
<1>8. QED BY <1>3, <1>7

(***************************************************************************)
(* Label sets: b knows all the taint of a, by witnesses at least as good.  *)
(***************************************************************************)
Knows(b, a) == \A l \in a : \E m \in b : m.spec = l.spec /\ NotWorse(m.chain, l.chain)

\* To know what knows more is to know more.
LEMMA KnowsTrans ==
  ASSUME NEW a \in SUBSET Label, NEW b \in SUBSET Label, NEW c \in SUBSET Label,
         Knows(c, b), Knows(b, a)
  PROVE  Knows(c, a)
<1> SUFFICES ASSUME NEW l \in a PROVE \E m \in c : m.spec = l.spec /\ NotWorse(m.chain, l.chain)
  BY DEF Knows
<1>1. PICK k \in b : k.spec = l.spec /\ NotWorse(k.chain, l.chain)
  BY DEF Knows
<1>2. PICK m \in c : m.spec = k.spec /\ NotWorse(m.chain, k.chain)
  BY DEF Knows
<1>3. l.chain \in Chain /\ k.chain \in Chain /\ m.chain \in Chain
  BY DEF Label
<1>4. QED BY <1>1, <1>2, <1>3, NotWorseTrans

\* More labels know more.
LEMMA KnowsMore ==
  ASSUME NEW a \in SUBSET Label, NEW b \in SUBSET Label, a \subseteq b
  PROVE  Knows(b, a)
<1>1. \A l \in a : l.chain \in Chain
  BY DEF Label
<1>2. QED BY <1>1, ChainIrreflexive DEF Knows, NotWorse

\* Merging loses nothing: of each detector's labels a best one stays.
LEMMA MergeKnows ==
  ASSUME NEW labels \in SUBSET Label
  PROVE  Knows(Merge(labels), labels)
<1> SUFFICES ASSUME NEW l \in labels
             PROVE  \E m \in Merge(labels) : m.spec = l.spec /\ NotWorse(m.chain, l.chain)
  BY DEF Knows
<1> DEFINE same == {m \in labels : m.spec = l.spec}
           chains == {m.chain : m \in same}
<1>1. chains \in SUBSET Chain /\ l.chain \in chains
  BY DEF Label
<1>2. PICK c \in chains : \A d \in chains : NotWorse(c, d)
  BY <1>1, BestExists
<1>3. PICK m \in same : m.chain = c
  BY <1>2
<1>4. m \in Merge(labels)
  BY <1>2, <1>3 DEF Merge, NotWorse
<1>5. QED BY <1>1, <1>2, <1>3, <1>4

\* Merging more gives more.
LEMMA MergeMonotone ==
  ASSUME NEW a \in SUBSET Label, NEW b \in SUBSET Label, Knows(b, a)
  PROVE  Knows(Merge(b), Merge(a))
<1>1. Merge(a) \in SUBSET Label /\ Merge(b) \in SUBSET Label
  BY MergeType
<1>2. Knows(Merge(b), b)
  BY MergeKnows
<1>3. Merge(a) \subseteq a
  BY DEF Merge
<1>4. Knows(Merge(b), a)
  BY <1>1, <1>2, KnowsTrans
<1>5. QED BY <1>3, <1>4 DEF Knows

\* Environments.
LEMMA CoversIs ==
  ASSUME NEW e, NEW f
  PROVE  Covers(f, e) <=> \A p \in AccessPath : Knows(f[p], e[p])
BY DEF Covers, Knows, NotWorse

\* Covering is transitive ...
LEMMA CoversTrans ==
  ASSUME NEW a \in Env, NEW b \in Env, NEW c \in Env, Covers(c, b), Covers(b, a)
  PROVE  Covers(c, a)
<1>1. \A p \in AccessPath : a[p] \in SUBSET Label /\ b[p] \in SUBSET Label /\ c[p] \in SUBSET Label
  BY DEF Env
<1>2. QED BY <1>1, CoversIs, KnowsTrans

\* ... and reflexive.
LEMMA CoversSelf ==
  ASSUME NEW a \in Env
  PROVE  Covers(a, a)
<1>1. \A p \in AccessPath : a[p] \in SUBSET Label
  BY DEF Env
<1>2. QED BY <1>1, CoversIs, KnowsMore

(***************************************************************************)
(* Propagation is monotone, operator by operator.                          *)
(***************************************************************************)
LEMMA GetMonotone ==
  ASSUME NEW e \in Env, NEW f \in Env, Covers(f, e), NEW ap
  PROVE  Knows(Get(f, ap), Get(e, ap))
<1> DEFINE seen(x) == UNION {x[p] : p \in {q \in AccessPath : IsPrefixOf(q, ap)}}
<1>1. seen(e) \in SUBSET Label /\ seen(f) \in SUBSET Label
  BY DEF Env
<1>2. Knows(seen(f), seen(e))
  <2> SUFFICES ASSUME NEW p \in AccessPath, IsPrefixOf(p, ap), NEW l \in e[p]
               PROVE  \E m \in seen(f) : m.spec = l.spec /\ NotWorse(m.chain, l.chain)
    BY DEF Knows
  <2>1. \E m \in f[p] : m.spec = l.spec /\ NotWorse(m.chain, l.chain)
    BY CoversIs DEF Knows
  <2>2. f[p] \subseteq seen(f)
    OBVIOUS
  <2>3. QED BY <2>1, <2>2
<1>3. Get(e, ap) = Merge(seen(e)) /\ Get(f, ap) = Merge(seen(f))
  BY DEF Get
<1> HIDE DEF seen
<1>4. QED BY <1>1, <1>2, <1>3, MergeMonotone

\* An operand reads more from more.
LEMMA OperandMonotone ==
  ASSUME NEW e \in Env, NEW f \in Env, Covers(f, e), NEW o \in Operand
  PROVE  Knows(OperandTaint(o, f), OperandTaint(o, e))
<1>1. CASE o.kind = "const"
  BY <1>1 DEF OperandTaint, Knows
<1>2. CASE o.kind = "path"
  BY <1>2, GetMonotone DEF OperandTaint
<1>3. CASE o.kind = "source"
  <2>1. OperandTaint(o, e) \in SUBSET Label /\ OperandTaint(o, f) \in SUBSET Label
    BY OperandType
  <2>2. OperandTaint(o, e) = OperandTaint(o, f)
    BY <1>3 DEF OperandTaint
  <2>3. QED BY <2>1, <2>2, KnowsMore
<1>4. QED BY <1>1, <1>2, <1>3 DEF Operand

\* So do several of them.
LEMMA OperandsMonotone ==
  ASSUME NEW e \in Env, NEW f \in Env, Covers(f, e), NEW args \in Seq(Operand)
  PROVE  Knows(OperandsTaint(args, f), OperandsTaint(args, e))
<1>1. \A i \in DOMAIN args : args[i] \in Operand
  OBVIOUS
<1>2. \A i \in DOMAIN args : Knows(OperandTaint(args[i], f), OperandTaint(args[i], e))
  BY <1>1, OperandMonotone
<1>3. QED BY <1>2 DEF OperandsTaint, Knows

\* So does the argument at a position, or the receiver.
LEMMA PositionMonotone ==
  ASSUME NEW e \in Env, NEW f \in Env, Covers(f, e), NEW call \in Call, NEW n
  PROVE  Knows(PositionTaint(call, n, f), PositionTaint(call, n, e))
<1>1. call.receiver \in Operand /\ call.args \in Seq(Operand)
  BY DEF Call
<1>2. n \in DOMAIN call.args => call.args[n] \in Operand
  BY <1>1
<1>3. Knows({}, {})
  BY DEF Knows
<1>4. QED BY <1>1, <1>2, <1>3, OperandMonotone DEF PositionTaint

\* A better label is better after the call and the callee's fragment, too.
LEMMA SpliceMonotone ==
  ASSUME NEW a \in Chain, NEW b \in Chain, NotWorse(a, b), NEW s \in WitnessStep, NEW f \in Chain
  PROVE  /\ NotWorse(Append(a, s), Append(b, s))
         /\ NotWorse(Append(a, s) \o f, Append(b, s) \o f)
<1> DEFINE W == WitnessStep
<1>1. a \in Seq(W) /\ b \in Seq(W) /\ s \in W
  BY DEF Chain
<1> HIDE DEF W
<1>2. Append(a, s) = a \o <<s>> /\ Append(b, s) = b \o <<s>> /\ <<s>> \in Seq(W)
  BY <1>1
<1>3. <<s>> \in Chain
  BY <1>2 DEF Chain, W
<1>4. NotWorse(Append(a, s), Append(b, s))
  BY <1>2, <1>3, NotWorseExtends
<1>5. Append(a, s) \in Chain /\ Append(b, s) \in Chain
  BY ChainType
<1>6. QED BY <1>4, <1>5, NotWorseExtends

\* What a summary returns, what a call yields and what an expression is worth.
LEMMA SummaryTaintMonotone ==
  ASSUME NEW e \in Env, NEW f \in Env, Covers(f, e), NEW call \in Call,
         NEW summaries, IsSummaries(summaries)
  PROVE  Knows(SummaryTaint(call, f, summaries), SummaryTaint(call, e, summaries))
<1> DEFINE st == CallStep(call)
<1> DEFINE One(flow, x) ==
      IF flow.src = "source"
      THEN {[spec |-> d, chain |-> Append(flow.fragment, st)] : d \in {flow.spec} \ {NoSpec}}
      ELSE {[spec |-> l.spec, chain |-> Append(l.chain, st) \o flow.fragment]
              : l \in PositionTaint(call, flow.index, x)}
<1> DEFINE returns == {g \in FlowsOf(call, summaries) : g.dst = "return"}
<1>1. ASSUME NEW flow \in returns
      PROVE  Knows(One(flow, f), One(flow, e))
  <2>1. flow.fragment \in Chain
    BY FlowsType DEF Flow
  <2>2. CASE flow.src = "source"
    <3>1. \A d \in {flow.spec} \ {NoSpec} :
            NotWorse([spec |-> d, chain |-> Append(flow.fragment, st)].chain,
                     [spec |-> d, chain |-> Append(flow.fragment, st)].chain)
      BY <2>1, CallStepType, ChainType, ChainIrreflexive DEF NotWorse
    <3>2. QED BY <2>2, <3>1 DEF Knows
  <2>3. CASE flow.src # "source"
    <3> DEFINE Of(l) == [spec |-> l.spec, chain |-> Append(l.chain, st) \o flow.fragment]
    <3>1. \A x : One(flow, x) = {Of(l) : l \in PositionTaint(call, flow.index, x)}
      BY <2>3
    <3>2. ASSUME NEW l \in PositionTaint(call, flow.index, e)
          PROVE  \E m \in PositionTaint(call, flow.index, f) :
                   Of(m).spec = Of(l).spec /\ NotWorse(Of(m).chain, Of(l).chain)
      <4>1. PICK m \in PositionTaint(call, flow.index, f) :
              m.spec = l.spec /\ NotWorse(m.chain, l.chain)
        BY PositionMonotone DEF Knows
      <4>2. m.chain \in Chain /\ l.chain \in Chain
        BY PositionType DEF Label
      <4>3. NotWorse(Append(m.chain, st) \o flow.fragment, Append(l.chain, st) \o flow.fragment)
        BY <2>1, <4>1, <4>2, CallStepType, SpliceMonotone
      <4>4. QED BY <4>1, <4>3
    <3> HIDE DEF Of, One
    <3>3. QED BY <3>1, <3>2 DEF Knows
  <2>4. QED BY <2>2, <2>3
<1>2. \A x : SummaryTaint(call, x, summaries) = UNION {One(flow, x) : flow \in returns}
  BY DEF SummaryTaint
<1> HIDE DEF One, returns
<1>3. QED BY <1>1, <1>2 DEF Knows

\* A call yields more of what it is given, by each of its rules.
LEMMA CallTaintMonotone ==
  ASSUME NEW e \in Env, NEW f \in Env, Covers(f, e), NEW call \in Call,
         NEW summaries, IsSummaries(summaries)
  PROVE  Knows(CallTaint(call, f, summaries), CallTaint(call, e, summaries))
<1>1. Knows(MovedTaint(call, f), MovedTaint(call, e))
  <2>1. \A n : Knows(PositionTaint(call, n, f), PositionTaint(call, n, e))
    BY PositionMonotone
  <2>2. QED BY <2>1 DEF MovedTaint, Knows
<1>2. Knows(IncomingTaint(call, f), IncomingTaint(call, e))
  <2>1. call.receiver \in Operand /\ call.args \in Seq(Operand) /\ call.kwargs \in Seq(Operand)
    BY DEF Call
  <2>2. /\ Knows(OperandTaint(call.receiver, f), OperandTaint(call.receiver, e))
        /\ Knows(OperandsTaint(call.args, f), OperandsTaint(call.args, e))
        /\ Knows(OperandsTaint(call.kwargs, f), OperandsTaint(call.kwargs, e))
    BY <2>1, OperandMonotone, OperandsMonotone
  <2>3. QED BY <2>2 DEF IncomingTaint, Knows
<1>3. Knows(PassThrough(call, f, summaries), PassThrough(call, e, summaries))
  <2>1. Knows({}, {})
    BY DEF Knows
  <2>2. QED BY <1>2, <2>1 DEF PassThrough
<1>4. Knows(SummaryTaint(call, f, summaries), SummaryTaint(call, e, summaries))
  BY SummaryTaintMonotone
<1>5. QED BY <1>1, <1>3, <1>4 DEF CallTaint, Knows

\* And so does an expression.
LEMMA ExprTaintMonotone ==
  ASSUME NEW e \in Env, NEW f \in Env, Covers(f, e), NEW x \in Expr,
         NEW summaries, IsSummaries(summaries)
  PROVE  Knows(ExprTaint(x, f, summaries), ExprTaint(x, e, summaries))
<1>1. CASE x.op = "union"
  <2>1. x.args \in Seq(Operand)
    BY <1>1 DEF Expr
  <2>2. QED BY <1>1, <2>1, OperandsMonotone, OperandsType, MergeMonotone DEF ExprTaint
<1>2. CASE x.op = "drop"
  BY <1>2 DEF ExprTaint, Knows
<1>3. CASE x.op = "call"
  <2> DEFINE found(y) == SourceLabels(x.call.sources, x.call.loc) \cup CallTaint(x.call, y, summaries)
  <2>1. x.call \in Call
    BY <1>3 DEF Expr
  <2>2. SourceLabels(x.call.sources, x.call.loc) \in SUBSET Label
    BY <2>1, SourceLabelsType DEF Call, DetectorId
  <2>3. CallTaint(x.call, e, summaries) \in SUBSET Label /\ CallTaint(x.call, f, summaries) \in SUBSET Label
    BY <2>1, CallTaintType
  <2>4. Knows(CallTaint(x.call, f, summaries), CallTaint(x.call, e, summaries))
    BY <2>1, CallTaintMonotone
  <2>5. Knows(SourceLabels(x.call.sources, x.call.loc), SourceLabels(x.call.sources, x.call.loc))
    BY <2>2, KnowsMore
  <2>6. Knows(found(f), found(e))
    BY <2>4, <2>5 DEF Knows
  <2>7. ExprTaint(x, e, summaries) = Merge(found(e)) /\ ExprTaint(x, f, summaries) = Merge(found(f))
    BY <1>3 DEF ExprTaint
  <2>8. found(e) \in SUBSET Label /\ found(f) \in SUBSET Label
    BY <2>2, <2>3
  <2> HIDE DEF found
  <2>9. QED BY <2>6, <2>7, <2>8, MergeMonotone
<1>4. QED BY <1>1, <1>2, <1>3 DEF Expr

\* Binding more on top of more leaves more.
LEMMA AssignMonotone ==
  ASSUME NEW e \in Env, NEW f \in Env, Covers(f, e), NEW targets,
         NEW a \in SUBSET Label, NEW b \in SUBSET Label, Knows(b, a)
  PROVE  Covers(Assign(f, targets, b), Assign(e, targets, a))
<1>1. Knows(Merge(b), Merge(a)) /\ Knows({}, {})
  BY MergeMonotone DEF Knows
<1>2. \A p \in AccessPath : Knows(f[p], e[p])
  BY CoversIs
<1> DEFINE covering(p) == {i \in DOMAIN targets : IsPrefixOf(targets[i], p)}
           New(x, y, p) == IF covering(p) = {} THEN x[p]
                           ELSE IF \E i \in covering(p) : targets[i] = p /\ \A j \in covering(p) : j <= i
                                THEN Merge(y) ELSE {}
<1>3. \A p \in AccessPath : Assign(f, targets, b)[p] = New(f, b, p) /\ Assign(e, targets, a)[p] = New(e, a, p)
  BY DEF Assign
<1>4. \A p \in AccessPath : Knows(New(f, b, p), New(e, a, p))
  BY <1>1, <1>2
<1> HIDE DEF New
<1>5. \A p \in AccessPath : Knows(Assign(f, targets, b)[p], Assign(e, targets, a)[p])
  BY <1>3, <1>4
<1>6. QED BY <1>5, CoversIs

\* What a statement makes of more taint is more taint.
LEMMA TransferMonotone ==
  ASSUME NEW e \in Env, NEW f \in Env, Covers(f, e), NEW stmt \in Stmt,
         NEW summaries, IsSummaries(summaries)
  PROVE  Covers(Transfer(stmt, f, summaries), Transfer(stmt, e, summaries))
<1> DEFINE targets == [i \in 1..Len(stmt.targets) |-> Collapse(stmt.targets[i])]
           kept(x) == IF stmt.aug THEN UNION {Get(x, targets[i]) : i \in DOMAIN targets} ELSE {}
           all(x) == kept(x) \cup ExprTaint(stmt.value, x, summaries)
<1>1. \A x : Transfer(stmt, x, summaries) = Assign(x, targets, all(x))
  BY DEF Transfer
<1>2. stmt.value \in Expr
  BY DEF Stmt
<1>3. ASSUME NEW x \in Env PROVE all(x) \in SUBSET Label
  <2>1. \A i \in DOMAIN targets : Get(x, targets[i]) \in SUBSET Label
    BY GetType
  <2>2. ExprTaint(stmt.value, x, summaries) \in SUBSET Label
    BY <1>2, ExprTaintType
  <2> HIDE DEF targets
  <2>3. kept(x) \in SUBSET Label
    BY <2>1
  <2> HIDE DEF kept
  <2>4. QED BY <2>2, <2>3
<1>4. Knows(kept(f), kept(e))
  <2>1. \A i \in DOMAIN targets : Knows(Get(f, targets[i]), Get(e, targets[i]))
    BY GetMonotone
  <2> HIDE DEF targets
  <2>2. CASE stmt.aug
    BY <2>1, <2>2 DEF Knows
  <2>3. CASE ~ stmt.aug
    BY <2>3 DEF Knows
  <2>4. QED BY <2>2, <2>3
<1>5. Knows(ExprTaint(stmt.value, f, summaries), ExprTaint(stmt.value, e, summaries))
  BY <1>2, ExprTaintMonotone
<1> HIDE DEF kept, targets
<1>6. Knows(all(f), all(e))
  BY <1>4, <1>5 DEF Knows
<1> HIDE DEF all
<1>7. QED BY <1>1, <1>3, <1>6, AssignMonotone

\* And so is the join of more.
LEMMA JoinMonotone ==
  ASSUME IsProgram(prog), NEW x \in [Blocks -> Env], NEW y \in [Blocks -> Env],
         \A c \in Blocks : Covers(y[c], x[c]), NEW b
  PROVE  Covers(JoinOf(b, y), JoinOf(b, x))
<1> DEFINE in(z, p) == (IF b = prog.entry THEN prog.entryEnv[p] ELSE {})
                         \cup UNION {z[c][p] : c \in Preds(prog, b)}
<1>1. ASSUME NEW p \in AccessPath
      PROVE  in(x, p) \in SUBSET Label /\ in(y, p) \in SUBSET Label /\ Knows(in(y, p), in(x, p))
  <2>1. prog.entryEnv[p] \in SUBSET Label
    BY DEF IsProgram, Env
  <2>2. \A c \in Preds(prog, b) : x[c][p] \in SUBSET Label /\ y[c][p] \in SUBSET Label
    BY DEF Preds, Blocks, Env
  <2>3. \A c \in Preds(prog, b) : Knows(y[c][p], x[c][p])
    BY CoversIs DEF Preds, Blocks
  <2>4. Knows(prog.entryEnv[p], prog.entryEnv[p])
    BY <2>1, KnowsMore
  <2>5. Knows(in(y, p), in(x, p))
    BY <2>3, <2>4 DEF Knows
  <2>6. QED BY <2>1, <2>2, <2>5
<1>2. \A z : \A p \in AccessPath : JoinOf(b, z)[p] = Merge(in(z, p))
  BY DEF JoinOf, JoinAt
<1> HIDE DEF in
<1>3. \A p \in AccessPath : Knows(JoinOf(b, y)[p], JoinOf(b, x)[p])
  BY <1>1, <1>2, MergeMonotone
<1>4. QED BY <1>3, CoversIs

-----------------------------------------------------------------------------
(***************************************************************************)
(* The out-environments only grow.  That a visit ends in more than the one *)
(* before it follows from the earlier visit alone: what the block has last *)
(* left behind is what its statements make of an environment that the join *)
(* of today covers, and statements preserve that.                          *)
(***************************************************************************)

\* From environment e before statement i, block b of function p comes to
\* know all of o: o is still the initial one, or its statements have made it
\* of an environment that e covers.
Yields(p, b, i, e, o) ==
  \/ o = EmptyEnv
  \/ \E r \in [i..(Len(p.stmts[b]) + 1) -> Env] :
       /\ Covers(e, r[i])
       /\ \A j \in i..Len(p.stmts[b]) : r[j + 1] = Transfer(p.stmts[b][j], r[j], p.summaries)
       /\ r[Len(p.stmts[b]) + 1] = o

\* From an environment that covers it, all the more.
LEMMA YieldsMore ==
  ASSUME NEW p, NEW b, p.stmts[b] \in Seq(Stmt), NEW i \in 1..(Len(p.stmts[b]) + 1),
         NEW e \in Env, NEW f \in Env, Covers(f, e), NEW o, Yields(p, b, i, e, o)
  PROVE  Yields(p, b, i, f, o)
<1>1. CASE o = EmptyEnv
  BY <1>1 DEF Yields
<1>2. ASSUME NEW r \in [i..(Len(p.stmts[b]) + 1) -> Env],
             /\ Covers(e, r[i])
             /\ \A j \in i..Len(p.stmts[b]) : r[j + 1] = Transfer(p.stmts[b][j], r[j], p.summaries)
             /\ r[Len(p.stmts[b]) + 1] = o
      PROVE  Yields(p, b, i, f, o)
  <2>1. Len(p.stmts[b]) \in Nat
    OBVIOUS
  <2>2. r[i] \in Env
    BY <2>1
  <2>3. Covers(f, r[i])
    BY <1>2, <2>2, CoversTrans
  <2>4. QED BY <1>2, <2>3 DEF Yields
<1>3. QED BY <1>1, <1>2 DEF Yields

\* A statement executed is a statement less to go ...
LEMMA YieldsStep ==
  ASSUME NEW p, NEW b, p.stmts[b] \in Seq(Stmt), IsSummaries(p.summaries),
         NEW i \in 1..Len(p.stmts[b]), NEW e \in Env, NEW o, Yields(p, b, i, e, o)
  PROVE  Yields(p, b, i + 1, Transfer(p.stmts[b][i], e, p.summaries), o)
<1>1. CASE o = EmptyEnv
  BY <1>1 DEF Yields
<1> DEFINE n == Len(p.stmts[b])
<1>2. ASSUME NEW r \in [i..(n + 1) -> Env],
             /\ Covers(e, r[i])
             /\ \A j \in i..n : r[j + 1] = Transfer(p.stmts[b][j], r[j], p.summaries)
             /\ r[n + 1] = o
      PROVE  Yields(p, b, i + 1, Transfer(p.stmts[b][i], e, p.summaries), o)
  <2> DEFINE q == [j \in (i + 1)..(n + 1) |-> r[j]]
  <2>1. n \in Nat /\ i \in 1..n /\ p.stmts[b][i] \in Stmt
    OBVIOUS
  <2> HIDE DEF n
  <2>2. i \in i..(n + 1) /\ i \in i..n /\ i + 1 \in (i + 1)..(n + 1) /\ n + 1 \in (i + 1)..(n + 1)
    BY <2>1
  <2>3. q \in [(i + 1)..(n + 1) -> Env]
    BY <2>1
  <2>4. Covers(Transfer(p.stmts[b][i], e, p.summaries), q[i + 1])
    <3>1. r[i] \in Env
      BY <2>2
    <3>2. Covers(Transfer(p.stmts[b][i], e, p.summaries), Transfer(p.stmts[b][i], r[i], p.summaries))
      BY <1>2, <2>1, <3>1, TransferMonotone
    <3>3. q[i + 1] = Transfer(p.stmts[b][i], r[i], p.summaries)
      BY <1>2, <2>2
    <3>4. QED BY <3>2, <3>3
  <2>5. \A j \in (i + 1)..n : q[j + 1] = Transfer(p.stmts[b][j], q[j], p.summaries)
    <3>1. TAKE j \in (i + 1)..n
    <3>2. j \in i..n /\ j \in (i + 1)..(n + 1) /\ j + 1 \in (i + 1)..(n + 1)
      BY <2>1
    <3>3. QED BY <1>2, <3>2
  <2>6. q[n + 1] = o
    BY <1>2, <2>2
  <2> HIDE DEF q
  <2>7. QED BY <2>3, <2>4, <2>5, <2>6 DEF Yields, n
<1>3. QED BY <1>1, <1>2 DEF Yields

\* ... and at the end of the block there is none left.
LEMMA YieldsEnd ==
  ASSUME NEW p, NEW b, p.stmts[b] \in Seq(Stmt), NEW e \in Env, NEW o,
         Yields(p, b, Len(p.stmts[b]) + 1, e, o)
  PROVE  Covers(e, o)
<1>1. Covers(e, EmptyEnv)
  BY DEF Covers, EmptyEnv
<1>2. QED BY <1>1 DEF Yields

\* The inductive invariant: what a block has left behind it would leave
\* behind again, and so does the visit that is under way.
GInv ==
  /\ \A b \in Blocks : ~ (phase = "visit" /\ b = cur) =>
       Yields(prog, b, 1, JoinOf(b, out_env), out_env[b])
  /\ phase = "visit" => Yields(prog, cur, pos, env, out_env[cur])

\* At the start no block has left anything behind.
LEMMA InitGrows == Init => GInv
<1> SUFFICES ASSUME Init PROVE GInv
  OBVIOUS
<1>1. \A b \in Blocks : out_env[b] = EmptyEnv
  BY DEF Init
<1>2. phase # "visit"
  BY DEF Init
<1>3. QED BY <1>1, <1>2 DEF GInv, Yields

\* The end of a visit replaces an out-environment by one that covers it.
LEMMA LeaveGrows ==
  ASSUME IInv, GInv, Leave
  PROVE  \A c \in Blocks : out_env'[c] \in Env /\ Covers(out_env'[c], out_env[c])
<1>1. out_env' = [out_env EXCEPT ![cur] = env] /\ phase = "visit" /\ pos = Len(Stmts) + 1
  BY DEF Leave
<1>2. /\ cur \in Blocks /\ env \in Env /\ out_env \in [Blocks -> Env]
      /\ prog.stmts[cur] \in Seq(Stmt)
  BY DEF IInv, TypeOK, IsProgram, Blocks, BlocksOf
<1>3. Covers(env, out_env[cur])
  BY <1>1, <1>2, YieldsEnd DEF GInv, Stmts
<1>4. QED BY <1>1, <1>2, <1>3, CoversSelf

\* What blocks would leave behind only grows with what others leave behind.
LEMMA LeaveYields ==
  ASSUME IInv, GInv, Leave, NEW b \in Blocks
  PROVE  Yields(prog, b, 1, JoinOf(b, out_env'), out_env'[b])
<1> DEFINE outs == out_env'
<1>1. outs \in [Blocks -> Env] /\ \A c \in Blocks : Covers(outs[c], out_env[c])
  <2>1. outs = [out_env EXCEPT ![cur] = env]
    BY DEF Leave
  <2>2. QED BY <2>1, LeaveGrows DEF IInv, TypeOK
<1>2. /\ IsProgram(prog) /\ out_env \in [Blocks -> Env] /\ prog.stmts[b] \in Seq(Stmt)
  BY DEF IInv, TypeOK, IsProgram, Blocks, BlocksOf
<1>3. Covers(JoinOf(b, outs), JoinOf(b, out_env))
  BY <1>1, <1>2, JoinMonotone
<1>4. JoinOf(b, outs) \in Env /\ JoinOf(b, out_env) \in Env
  BY <1>1, <1>2, JoinType
<1>5. Yields(prog, b, 1, JoinOf(b, out_env), outs[b])
  <2>1. CASE b # cur
    <3>1. outs[b] = out_env[b]
      BY <1>2, <2>1 DEF Leave
    <3>2. QED BY <2>1, <3>1 DEF GInv
  <2>2. CASE b = cur
    <3>1. Visiting /\ pos = Len(prog.stmts[b]) + 1 /\ outs[b] = env
      BY <1>2, <2>2 DEF IInv, SettledOffWorklist, Leave, Stmts
    <3> DEFINE n == Len(prog.stmts[b])
    <3>2. n \in Nat
      BY <1>2
    <3>3. at[b] \in Seq(Env) /\ Len(at[b]) = n + 1
      BY <2>2, <3>1 DEF Visiting, IInv, TypeOK
    <3>4. at[b] \in [1..(n + 1) -> Env]
      BY <3>3
    <3>5. at[b][1] = JoinOf(b, out_env) /\ at[b][n + 1] = env
      BY <2>2, <3>1 DEF Visiting
    <3>6. \A j \in 1..n : at[b][j + 1] = Transfer(prog.stmts[b][j], at[b][j], prog.summaries)
      <4>1. pos - 1 = n
        BY <3>1, <3>2
      <4>2. QED BY <2>2, <3>1, <4>1 DEF Visiting, Stmts
    <3>7. Covers(JoinOf(b, out_env), at[b][1])
      BY <1>4, <3>5, CoversSelf
    <3>8. QED BY <3>1, <3>4, <3>5, <3>6, <3>7 DEF Yields
  <2>3. QED BY <2>1, <2>2
<1>6. 1 \in 1..(Len(prog.stmts[b]) + 1)
  BY <1>2
<1>7. QED BY <1>2, <1>3, <1>4, <1>5, <1>6, YieldsMore

\* Every step keeps the inductive invariant.
LEMMA GInvStep == IInv /\ GInv /\ [Next]_vars => GInv'
<1> SUFFICES ASSUME IInv, GInv, [Next]_vars PROVE GInv'
  OBVIOUS
<1>1. prog' = prog /\ Blocks' = Blocks
  BY DEF Next, Pop, Execute, Leave, Stop, Emit, NextBlock, Return, vars, Blocks, BlocksOf
<1>2. \A b : JoinOf(b, out_env)' = JoinOf(b, out_env')
  BY <1>1 DEF JoinOf, JoinAt, Preds, Blocks, BlocksOf
<1>3. ASSUME NEW b \in Blocks, Pop(b) PROVE GInv'
  <2>1. /\ phase = "solve" /\ phase' = "visit" /\ out_env' = out_env /\ cur' = b /\ pos' = 1
        /\ env' = JoinOf(b, out_env)
    BY <1>3 DEF Pop
  <2>2. \A c \in Blocks : Yields(prog, c, 1, JoinOf(c, out_env), out_env[c])
    BY <2>1 DEF GInv
  <2>3. QED BY <1>1, <1>2, <2>1, <2>2 DEF GInv
<1>4. ASSUME Execute PROVE GInv'
  <2>1. /\ phase = "visit" /\ phase' = "visit" /\ out_env' = out_env /\ cur' = cur
        /\ pos \in 1..Len(prog.stmts[cur]) /\ pos' = pos + 1
        /\ env' = Transfer(prog.stmts[cur][pos], env, prog.summaries)
    BY <1>4 DEF Execute, Stmts
  <2>2. /\ prog.stmts[cur] \in Seq(Stmt) /\ IsSummaries(prog.summaries) /\ env \in Env
    BY DEF IInv, TypeOK, IsProgram, Blocks, BlocksOf
  <2>3. Yields(prog, cur, pos + 1, env', out_env[cur])
    BY <2>1, <2>2, YieldsStep DEF GInv
  <2>4. QED BY <1>1, <1>2, <2>1, <2>3 DEF GInv
<1>5. ASSUME Leave PROVE GInv'
  <2>1. phase' = "solve"
    BY <1>5 DEF Leave
  <2>2. QED BY <1>1, <1>2, <1>5, <2>1, LeaveYields DEF GInv
<1>6. ASSUME Stop \/ Emit \/ NextBlock \/ Return \/ UNCHANGED vars PROVE GInv'
  <2>1. /\ out_env' = out_env
        /\ phase' = "visit" => UNCHANGED vars
        /\ phase = "visit" => UNCHANGED vars
    BY <1>6 DEF Stop, Emit, NextBlock, Return, vars
  <2>2. CASE UNCHANGED vars
    BY <1>1, <1>2, <2>1, <2>2 DEF GInv, vars
  <2>3. CASE phase' # "visit" /\ phase # "visit"
    BY <1>1, <1>2, <2>1, <2>3 DEF GInv
  <2>4. QED BY <2>1, <2>2, <2>3
<1>7. QED BY <1>3, <1>4, <1>5, <1>6 DEF Next

\* Whatever the function and its size: no visit of the loops of _run_dataflow
\* and _function_fixpoint loses a taint that a block had in its
\* out-environment, or replaces the witness of one by a worse one.
THEOREM EnvironmentsGrow == Spec => OutEnvsOnlyGrow
<1>1. Init => IInv /\ GInv
  BY InitSettled, InitGrows
<1>2. IInv /\ GInv /\ [Next]_vars => (IInv /\ GInv)'
  BY IInvStep, GInvStep
<1>3. IInv /\ GInv /\ [Next]_vars => [\A b \in Blocks : Covers(out_env'[b], out_env[b])]_vars
  <2> SUFFICES ASSUME IInv, GInv, Next PROVE \A b \in Blocks : Covers(out_env'[b], out_env[b])
    OBVIOUS
  <2>1. CASE Leave
    BY <2>1, LeaveGrows
  <2>2. CASE ~ Leave
    <3>1. out_env' = out_env
      BY <2>2 DEF Next, Pop, Execute, Stop, Emit, NextBlock, Return
    <3>2. QED BY <3>1, CoversSelf DEF IInv, TypeOK
  <2>3. QED BY <2>1, <2>2
<1>4. QED BY <1>1, <1>2, <1>3, PTL DEF Spec, OutEnvsOnlyGrow

-----------------------------------------------------------------------------
(***************************************************************************)
(* Functions without loops.  The frontend numbers the blocks in the order  *)
(* of the program, so that only a loop leads back.                         *)
(***************************************************************************)
Forward(p) == \A b \in BlocksOf(p) : \A c \in p.succ[b] : b < c

\* Each block is visited once, in this order: a visit puts back only blocks
\* that are still to come.
OnePass ==
  Forward(prog) =>
    /\ iterations <= prog.n
    /\ worklist = {b \in Blocks : b >= iterations}
    /\ phase = "visit" => cur + 1 = iterations
    /\ phase \in {"emit", "done"} => worklist = {}

\* There are fewer blocks than any of the two caps allows visits.
LEMMA CapSuffices ==
  ASSUME IsProgram(prog)
  PROVE  prog.n \in Nat /\ Cap \in Nat /\ prog.n <= Cap
<1>1. prog.n \in Nat /\ FIXPOINT_CAP \in Nat /\ SUMMARY_FIXPOINT_CAP \in Nat
  BY CapsAssumption DEF IsProgram
<1>2. FIXPOINT_CAP * (prog.n + 1) * (prog.n + 1) \in Nat
  BY <1>1
<1>3. (prog.n + 1) * SUMMARY_FIXPOINT_CAP \in Nat
  BY <1>1
<1>4. QED BY <1>1, <1>2, <1>3 DEF Cap

\* Before the first visit all of them are still to come.
LEMMA OnePassInit == Init => OnePass
<1> SUFFICES ASSUME Init PROVE OnePass
  OBVIOUS
<1>1. IsProgram(prog)
  BY ProgramsAssumption DEF Init
<1>2. prog.n \in Nat /\ Blocks = 0..(prog.n - 1)
  BY <1>1, CapSuffices DEF Blocks, BlocksOf
<1>3. worklist = {b \in Blocks : b >= 0}
  BY <1>2 DEF Init
<1>4. QED BY <1>2, <1>3 DEF Init, OnePass

\* After the last one the worklist is empty.
LEMMA OnePassSafe == OnePass => (Forward(prog) => CapIsSafetyNet)
BY DEF OnePass, CapIsSafetyNet

\* No step leads out of this order.
LEMMA OnePassStep == TypeOK /\ OnePass /\ [Next]_vars => OnePass'
<1> SUFFICES ASSUME TypeOK, OnePass, [Next]_vars, Forward(prog') PROVE OnePass'
  BY DEF OnePass
<1>1. prog' = prog /\ Blocks' = Blocks /\ Forward(prog)
  BY DEF Next, vars, Pop, Execute, Leave, Stop, Emit, NextBlock, Return, Blocks
<1>2. /\ prog.n \in Nat /\ Cap \in Nat /\ prog.n <= Cap
      /\ iterations \in Nat /\ iterations <= prog.n
      /\ worklist = {b \in Blocks : b >= iterations}
      /\ Blocks = 0..(prog.n - 1)
  BY <1>1, CapSuffices DEF TypeOK, OnePass, Blocks, BlocksOf
<1>3. ASSUME NEW b \in Blocks, Pop(b) PROVE OnePass'
  <2>1. b = iterations
    <3>1. b >= iterations /\ iterations \in Blocks
      BY <1>2, <1>3 DEF Pop
    <3>2. iterations \in worklist
      BY <1>2, <3>1
    <3>3. b <= iterations
      BY <1>3, <3>2 DEF Pop
    <3>4. QED BY <1>2, <3>1, <3>3
  <2>2. worklist' = worklist \ {b} /\ iterations' = iterations + 1 /\ cur' = b /\ phase' = "visit"
    BY <1>3 DEF Pop
  <2>3. worklist' = {c \in Blocks : c >= iterations'}
    BY <1>2, <2>1, <2>2
  <2>4. QED BY <1>1, <1>2, <2>1, <2>2, <2>3 DEF OnePass
<1>4. CASE Leave
  <2>1. /\ phase = "visit" /\ phase' = "solve" /\ UNCHANGED iterations
        /\ worklist' \in {worklist, worklist \cup prog.succ[cur]}
    BY <1>4 DEF Leave
  <2>2. cur \in Blocks /\ cur + 1 = iterations /\ prog.succ[cur] \subseteq Blocks
    <3>1. cur \in Blocks /\ prog.succ \in [Blocks -> SUBSET Blocks]
      BY DEF TypeOK, IsProgram, Blocks, BlocksOf
    <3>2. cur + 1 = iterations
      BY <1>1, <2>1 DEF OnePass
    <3>3. QED BY <3>1, <3>2
  <2>3. \A c \in prog.succ[cur] : c \in Blocks /\ c > cur
    BY <1>1, <2>2 DEF Forward, Blocks
  <2>4. prog.succ[cur] \subseteq worklist
    BY <1>2, <2>2, <2>3
  <2>5. worklist' = worklist
    BY <2>1, <2>4
  <2>6. QED BY <1>1, <1>2, <2>1, <2>5 DEF OnePass
<1>5. CASE Stop
  <2>1. UNCHANGED <<worklist, iterations>> /\ phase' = "emit"
    BY <1>5 DEF Stop
  <2>2. worklist = {}
    BY <1>2, <1>5 DEF Stop
  <2>3. QED BY <1>1, <1>2, <2>1, <2>2 DEF OnePass
<1>6. CASE Execute \/ UNCHANGED vars
  <2>1. UNCHANGED <<worklist, iterations, phase, cur>>
    BY <1>6 DEF Execute, vars
  <2>2. QED BY <1>1, <1>2, <2>1 DEF OnePass
<1>7. CASE Emit \/ NextBlock \/ Return
  <2>1. UNCHANGED <<worklist, iterations>> /\ phase = "emit" /\ phase' # "visit"
    BY <1>7 DEF Emit, NextBlock, Return
  <2>2. QED BY <1>1, <1>2, <2>1 DEF OnePass
<1>8. QED BY <1>3, <1>4, <1>5, <1>6, <1>7 DEF Next

\* A function without loops never meets the cap: one visit of each block, in
\* the order of the program, empties the worklist, whatever is assigned and
\* called in it, in an analysis for findings as in one for a summary.
THEOREM LoopFreeNeedsNoCap == Spec => [](Forward(prog) => CapIsSafetyNet)
<1>1. QED BY OnePassInit, OnePassStep, OnePassSafe, TypeCorrect, PTL DEF Spec

=============================================================================
