----------------------------- MODULE WalkProofs -----------------------------
(***************************************************************************)
(* Theorems about TaintWalk: no way a tainted value takes is missed.       *)
(***************************************************************************)
EXTENDS TaintWalk, DataflowProofs

(***************************************************************************)
(* A label set has a fact when it holds a label of its detector by a       *)
(* witness that is no worse.  A fact stands in an environment when no      *)
(* variable holds its value yet, or the environment has it at its path.    *)
(***************************************************************************)
Has(labels, f) == \E m \in labels : m.spec = f.spec /\ NotWorse(m.chain, f.chain)

IsFact(f) == f.spec \in SpecId /\ f.chain \in Chain \ {<<>>}

Stands(e, f) ==
  /\ IsFact(f)
  /\ f.path # Nowhere => f.path \in AccessPath /\ Has(e[f.path], f)

\* Merging and adding labels loses no fact.
LEMMA MergeHas ==
  ASSUME NEW labels \in SUBSET Label, NEW f, f.chain \in Chain, Has(labels, f)
  PROVE  Has(Merge(labels), f)
<1>1. PICK m \in labels : m.spec = f.spec /\ NotWorse(m.chain, f.chain)
  BY DEF Has
<1>2. PICK k \in Merge(labels) : k.spec = m.spec /\ NotWorse(k.chain, m.chain)
  BY MergeKnows DEF Knows
<1>3. k.chain \in Chain /\ m.chain \in Chain
  BY <1>1, <1>2, MergeType DEF Label
<1>4. QED BY <1>1, <1>2, <1>3, NotWorseTrans DEF Has

\* A read of the path a fact is at, or of a path below it, has the fact.
LEMMA GetHas ==
  ASSUME NEW e \in Env, NEW f, IsFact(f), f.path \in AccessPath, Has(e[f.path], f),
         NEW t \in TextPath, IsPrefixOf(f.path, t)
  PROVE  Has(Get(e, Collapse(t)), f)
<1> DEFINE ap == Collapse(t)
           seen == UNION {e[p] : p \in {q \in AccessPath : IsPrefixOf(q, ap)}}
<1>1. seen \in SUBSET Label
  BY DEF Env
<1>2. IsPrefixOf(f.path, ap)
  <2>1. t.steps \in Seq(Step) /\ STEPS_CAP \in Nat
    BY StepsCapAssumption DEF TextPath
  <2>2. Len(f.path.steps) \in Nat /\ Len(f.path.steps) <= STEPS_CAP
    BY <2>1 DEF AccessPath, Steps
  <2>3. CASE Len(t.steps) <= STEPS_CAP
    BY <2>3 DEF Collapse, IsPrefixOf, TextPath
  <2>4. CASE ~ (Len(t.steps) <= STEPS_CAP)
    <3> DEFINE s == SubSeq(t.steps, 1, STEPS_CAP)
    <3>1. ap.base = t.base /\ ap.steps = s
      BY <2>4 DEF Collapse, TextPath
    <3>2. Len(s) = STEPS_CAP /\ \A i \in 1..STEPS_CAP : s[i] = t.steps[i]
      BY <2>1, <2>4
    <3> HIDE DEF s
    <3>3. \A i \in 1..Len(f.path.steps) : i \in 1..STEPS_CAP
      BY <2>1, <2>2
    <3>4. QED BY <2>2, <3>1, <3>2, <3>3 DEF IsPrefixOf
  <2>5. QED BY <2>3, <2>4
<1>3. Has(seen, f)
  <2>1. e[f.path] \subseteq seen
    BY <1>2
  <2>2. QED BY <2>1 DEF Has
<1>4. Get(e, ap) = Merge(seen)
  BY DEF Get
<1> HIDE DEF seen
<1>5. QED BY <1>1, <1>3, <1>4, MergeHas DEF IsFact

\* What reads a fact that stands evaluates to labels that have it.
LEMMA ReadsHas ==
  ASSUME NEW e \in Env, NEW a \in Operand, NEW f, Stands(e, f), Reads(a, f)
  PROVE  Has(OperandTaint(a, e), f)
<1>1. CASE a.kind = "const"
  BY <1>1 DEF Reads
<1>2. CASE a.kind = "path"
  <2>1. a.path \in TextPath /\ IsPrefixOf(f.path, a.path)
    BY <1>2 DEF Operand, Reads
  <2>2. f.path # Nowhere
    BY <2>1, NowhereAssumption DEF Nowhere, IsPrefixOf, TextPath
  <2>3. QED BY <1>2, <2>1, <2>2, GetHas DEF OperandTaint, Stands
<1>3. CASE a.kind = "source"
  <2>1. f.spec \in a.sources /\ f.chain = <<<<SourceRole, a.loc>>>>
    BY <1>3 DEF Reads
  <2>2. [spec |-> f.spec, chain |-> f.chain] \in OperandTaint(a, e)
    BY <1>3, <2>1 DEF OperandTaint, SourceLabels
  <2>3. NotWorse(f.chain, f.chain)
    BY ChainIrreflexive DEF NotWorse, Stands, IsFact
  <2>4. QED BY <2>2, <2>3 DEF Has
<1>4. QED BY <1>1, <1>2, <1>3 DEF Operand

\* So does a position of a call that reads the fact, ...
LEMMA PositionHas ==
  ASSUME NEW e \in Env, NEW call \in Call, NEW n, NEW f, Stands(e, f), CallReads(call, n, f)
  PROVE  Has(PositionTaint(call, n, e), f)
<1>1. call.receiver \in Operand /\ call.args \in Seq(Operand)
  BY DEF Call
<1>2. n \in DOMAIN call.args => call.args[n] \in Operand
  BY <1>1
<1>3. QED BY <1>1, <1>2, ReadsHas DEF PositionTaint, CallReads

\* ... any of several operands, ...
LEMMA OperandsHas ==
  ASSUME NEW e \in Env, NEW args \in Seq(Operand), NEW f, Stands(e, f),
         NEW i \in DOMAIN args, Reads(args[i], f)
  PROVE  Has(OperandsTaint(args, e), f)
<1>1. args[i] \in Operand
  OBVIOUS
<1>2. QED BY <1>1, ReadsHas DEF OperandsTaint, Has

\* ... and all that a call takes in.
LEMMA IncomingHas ==
  ASSUME NEW e \in Env, NEW call \in Call, NEW f, Stands(e, f), CallReadsAny(call, f)
  PROVE  Has(IncomingTaint(call, e), f)
<1>1. call.receiver \in Operand /\ call.args \in Seq(Operand) /\ call.kwargs \in Seq(Operand)
  BY DEF Call
<1>2. \/ Has(OperandTaint(call.receiver, e), f)
      \/ Has(OperandsTaint(call.args, e), f)
      \/ Has(OperandsTaint(call.kwargs, e), f)
  BY <1>1, ReadsHas, OperandsHas DEF CallReadsAny
<1>3. QED BY <1>2 DEF IncomingTaint, Has

\* A chain that a summary continues is spliced onto the label's as well.
LEMMA SplicedHas ==
  ASSUME NEW e \in Env, NEW call \in Call, NEW f, Stands(e, f), IsProgram(prog),
         NEW flow \in FlowsOf(call, prog.summaries), CallReads(call, flow.index, f)
  PROVE  /\ Spliced(f, call, flow) \in Chain \ {<<>>}
         /\ \E m \in PositionTaint(call, flow.index, e) :
              m.spec = f.spec /\ NotWorse(Spliced(m, call, flow), Spliced(f, call, flow))
<1>1. flow.fragment \in Chain
  BY FlowsType DEF Flow, IsProgram
<1>2. PICK m \in PositionTaint(call, flow.index, e) :
        m.spec = f.spec /\ NotWorse(m.chain, f.chain)
  BY PositionHas DEF Has
<1>3. m.chain \in Chain /\ f.chain \in Chain
  BY PositionType DEF Label, Stands, IsFact
<1>4. CallStep(call) \in WitnessStep
  BY CallStepType
<1>5. NotWorse(Spliced(m, call, flow), Spliced(f, call, flow))
  BY <1>1, <1>2, <1>3, <1>4, SpliceMonotone DEF Spliced
<1>6. Spliced(f, call, flow) \in Chain \ {<<>>}
  BY <1>1, <1>3, <1>4, ChainType DEF Spliced
<1>7. QED BY <1>2, <1>5, <1>6

\* The value of a call has every fact that the call continues.
LEMMA CallHas ==
  ASSUME NEW e \in Env, NEW call \in Call, NEW f, Stands(e, f), IsProgram(prog),
         SanitizesAllOrNone(prog, call), NEW c \in Continued(call, f)
  PROVE  /\ c \in Chain \ {<<>>}
         /\ Has(CallTaint(call, e, prog.summaries), [spec |-> f.spec, chain |-> c])
<1> DEFINE all == MovedTaint(call, e) \cup SummaryTaint(call, e, prog.summaries)
                    \cup PassThrough(call, e, prog.summaries)
<1>1. ~ Cleaned(call, f) /\ f.spec \in SpecId /\ f.chain \in Chain \ {<<>>}
  BY DEF Continued, Stands, IsFact
<1>2. f.spec \notin call.sanitizes /\ (call.sanitizes = {} \/ call.sanitizes # DetectorId)
  <2>1. call.sanitizes \in SUBSET DetectorId
    BY DEF Call
  <2>2. QED BY <1>1, <2>1 DEF Cleaned, CleansAll, DetectorId
<1> SUFFICES c \in Chain \ {<<>>} /\ Has(all, [spec |-> f.spec, chain |-> c])
  BY <1>2 DEF CallTaint, Has
<1>3. CASE \E flow \in FlowsOf(call, prog.summaries) :
             /\ flow.src = "param" /\ flow.dst = "return"
             /\ CallReads(call, flow.index, f) /\ c = Spliced(f, call, flow)
  <2>1. PICK flow \in FlowsOf(call, prog.summaries) :
             /\ flow.src = "param" /\ flow.dst = "return"
             /\ CallReads(call, flow.index, f) /\ c = Spliced(f, call, flow)
    BY <1>3
  <2>2. PICK m \in PositionTaint(call, flow.index, e) :
          m.spec = f.spec /\ NotWorse(Spliced(m, call, flow), c)
    BY <2>1, SplicedHas
  <2>3. [spec |-> m.spec, chain |-> Spliced(m, call, flow)] \in SummaryTaint(call, e, prog.summaries)
    <3> DEFINE One(g) ==
          IF g.src = "source"
          THEN {[spec |-> d, chain |-> Append(g.fragment, CallStep(call))] : d \in {g.spec} \ {NoSpec}}
          ELSE {[spec |-> l.spec, chain |-> Append(l.chain, CallStep(call)) \o g.fragment]
                  : l \in PositionTaint(call, g.index, e)}
    <3>1. [spec |-> m.spec, chain |-> Spliced(m, call, flow)] \in One(flow)
      BY <2>1 DEF Spliced
    <3>2. SummaryTaint(call, e, prog.summaries)
            = UNION {One(g) : g \in {h \in FlowsOf(call, prog.summaries) : h.dst = "return"}}
      BY DEF SummaryTaint
    <3> HIDE DEF One
    <3>3. QED BY <2>1, <3>1, <3>2
  <2>4. c \in Chain \ {<<>>}
    BY <2>1, SplicedHas
  <2>5. QED BY <2>2, <2>3, <2>4 DEF Has
<1>4. CASE c = f.chain /\ \E n \in call.moves : CallReads(call, n, f)
  <2>1. Has(MovedTaint(call, e), f)
    BY <1>4, PositionHas DEF MovedTaint, Has
  <2>2. QED BY <1>1, <1>4, <2>1 DEF Has
<1>5. CASE /\ c = f.chain /\ CallReadsAny(call, f)
           /\ call.strMethod \/ (call.callee \notin DOMAIN prog.summaries /\ ~ call.propagator)
  <2>1. call.strMethod \/ ~ IsKnownCallee(call, prog.summaries)
    BY <1>2, <1>5 DEF SanitizesAllOrNone, IsKnownCallee
  <2>2. Has(PassThrough(call, e, prog.summaries), f)
    BY <1>5, <2>1, IncomingHas DEF PassThrough
  <2>3. QED BY <1>1, <1>5, <2>2 DEF Has
<1>6. QED BY <1>1, <1>3, <1>4, <1>5 DEF Continued

\* The value of a statement has every fact it takes over from another.
LEMMA ValueHas ==
  ASSUME NEW e \in Env, NEW stmt \in Stmt, NEW f, Stands(e, f), IsProgram(prog),
         stmt.value.op = "call" => SanitizesAllOrNone(prog, stmt.value.call),
         NEW v \in ValueOf(stmt, f)
  PROVE  v.spec = f.spec /\ IsFact(v) /\ Has(ExprTaint(stmt.value, e, prog.summaries), v)
<1> DEFINE x == stmt.value
<1>1. x \in Expr /\ IsFact(f) /\ IsSummaries(prog.summaries)
  BY DEF Stmt, Stands, IsProgram
<1>2. CASE x.op = "drop"
  BY <1>2 DEF ValueOf
<1>3. CASE x.op = "union"
  <2>1. x.args \in Seq(Operand)
    BY <1>1, <1>3 DEF Expr
  <2>2. (\E i \in DOMAIN x.args : Reads(x.args[i], f)) /\ v = [spec |-> f.spec, chain |-> f.chain]
    BY <1>3 DEF ValueOf
  <2>3. Has(OperandsTaint(x.args, e), f)
    BY <2>1, <2>2, OperandsHas
  <2>4. ExprTaint(x, e, prog.summaries) = Merge(OperandsTaint(x.args, e))
    BY <1>3 DEF ExprTaint
  <2>5. Has(Merge(OperandsTaint(x.args, e)), f)
    BY <1>1, <2>1, <2>3, OperandsType, MergeHas DEF IsFact
  <2>6. QED BY <1>1, <2>2, <2>4, <2>5 DEF Has, IsFact
<1>4. CASE x.op = "call"
  <2> DEFINE found == SourceLabels(x.call.sources, x.call.loc) \cup CallTaint(x.call, e, prog.summaries)
  <2>1. x.call \in Call
    BY <1>1, <1>4 DEF Expr
  <2>2. PICK c \in Continued(x.call, f) : v = [spec |-> f.spec, chain |-> c]
    BY <1>4 DEF ValueOf
  <2>3. c \in Chain \ {<<>>} /\ Has(CallTaint(x.call, e, prog.summaries), v)
    BY <1>4, <2>1, <2>2, CallHas
  <2>4. found \in SUBSET Label
    <3>1. SourceLabels(x.call.sources, x.call.loc) \in SUBSET Label
      BY <2>1, SourceLabelsType DEF Call, DetectorId
    <3>2. QED BY <1>1, <2>1, <3>1, CallTaintType
  <2>5. ExprTaint(x, e, prog.summaries) = Merge(found)
    BY <1>4 DEF ExprTaint
  <2>6. Has(found, v)
    BY <2>3 DEF Has
  <2>7. v.chain \in Chain /\ IsFact(v) /\ v.spec = f.spec
    BY <1>1, <2>2, <2>3 DEF IsFact
  <2> HIDE DEF found
  <2>8. QED BY <2>4, <2>5, <2>6, <2>7, MergeHas
<1>5. QED BY <1>1, <1>2, <1>3, <1>4 DEF Expr

\* The operands of an expression are operands.
LEMMA OperandsOfType ==
  ASSUME NEW x \in Expr
  PROVE  OperandsOf(x) \subseteq Operand
<1>1. CASE x.op = "call"
  <2> DEFINE call == x.call
  <2>1. call.args \in Seq(Operand) /\ call.kwargs \in Seq(Operand) /\ call.receiver \in Operand
    BY <1>1 DEF Expr, Call
  <2>2. OperandsOf(x) = Range(call.args) \cup Range(call.kwargs) \cup {call.receiver}
    BY <1>1 DEF OperandsOf
  <2> HIDE DEF call
  <2>3. QED BY <2>1, <2>2 DEF Range
<1>2. CASE x.op # "call"
  <2>1. x.args \in Seq(Operand)
    BY <1>2 DEF Expr
  <2>2. QED BY <1>2, <2>1 DEF OperandsOf, Range
<1>3. QED BY <1>1, <1>2

\* What arises at an operand stands in any environment.
LEMMA FreshStands ==
  ASSUME NEW e \in Env, NEW stmt \in Stmt, NEW f \in Fresh(stmt)
  PROVE  Stands(e, f) /\ f.spec \in DetectorId
<1>1. OperandsOf(stmt.value) \subseteq Operand
  BY OperandsOfType DEF Stmt
<1>2. PICK a \in OperandsOf(stmt.value) :
        /\ a.kind = "source"
        /\ \E d \in a.sources : f = [path |-> Nowhere, spec |-> d, chain |-> <<<<SourceRole, a.loc>>>>]
  BY DEF Fresh
<1>3. a.sources \in SUBSET DetectorId /\ a.loc \in Nat
  BY <1>1, <1>2 DEF Operand
<1>4. <<<<SourceRole, a.loc>>>> \in Chain \ {<<>>}
  BY <1>3 DEF Chain, WitnessStep, SourceRole
<1>5. f.path = Nowhere /\ f.spec \in DetectorId /\ f.chain \in Chain \ {<<>>}
  BY <1>2, <1>3, <1>4
<1>6. QED BY <1>5 DEF Stands, IsFact, DetectorId

\* And so the value has what the call itself introduces.
LEMMA IntroducedHas ==
  ASSUME NEW e \in Env, NEW stmt \in Stmt, IsProgram(prog),
         NEW v \in Introduced(stmt), v.spec # NoSpec
  PROVE  v.spec \in DetectorId /\ IsFact(v) /\ Has(ExprTaint(stmt.value, e, prog.summaries), v)
<1> DEFINE call == stmt.value.call
           sourced == SourceLabels(call.sources, call.loc)
           found == sourced \cup CallTaint(call, e, prog.summaries)
<1>1. stmt.value.op = "call"
  BY DEF Introduced
<1>2. call \in Call /\ IsSummaries(prog.summaries)
  BY <1>1 DEF Stmt, Expr, IsProgram
<1> HIDE DEF call
<1>3. sourced \in SUBSET Label
  BY <1>2, SourceLabelsType DEF Call, DetectorId
<1>4. found \in SUBSET Label
  BY <1>2, <1>3, CallTaintType
<1>5. \/ v \in sourced /\ v.spec \in call.sources
      \/ \E g \in FlowsOf(call, prog.summaries) :
           /\ g.src = "source" /\ g.dst = "return" /\ g.spec \notin call.sanitizes
           /\ v = [spec |-> g.spec, chain |-> Append(g.fragment, CallStep(call))]
  BY <1>1 DEF Introduced, SourceLabels, call
<1>6. v \in found /\ v.spec \in DetectorId
  <2>1. CASE v \in sourced /\ v.spec \in call.sources
    BY <1>2, <2>1 DEF Call
  <2>2. CASE \E g \in FlowsOf(call, prog.summaries) :
           /\ g.src = "source" /\ g.dst = "return" /\ g.spec \notin call.sanitizes
           /\ v = [spec |-> g.spec, chain |-> Append(g.fragment, CallStep(call))]
    <3>1. PICK g \in FlowsOf(call, prog.summaries) :
           /\ g.src = "source" /\ g.dst = "return" /\ g.spec \notin call.sanitizes
           /\ v = [spec |-> g.spec, chain |-> Append(g.fragment, CallStep(call))]
      BY <2>2
    <3> DEFINE One(h) ==
          IF h.src = "source"
          THEN {[spec |-> d, chain |-> Append(h.fragment, CallStep(call))] : d \in {h.spec} \ {NoSpec}}
          ELSE {[spec |-> l.spec, chain |-> Append(l.chain, CallStep(call)) \o h.fragment]
                  : l \in PositionTaint(call, h.index, e)}
    <3>2. v \in One(g)
      BY <3>1
    <3>3. SummaryTaint(call, e, prog.summaries)
            = UNION {One(h) : h \in {k \in FlowsOf(call, prog.summaries) : k.dst = "return"}}
      BY DEF SummaryTaint
    <3>4. g.spec \in DetectorId
      BY <1>2, <3>1, FlowsType DEF Flow
    <3> HIDE DEF One
    <3>5. v \in SummaryTaint(call, e, prog.summaries)
      BY <3>1, <3>2, <3>3
    <3>6. v \in CallTaint(call, e, prog.summaries)
      BY <3>1, <3>5 DEF CallTaint
    <3>7. QED BY <3>1, <3>4, <3>6
  <2>3. QED BY <1>5, <2>1, <2>2
<1>7. IsFact(v) /\ Has(found, v)
  BY <1>4, <1>6, ChainIrreflexive DEF IsFact, Label, Has, NotWorse
<1>8. ExprTaint(stmt.value, e, prog.summaries) = Merge(found)
  BY <1>1 DEF ExprTaint, call
<1> HIDE DEF found
<1>9. QED BY <1>4, <1>6, <1>7, <1>8, MergeHas DEF IsFact

(***************************************************************************)
(* One statement of the walk against one transfer of the engine.  A fact   *)
(* that a variable holds stands at a place of the function.                *)
(***************************************************************************)
Held(e, f) == Stands(e, f) /\ f.path \in Places(prog) /\ f.path # Nowhere

\* Within the cap the engine tracks the path the program writes.
LEMMA ShortPath ==
  ASSUME NEW t \in TextPath, Len(t.steps) <= STEPS_CAP
  PROVE  Collapse(t) = t /\ t \in AccessPath /\ t # Nowhere /\ IsPrefixOf(t, t)
<1>1. t = [base |-> t.base, steps |-> t.steps] /\ t.base \in Base /\ t.steps \in Seq(Step)
  BY DEF TextPath
<1>2. Collapse(t) = t
  BY <1>1 DEF Collapse
<1>3. STEPS_CAP \in Nat /\ Len(t.steps) \in 0..STEPS_CAP
  BY <1>1, StepsCapAssumption
<1>4. t.steps \in [1..Len(t.steps) -> Step]
  BY <1>1
<1>5. t \in AccessPath
  BY <1>1, <1>3, <1>4 DEF AccessPath, Steps
<1>6. t # Nowhere
  BY <1>1, NowhereAssumption DEF Nowhere
<1>7. QED BY <1>2, <1>3, <1>5, <1>6 DEF IsPrefixOf

\* Where a statement writes whole values, it binds exactly its targets.
LEMMA TransferWhole ==
  ASSUME NEW e \in Env, NEW stmt \in Stmt, WritesWhole(prog, stmt), NEW p \in AccessPath
  PROVE  LET covering == {i \in DOMAIN stmt.targets : IsPrefixOf(stmt.targets[i], p)}
             kept == IF stmt.aug
                     THEN UNION {Get(e, Collapse(stmt.targets[i])) : i \in DOMAIN stmt.targets}
                     ELSE {}
         IN  Transfer(stmt, e, prog.summaries)[p]
               = IF covering = {} THEN e[p]
                 ELSE IF \E i \in covering : stmt.targets[i] = p /\ \A j \in covering : j <= i
                      THEN Merge(kept \cup ExprTaint(stmt.value, e, prog.summaries))
                      ELSE {}
<1> DEFINE ts == [i \in 1..Len(stmt.targets) |-> Collapse(stmt.targets[i])]
           kept == IF stmt.aug THEN UNION {Get(e, ts[i]) : i \in DOMAIN ts} ELSE {}
           kept2 == IF stmt.aug
                    THEN UNION {Get(e, Collapse(stmt.targets[i])) : i \in DOMAIN stmt.targets}
                    ELSE {}
<1>1. stmt.targets \in Seq(TextPath)
  BY DEF Stmt
<1>2. DOMAIN ts = DOMAIN stmt.targets /\ \A i \in DOMAIN ts : ts[i] = stmt.targets[i]
  <2>1. \A i \in DOMAIN stmt.targets : Collapse(stmt.targets[i]) = stmt.targets[i]
    BY <1>1, ShortPath DEF WritesWhole
  <2>2. DOMAIN stmt.targets = 1..Len(stmt.targets)
    BY <1>1
  <2>3. QED BY <2>1, <2>2
<1>3. kept = kept2
  <2>1. \A i \in DOMAIN stmt.targets : Get(e, ts[i]) = Get(e, Collapse(stmt.targets[i]))
    BY <1>1
  <2>2. QED BY <1>2, <2>1
<1>4. Transfer(stmt, e, prog.summaries) = Assign(e, ts, kept \cup ExprTaint(stmt.value, e, prog.summaries))
  BY DEF Transfer
<1> HIDE DEF ts, kept, kept2
<1> DEFINE all == kept \cup ExprTaint(stmt.value, e, prog.summaries)
           C(x) == {i \in DOMAIN x : IsPrefixOf(x[i], p)}
<1>5. C(ts) = C(stmt.targets)
  BY <1>2
<1>6. Assign(e, ts, all)[p]
        = IF C(ts) = {} THEN e[p]
          ELSE IF \E i \in C(ts) : ts[i] = p /\ \A j \in C(ts) : j <= i THEN Merge(all) ELSE {}
  BY DEF Assign
<1>7. (\E i \in C(ts) : ts[i] = p /\ \A j \in C(ts) : j <= i)
        <=> (\E i \in C(stmt.targets) : stmt.targets[i] = p /\ \A j \in C(stmt.targets) : j <= i)
  BY <1>2, <1>5
<1>8. Assign(e, ts, all)[p]
        = IF C(stmt.targets) = {} THEN e[p]
          ELSE IF \E i \in C(stmt.targets) : stmt.targets[i] = p /\ \A j \in C(stmt.targets) : j <= i
               THEN Merge(all) ELSE {}
  BY <1>5, <1>6, <1>7
<1>9. QED BY <1>3, <1>4, <1>8 DEF kept2

\* The values of a statement are in what the engine evaluates it to.
LEMMA ValuesHas ==
  ASSUME NEW e \in Env, NEW stmt \in Stmt, IsProgram(prog),
         stmt.value.op = "call" => SanitizesAllOrNone(prog, stmt.value.call),
         NEW f, Carries(f) => Stands(e, f), NEW v \in Values(stmt, f), v.spec # NoSpec
  PROVE  IsFact(v) /\ Has(ExprTaint(stmt.value, e, prog.summaries), v)
<1>1. ASSUME NEW g \in Present(stmt, f) PROVE Stands(e, g)
  BY FreshStands DEF Present
<1>2. CASE v \in Introduced(stmt)
  BY <1>2, IntroducedHas
<1>3. CASE \E g \in Present(stmt, f) : v \in ValueOf(stmt, g)
  BY <1>1, <1>3, ValueHas
<1>4. QED BY <1>2, <1>3 DEF Values

\* What a walk carries on after a statement stands after its transfer.
LEMMA AfterHeld ==
  ASSUME NEW e \in Env, NEW stmt \in Stmt, IsProgram(prog), WritesWhole(prog, stmt),
         stmt.value.op = "call" => SanitizesAllOrNone(prog, stmt.value.call),
         Range(stmt.targets) \subseteq Places(prog),
         NEW f, Carries(f) => Held(e, f), NEW g \in After(stmt, f), Carries(g)
  PROVE  Held(Transfer(stmt, e, prog.summaries), g)
<1> DEFINE ts == stmt.targets
           x == ExprTaint(stmt.value, e, prog.summaries)
           kept == IF stmt.aug THEN UNION {Get(e, Collapse(ts[i])) : i \in DOMAIN ts} ELSE {}
           next == Transfer(stmt, e, prog.summaries)
           C(p) == {i \in DOMAIN ts : IsPrefixOf(ts[i], p)}
<1>1. ts \in Seq(TextPath) /\ stmt.dynamic = {} /\ \A i \in DOMAIN ts : Len(ts[i].steps) <= STEPS_CAP
  BY DEF Stmt, WritesWhole
<1>2. \A i \in DOMAIN ts : /\ Collapse(ts[i]) = ts[i] /\ ts[i] \in AccessPath /\ ts[i] # Nowhere
                           /\ IsPrefixOf(ts[i], ts[i]) /\ ts[i] \in Places(prog)
  BY <1>1, ShortPath DEF Range
<1>3. x \in SUBSET Label /\ kept \in SUBSET Label
  BY ExprTaintType, GetType DEF Stmt, IsProgram
<1>4. \A p \in AccessPath :
        next[p] = IF C(p) = {} THEN e[p]
                  ELSE IF \E i \in C(p) : ts[i] = p /\ \A j \in C(p) : j <= i
                       THEN Merge(kept \cup x)
                       ELSE {}
  BY TransferWhole
<1> HIDE DEF x, kept, next
<1>5. CASE \E p \in Bound(stmt), v \in Values(stmt, f) :
             g = [path |-> p, spec |-> v.spec, chain |-> v.chain]
  <2>1. PICK p \in Bound(stmt), v \in Values(stmt, f) :
          g = [path |-> p, spec |-> v.spec, chain |-> v.chain]
    BY <1>5
  <2>2. IsFact(v) /\ Has(x, v)
    BY <2>1, ValuesHas DEF Carries, Held, x
  <2>3. IsFact(g) /\ g.path = p /\ Has(Merge(kept \cup x), g)
    <3>1. Has(kept \cup x, g) /\ IsFact(g) /\ g.path = p
      BY <2>1, <2>2 DEF Has, IsFact
    <3>2. QED BY <1>3, <3>1, MergeHas DEF IsFact
  <2>4. PICK i \in DOMAIN ts : /\ p = ts[i]
                               /\ \A k \in DOMAIN ts : k > i => ~ IsPrefixOf(ts[k], ts[i])
    BY <1>1 DEF Bound
  <2>5. i \in C(p) /\ ts[i] = p /\ \A j \in C(p) : j <= i
    <3>1. DOMAIN ts \subseteq Nat
      BY <1>1
    <3>2. QED BY <1>2, <2>4, <3>1
  <2>6. next[p] = Merge(kept \cup x)
    <3>1. p \in AccessPath
      BY <1>2, <2>4
    <3>2. C(p) # {} /\ \E j \in C(p) : ts[j] = p /\ \A k \in C(p) : k <= j
      BY <2>5
    <3> HIDE DEF C
    <3>3. QED BY <1>4, <3>1, <3>2
  <2>7. QED BY <1>2, <2>3, <2>4, <2>6 DEF Held, Stands, next
<1>6. CASE g = f /\ Survives(stmt, f)
  <2>1. /\ IsFact(g) /\ g.path \in Places(prog) /\ g.path \in AccessPath /\ g.path # Nowhere
        /\ Has(e[g.path], g)
    BY <1>6 DEF Held, Stands
  <2>2. CASE C(g.path) = {}
    BY <1>4, <2>1, <2>2 DEF Held, Stands, next
  <2>3. CASE C(g.path) # {}
    <3>1. stmt.aug
      BY <1>1, <1>6, <2>3 DEF Survives
    <3>2. DOMAIN ts = {1} /\ C(g.path) = {1} /\ g.path = ts[1]
      BY <2>1, <2>3, <3>1 DEF WritesWhole
    <3>3. next[g.path] = Merge(kept \cup x)
      BY <1>4, <2>1, <3>2
    <3>4. Has(Get(e, Collapse(ts[1])), g)
      <4>1. ts[1] \in TextPath
        BY <1>1, <3>2
      <4>2. QED BY <1>2, <2>1, <3>2, <4>1, GetHas
    <3>5. Has(kept \cup x, g)
      BY <3>1, <3>2, <3>4 DEF kept, Has
    <3>6. QED BY <1>3, <2>1, <3>3, <3>5, MergeHas DEF Held, Stands, IsFact, next
  <2>4. QED BY <2>2, <2>3
<1>7. g # Clean
  BY DEF Carries, Clean
<1>8. QED BY <1>5, <1>6, <1>7 DEF After

(***************************************************************************)
(* What the second pass reports, and what is left of it.                   *)
(***************************************************************************)

\* Where a fact reaches a sink, the engine finds the sink reached.
LEMMA HitFound ==
  ASSUME NEW e \in Env, NEW stmt \in Stmt, IsProgram(prog),
         NEW f, Carries(f) => Stands(e, f), NEW hit \in Hits(stmt, f)
  PROVE  /\ hit.witness \in Chain
         /\ \E r \in StmtFindings(stmt, e, prog.summaries) :
              r.spec = hit.spec /\ r.sink = hit.sink /\ NotWorse(r.witness, hit.witness)
<1> DEFINE call == stmt.value.call
<1>1. stmt.value.op = "call" /\ call \in Call
  BY DEF Hits, Stmt, Expr
<1>2. PICK g \in Present(stmt, f) : hit \in SinkHits(call, g)
  BY DEF Hits
<1>3. Stands(e, g) /\ g.chain \in Chain
  BY FreshStands DEF Present, Stands, IsFact
<1>4. StmtFindings(stmt, e, prog.summaries)
        = SinkFindings(call, e) \cup InterprocFindings(call, e, prog.summaries)
  BY <1>1 DEF StmtFindings
<1> HIDE DEF call
<1>5. CASE \E s \in call.sinks :
             /\ s.spec = g.spec /\ \E i \in s.args : CallReads(call, i, g)
             /\ hit = [spec |-> g.spec, sink |-> call.loc, witness |-> Append(g.chain, SinkStep(call))]
  <2> DEFINE Of(l) == [spec |-> l.spec, sink |-> call.loc, witness |-> Append(l.chain, SinkStep(call))]
             All(s) == {Of(l) : l \in {m \in CheckedTaint(call, s, e) : m.spec = s.spec}}
  <2>1. PICK s \in call.sinks : /\ s.spec = g.spec /\ \E i \in s.args : CallReads(call, i, g)
                                /\ hit = Of(g)
    BY <1>5
  <2>2. PICK i \in s.args : CallReads(call, i, g)
    BY <2>1
  <2>3. i \in s.args \cap DOMAIN call.args
    <3>1. i # 0
      BY <1>1 DEF Call
    <3>2. QED BY <2>2, <3>1 DEF CallReads
  <2>4. PICK m \in PositionTaint(call, i, e) : m.spec = g.spec /\ NotWorse(m.chain, g.chain)
    BY <1>1, <1>3, <2>2, PositionHas DEF Has
  <2>5. m \in CheckedTaint(call, s, e) /\ m.chain \in Chain
    BY <1>1, <2>3, PositionType DEF CheckedTaint, Label
  <2>6. SinkStep(call) \in WitnessStep
    BY <1>1, CallStepType
  <2>7. NotWorse(Of(m).witness, hit.witness) /\ hit.witness \in Chain
    BY <1>3, <2>1, <2>4, <2>5, <2>6, SpliceMonotone, ChainType
  <2>8. Of(m).spec = hit.spec /\ Of(m).sink = hit.sink
    BY <2>1, <2>4
  <2>9. Of(m) \in SinkFindings(call, e)
    <3>1. SinkFindings(call, e) = UNION {All(t) : t \in call.sinks}
      BY DEF SinkFindings
    <3>2. Of(m) \in All(s)
      BY <2>1, <2>4, <2>5
    <3> HIDE DEF Of, All
    <3>3. QED BY <3>1, <3>2
  <2>10. QED BY <1>4, <2>7, <2>8, <2>9
<1>6. CASE \E flow \in FlowsOf(call, prog.summaries) :
             /\ flow.dst = "sink" /\ flow.spec = g.spec /\ CallReads(call, flow.index, g)
             /\ hit = [spec |-> g.spec, sink |-> flow.loc, witness |-> Spliced(g, call, flow)]
  <2> DEFINE Of(flow, l) == [spec |-> flow.spec, sink |-> flow.loc,
                             witness |-> Append(l.chain, CallStep(call)) \o flow.fragment]
             All(flow) ==
               {Of(flow, l) : l \in {m \in PositionTaint(call, flow.index, e) : m.spec = flow.spec}}
  <2>1. PICK flow \in FlowsOf(call, prog.summaries) :
             /\ flow.dst = "sink" /\ flow.spec = g.spec /\ CallReads(call, flow.index, g)
             /\ hit = [spec |-> g.spec, sink |-> flow.loc, witness |-> Spliced(g, call, flow)]
    BY <1>6
  <2>2. PICK m \in PositionTaint(call, flow.index, e) :
          m.spec = g.spec /\ NotWorse(Spliced(m, call, flow), Spliced(g, call, flow))
    BY <1>1, <1>3, <2>1, SplicedHas
  <2>3. hit.witness \in Chain
    BY <1>1, <1>3, <2>1, SplicedHas
  <2>4. /\ Of(flow, m).spec = hit.spec /\ Of(flow, m).sink = hit.sink
        /\ NotWorse(Of(flow, m).witness, hit.witness)
    BY <2>1, <2>2 DEF Spliced
  <2>5. Of(flow, m) \in InterprocFindings(call, e, prog.summaries)
    <3>1. InterprocFindings(call, e, prog.summaries)
            = UNION {All(h) : h \in {k \in FlowsOf(call, prog.summaries) : k.dst = "sink"}}
      BY DEF InterprocFindings
    <3>2. Of(flow, m) \in All(flow)
      BY <2>1, <2>2
    <3> HIDE DEF Of, All
    <3>3. QED BY <2>1, <3>1, <3>2
  <2>6. QED BY <1>4, <2>3, <2>4, <2>5
<1>7. QED BY <1>2, <1>5, <1>6 DEF SinkHits

\* Deduplication keeps a best witness of every vulnerability (_finalize).
LEMMA FinalizeKeeps ==
  ASSUME NEW S \in SUBSET Finding, NEW r \in S
  PROVE  \E f \in Finalize(S) : f.spec = r.spec /\ f.sink = r.sink /\ NotWorse(f.witness, r.witness)
<1> DEFINE same == {g \in S : SameVulnerability(r, g)}
           chains == {g.witness : g \in same}
<1>1. r \in same
  BY DEF SameVulnerability
<1>2. chains \in SUBSET Chain /\ r.witness \in chains
  BY <1>1 DEF Finding
<1>3. PICK c \in chains : \A d \in chains : NotWorse(c, d)
  BY <1>2, BestExists
<1>4. PICK f \in same : f.witness = c
  BY <1>3
<1>5. \A g \in S : SameVulnerability(f, g) => g \in same
  BY <1>4 DEF SameVulnerability
<1>6. f \in Finalize(S)
  BY <1>3, <1>4, <1>5 DEF Finalize, NotWorse
<1>7. QED BY <1>2, <1>3, <1>4, <1>6 DEF SameVulnerability

\* When the analysis is done, every block is solved and the answer is made
\* of what its statements yield there.
Answered ==
  phase = "done" =>
    /\ \A b \in Blocks : Solved(b)
    /\ result = AnswerOf(prog, raw)
    /\ \A b \in Blocks : \A i \in 1..Len(prog.stmts[b]) :
         Collected(prog, prog.stmts[b][i], at[b][i]) \subseteq raw

\* Only Return, which the second pass has prepared, makes it true.
LEMMA AnsweredStep ==
  ASSUME IInv, Replays, CapIsSafetyNet, Answered, [Next]_vars
  PROVE  Answered'
<1>1. CASE Return
  <2>1. /\ phase = "emit" /\ pos = Len(Stmts) + 1 /\ cur + 1 \notin Blocks
        /\ result' = AnswerOf(prog, raw)
        /\ UNCHANGED <<prog, in_env, out_env, at, cur, raw>>
    BY <1>1 DEF Return
  <2>2. worklist = {}
    BY <2>1 DEF CapIsSafetyNet
  <2>3. \A b \in Blocks : Solved(b)
    BY <2>1, <2>2, SecondPassSolved
  <2>4. \A b \in Blocks : \A i \in 1..Len(prog.stmts[b]) : Behind(b, i)
    <3> SUFFICES ASSUME NEW b \in Blocks, NEW i \in 1..Len(prog.stmts[b])
                 PROVE  Behind(b, i)
      OBVIOUS
    <3>1. cur \in Nat /\ b \in Nat /\ cur \in Blocks /\ prog.n \in Nat
      BY Positions
    <3>2. b <= cur
      BY <2>1, <3>1 DEF Blocks, BlocksOf
    <3>3. b = cur => i < pos
      BY <2>1, Positions DEF Stmts
    <3>4. QED BY <3>1, <3>2, <3>3 DEF Behind
  <2>5. \A b \in Blocks : \A i \in 1..Len(prog.stmts[b]) :
          Collected(prog, prog.stmts[b][i], at[b][i]) \subseteq raw
    BY <2>1, <2>2, <2>4 DEF Replays, YieldedBehind
  <2>6. \A b : Solved(b) => Solved(b)'
    BY <2>1 DEF Solved, JoinOf, JoinAt, Preds, BlocksOf
  <2>7. QED BY <2>1, <2>3, <2>5, <2>6 DEF Answered, Blocks, BlocksOf
<1>2. CASE UNCHANGED vars
  <2>1. /\ prog' = prog /\ phase' = phase /\ in_env' = in_env /\ out_env' = out_env /\ at' = at
        /\ raw' = raw /\ result' = result
    BY <1>2 DEF vars
  <2>2. \A b : Solved(b) => Solved(b)'
    BY <2>1 DEF Solved, JoinOf, JoinAt, Preds, BlocksOf
  <2>3. QED BY <2>1, <2>2 DEF Answered, Blocks, BlocksOf
<1>3. CASE Next /\ ~ Return
  BY <1>3 DEF Next, Pop, Execute, Leave, Stop, Emit, NextBlock, Answered
<1>4. QED BY <1>1, <1>2, <1>3

-----------------------------------------------------------------------------
(***************************************************************************)
(* The walk.  NoMissedFlow is not inductive: the fact that reaches a sink  *)
(* is reported because wherever the walk has carried it, the environment   *)
(* that the fixpoint has at that place knew it.                            *)
(***************************************************************************)
Walking ==
  walk.on =>
    /\ phase = "done"
    /\ walk.blk \in Blocks /\ walk.pos \in 1..(Len(prog.stmts[walk.blk]) + 1)
    /\ Carries(walk.fact) => Held(at[walk.blk][walk.pos], walk.fact)

\* What the invariants say of the place the walk is at.
LEMMA FixpointHere ==
  ASSUME IInv, Answered, phase = "done", NEW b \in Blocks
  PROVE  /\ IsProgram(prog) /\ prog.stmts[b] \in Seq(Stmt) /\ Len(prog.stmts[b]) \in Nat
         /\ out_env \in [Blocks -> Env]
         /\ \A i \in 1..(Len(prog.stmts[b]) + 1) : at[b][i] \in Env
         /\ at[b][1] = JoinOf(b, out_env) /\ out_env[b] = at[b][Len(prog.stmts[b]) + 1]
         /\ \A i \in 1..Len(prog.stmts[b]) :
              at[b][i + 1] = Transfer(prog.stmts[b][i], at[b][i], prog.summaries)
<1>1. IsProgram(prog) /\ out_env \in [Blocks -> Env] /\ at \in [Blocks -> Seq(Env)]
  BY DEF IInv, TypeOK
<1>2. prog.stmts[b] \in Seq(Stmt)
  BY <1>1 DEF IsProgram, Blocks, BlocksOf
<1>3. Solved(b)
  BY DEF Answered
<1>4. at[b] \in Seq(Env)
  BY <1>1
<1> DEFINE n == Len(prog.stmts[b])
<1>5. n \in Nat
  BY <1>2
<1>6. Len(at[b]) = n + 1
  BY <1>3 DEF Solved
<1> HIDE DEF n
<1>7. \A i \in 1..(n + 1) : at[b][i] \in Env
  BY <1>4, <1>5, <1>6
<1>8. QED BY <1>1, <1>2, <1>3, <1>5, <1>7 DEF Solved, n

\* A walk starts with what the entry environment holds.
LEMMA EnterWalks ==
  ASSUME IInv, Answered, Enter
  PROVE  Walking'
<1>1. phase = "done" /\ UNCHANGED vars
  BY DEF Enter
<1>2. PICK f \in EntryFacts \cup {Clean} : walk' = WalkAt(prog.entry, 1, f)
  BY DEF Enter
<1>3. prog.entry \in Blocks /\ IsProgram(prog)
  BY DEF IInv, TypeOK, IsProgram, Blocks, BlocksOf
<1> DEFINE b == prog.entry
<1>4. Len(prog.stmts[b]) \in Nat /\ at[b][1] = JoinOf(b, out_env) /\ out_env \in [Blocks -> Env]
  BY <1>1, <1>3, FixpointHere
<1>5. ASSUME Carries(f) PROVE Held(at[b][1], f)
  <2>1. f # Clean
    BY <1>5 DEF Carries, Clean
  <2>2. PICK p \in AccessPath : \E l \in prog.entryEnv[p] :
          f = [path |-> p, spec |-> l.spec, chain |-> l.chain]
    BY <1>2, <2>1 DEF EntryFacts
  <2>3. PICK l \in prog.entryEnv[p] : f = [path |-> p, spec |-> l.spec, chain |-> l.chain]
    BY <2>2
  <2>4. prog.entryEnv[p] \in SUBSET Label
    BY <1>3 DEF IsProgram, Env
  <2>5. IsFact(f) /\ f.path = p /\ Has(prog.entryEnv[p], f)
    BY <2>3, <2>4, ChainIrreflexive DEF IsFact, Label, Has, NotWorse
  <2>6. p # Nowhere /\ p \in Places(prog)
    BY <2>3, NowhereAssumption DEF Nowhere, AccessPath, Places
  <2> DEFINE all == prog.entryEnv[p] \cup UNION {out_env[c][p] : c \in Preds(prog, b)}
  <2>7. all \in SUBSET Label
    <3>1. \A c \in Preds(prog, b) : out_env[c][p] \in SUBSET Label
      BY <1>4 DEF Preds, Blocks, Env
    <3>2. QED BY <2>4, <3>1
  <2>8. Has(all, f) /\ JoinOf(b, out_env)[p] = Merge(all)
    BY <2>5 DEF Has, JoinOf, JoinAt
  <2> HIDE DEF all
  <2>9. Has(at[b][1][p], f)
    BY <1>4, <2>5, <2>7, <2>8, MergeHas DEF IsFact
  <2>10. QED BY <2>5, <2>6, <2>9 DEF Held, Stands
<1>6. 1 \in 1..(Len(prog.stmts[b]) + 1)
  BY <1>4
<1>7. /\ walk'.on /\ walk'.blk = b /\ walk'.pos = 1 /\ walk'.fact = f
      /\ prog' = prog /\ phase' = "done" /\ at' = at
  BY <1>1, <1>2 DEF WalkAt, vars
<1> HIDE DEF b
<1>8. (Carries(walk.fact) => Held(at[walk.blk][walk.pos], walk.fact))'
  BY <1>5, <1>7 DEF Held, Stands, Carries, Places, BlocksOf
<1>9. QED BY <1>3, <1>6, <1>7, <1>8 DEF Walking, Blocks, BlocksOf, b

\* A statement of the walk keeps the fact where the environment knows it.
LEMMA RunWalks ==
  ASSUME IInv, Answered, Walking, Precise(prog), Run
  PROVE  Walking'
<1> DEFINE b == walk.blk
           i == walk.pos
           stmt == prog.stmts[b][i]
<1>1. walk.on /\ i \in DOMAIN prog.stmts[b] /\ UNCHANGED vars
  BY DEF Run
<1>2. PICK g \in After(stmt, walk.fact) : walk' = WalkAt(b, i + 1, g)
  BY DEF Run
<1>3. phase = "done" /\ b \in Blocks /\ (Carries(walk.fact) => Held(at[b][i], walk.fact))
  BY <1>1 DEF Walking
<1>4. /\ IsProgram(prog) /\ prog.stmts[b] \in Seq(Stmt) /\ Len(prog.stmts[b]) \in Nat
      /\ \A j \in 1..(Len(prog.stmts[b]) + 1) : at[b][j] \in Env
      /\ \A j \in 1..Len(prog.stmts[b]) :
           at[b][j + 1] = Transfer(prog.stmts[b][j], at[b][j], prog.summaries)
  BY <1>3, FixpointHere
<1>5. i \in 1..Len(prog.stmts[b]) /\ stmt \in Stmt
  BY <1>1, <1>4
<1>6. at[b][i] \in Env /\ at[b][i + 1] = Transfer(stmt, at[b][i], prog.summaries)
  BY <1>4, <1>5
<1>7. WritesWhole(prog, stmt) /\ (stmt.value.op = "call" => SanitizesAllOrNone(prog, stmt.value.call))
  BY <1>1, <1>3 DEF Precise, Blocks
<1>8. Range(stmt.targets) \subseteq Places(prog)
  <2>1. Range(stmt.targets) \subseteq UNION {Range(prog.stmts[b][j].targets) : j \in DOMAIN prog.stmts[b]}
    BY <1>1
  <2>2. QED BY <1>3, <2>1 DEF Places, Blocks
<1>9. ASSUME Carries(g) PROVE Held(at[b][i + 1], g)
  BY <1>2, <1>3, <1>4, <1>5, <1>6, <1>7, <1>8, <1>9, AfterHeld
<1>10. i + 1 \in 1..(Len(prog.stmts[b]) + 1)
  BY <1>4, <1>5
<1>11. /\ walk'.on /\ walk'.blk = b /\ walk'.pos = i + 1 /\ walk'.fact = g
       /\ prog' = prog /\ phase' = "done" /\ at' = at
  BY <1>1, <1>2, <1>3 DEF WalkAt, vars
<1> HIDE DEF b, i, stmt
<1>12. (Carries(walk.fact) => Held(at[walk.blk][walk.pos], walk.fact))'
  BY <1>9, <1>11 DEF Held, Stands, Carries, Places, BlocksOf
<1>13. QED BY <1>3, <1>10, <1>11, <1>12 DEF Walking, Blocks, BlocksOf

\* So does an edge of the control flow graph.
LEMMA BranchWalks ==
  ASSUME IInv, Answered, Walking, Branch
  PROVE  Walking'
<1> DEFINE b == walk.blk
           n == Len(prog.stmts[b])
           f == walk.fact
<1>1. walk.on /\ walk.pos \notin DOMAIN prog.stmts[b] /\ UNCHANGED vars
  BY DEF Branch
<1>2. PICK c \in prog.succ[b] : walk' = WalkAt(c, 1, f)
  BY DEF Branch
<1>3. /\ phase = "done" /\ b \in Blocks /\ walk.pos \in 1..(n + 1)
      /\ (Carries(f) => Held(at[b][walk.pos], f))
  BY <1>1 DEF Walking
<1>4. /\ IsProgram(prog) /\ prog.stmts[b] \in Seq(Stmt) /\ n \in Nat
      /\ out_env \in [Blocks -> Env] /\ out_env[b] = at[b][n + 1]
  BY <1>3, FixpointHere
<1>5. c \in Blocks /\ b \in Preds(prog, c)
  BY <1>2, <1>3, <1>4 DEF IsProgram, Preds, Blocks, BlocksOf
<1>6. walk.pos = n + 1
  <2>1. DOMAIN prog.stmts[b] = 1..n
    BY <1>4
  <2>2. QED BY <1>1, <1>3, <1>4, <2>1
<1>7. at[c][1] = JoinOf(c, out_env) /\ Len(prog.stmts[c]) \in Nat
  BY <1>3, <1>5, FixpointHere
<1>8. ASSUME Carries(f) PROVE Held(at[c][1], f)
  <2> DEFINE p == f.path
             all == (IF c = prog.entry THEN prog.entryEnv[p] ELSE {})
                      \cup UNION {out_env[d][p] : d \in Preds(prog, c)}
  <2>1. Held(out_env[b], f)
    BY <1>3, <1>4, <1>6, <1>8
  <2>2. p \in AccessPath /\ IsFact(f) /\ Has(out_env[b][p], f)
    BY <2>1 DEF Held, Stands
  <2>3. all \in SUBSET Label
    <3>1. \A d \in Preds(prog, c) : out_env[d][p] \in SUBSET Label
      BY <1>4, <2>2 DEF Preds, Blocks, Env
    <3>2. prog.entryEnv[p] \in SUBSET Label
      BY <1>4, <2>2 DEF IsProgram, Env
    <3>3. QED BY <3>1, <3>2
  <2>4. Has(all, f)
    BY <1>5, <2>2 DEF Has
  <2>5. JoinOf(c, out_env)[p] = Merge(all)
    BY <2>2 DEF JoinOf, JoinAt
  <2> HIDE DEF all
  <2>6. Has(at[c][1][p], f)
    BY <1>7, <2>2, <2>3, <2>4, <2>5, MergeHas DEF IsFact
  <2>7. QED BY <2>1, <2>6 DEF Held, Stands
<1>9. 1 \in 1..(Len(prog.stmts[c]) + 1)
  BY <1>7
<1>10. /\ walk'.on /\ walk'.blk = c /\ walk'.pos = 1 /\ walk'.fact = f
       /\ prog' = prog /\ phase' = "done" /\ at' = at
  BY <1>1, <1>2, <1>3 DEF WalkAt, vars
<1> HIDE DEF b, n, f
<1>11. (Carries(walk.fact) => Held(at[walk.blk][walk.pos], walk.fact))'
  BY <1>8, <1>10 DEF Held, Stands, Carries, Places, BlocksOf
<1>12. QED BY <1>5, <1>9, <1>10, <1>11 DEF Walking, Blocks, BlocksOf

\* While a walk is under way the analysis is over.
LEMMA WalkingStep ==
  ASSUME IInv, Answered, Walking, Precise(prog), [WalkNext]_walkVars
  PROVE  Walking'
<1>1. CASE Analyse
  <2>1. Next /\ walk' = walk
    BY <1>1 DEF Analyse
  <2>2. phase # "done"
    BY <2>1 DEF Next, Pop, Execute, Leave, Stop, Emit, NextBlock, Return
  <2>3. QED BY <2>1, <2>2 DEF Walking
<1>2. CASE UNCHANGED walkVars
  BY <1>2 DEF walkVars, vars, Walking, Held, Stands, Carries, Places, Blocks, BlocksOf
<1>3. QED BY <1>1, <1>2, EnterWalks, RunWalks, BranchWalks DEF WalkNext

\* The invariant says what the promise needs of the place the walk is at.
LEMMA WalkingReported ==
  ASSUME IInv, Answered, Walking
  PROVE  NoMissedFlow
<1> SUFFICES ASSUME AtStmt, prog.kind = "engine", NEW hit \in Hits(StmtHere, walk.fact)
             PROVE  \E f \in result : /\ f.spec = hit.spec /\ f.sink = hit.sink
                                      /\ ~ BetterChain(hit.witness, f.witness)
  BY DEF NoMissedFlow
<1> DEFINE b == walk.blk
           i == walk.pos
<1>1. /\ phase = "done" /\ b \in Blocks /\ i \in DOMAIN prog.stmts[b]
      /\ (Carries(walk.fact) => Held(at[b][i], walk.fact))
  BY DEF AtStmt, Walking
<1>2. /\ IsProgram(prog) /\ prog.stmts[b] \in Seq(Stmt) /\ Len(prog.stmts[b]) \in Nat
      /\ \A j \in 1..(Len(prog.stmts[b]) + 1) : at[b][j] \in Env
  BY <1>1, FixpointHere
<1>3. i \in 1..Len(prog.stmts[b]) /\ StmtHere \in Stmt /\ StmtHere = prog.stmts[b][i]
  BY <1>1, <1>2 DEF StmtHere
<1>4. at[b][i] \in Env
  BY <1>2, <1>3
<1>5. hit.witness \in Chain
  BY <1>1, <1>2, <1>3, <1>4, HitFound DEF Held
<1>6. PICK r \in StmtFindings(StmtHere, at[b][i], prog.summaries) :
        r.spec = hit.spec /\ r.sink = hit.sink /\ NotWorse(r.witness, hit.witness)
  BY <1>1, <1>2, <1>3, <1>4, HitFound DEF Held
<1>7. r \in raw /\ raw \in SUBSET Finding /\ result = Finalize(raw)
  BY <1>1, <1>3, <1>6 DEF Answered, Collected, AnswerOf, IInv, TypeOK
<1>8. PICK f \in Finalize(raw) : f.spec = r.spec /\ f.sink = r.sink /\ NotWorse(f.witness, r.witness)
  BY <1>7, FinalizeKeeps
<1>9. f.witness \in Chain /\ r.witness \in Chain
  BY <1>7, <1>8 DEF Finalize, Finding
<1>10. NotWorse(f.witness, hit.witness)
  BY <1>5, <1>6, <1>8, <1>9, NotWorseTrans
<1>11. QED BY <1>6, <1>7, <1>8, <1>10 DEF NotWorse

\* Soundness of the analysis of one function: whatever the function, its
\* statements and the lengths of its paths, every way along which some
\* execution carries a tainted value to a sink is reported by what
\* analyze_function returns, by a witness that is no worse - as long as the
\* bound on visits is only a safety net and the functions are not among
\* those the engine is known to be imprecise on.
THEOREM NothingMissed ==
  ASSUME \A p \in Programs : Precise(p)
  PROVE  WalkSpec /\ []CapIsSafetyNet => []NoMissedFlow
<1> DEFINE Inv == IInv /\ Replays /\ Answered /\ Walking /\ prog \in Programs
<1>1. WalkInit => Inv
  <2> SUFFICES ASSUME WalkInit PROVE Inv
    OBVIOUS
  <2>1. Init /\ walk.on = FALSE
    BY DEF WalkInit, NoWalk
  <2>2. QED BY <2>1, InitSettled DEF Init, Replays, Answered, Walking
<1>2. Inv /\ CapIsSafetyNet /\ CapIsSafetyNet' /\ [WalkNext]_walkVars => Inv'
  <2> SUFFICES ASSUME Inv, CapIsSafetyNet, CapIsSafetyNet', [WalkNext]_walkVars PROVE Inv'
    OBVIOUS
  <2>1. [Next]_vars
    BY DEF WalkNext, walkVars, Analyse, Enter, Run, Branch
  <2>2. prog' = prog
    BY <2>1 DEF Next, Pop, Execute, Leave, Stop, Emit, NextBlock, Return, vars
  <2>3. IInv' /\ Replays' /\ Answered'
    BY <2>1, IInvStep, ReplaysStep, AnsweredStep
  <2>4. Walking'
    BY WalkingStep
  <2>5. QED BY <2>2, <2>3, <2>4
<1>3. Inv => NoMissedFlow
  BY WalkingReported
<1>4. QED BY <1>1, <1>2, <1>3, PTL DEF WalkSpec

-----------------------------------------------------------------------------
(***************************************************************************)
(* Summaries.  The fragment of a flow is a chain without its first step,   *)
(* and a better chain need not have a better rest.  It has one here,       *)
(* because every chain of a parameter's marker, the engine's as well as    *)
(* the walk's, starts with the step in which the marker was seeded.        *)
(***************************************************************************)
Headed(p, f) ==
  f.spec \in Marker =>
    \E q \in AccessPath : \E k \in p.entryEnv[q] : k.spec = f.spec /\ k.chain[1] = f.chain[1]

AllHeaded(p, labels) == \A l \in labels : Headed(p, l)

EnvHeaded(p, e) == \A q \in AccessPath : AllHeaded(p, e[q])

\* Extending a chain leaves its first step.
LEMMA SpliceHead ==
  ASSUME NEW c \in Chain \ {<<>>}, NEW s \in WitnessStep, NEW d \in Chain
  PROVE  (Append(c, s) \o d)[1] = c[1]
<1> DEFINE W == WitnessStep
<1>1. c \in Seq(W) /\ d \in Seq(W) /\ s \in W /\ c # <<>>
  BY DEF Chain
<1> HIDE DEF W
<1>2. QED BY <1>1

\* Without the same first step, the better of two chains is no worse.
LEMMA TailNotWorse ==
  ASSUME NEW a \in Chain \ {<<>>}, NEW b \in Chain \ {<<>>}, a[1] = b[1], NotWorse(a, b)
  PROVE  NotWorse(Tail(a), Tail(b))
<1> DEFINE W == WitnessStep
<1>1. a \in Seq(W) /\ b \in Seq(W) /\ a # <<>> /\ b # <<>>
  BY DEF Chain
<1> HIDE DEF W
<1> DEFINE ta == Tail(a)
           tb == Tail(b)
<1>2. /\ Len(a) \in Nat \ {0} /\ Len(b) \in Nat \ {0}
      /\ Len(ta) = Len(a) - 1 /\ Len(tb) = Len(b) - 1
      /\ \A i \in 1..(Len(a) - 1) : ta[i] = a[i + 1]
      /\ \A i \in 1..(Len(b) - 1) : tb[i] = b[i + 1]
  BY <1>1
<1> HIDE DEF ta, tb
<1> SUFFICES ASSUME BetterChain(tb, ta) PROVE BetterChain(b, a)
  BY DEF NotWorse, ta, tb
<1>3. CASE Len(tb) < Len(ta)
  BY <1>2, <1>3 DEF BetterChain
<1>4. CASE /\ Len(tb) = Len(ta)
           /\ \E i \in 1..Len(tb) : /\ StepBefore(tb[i], ta[i])
                                         /\ \A j \in 1..(i - 1) : tb[j] = ta[j]
  <2>1. PICK i \in 1..Len(tb) : /\ StepBefore(tb[i], ta[i])
                                     /\ \A j \in 1..(i - 1) : tb[j] = ta[j]
    BY <1>4
  <2>2. Len(a) = Len(b) /\ i \in 1..(Len(b) - 1) /\ i \in 1..(Len(a) - 1)
    <3>1. \A x, y \in Nat \ {0} : x - 1 = y - 1 => x = y
      OBVIOUS
    <3>2. Len(a) = Len(b)
      BY <1>2, <1>4, <3>1
    <3>3. 1..Len(tb) = 1..(Len(b) - 1)
      BY <1>2
    <3>4. QED BY <3>2, <3>3
  <2>3. StepBefore(b[i + 1], a[i + 1]) /\ i + 1 \in 1..Len(b)
    BY <1>2, <2>1, <2>2
  <2>4. ASSUME NEW j \in 1..((i + 1) - 1) PROVE b[j] = a[j]
    <3>1. CASE j = 1
      BY <3>1
    <3>2. CASE j # 1
      <4>1. j - 1 \in 1..(i - 1) /\ j - 1 \in 1..(Len(b) - 1) /\ j - 1 \in 1..(Len(a) - 1)
            /\ (j - 1) + 1 = j
        BY <1>2, <2>2, <3>2
      <4>2. tb[j - 1] = b[j] /\ ta[j - 1] = a[j]
        BY <1>2, <4>1
      <4>3. QED BY <2>1, <4>1, <4>2
    <3>3. QED BY <3>1, <3>2
  <2>5. QED BY <2>2, <2>3, <2>4 DEF BetterChain
<1>5. QED BY <1>3, <1>4 DEF BetterChain

\* What the engine evaluates starts where its markers were seeded.
LEMMA OperandHeaded ==
  ASSUME NEW p, NEW e \in Env, EnvHeaded(p, e), NEW o \in Operand
  PROVE  AllHeaded(p, OperandTaint(o, e))
<1>1. CASE o.kind = "const"
  BY <1>1 DEF OperandTaint, AllHeaded
<1>2. CASE o.kind = "path"
  BY <1>2 DEF OperandTaint, Get, Merge, EnvHeaded, AllHeaded
<1>3. CASE o.kind = "source"
  <2>1. o.sources \in SUBSET DetectorId
    BY <1>3 DEF Operand
  <2>2. \A l \in OperandTaint(o, e) : l.spec \in DetectorId
    BY <1>3, <2>1 DEF OperandTaint, SourceLabels
  <2>3. QED BY <2>2 DEF AllHeaded, Headed, DetectorId
<1>4. QED BY <1>1, <1>2, <1>3 DEF Operand

\* So do several operands, ...
LEMMA OperandsHeaded ==
  ASSUME NEW p, NEW e \in Env, EnvHeaded(p, e), NEW args \in Seq(Operand)
  PROVE  AllHeaded(p, OperandsTaint(args, e))
<1>1. \A i \in DOMAIN args : args[i] \in Operand
  OBVIOUS
<1>2. QED BY <1>1, OperandHeaded DEF OperandsTaint, AllHeaded

\* ... a position of a call, ...
LEMMA PositionHeaded ==
  ASSUME NEW p, NEW e \in Env, EnvHeaded(p, e), NEW call \in Call, NEW n
  PROVE  AllHeaded(p, PositionTaint(call, n, e))
<1>1. call.receiver \in Operand /\ call.args \in Seq(Operand)
  BY DEF Call
<1>2. n \in DOMAIN call.args => call.args[n] \in Operand
  BY <1>1
<1>3. AllHeaded(p, {})
  BY DEF AllHeaded
<1>4. QED BY <1>1, <1>2, <1>3, OperandHeaded DEF PositionTaint

\* ... what a summary leads to the call's value, ...
LEMMA SummaryHeaded ==
  ASSUME NEW p, NEW e \in Env, EnvHeaded(p, e), NEW call \in Call,
         NEW summaries, IsSummaries(summaries)
  PROVE  AllHeaded(p, SummaryTaint(call, e, summaries))
<1> DEFINE st == CallStep(call)
<1> DEFINE One(flow) ==
      IF flow.src = "source"
      THEN {[spec |-> d, chain |-> Append(flow.fragment, st)] : d \in {flow.spec} \ {NoSpec}}
      ELSE {[spec |-> l.spec, chain |-> Append(l.chain, st) \o flow.fragment]
              : l \in PositionTaint(call, flow.index, e)}
<1>1. ASSUME NEW flow \in FlowsOf(call, summaries), NEW m \in One(flow)
      PROVE  Headed(p, m)
  <2>1. flow.fragment \in Chain /\ flow.spec \in DetectorId \cup {NoSpec}
    BY FlowsType DEF Flow
  <2>2. CASE flow.src = "source"
    BY <2>1, <2>2 DEF Headed, DetectorId
  <2>3. CASE flow.src # "source"
    <3>1. PICK l \in PositionTaint(call, flow.index, e) :
            m = [spec |-> l.spec, chain |-> Append(l.chain, st) \o flow.fragment]
      BY <2>3
    <3>2. l.chain \in Chain \ {<<>>} /\ Headed(p, l)
      BY PositionType, PositionHeaded DEF Label, AllHeaded
    <3>3. (Append(l.chain, st) \o flow.fragment)[1] = l.chain[1]
      BY <2>1, <3>2, CallStepType, SpliceHead
    <3> HIDE DEF st
    <3>4. m.spec = l.spec /\ m.chain[1] = l.chain[1]
      BY <3>1, <3>3
    <3>5. QED BY <3>2, <3>4 DEF Headed
  <2>4. QED BY <2>2, <2>3
<1>2. SummaryTaint(call, e, summaries)
        = UNION {One(flow) : flow \in {f \in FlowsOf(call, summaries) : f.dst = "return"}}
  BY DEF SummaryTaint
<1> HIDE DEF One
<1>3. QED BY <1>1, <1>2 DEF AllHeaded

\* ... and the value of an expression;
LEMMA ExprHeaded ==
  ASSUME NEW p, NEW e \in Env, EnvHeaded(p, e), NEW x \in Expr,
         NEW summaries, IsSummaries(summaries)
  PROVE  AllHeaded(p, ExprTaint(x, e, summaries))
<1>1. CASE x.op = "union"
  <2>1. x.args \in Seq(Operand)
    BY <1>1 DEF Expr
  <2>2. AllHeaded(p, OperandsTaint(x.args, e))
    BY <2>1, OperandsHeaded
  <2>3. QED BY <1>1, <2>2 DEF ExprTaint, Merge, AllHeaded
<1>2. CASE x.op = "drop"
  BY <1>2 DEF ExprTaint, AllHeaded
<1>3. CASE x.op = "call"
  <2> DEFINE call == x.call
  <2>1. call \in Call
    BY <1>3 DEF Expr
  <2> HIDE DEF call
  <2>2. call.receiver \in Operand /\ call.args \in Seq(Operand) /\ call.kwargs \in Seq(Operand)
    BY <2>1 DEF Call
  <2>3. AllHeaded(p, MovedTaint(call, e))
    BY <2>1, PositionHeaded DEF MovedTaint, AllHeaded
  <2>4. AllHeaded(p, IncomingTaint(call, e))
    <3>1. /\ AllHeaded(p, OperandTaint(call.receiver, e))
          /\ AllHeaded(p, OperandsTaint(call.args, e))
          /\ AllHeaded(p, OperandsTaint(call.kwargs, e))
      BY <2>2, OperandHeaded, OperandsHeaded
    <3>2. QED BY <3>1 DEF IncomingTaint, AllHeaded
  <2>5. AllHeaded(p, PassThrough(call, e, summaries))
    BY <2>4 DEF PassThrough, AllHeaded
  <2>6. AllHeaded(p, SummaryTaint(call, e, summaries))
    BY <2>1, SummaryHeaded
  <2>7. AllHeaded(p, CallTaint(call, e, summaries))
    BY <2>3, <2>5, <2>6 DEF CallTaint, AllHeaded
  <2>8. AllHeaded(p, SourceLabels(call.sources, call.loc))
    <3>1. \A l \in SourceLabels(call.sources, call.loc) : l.spec \in DetectorId
      BY <2>1 DEF SourceLabels, Call
    <3>2. QED BY <3>1 DEF AllHeaded, Headed, DetectorId
  <2>9. ExprTaint(x, e, summaries)
          = Merge(SourceLabels(call.sources, call.loc) \cup CallTaint(call, e, summaries))
    BY <1>3 DEF ExprTaint, call
  <2>10. QED BY <2>7, <2>8, <2>9 DEF Merge, AllHeaded
<1>4. QED BY <1>1, <1>2, <1>3 DEF Expr

\* a statement keeps the heads, ...
LEMMA TransferHeaded ==
  ASSUME NEW p, NEW e \in Env, EnvHeaded(p, e), NEW stmt \in Stmt,
         NEW summaries, IsSummaries(summaries)
  PROVE  EnvHeaded(p, Transfer(stmt, e, summaries))
<1> DEFINE targets == [i \in 1..Len(stmt.targets) |-> Collapse(stmt.targets[i])]
           kept == IF stmt.aug THEN UNION {Get(e, targets[i]) : i \in DOMAIN targets} ELSE {}
           all == kept \cup ExprTaint(stmt.value, e, summaries)
<1>1. Transfer(stmt, e, summaries) = Assign(e, targets, all)
  BY DEF Transfer
<1>2. \A i \in DOMAIN targets : AllHeaded(p, Get(e, targets[i]))
  BY DEF Get, Merge, AllHeaded, EnvHeaded
<1> HIDE DEF targets
<1>3. AllHeaded(p, kept)
  BY <1>2 DEF AllHeaded
<1>4. AllHeaded(p, ExprTaint(stmt.value, e, summaries))
  BY ExprHeaded DEF Stmt
<1>5. AllHeaded(p, Merge(all))
  BY <1>3, <1>4 DEF Merge, AllHeaded
<1> HIDE DEF all
<1>6. \A q \in AccessPath : Assign(e, targets, all)[q] \in {e[q], Merge(all), {}}
  BY DEF Assign
<1>7. \A q \in AccessPath : AllHeaded(p, e[q]) /\ AllHeaded(p, {})
  BY DEF EnvHeaded, AllHeaded
<1>8. QED BY <1>1, <1>5, <1>6, <1>7 DEF EnvHeaded

\* ... and so does a join.
LEMMA JoinHeaded ==
  ASSUME IsProgram(prog), NEW outs \in [Blocks -> Env], NEW b,
         \A c \in Blocks : EnvHeaded(prog, outs[c])
  PROVE  EnvHeaded(prog, JoinOf(b, outs))
<1> SUFFICES ASSUME NEW q \in AccessPath, NEW l \in JoinOf(b, outs)[q] PROVE Headed(prog, l)
  BY DEF EnvHeaded, AllHeaded
<1>1. l \in prog.entryEnv[q] \/ \E c \in Preds(prog, b) : l \in outs[c][q]
  BY DEF JoinOf, JoinAt, Merge
<1>2. CASE l \in prog.entryEnv[q]
  BY <1>2 DEF Headed
<1>3. CASE \E c \in Preds(prog, b) : l \in outs[c][q]
  BY <1>3 DEF Preds, Blocks, EnvHeaded, AllHeaded
<1>4. QED BY <1>1, <1>2, <1>3

\* The inductive invariant of the engine's side ...
MarkersHeaded ==
  /\ \A b \in Blocks : EnvHeaded(prog, out_env[b])
  /\ \A b \in Blocks : \A i \in 1..Len(at[b]) : EnvHeaded(prog, at[b][i])
  /\ phase = "visit" => EnvHeaded(prog, env)

\* The environments of the start are empty.
LEMMA InitHeaded == Init => MarkersHeaded
<1> SUFFICES ASSUME Init PROVE MarkersHeaded
  OBVIOUS
<1>1. \A b \in Blocks : out_env[b] = EmptyEnv /\ at[b] = <<>>
  BY DEF Init
<1>2. EnvHeaded(prog, EmptyEnv)
  BY DEF EnvHeaded, AllHeaded, EmptyEnv
<1>3. phase # "visit"
  BY DEF Init
<1>4. \A b \in Blocks : \A i \in 1..Len(at[b]) : FALSE
  BY <1>1
<1>5. QED BY <1>1, <1>2, <1>3, <1>4 DEF MarkersHeaded

\* A visit starts from a join and goes on by transfers.
LEMMA MarkersHeadedStep ==
  ASSUME IInv, MarkersHeaded, [Next]_vars
  PROVE  MarkersHeaded'
<1>1. prog' = prog /\ Blocks' = Blocks /\ IsProgram(prog) /\ at \in [Blocks -> Seq(Env)]
  BY DEF Next, Pop, Execute, Leave, Stop, Emit, NextBlock, Return, vars, Blocks, BlocksOf,
         IInv, TypeOK
<1>2. \A e : EnvHeaded(prog', e) <=> EnvHeaded(prog, e)
  BY <1>1
<1>3. ASSUME NEW b \in Blocks, Pop(b) PROVE MarkersHeaded'
  <2> DEFINE j == JoinOf(b, out_env)
  <2>1. /\ phase' = "visit" /\ out_env' = out_env /\ env' = j /\ at' = [at EXCEPT ![b] = <<j>>]
    BY <1>3 DEF Pop
  <2>2. EnvHeaded(prog, j)
    BY <1>1, JoinHeaded DEF IInv, TypeOK, MarkersHeaded
  <2> HIDE DEF j
  <2>3. \A c \in Blocks : \A i \in 1..Len(at'[c]) : EnvHeaded(prog, at'[c][i])
    <3>1. ASSUME NEW c \in Blocks, c # b PROVE at'[c] = at[c]
      BY <1>1, <2>1, <3>1
    <3>2. at'[b] = <<j>> /\ Len(<<j>>) = 1 /\ <<j>>[1] = j
      BY <1>1, <2>1
    <3>3. \A i \in 1..Len(at'[b]) : EnvHeaded(prog, at'[b][i])
      <4>1. TAKE i \in 1..Len(at'[b])
      <4>2. i = 1
        BY <3>2
      <4>3. QED BY <2>2, <3>2, <4>2
    <3>4. QED BY <3>1, <3>3 DEF MarkersHeaded
  <2>4. QED BY <1>1, <1>2, <2>1, <2>2, <2>3 DEF MarkersHeaded
<1>4. ASSUME Execute PROVE MarkersHeaded'
  <2>1. /\ phase = "visit" /\ out_env' = out_env /\ at' = [at EXCEPT ![cur] = Append(@, env')]
        /\ pos \in 1..Len(prog.stmts[cur])
        /\ env' = Transfer(prog.stmts[cur][pos], env, prog.summaries)
    BY <1>4 DEF Execute, Stmts
  <2>2. cur \in Blocks /\ env \in Env /\ prog.stmts[cur] \in Seq(Stmt) /\ IsSummaries(prog.summaries)
    BY DEF IInv, TypeOK, IsProgram, Blocks, BlocksOf
  <2>3. prog.stmts[cur][pos] \in Stmt
    BY <2>1, <2>2
  <2>4. EnvHeaded(prog, env')
    BY <2>1, <2>2, <2>3, TransferHeaded DEF MarkersHeaded
  <2>5. ASSUME NEW c \in Blocks, NEW i \in 1..Len(at'[c]) PROVE EnvHeaded(prog, at'[c][i])
    <3>1. CASE c # cur
      BY <1>1, <2>1, <2>5, <3>1 DEF MarkersHeaded
    <3>2. CASE c = cur
      <4> DEFINE old == at[cur]
      <4>1. at'[c] = Append(old, env') /\ old \in Seq(Env)
        BY <1>1, <2>1, <2>2, <3>2
      <4>2. \A k \in 1..Len(old) : EnvHeaded(prog, old[k])
        BY <2>2 DEF MarkersHeaded
      <4> HIDE DEF old
      <4>3. /\ Len(at'[c]) = Len(old) + 1 /\ Len(old) \in Nat
            /\ at'[c][Len(old) + 1] = env' /\ \A k \in 1..Len(old) : at'[c][k] = old[k]
        BY <4>1
      <4>4. i \in 1..Len(old) \/ i = Len(old) + 1
        BY <4>3
      <4>5. QED BY <2>4, <4>2, <4>3, <4>4
    <3>3. QED BY <3>1, <3>2
  <2>6. QED BY <1>1, <1>2, <2>1, <2>4, <2>5 DEF MarkersHeaded
<1>5. ASSUME Leave PROVE MarkersHeaded'
  <2>1. /\ phase = "visit" /\ phase' = "solve" /\ out_env' = [out_env EXCEPT ![cur] = env] /\ at' = at
    BY <1>5 DEF Leave
  <2>2. \A c \in Blocks : out_env'[c] \in {out_env[c], env}
    BY <2>1 DEF IInv, TypeOK
  <2>3. QED BY <1>1, <1>2, <2>1, <2>2 DEF MarkersHeaded
<1>6. ASSUME Stop \/ Emit \/ NextBlock \/ Return \/ UNCHANGED vars PROVE MarkersHeaded'
  <2>1. /\ out_env' = out_env /\ at' = at /\ (phase' = "visit" => UNCHANGED vars)
    BY <1>6 DEF Stop, Emit, NextBlock, Return, vars
  <2>2. phase' = "visit" => phase = "visit" /\ env' = env
    BY <2>1 DEF vars
  <2>3. QED BY <1>1, <1>2, <2>1, <2>2 DEF MarkersHeaded
<1>7. QED BY <1>3, <1>4, <1>5, <1>6 DEF Next

\* What a fact continues as starts where the fact started.
LEMMA ValueHeaded ==
  ASSUME IsProgram(prog), NEW stmt \in Stmt, NEW f, IsFact(f), Headed(prog, f),
         NEW v \in ValueOf(stmt, f)
  PROVE  v.spec = f.spec /\ Headed(prog, v)
<1>1. v.spec = f.spec /\ v.chain[1] = f.chain[1]
  <2>1. CASE stmt.value.op = "drop"
    BY <2>1 DEF ValueOf
  <2>2. CASE stmt.value.op = "union"
    BY <2>2 DEF ValueOf
  <2>3. CASE stmt.value.op = "call"
    <3> DEFINE call == stmt.value.call
    <3>1. call \in Call
      BY <2>3 DEF Stmt, Expr
    <3>2. PICK c \in Continued(call, f) : v = [spec |-> f.spec, chain |-> c]
      BY <2>3 DEF ValueOf
    <3> HIDE DEF call
    <3>3. \/ c = f.chain
          \/ \E flow \in FlowsOf(call, prog.summaries) : c = Spliced(f, call, flow)
      BY DEF Continued
    <3>4. ASSUME NEW flow \in FlowsOf(call, prog.summaries), c = Spliced(f, call, flow)
          PROVE  c[1] = f.chain[1]
      <4>1. flow.fragment \in Chain
        BY <3>1, FlowsType DEF Flow, IsProgram
      <4>2. QED BY <3>1, <3>4, <4>1, CallStepType, SpliceHead DEF Spliced, IsFact
    <3>5. QED BY <3>2, <3>3, <3>4
  <2>4. QED BY <2>1, <2>2, <2>3 DEF Stmt, Expr
<1>2. QED BY <1>1 DEF Headed

\* What arises in the function is a detector's, and no marker.
LEMMA AfterHeaded ==
  ASSUME IsProgram(prog), NEW e \in Env, NEW stmt \in Stmt,
         NEW f, Headed(prog, f), Carries(f) => Stands(e, f), NEW g \in After(stmt, f)
  PROVE  Headed(prog, g)
<1>1. \A x : x \in DetectorId \cup {NoSpec} => x \notin Marker
  BY MarkerAssumption DEF DetectorId
<1>2. ASSUME NEW v \in Introduced(stmt) PROVE v.spec \in DetectorId \cup {NoSpec}
  <2> DEFINE call == stmt.value.call
  <2>1. call \in Call
    BY <1>2 DEF Introduced, Stmt, Expr
  <2>2. v.spec \in call.sources \/ \E h \in FlowsOf(call, prog.summaries) : v.spec = h.spec
    BY <1>2 DEF Introduced
  <2> HIDE DEF call
  <2>3. QED BY <2>1, <2>2, FlowsType DEF Call, Flow, IsProgram
<1>3. ASSUME NEW h \in Present(stmt, f), NEW v \in ValueOf(stmt, h) PROVE Headed(prog, v)
  <2>1. IsFact(h) /\ Headed(prog, h)
    BY <1>1, FreshStands DEF Present, Stands, Headed
  <2>2. QED BY <2>1, ValueHeaded
<1>4. ASSUME NEW v \in Values(stmt, f) PROVE Headed(prog, v)
  BY <1>1, <1>2, <1>3 DEF Values, Headed
<1>5. CASE \E p \in Bound(stmt), v \in Values(stmt, f) :
             g = [path |-> p, spec |-> v.spec, chain |-> v.chain]
  BY <1>4, <1>5 DEF Headed
<1>6. Headed(prog, Clean)
  BY <1>1 DEF Clean, Headed
<1>7. QED BY <1>5, <1>6 DEF After

\* ... and of the walk's.
WalkHeaded == walk.on => Headed(prog, walk.fact)

\* The walk starts in the entry environment.
LEMMA WalkHeadedStep ==
  ASSUME IInv, Answered, Walking, WalkHeaded, [WalkNext]_walkVars
  PROVE  WalkHeaded'
<1>1. prog' = prog /\ IsProgram(prog)
  BY DEF WalkNext, walkVars, Analyse, Enter, Run, Branch, Next, Pop, Execute, Leave, Stop, Emit,
         NextBlock, Return, vars, IInv, TypeOK
<1>2. \A f : Headed(prog', f) <=> Headed(prog, f)
  BY <1>1
<1>3. CASE Analyse \/ UNCHANGED walkVars
  <2>1. walk' = walk
    BY <1>3 DEF Analyse, walkVars
  <2>2. QED BY <1>2, <2>1 DEF WalkHeaded
<1>4. CASE Enter
  <2>1. PICK f \in EntryFacts \cup {Clean} : walk' = WalkAt(prog.entry, 1, f)
    BY <1>4 DEF Enter
  <2>2. Headed(prog, f)
    <3>1. CASE f = Clean
      BY <3>1, MarkerAssumption DEF Clean, Headed
    <3>2. CASE f \in EntryFacts
      <4>1. PICK p \in AccessPath : \E l \in prog.entryEnv[p] :
              f = [path |-> p, spec |-> l.spec, chain |-> l.chain]
        BY <3>2 DEF EntryFacts
      <4>2. QED BY <4>1 DEF Headed
    <3>3. QED BY <3>1, <3>2
  <2>3. QED BY <1>2, <2>1, <2>2 DEF WalkHeaded, WalkAt
<1>5. CASE Run
  <2> DEFINE b == walk.blk
             stmt == prog.stmts[b][walk.pos]
  <2>1. /\ walk.on /\ walk.pos \in DOMAIN prog.stmts[b]
        /\ phase = "done" /\ b \in Blocks
        /\ (Carries(walk.fact) => Stands(at[b][walk.pos], walk.fact))
    BY <1>5 DEF Run, Walking, Held
  <2>2. PICK g \in After(stmt, walk.fact) : walk' = WalkAt(b, walk.pos + 1, g)
    BY <1>5 DEF Run
  <2>3. /\ prog.stmts[b] \in Seq(Stmt) /\ Len(prog.stmts[b]) \in Nat
        /\ \A i \in 1..(Len(prog.stmts[b]) + 1) : at[b][i] \in Env
    BY <2>1, FixpointHere
  <2>4. walk.pos \in 1..Len(prog.stmts[b]) /\ stmt \in Stmt
    BY <2>1, <2>3
  <2>5. at[b][walk.pos] \in Env
    BY <2>3, <2>4
  <2>6. Headed(prog, walk.fact)
    BY <2>1 DEF WalkHeaded
  <2>7. Headed(prog, g)
    BY <1>1, <2>1, <2>2, <2>4, <2>5, <2>6, AfterHeaded
  <2>8. QED BY <1>2, <2>2, <2>7 DEF WalkHeaded, WalkAt
<1>6. CASE Branch
  BY <1>2, <1>6 DEF Branch, WalkHeaded, WalkAt
<1>7. QED BY <1>3, <1>4, <1>5, <1>6 DEF WalkNext

\* Two chains of one marker start with the same step.
LEMMA SameHead ==
  ASSUME IsProgram(prog), NEW l, NEW m, l.spec \in Marker, m.spec = l.spec,
         Headed(prog, l), Headed(prog, m)
  PROVE  m.chain[1] = l.chain[1]
<1>1. PICK p \in AccessPath : \E k \in prog.entryEnv[p] : k.spec = l.spec /\ k.chain[1] = l.chain[1]
  BY DEF Headed
<1>2. PICK q \in AccessPath : \E k \in prog.entryEnv[q] : k.spec = m.spec /\ k.chain[1] = m.chain[1]
  BY DEF Headed
<1>3. QED BY <1>1, <1>2 DEF IsProgram, Seeded

\* A returned value that carries a marker is a flow of the summary.
LEMMA ReturnFound ==
  ASSUME IsProgram(prog), NEW e \in Env, EnvHeaded(prog, e), NEW stmt \in Stmt, stmt.returns,
         stmt.value.op = "call" => SanitizesAllOrNone(prog, stmt.value.call),
         NEW f, Stands(e, f), Headed(prog, f), f.spec \in Marker, NEW v \in ValueOf(stmt, f)
  PROVE  \E r \in StmtFlows(stmt, e, prog.summaries) :
           /\ r.src = "param" /\ r.index = ParamOf[f.spec] /\ r.dst = "return"
           /\ NotWorse(r.fragment, Tail(v.chain))
<1> DEFINE x == ExprTaint(stmt.value, e, prog.summaries)
<1>1. v.spec = f.spec /\ IsFact(v) /\ Has(x, v)
  BY ValueHas
<1>2. PICK m \in x : m.spec = v.spec /\ NotWorse(m.chain, v.chain)
  BY <1>1 DEF Has
<1>3. x \in SUBSET Label /\ AllHeaded(prog, x)
  BY ExprTaintType, ExprHeaded DEF Stmt, IsProgram
<1>4. Headed(prog, v)
  BY ValueHeaded DEF Stands
<1>5. m.chain[1] = v.chain[1]
  BY <1>1, <1>2, <1>3, <1>4, SameHead DEF AllHeaded
<1>6. m.chain \in Chain \ {<<>>} /\ v.chain \in Chain \ {<<>>}
  BY <1>1, <1>3 DEF Label, IsFact
<1>7. NotWorse(Tail(m.chain), Tail(v.chain))
  BY <1>2, <1>5, <1>6, TailNotWorse
<1>8. ReturnFlow(m) \in StmtFlows(stmt, e, prog.summaries)
  BY DEF StmtFlows
<1>9. /\ ReturnFlow(m).src = "param" /\ ReturnFlow(m).index = ParamOf[f.spec]
      /\ ReturnFlow(m).dst = "return" /\ ReturnFlow(m).fragment = Tail(m.chain)
  BY <1>1, <1>2 DEF ReturnFlow
<1>10. QED BY <1>7, <1>8, <1>9

\* So is a checked argument of a sink call that carries one.
LEMMA SinkFound ==
  ASSUME IsProgram(prog), NEW e \in Env, EnvHeaded(prog, e), NEW stmt \in Stmt,
         stmt.value.op = "call", NEW f, Stands(e, f), Headed(prog, f), f.spec \in Marker,
         NEW s \in stmt.value.call.sinks, NEW i \in s.args, CallReads(stmt.value.call, i, f)
  PROVE  \E r \in StmtFlows(stmt, e, prog.summaries) :
           /\ r.src = "param" /\ r.index = ParamOf[f.spec]
           /\ r.dst = "sink" /\ r.spec = s.spec /\ r.loc = stmt.value.call.loc
           /\ NotWorse(r.fragment, Append(Tail(f.chain), SinkStep(stmt.value.call)))
<1> DEFINE call == stmt.value.call
<1>1. call \in Call /\ SinkFlows(call, e) \subseteq StmtFlows(stmt, e, prog.summaries)
  BY DEF Stmt, Expr, StmtFlows
<1> HIDE DEF call
<1>2. s \in call.sinks /\ CallReads(call, i, f)
  BY DEF call
<1>3. i \in s.args \cap DOMAIN call.args
  BY <1>1, <1>2 DEF Call, CallReads
<1>4. PICK m \in PositionTaint(call, i, e) : m.spec = f.spec /\ NotWorse(m.chain, f.chain)
  BY <1>1, <1>2, PositionHas DEF Has
<1>5. m \in Label /\ Headed(prog, m)
  BY <1>1, <1>4, PositionType, PositionHeaded DEF AllHeaded
<1>6. m.chain[1] = f.chain[1]
  BY <1>4, <1>5, SameHead
<1>7. m.chain \in Chain \ {<<>>} /\ f.chain \in Chain \ {<<>>}
  BY <1>5 DEF Label, Stands, IsFact
<1>8. SinkStep(call) \in WitnessStep
  BY <1>1, CallStepType
<1>9. Tail(m.chain) \in Chain /\ Tail(f.chain) \in Chain
  BY <1>7, <1>8, ChainType
<1>10. NotWorse(Tail(m.chain), Tail(f.chain))
  BY <1>4, <1>6, <1>7, TailNotWorse
<1>11. NotWorse(Append(Tail(m.chain), SinkStep(call)), Append(Tail(f.chain), SinkStep(call)))
  <2>1. <<>> \in Chain
    BY DEF Chain
  <2>2. QED BY <1>8, <1>9, <1>10, <2>1, SpliceMonotone
<1> DEFINE Of(l, t) == [src |-> "param", index |-> ParamOf[l.spec], dst |-> "sink", spec |-> t.spec,
                        fragment |-> Append(Tail(l.chain), SinkStep(call)), loc |-> call.loc]
           All(t) == {Of(l, t) : l \in {k \in CheckedTaint(call, t, e) : k.spec \in Marker}}
<1>12. Of(m, s) \in SinkFlows(call, e)
  <2>1. SinkFlows(call, e) = UNION {All(t) : t \in call.sinks}
    BY DEF SinkFlows
  <2>2. m \in CheckedTaint(call, s, e)
    BY <1>3, <1>4 DEF CheckedTaint
  <2>3. Of(m, s) \in All(s)
    BY <1>4, <2>2
  <2> HIDE DEF Of, All
  <2>4. QED BY <1>2, <2>1, <2>3
<1>13. /\ Of(m, s).src = "param" /\ Of(m, s).index = ParamOf[f.spec]
       /\ Of(m, s).dst = "sink" /\ Of(m, s).spec = s.spec /\ Of(m, s).loc = call.loc
       /\ Of(m, s).fragment = Append(Tail(m.chain), SinkStep(call))
  BY <1>4
<1>14. QED BY <1>1, <1>11, <1>12, <1>13 DEF call

\* The invariant says what the promise needs for a parameter as well.
LEMMA WalkingSummarized ==
  ASSUME IInv, Answered, Walking, MarkersHeaded, WalkHeaded, Precise(prog)
  PROVE  SummaryComplete
<1> DEFINE stmt == StmtHere
           e == at[walk.blk][walk.pos]
<1> SUFFICES ASSUME AtStmt, prog.kind = "summary",
                    NEW f \in Present(stmt, walk.fact), f.spec \in Marker
             PROVE
      /\ stmt.returns =>
           \A v \in ValueOf(stmt, f) :
             \E r \in result : /\ r.src = "param" /\ r.index = ParamOf[f.spec]
                               /\ r.dst = "return"
                               /\ ~ BetterChain(Tail(v.chain), r.fragment)
      /\ stmt.value.op = "call" =>
           \A s \in stmt.value.call.sinks : \A i \in s.args : CallReads(stmt.value.call, i, f) =>
             \E r \in result :
               /\ r.src = "param" /\ r.index = ParamOf[f.spec]
               /\ r.dst = "sink" /\ r.spec = s.spec /\ r.loc = stmt.value.call.loc
               /\ ~ BetterChain(Append(Tail(f.chain), SinkStep(stmt.value.call)), r.fragment)
  BY DEF SummaryComplete
<1>1. /\ phase = "done" /\ walk.blk \in Blocks /\ walk.pos \in DOMAIN prog.stmts[walk.blk]
      /\ (Carries(walk.fact) => Stands(e, walk.fact)) /\ Headed(prog, walk.fact)
  BY DEF AtStmt, Walking, Held, WalkHeaded
<1>2. /\ IsProgram(prog) /\ prog.stmts[walk.blk] \in Seq(Stmt)
      /\ Len(prog.stmts[walk.blk]) \in Nat
      /\ \A i \in 1..(Len(prog.stmts[walk.blk]) + 1) : at[walk.blk][i] \in Env
  BY <1>1, FixpointHere
<1>3. walk.pos \in 1..Len(prog.stmts[walk.blk]) /\ stmt \in Stmt
  BY <1>1, <1>2 DEF StmtHere
<1>4. e \in Env
  BY <1>2, <1>3
<1>5. EnvHeaded(prog, e)
  <2>1. Len(at[walk.blk]) = Len(prog.stmts[walk.blk]) + 1
    BY <1>1 DEF Answered, Solved
  <2>2. walk.pos \in 1..Len(at[walk.blk])
    BY <1>2, <1>3, <2>1
  <2>3. QED BY <1>1, <2>2 DEF MarkersHeaded
<1>6. f = walk.fact /\ Stands(e, f) /\ Headed(prog, f)
  BY <1>1, <1>4, <1>3, FreshStands DEF Present, DetectorId
<1>7. stmt.value.op = "call" => SanitizesAllOrNone(prog, stmt.value.call)
  BY <1>1 DEF Precise, Blocks, StmtHere
<1>8. StmtFlows(stmt, e, prog.summaries) \subseteq result
  BY <1>1, <1>3 DEF Answered, Collected, AnswerOf, StmtHere
<1> HIDE DEF stmt, e
<1>9. ASSUME stmt.returns, NEW v \in ValueOf(stmt, f)
      PROVE  \E r \in result : /\ r.src = "param" /\ r.index = ParamOf[f.spec]
                               /\ r.dst = "return"
                               /\ ~ BetterChain(Tail(v.chain), r.fragment)
  BY <1>2, <1>3, <1>4, <1>5, <1>6, <1>7, <1>8, <1>9, ReturnFound DEF NotWorse
<1>10. ASSUME stmt.value.op = "call", NEW s \in stmt.value.call.sinks, NEW i \in s.args,
              CallReads(stmt.value.call, i, f)
       PROVE  \E r \in result :
                /\ r.src = "param" /\ r.index = ParamOf[f.spec]
                /\ r.dst = "sink" /\ r.spec = s.spec /\ r.loc = stmt.value.call.loc
                /\ ~ BetterChain(Append(Tail(f.chain), SinkStep(stmt.value.call)), r.fragment)
  BY <1>2, <1>3, <1>4, <1>5, <1>6, <1>8, <1>10, SinkFound DEF NotWorse
<1>11. QED BY <1>9, <1>10

\* Summaries are complete: whatever the function, every way along which some
\* execution carries a parameter to a returned value or to a sink call is a
\* flow of what _summarize_function returns, with a fragment that is no
\* worse - under the hypotheses of NothingMissed.
THEOREM NoFlowForgotten ==
  ASSUME \A p \in Programs : Precise(p)
  PROVE  WalkSpec /\ []CapIsSafetyNet => []SummaryComplete
<1> DEFINE Inv == /\ IInv /\ Replays /\ Answered /\ Walking /\ prog \in Programs
                  /\ MarkersHeaded /\ WalkHeaded
<1>1. WalkInit => Inv
  <2> SUFFICES ASSUME WalkInit PROVE Inv
    OBVIOUS
  <2>1. Init /\ walk.on = FALSE
    BY DEF WalkInit, NoWalk
  <2>2. QED BY <2>1, InitSettled, InitHeaded DEF Init, Replays, Answered, Walking, WalkHeaded
<1>2. Inv /\ CapIsSafetyNet /\ CapIsSafetyNet' /\ [WalkNext]_walkVars => Inv'
  <2> SUFFICES ASSUME Inv, CapIsSafetyNet, CapIsSafetyNet', [WalkNext]_walkVars PROVE Inv'
    OBVIOUS
  <2>1. [Next]_vars
    BY DEF WalkNext, walkVars, Analyse, Enter, Run, Branch
  <2>2. prog' = prog
    BY <2>1 DEF Next, Pop, Execute, Leave, Stop, Emit, NextBlock, Return, vars
  <2>3. IInv' /\ Replays' /\ Answered' /\ MarkersHeaded'
    BY <2>1, IInvStep, ReplaysStep, AnsweredStep, MarkersHeadedStep
  <2>4. Walking' /\ WalkHeaded'
    BY WalkingStep, WalkHeadedStep
  <2>5. QED BY <2>2, <2>3, <2>4
<1>3. Inv => SummaryComplete
  BY WalkingSummarized
<1>4. QED BY <1>1, <1>2, <1>3, PTL DEF WalkSpec

-----------------------------------------------------------------------------
(***************************************************************************)
(* The converse: what is reported, some walk has carried there.  It is     *)
(* shown for any set of places that holds where walks start and where      *)
(* their steps lead.  A label is traced when the set has its fact, with    *)
(* the step in which it arose, at its path or at one above it.  The        *)
(* markers matter in a summary only.                                       *)
(***************************************************************************)
FactOf(q, l) == [path |-> q, spec |-> l.spec, chain |-> <<l.chain[1]>>]

Counts(l) == l.spec \in Marker => prog.kind = "summary"

Traced(places, b, i, e) ==
  \A p \in AccessPath : \A l \in e[p] : Counts(l) =>
    \E q \in AccessPath : IsPrefixOf(q, p) /\ WalkAt(b, i, FactOf(q, l)) \in places

\* Fact g arises at the statement, or some walk brings it there.
Brought(places, b, i, g) ==
  \E f : WalkAt(b, i, f) \in places /\ g \in Present(prog.stmts[b][i], f)

Arose(g, l) == g.spec = l.spec /\ g.chain = <<l.chain[1]>>

\* A statement of the function, the environment in which the engine executes
\* it, and a set of places that traces that environment.
Placed(places, b, i, stmt, e) ==
  /\ IsProgram(prog) /\ Traceable(prog) /\ IsClosed(places)
  /\ b \in Blocks /\ i \in 1..Len(prog.stmts[b]) /\ stmt = prog.stmts[b][i] /\ stmt \in Stmt
  /\ e \in Env /\ Traced(places, b, i, e) /\ WalkAt(b, i, Clean) \in places

\* Being a prefix is transitive.
LEMMA PrefixTrans ==
  ASSUME NEW p, NEW q, NEW r, Len(p.steps) \in Nat, Len(q.steps) \in Nat, Len(r.steps) \in Nat,
         IsPrefixOf(p, q), IsPrefixOf(q, r)
  PROVE  IsPrefixOf(p, r)
<1>1. \A i \in 1..Len(p.steps) : i \in 1..Len(q.steps)
  BY DEF IsPrefixOf
<1>2. QED BY <1>1 DEF IsPrefixOf

\* The length of a tracked path is a number.
LEMMA PathLength ==
  ASSUME NEW p \in AccessPath
  PROVE  Len(p.steps) \in Nat /\ IsPrefixOf(p, p)
<1>1. Len(p.steps) \in Nat
  BY StepsCapAssumption DEF AccessPath, Steps
<1>2. QED BY <1>1 DEF IsPrefixOf

\* What the engine tracks of a path is a prefix of it.
LEMMA CollapsePrefix ==
  ASSUME NEW t \in TextPath
  PROVE  IsPrefixOf(Collapse(t), t) /\ Len(Collapse(t).steps) \in Nat /\ Len(t.steps) \in Nat
<1>1. t.steps \in Seq(Step) /\ STEPS_CAP \in Nat /\ Len(t.steps) \in Nat
  BY StepsCapAssumption DEF TextPath
<1>2. CASE Len(t.steps) <= STEPS_CAP
  BY <1>1, <1>2 DEF Collapse, IsPrefixOf, TextPath
<1>3. CASE ~ (Len(t.steps) <= STEPS_CAP)
  <2> DEFINE s == SubSeq(t.steps, 1, STEPS_CAP)
  <2>1. Collapse(t).base = t.base /\ Collapse(t).steps = s
    BY <1>3 DEF Collapse, TextPath
  <2>2. Len(s) = STEPS_CAP /\ \A i \in 1..STEPS_CAP : s[i] = t.steps[i]
    BY <1>1, <1>3
  <2> HIDE DEF s
  <2>3. QED BY <1>1, <1>3, <2>1, <2>2 DEF IsPrefixOf
<1>4. QED BY <1>2, <1>3

\* A label that stands for a fact is one, and so is the chain it starts with.
LEMMA FactOfLabel ==
  ASSUME NEW l \in Label, NEW q
  PROVE  /\ Carries(FactOf(q, l)) /\ Arose(FactOf(q, l), l) /\ FactOf(q, l).path = q
         /\ Origin(FactOf(q, l)) = FactOf(q, l)
         /\ <<l.chain[1]>> \in Chain \ {<<>>}
<1>1. l.spec # NoSpec
  BY MarkerAssumption DEF Label
<1> DEFINE c == <<l.chain[1]>>
<1>2. c # <<>> /\ c[1] = l.chain[1]
  OBVIOUS
<1>3. c \in Chain \ {<<>>}
  <2>1. l.chain[1] \in WitnessStep
    <3> DEFINE W == WitnessStep
    <3>1. l.chain \in Seq(W) /\ l.chain # <<>>
      BY DEF Label, Chain
    <3> HIDE DEF W
    <3>2. l.chain[1] \in W
      BY <3>1
    <3>3. QED BY <3>2 DEF W
  <2>2. QED BY <1>2, <2>1 DEF Chain
<1>4. FactOf(q, l) = [path |-> q, spec |-> l.spec, chain |-> c]
  BY DEF FactOf
<1> HIDE DEF c
<1>5. Origin(FactOf(q, l)) = FactOf(q, l)
  <2>1. FactOf(q, l).chain = c /\ <<c[1]>> = c
    BY <1>2, <1>4 DEF c
  <2>2. Origin(FactOf(q, l)) = [FactOf(q, l) EXCEPT !.chain = <<c[1]>>]
    BY <1>2, <2>1 DEF Origin
  <2>3. QED BY <1>4, <2>1, <2>2
<1>6. QED BY <1>1, <1>3, <1>4, <1>5 DEF Carries, Arose, c

\* What an operand of the statement evaluates to, it reads from a fact.
LEMMA OperandTraced ==
  ASSUME NEW places, NEW b, NEW i, NEW stmt, NEW e, Placed(places, b, i, stmt, e),
         NEW o \in OperandsOf(stmt.value), NEW l \in OperandTaint(o, e), Counts(l)
  PROVE  \E g : Brought(places, b, i, g) /\ Reads(o, g) /\ Arose(g, l)
<1>1. o \in Operand /\ l \in Label
  BY OperandsOfType, OperandType DEF Placed, Stmt
<1>2. CASE o.kind = "const"
  BY <1>2 DEF OperandTaint
<1>3. CASE o.kind = "path"
  <2>1. o.path \in TextPath /\ l \in Get(e, Collapse(o.path))
    BY <1>1, <1>3 DEF Operand, OperandTaint
  <2>2. PICK p \in AccessPath : IsPrefixOf(p, Collapse(o.path)) /\ l \in e[p]
    BY <2>1 DEF Get, Merge
  <2>3. PICK q \in AccessPath : IsPrefixOf(q, p) /\ WalkAt(b, i, FactOf(q, l)) \in places
    BY <2>2 DEF Placed, Traced
  <2> DEFINE g == FactOf(q, l)
  <2>4. Carries(g) /\ Arose(g, l) /\ g.path = q
    BY <1>1, FactOfLabel
  <2>5. IsPrefixOf(q, Collapse(o.path))
    BY <2>1, <2>2, <2>3, PathLength, CollapsePrefix, PrefixTrans
  <2>6. IsPrefixOf(q, o.path)
    BY <2>1, <2>5, PathLength, CollapsePrefix, PrefixTrans
  <2> HIDE DEF g
  <2>7. Brought(places, b, i, g)
    BY <2>3, <2>4 DEF Brought, Present, g
  <2>8. QED BY <1>3, <2>4, <2>6, <2>7 DEF Reads
<1>4. CASE o.kind = "source"
  <2>1. PICK d \in o.sources : l = [spec |-> d, chain |-> <<<<SourceRole, o.loc>>>>]
    BY <1>4 DEF OperandTaint, SourceLabels
  <2> DEFINE g == [path |-> Nowhere, spec |-> d, chain |-> <<<<SourceRole, o.loc>>>>]
  <2>2. g \in Fresh(stmt)
    BY <1>4 DEF Fresh
  <2>3. g.spec = d /\ g.chain = <<<<SourceRole, o.loc>>>>
    OBVIOUS
  <2> HIDE DEF g
  <2>4. Brought(places, b, i, g)
    BY <2>2 DEF Brought, Present, Placed
  <2>5. QED BY <1>4, <2>1, <2>3, <2>4 DEF Reads, Arose
<1>5. QED BY <1>1, <1>2, <1>3, <1>4 DEF Operand

\* The operands of a call are operands of its statement.
LEMMA CallOperands ==
  ASSUME NEW stmt \in Stmt, stmt.value.op = "call"
  PROVE  /\ stmt.value.call \in Call
         /\ stmt.value.call.receiver \in OperandsOf(stmt.value)
         /\ \A n \in DOMAIN stmt.value.call.args : stmt.value.call.args[n] \in OperandsOf(stmt.value)
         /\ \A n \in DOMAIN stmt.value.call.kwargs : stmt.value.call.kwargs[n] \in OperandsOf(stmt.value)
BY DEF Stmt, Expr, OperandsOf, Range

\* A position of a call, ...
LEMMA PositionTraced ==
  ASSUME NEW places, NEW b, NEW i, NEW stmt, NEW e, Placed(places, b, i, stmt, e),
         stmt.value.op = "call", NEW n, NEW l \in PositionTaint(stmt.value.call, n, e), Counts(l)
  PROVE  \E g : Brought(places, b, i, g) /\ CallReads(stmt.value.call, n, g) /\ Arose(g, l)
<1> DEFINE call == stmt.value.call
<1>1. stmt \in Stmt
  BY DEF Placed
<1>2. CASE n = 0
  <2>1. l \in OperandTaint(call.receiver, e)
    BY <1>2 DEF PositionTaint
  <2>2. \E g : Brought(places, b, i, g) /\ Reads(call.receiver, g) /\ Arose(g, l)
    BY <1>1, <2>1, CallOperands, OperandTraced
  <2>3. QED BY <1>2, <2>2 DEF CallReads
<1>3. CASE n # 0
  <2>1. n \in DOMAIN call.args /\ l \in OperandTaint(call.args[n], e)
    BY <1>3 DEF PositionTaint
  <2>2. \E g : Brought(places, b, i, g) /\ Reads(call.args[n], g) /\ Arose(g, l)
    BY <1>1, <2>1, CallOperands, OperandTraced
  <2>3. QED BY <1>3, <2>1, <2>2 DEF CallReads
<1>4. QED BY <1>2, <1>3

\* ... and all that it takes in, likewise.
LEMMA IncomingTraced ==
  ASSUME NEW places, NEW b, NEW i, NEW stmt, NEW e, Placed(places, b, i, stmt, e),
         stmt.value.op = "call", NEW l \in IncomingTaint(stmt.value.call, e), Counts(l)
  PROVE  \E g : Brought(places, b, i, g) /\ CallReadsAny(stmt.value.call, g) /\ Arose(g, l)
<1> DEFINE call == stmt.value.call
<1>1. stmt \in Stmt
  BY DEF Placed
<1>2. CASE l \in OperandTaint(call.receiver, e)
  <2>1. \E g : Brought(places, b, i, g) /\ Reads(call.receiver, g) /\ Arose(g, l)
    BY <1>1, <1>2, CallOperands, OperandTraced
  <2>2. QED BY <2>1 DEF CallReadsAny
<1>3. CASE \E n \in DOMAIN call.args : l \in OperandTaint(call.args[n], e)
  <2>1. PICK n \in DOMAIN call.args : l \in OperandTaint(call.args[n], e)
    BY <1>3
  <2>2. \E g : Brought(places, b, i, g) /\ Reads(call.args[n], g) /\ Arose(g, l)
    BY <1>1, <2>1, CallOperands, OperandTraced
  <2>3. QED BY <2>2 DEF CallReadsAny
<1>4. CASE \E n \in DOMAIN call.kwargs : l \in OperandTaint(call.kwargs[n], e)
  <2>1. PICK n \in DOMAIN call.kwargs : l \in OperandTaint(call.kwargs[n], e)
    BY <1>4
  <2>2. \E g : Brought(places, b, i, g) /\ Reads(call.kwargs[n], g) /\ Arose(g, l)
    BY <1>1, <2>1, CallOperands, OperandTraced
  <2>3. QED BY <2>2 DEF CallReadsAny
<1>5. QED BY <1>2, <1>3, <1>4 DEF IncomingTaint, OperandsTaint

\* What comes out of a call, a walk continues through it or the call itself
\* introduces it.
LEMMA CallTraced ==
  ASSUME NEW places, NEW b, NEW i, NEW stmt, NEW e, Placed(places, b, i, stmt, e),
         stmt.value.op = "call", NEW l \in CallTaint(stmt.value.call, e, prog.summaries), Counts(l)
  PROVE  \/ \E v \in Introduced(stmt) :
              v.spec = l.spec /\ v.chain \in Chain \ {<<>>} /\ v.chain[1] = l.chain[1]
         \/ \E g : /\ Brought(places, b, i, g) /\ g.spec = l.spec
                   /\ \E c \in Continued(stmt.value.call, g) :
                        c \in Chain \ {<<>>} /\ c[1] = l.chain[1]
<1> DEFINE call == stmt.value.call
           st == CallStep(call)
           One(h) ==
             IF h.src = "source"
             THEN {[spec |-> d, chain |-> Append(h.fragment, st)] : d \in {h.spec} \ {NoSpec}}
             ELSE {[spec |-> m.spec, chain |-> Append(m.chain, st) \o h.fragment]
                     : m \in PositionTaint(call, h.index, e)}
<1>1. call \in Call /\ IsSummaries(prog.summaries) /\ e \in Env /\ IsProgram(prog)
  BY CallOperands DEF Placed, IsProgram
<1>2. l \in Label /\ l.spec \notin call.sanitizes
  BY <1>1, CallTaintType DEF CallTaint
<1>3. SummaryTaint(call, e, prog.summaries)
        = UNION {One(h) : h \in {k \in FlowsOf(call, prog.summaries) : k.dst = "return"}}
  BY DEF SummaryTaint
<1>4. \/ l \in MovedTaint(call, e) \/ l \in SummaryTaint(call, e, prog.summaries)
      \/ l \in PassThrough(call, e, prog.summaries)
  BY DEF CallTaint
<1>5. st \in WitnessStep
  BY <1>1, CallStepType
<1>6. ASSUME NEW g, g.spec = l.spec PROVE ~ Cleaned(call, g)
  <2>1. CASE l.spec \notin Marker
    BY <1>2, <1>6, <2>1 DEF Cleaned
  <2>2. CASE l.spec \in Marker
    <3> SUFFICES ASSUME CleansAll(call) PROVE FALSE
      BY <1>6, <2>2 DEF Cleaned
    <3>1. CleansForAll(prog, call)
      <4>1. prog.kind = "summary" /\ b \in BlocksOf(prog) /\ i \in DOMAIN prog.stmts[b]
        BY <2>2 DEF Counts, Placed, Blocks, IsProgram, BlocksOf
      <4>2. QED BY <4>1 DEF Placed, Traceable
    <3>2. ~ call.strMethod /\ call.moves = {} /\ call.callee \notin DOMAIN prog.summaries
          /\ call.sanitizes # {}
      BY <3>1 DEF CleansForAll, CleansAll
    <3> HIDE DEF call
    <3>3. MovedTaint(call, e) = {} /\ FlowsOf(call, prog.summaries) = {}
          /\ PassThrough(call, e, prog.summaries) = {}
      BY <3>2 DEF MovedTaint, FlowsOf, PassThrough, IsKnownCallee
    <3> HIDE DEF One
    <3>4. SummaryTaint(call, e, prog.summaries) = {}
      BY <1>3, <3>3
    <3>5. QED BY <1>4, <3>3, <3>4
  <2>3. QED BY <2>1, <2>2
<1>7. ASSUME NEW g, Arose(g, l), g.chain \in Continued(call, g)
      PROVE  g.chain \in Chain \ {<<>>} /\ g.chain[1] = l.chain[1]
  BY <1>2, <1>7, FactOfLabel DEF Arose
<1>8. CASE l \in MovedTaint(call, e)
  <2>1. PICK n \in call.moves : l \in PositionTaint(call, n, e)
    BY <1>8 DEF MovedTaint
  <2>2. PICK g : Brought(places, b, i, g) /\ CallReads(call, n, g) /\ Arose(g, l)
    BY <2>1, PositionTraced
  <2>3. g.chain \in Continued(call, g)
    BY <1>6, <2>1, <2>2 DEF Continued, Arose
  <2>4. QED BY <1>7, <2>2, <2>3 DEF Arose
<1>9. CASE l \in PassThrough(call, e, prog.summaries)
  <2>1. /\ l \in IncomingTaint(call, e)
        /\ call.strMethod \/ (call.callee \notin DOMAIN prog.summaries /\ ~ call.propagator)
    BY <1>9 DEF PassThrough, IsKnownCallee
  <2>2. PICK g : Brought(places, b, i, g) /\ CallReadsAny(call, g) /\ Arose(g, l)
    BY <2>1, IncomingTraced
  <2>3. g.chain \in Continued(call, g)
    BY <1>6, <2>1, <2>2 DEF Continued, Arose
  <2>4. QED BY <1>7, <2>2, <2>3 DEF Arose
<1>10. CASE l \in SummaryTaint(call, e, prog.summaries)
  <2>1. PICK h \in FlowsOf(call, prog.summaries) : h.dst = "return" /\ l \in One(h)
    <3> HIDE DEF One
    <3>1. QED BY <1>3, <1>10
  <2>2. h \in Flow /\ h.fragment \in Chain /\ h.src \in {"param", "source"}
    BY <1>1, FlowsType DEF Flow
  <2>3. CASE h.src = "source"
    <3> DEFINE v == [spec |-> h.spec, chain |-> Append(h.fragment, st)]
    <3>1. l = v
      BY <2>1, <2>3
    <3>2. v \in Introduced(stmt)
      BY <1>2, <2>1, <2>3, <3>1 DEF Introduced
    <3>3. v.chain \in Chain \ {<<>>}
      BY <1>2, <3>1 DEF Label
    <3>4. QED BY <3>1, <3>2, <3>3
  <2>4. CASE h.src # "source"
    <3>1. PICK m \in PositionTaint(call, h.index, e) :
            l = [spec |-> m.spec, chain |-> Append(m.chain, st) \o h.fragment]
      BY <2>1, <2>4
    <3>2. m \in Label /\ m.spec = l.spec
      BY <1>1, <3>1, PositionType
    <3>3. PICK g : Brought(places, b, i, g) /\ CallReads(call, h.index, g) /\ Arose(g, m)
      BY <3>1, <3>2, PositionTraced DEF Counts
    <3>4. g.spec = l.spec /\ g.chain \in Chain \ {<<>>} /\ g.chain[1] = m.chain[1]
      BY <3>2, <3>3, FactOfLabel DEF Arose
    <3> DEFINE c == Spliced(g, call, h)
    <3>5. c = Append(g.chain, st) \o h.fragment
      BY DEF Spliced
    <3>6. l.chain[1] = m.chain[1]
      <4>1. m.chain \in Chain \ {<<>>}
        BY <3>2 DEF Label
      <4>2. l.chain = Append(m.chain, st) \o h.fragment
        BY <3>1
      <4>3. (Append(m.chain, st) \o h.fragment)[1] = m.chain[1]
        <5> HIDE DEF st
        <5>1. QED BY <1>5, <2>2, <4>1, SpliceHead
      <4>4. QED BY <4>2, <4>3
    <3>7. c \in Chain \ {<<>>} /\ c[1] = l.chain[1]
      <4> HIDE DEF st, c
      <4>1. QED BY <1>5, <2>2, <3>4, <3>5, <3>6, SpliceHead, ChainType
    <3>8. c \in Continued(call, g)
      BY <1>6, <2>1, <2>2, <2>4, <3>3, <3>4 DEF Continued
    <3> HIDE DEF c
    <3>9. QED BY <3>3, <3>4, <3>7, <3>8
  <2>5. QED BY <2>3, <2>4
<1>11. QED BY <1>4, <1>8, <1>9, <1>10

\* What the value of a statement carries, it carries because of a fact that
\* some walk brings to the statement, or of none.
LEMMA ExprTraced ==
  ASSUME NEW places, NEW b, NEW i, NEW stmt, NEW e, Placed(places, b, i, stmt, e),
         NEW l \in ExprTaint(stmt.value, e, prog.summaries), Counts(l)
  PROVE  \E f : /\ WalkAt(b, i, f) \in places
                /\ \E v \in Values(stmt, f) :
                     v.spec = l.spec /\ v.chain \in Chain \ {<<>>} /\ v.chain[1] = l.chain[1]
<1> DEFINE x == stmt.value
<1>1. x \in Expr /\ stmt \in Stmt /\ e \in Env /\ IsSummaries(prog.summaries)
  BY DEF Placed, Stmt, IsProgram
<1>2. l \in Label
  BY <1>1, ExprTaintType
<1>3. ASSUME NEW g, Brought(places, b, i, g),
             NEW v \in ValueOf(stmt, g),
             v.spec = l.spec, v.chain \in Chain \ {<<>>}, v.chain[1] = l.chain[1]
      PROVE  \E f : /\ WalkAt(b, i, f) \in places
                    /\ \E w \in Values(stmt, f) :
                         w.spec = l.spec /\ w.chain \in Chain \ {<<>>} /\ w.chain[1] = l.chain[1]
  <2>1. PICK f : WalkAt(b, i, f) \in places /\ g \in Present(stmt, f)
    BY <1>3 DEF Brought, Placed
  <2>2. v \in Values(stmt, f)
    BY <2>1 DEF Values
  <2>3. QED BY <1>3, <2>1, <2>2
<1>4. ASSUME NEW v \in Introduced(stmt),
             v.spec = l.spec, v.chain \in Chain \ {<<>>}, v.chain[1] = l.chain[1]
      PROVE  \E f : /\ WalkAt(b, i, f) \in places
                    /\ \E w \in Values(stmt, f) :
                         w.spec = l.spec /\ w.chain \in Chain \ {<<>>} /\ w.chain[1] = l.chain[1]
  BY <1>4 DEF Values, Placed
<1>5. CASE x.op = "drop"
  BY <1>5 DEF ExprTaint
<1>6. CASE x.op = "union"
  <2>1. l \in OperandsTaint(x.args, e)
    BY <1>6 DEF ExprTaint, Merge
  <2>2. PICK n \in DOMAIN x.args : l \in OperandTaint(x.args[n], e)
    BY <2>1 DEF OperandsTaint
  <2>3. x.args[n] \in OperandsOf(x)
    BY <1>6 DEF OperandsOf, Range
  <2>4. PICK g : Brought(places, b, i, g) /\ Reads(x.args[n], g) /\ Arose(g, l)
    BY <2>2, <2>3, OperandTraced
  <2> DEFINE v == [spec |-> g.spec, chain |-> g.chain]
  <2>5. v \in ValueOf(stmt, g)
    BY <1>6, <2>4 DEF ValueOf
  <2>6. v.spec = l.spec /\ v.chain \in Chain \ {<<>>} /\ v.chain[1] = l.chain[1]
    BY <1>2, <2>4, FactOfLabel DEF Arose
  <2> HIDE DEF v
  <2>7. QED BY <1>3, <2>4, <2>5, <2>6
<1>7. CASE x.op = "call"
  <2> DEFINE call == x.call
  <2>1. l \in SourceLabels(call.sources, call.loc) \/ l \in CallTaint(call, e, prog.summaries)
    BY <1>7 DEF ExprTaint, Merge
  <2>2. CASE l \in SourceLabels(call.sources, call.loc)
    <3>1. l \in Introduced(stmt)
      BY <1>7, <2>2 DEF Introduced, SourceLabels
    <3>2. l.chain \in Chain \ {<<>>}
      BY <1>2 DEF Label
    <3>3. QED BY <1>4, <3>1, <3>2
  <2>3. CASE l \in CallTaint(call, e, prog.summaries)
    <3>1. CASE \E v \in Introduced(stmt) :
                 v.spec = l.spec /\ v.chain \in Chain \ {<<>>} /\ v.chain[1] = l.chain[1]
      BY <1>4, <3>1
    <3>2. CASE \E g : /\ Brought(places, b, i, g) /\ g.spec = l.spec
                      /\ \E c \in Continued(call, g) : c \in Chain \ {<<>>} /\ c[1] = l.chain[1]
      <4>1. PICK g : /\ Brought(places, b, i, g) /\ g.spec = l.spec
                     /\ \E c \in Continued(call, g) : c \in Chain \ {<<>>} /\ c[1] = l.chain[1]
        BY <3>2
      <4>2. PICK c \in Continued(call, g) : c \in Chain \ {<<>>} /\ c[1] = l.chain[1]
        BY <4>1
      <4> DEFINE v == [spec |-> g.spec, chain |-> c]
      <4>3. v \in ValueOf(stmt, g)
        BY <1>7 DEF ValueOf
      <4>4. v.spec = l.spec /\ v.chain \in Chain \ {<<>>} /\ v.chain[1] = l.chain[1]
        BY <4>1, <4>2
      <4> HIDE DEF v
      <4>5. QED BY <1>3, <4>1, <4>3, <4>4
    <3>3. QED BY <1>7, <2>3, <3>1, <3>2, CallTraced
  <2>4. QED BY <2>1, <2>2, <2>3
<1>8. QED BY <1>1, <1>5, <1>6, <1>7 DEF Expr

\* A step of a closed set stays in it.
LEMMA ClosedRun ==
  ASSUME NEW places, NEW b, NEW i, NEW stmt, NEW e, Placed(places, b, i, stmt, e),
         NEW f, WalkAt(b, i, f) \in places, NEW g \in After(stmt, f)
  PROVE  WalkAt(b, i + 1, Origin(g)) \in places
<1> DEFINE q == WalkAt(b, i, f)
<1>1. q.blk = b /\ q.pos = i /\ q.fact = f
  BY DEF WalkAt
<1>2. i \in DOMAIN prog.stmts[b] /\ stmt = prog.stmts[b][i]
  BY DEF Placed, IsProgram, Blocks, BlocksOf
<1>3. InBlock(q) /\ StmtAt(q) = stmt
  BY <1>1, <1>2 DEF InBlock, StmtAt
<1> HIDE DEF q
<1>4. WalkAt(b, i + 1, Origin(g)) \in NextPlaces(q)
  BY <1>1, <1>3 DEF NextPlaces
<1>5. q \in places
  BY DEF q
<1>6. QED BY <1>4, <1>5 DEF Placed, IsClosed

\* After a statement the environment is traced where the walks then are.
LEMMA TransferTraced ==
  ASSUME NEW places, NEW b, NEW i, NEW stmt, NEW e, Placed(places, b, i, stmt, e)
  PROVE  /\ WalkAt(b, i + 1, Clean) \in places
         /\ Traced(places, b, i + 1, Transfer(stmt, e, prog.summaries))
<1> DEFINE ts == stmt.targets
           cs == [k \in 1..Len(ts) |-> Collapse(ts[k])]
           kept == IF stmt.aug THEN UNION {Get(e, cs[k]) : k \in DOMAIN cs} ELSE {}
           x == ExprTaint(stmt.value, e, prog.summaries)
           next == Transfer(stmt, e, prog.summaries)
           C(p) == {k \in DOMAIN cs : IsPrefixOf(cs[k], p)}
<1>1. WalkAt(b, i + 1, Clean) \in places
  <2>1. Clean \in After(stmt, Clean)
    BY DEF After, Carries, Clean
  <2>2. Origin(Clean) = Clean
    BY DEF Origin, Clean
  <2>3. WalkAt(b, i, Clean) \in places
    BY DEF Placed
  <2>4. QED BY <2>1, <2>2, <2>3, ClosedRun
<1>2. /\ ts \in Seq(TextPath) /\ e \in Env /\ DOMAIN ts = DOMAIN cs /\ DOMAIN ts \subseteq Nat
      /\ \A k \in DOMAIN ts : Len(ts[k].steps) <= STEPS_CAP
      /\ stmt.aug => DOMAIN ts = {1}
  <2>1. ts \in Seq(TextPath) /\ DOMAIN ts = 1..Len(ts)
    BY DEF Placed, Stmt
  <2>2. i \in DOMAIN prog.stmts[b] /\ b \in BlocksOf(prog) /\ stmt = prog.stmts[b][i]
    BY DEF Placed, Blocks, IsProgram, BlocksOf
  <2>3. /\ \A k \in DOMAIN ts : Len(ts[k].steps) <= STEPS_CAP
        /\ stmt.aug => DOMAIN ts = {1}
    BY <2>2 DEF Placed, Traceable
  <2>4. DOMAIN ts = DOMAIN cs /\ DOMAIN ts \subseteq Nat
    BY <2>1
  <2> HIDE DEF cs
  <2>5. QED BY <2>1, <2>3, <2>4 DEF Placed
<1>3. \A k \in DOMAIN ts : /\ cs[k] = ts[k] /\ ts[k] \in AccessPath
  BY <1>2, ShortPath
<1>4. \A p \in AccessPath :
        next[p] = IF C(p) = {} THEN e[p]
                  ELSE IF \E k \in C(p) : cs[k] = p /\ \A j \in C(p) : j <= k
                       THEN Merge(kept \cup x)
                       ELSE {}
  BY DEF Transfer, Assign
<1>5. x \in SUBSET Label /\ kept \in SUBSET Label /\ \A p \in AccessPath : e[p] \in SUBSET Label
  <2>1. x \in SUBSET Label
    BY ExprTaintType DEF Placed, Stmt, IsProgram
  <2>2. \A k \in DOMAIN cs : Get(e, cs[k]) \in SUBSET Label
    BY <1>2, GetType
  <2> HIDE DEF cs, x
  <2>3. kept \in SUBSET Label
    BY <2>2
  <2>4. \A p \in AccessPath : e[p] \in SUBSET Label
    BY <1>2 DEF Env
  <2>5. QED BY <2>1, <2>3, <2>4
<1> HIDE DEF cs, kept, x, next
<1>6. ASSUME NEW p \in AccessPath, NEW q \in AccessPath, IsPrefixOf(q, p), NEW l \in Label,
             WalkAt(b, i, FactOf(q, l)) \in places, stmt.aug \/ C(p) = {}
      PROVE  WalkAt(b, i + 1, FactOf(q, l)) \in places
  <2> DEFINE f == FactOf(q, l)
  <2>1. f.path = q /\ Origin(f) = f
    BY FactOfLabel
  <2> HIDE DEF f
  <2>2. Survives(stmt, f)
    <3> SUFFICES ASSUME ~ stmt.aug, NEW k \in DOMAIN ts, IsPrefixOf(ts[k], q) PROVE FALSE
      BY <2>1 DEF Survives
    <3>1. IsPrefixOf(ts[k], p)
      BY <1>3, <1>6, PathLength, PrefixTrans
    <3>2. k \in C(p)
      BY <1>2, <1>3, <3>1
    <3>3. QED BY <1>6, <3>2
  <2>3. f \in After(stmt, f)
    BY <2>2 DEF After
  <2>4. QED BY <1>6, <2>1, <2>3, ClosedRun DEF f
<1>7. ASSUME NEW p \in AccessPath, NEW l \in next[p], Counts(l)
      PROVE  \E q \in AccessPath : IsPrefixOf(q, p) /\ WalkAt(b, i + 1, FactOf(q, l)) \in places
  <2>1. CASE C(p) = {}
    <3>1. l \in e[p] /\ l \in Label
      BY <1>4, <1>5, <1>7, <2>1
    <3>2. PICK q \in AccessPath : IsPrefixOf(q, p) /\ WalkAt(b, i, FactOf(q, l)) \in places
      BY <1>7, <3>1 DEF Placed, Traced
    <3>3. QED BY <1>6, <2>1, <3>1, <3>2
  <2>2. CASE C(p) # {}
    <3>1. (\E k \in C(p) : cs[k] = p /\ \A j \in C(p) : j <= k) /\ l \in Merge(kept \cup x)
      <4> HIDE DEF C
      <4>1. QED BY <1>4, <1>7, <2>2
    <3>2. PICK k \in C(p) : cs[k] = p /\ \A j \in C(p) : j <= k
      BY <3>1
    <3>3. k \in DOMAIN ts /\ ts[k] = p
      BY <1>2, <1>3, <3>2
    <3>4. l \in kept \/ l \in x
      BY <3>1 DEF Merge
    <3>5. CASE l \in x
      <4>1. PICK f, v : /\ WalkAt(b, i, f) \in places /\ v \in Values(stmt, f)
                        /\ v.spec = l.spec /\ v.chain \in Chain \ {<<>>} /\ v.chain[1] = l.chain[1]
        BY <1>7, <3>5, ExprTraced DEF x
      <4>2. p \in Bound(stmt)
        <5>1. \A j \in DOMAIN ts \ stmt.dynamic : j > k => ~ IsPrefixOf(ts[j], ts[k])
          <6> SUFFICES ASSUME NEW j \in DOMAIN ts, j > k, IsPrefixOf(ts[j], ts[k]) PROVE FALSE
            OBVIOUS
          <6>1. j \in C(p)
            BY <1>2, <1>3, <3>3
          <6>2. j <= k /\ j \in Nat /\ k \in Nat
            BY <1>2, <3>2, <3>3, <6>1
          <6>3. QED BY <6>2
        <5>2. QED BY <3>3, <5>1 DEF Bound
      <4> DEFINE g == [path |-> p, spec |-> v.spec, chain |-> v.chain]
      <4>3. g \in After(stmt, f)
        BY <4>1, <4>2 DEF After
      <4>4. Origin(g) = FactOf(p, l)
        BY <4>1 DEF Origin, FactOf
      <4> HIDE DEF g
      <4>5. WalkAt(b, i + 1, FactOf(p, l)) \in places
        BY <4>1, <4>3, <4>4, ClosedRun
      <4>6. QED BY <4>5, PathLength
    <3>6. CASE l \in kept
      <4>1. stmt.aug /\ DOMAIN ts = {1} /\ k = 1
        BY <1>2, <3>3, <3>6 DEF kept
      <4>2. l \in Get(e, p) /\ l \in Label
        BY <1>2, <1>5, <3>2, <3>6, <4>1 DEF kept
      <4>3. PICK r \in AccessPath : IsPrefixOf(r, p) /\ l \in e[r]
        BY <4>2 DEF Get, Merge
      <4>4. PICK q \in AccessPath : IsPrefixOf(q, r) /\ WalkAt(b, i, FactOf(q, l)) \in places
        BY <1>7, <4>3 DEF Placed, Traced
      <4>5. IsPrefixOf(q, p)
        BY <4>3, <4>4, PathLength, PrefixTrans
      <4>6. QED BY <1>6, <4>1, <4>2, <4>4, <4>5
    <3>7. QED BY <3>4, <3>5, <3>6
  <2>3. QED BY <2>1, <2>2
<1>8. QED BY <1>1, <1>7 DEF Traced, next

\* A function is entered with the facts that its walks start with.
LEMMA EntryTraced ==
  ASSUME IsProgram(prog), NEW places, IsClosed(places)
  PROVE  Traced(places, prog.entry, 1, prog.entryEnv) /\ WalkAt(prog.entry, 1, Clean) \in places
<1>1. \A f \in EntryFacts \cup {Clean} : WalkAt(prog.entry, 1, Origin(f)) \in places
  BY DEF IsClosed, Entered
<1>2. Origin(Clean) = Clean
  BY DEF Origin, Clean
<1>3. ASSUME NEW p \in AccessPath, NEW l \in prog.entryEnv[p]
      PROVE  IsPrefixOf(p, p) /\ WalkAt(prog.entry, 1, FactOf(p, l)) \in places
  <2>1. l.chain # <<>>
    BY DEF IsProgram, Env, Label
  <2> DEFINE f == [path |-> p, spec |-> l.spec, chain |-> l.chain]
  <2>2. f \in EntryFacts
    BY DEF EntryFacts
  <2>3. Origin(f) = FactOf(p, l)
    BY <2>1 DEF Origin, FactOf
  <2> HIDE DEF f
  <2>4. QED BY <1>1, <2>2, <2>3, PathLength
<1>4. QED BY <1>1, <1>2, <1>3 DEF Traced

\* What a predecessor leaves, the walks carry over the edge.
LEMMA JoinTraced ==
  ASSUME IsProgram(prog), NEW places, IsClosed(places), NEW b \in Blocks, NEW outs \in [Blocks -> Env],
         \A c \in Blocks : Traced(places, c, Len(prog.stmts[c]) + 1, outs[c])
  PROVE  Traced(places, b, 1, JoinOf(b, outs))
<1> SUFFICES ASSUME NEW p \in AccessPath, NEW l \in JoinOf(b, outs)[p], Counts(l)
             PROVE  \E q \in AccessPath : IsPrefixOf(q, p) /\ WalkAt(b, 1, FactOf(q, l)) \in places
  BY DEF Traced
<1>1. (b = prog.entry /\ l \in prog.entryEnv[p]) \/ \E c \in Preds(prog, b) : l \in outs[c][p]
  BY DEF JoinOf, JoinAt, Merge
<1>2. CASE b = prog.entry /\ l \in prog.entryEnv[p]
  BY <1>2, EntryTraced DEF Traced
<1>3. CASE \E c \in Preds(prog, b) : l \in outs[c][p]
  <2>1. PICK c \in Blocks : b \in prog.succ[c] /\ l \in outs[c][p]
    BY <1>3 DEF Preds, Blocks
  <2> DEFINE n == Len(prog.stmts[c]) + 1
  <2>2. PICK q \in AccessPath : IsPrefixOf(q, p) /\ WalkAt(c, n, FactOf(q, l)) \in places
    BY <2>1 DEF Traced
  <2> DEFINE w == WalkAt(c, n, FactOf(q, l))
  <2>3. w.blk = c /\ w.pos = n /\ w.fact = FactOf(q, l) /\ w \in places
    BY <2>2 DEF WalkAt
  <2>4. n \notin DOMAIN prog.stmts[c]
    <3>1. prog.stmts[c] \in Seq(Stmt)
      BY DEF IsProgram, Blocks, BlocksOf
    <3>2. QED BY <3>1
  <2> HIDE DEF w, n
  <2>5. WalkAt(b, 1, FactOf(q, l)) \in NextPlaces(w)
    BY <2>1, <2>3, <2>4 DEF NextPlaces, InBlock
  <2>6. QED BY <2>2, <2>3, <2>5 DEF IsClosed
<1>4. QED BY <1>1, <1>2, <1>3

\* Every place of the function is reached, by a walk with nothing in hand.
LEMMA AllPlacesReached ==
  ASSUME IsProgram(prog), Traceable(prog), NEW places, IsClosed(places)
  PROVE  \A b \in Blocks : \A i \in 1..(Len(prog.stmts[b]) + 1) : WalkAt(b, i, Clean) \in places
<1> DEFINE bs == {b \in BlocksOf(prog) : WalkAt(b, 1, Clean) \in places}
<1>1. \A b \in Blocks : prog.stmts[b] \in Seq(Stmt) /\ Len(prog.stmts[b]) \in Nat
  BY DEF IsProgram, Blocks, BlocksOf
<1>2. ASSUME NEW b \in Blocks, NEW i \in 1..Len(prog.stmts[b]), WalkAt(b, i, Clean) \in places
      PROVE  WalkAt(b, i + 1, Clean) \in places
  <2>1. prog.stmts[b][i] \in Stmt
    BY <1>1
  <2>2. EmptyEnv \in Env /\ Traced(places, b, i, EmptyEnv)
    BY DEF EmptyEnv, Env, Traced
  <2>3. Placed(places, b, i, prog.stmts[b][i], EmptyEnv)
    BY <1>2, <2>1, <2>2 DEF Placed
  <2>4. QED BY <2>3, TransferTraced
<1>3. ASSUME NEW b \in bs
      PROVE  \A i \in 1..(Len(prog.stmts[b]) + 1) : WalkAt(b, i, Clean) \in places
  <2>1. b \in Blocks /\ WalkAt(b, 1, Clean) \in places
    BY DEF Blocks
  <2> DEFINE n == Len(prog.stmts[b])
             missed == {i \in 1..(n + 1) : WalkAt(b, i, Clean) \notin places}
  <2>2. n \in Nat
    BY <1>1, <2>1
  <2> HIDE DEF n
  <2> SUFFICES ASSUME missed # {} PROVE FALSE
    BY DEF n
  <2>3. PICK i \in missed : \A j \in missed : i <= j
    <3>1. missed \in SUBSET Nat
      BY <2>2
    <3>2. QED BY <3>1, LeastNumber
  <2>4. i \in 1..(n + 1) /\ i # 1
    BY <2>1
  <2>5. i - 1 \in 1..n /\ i - 1 \in 1..(n + 1) /\ (i - 1) + 1 = i /\ ~ (i <= i - 1)
    BY <2>2, <2>4
  <2>6. WalkAt(b, i - 1, Clean) \in places
    BY <2>3, <2>5
  <2>7. WalkAt(b, i, Clean) \in places
    BY <1>2, <2>1, <2>5, <2>6 DEF n
  <2>8. QED BY <2>7
<1>4. bs = BlocksOf(prog)
  <2>1. prog.entry \in bs
    BY EntryTraced DEF IsProgram, BlocksOf
  <2>2. ASSUME NEW b \in bs, NEW c \in prog.succ[b] PROVE c \in bs
    <3> DEFINE n == Len(prog.stmts[b]) + 1
               w == WalkAt(b, n, Clean)
    <3>1. b \in Blocks /\ c \in BlocksOf(prog)
      BY DEF IsProgram, Blocks, BlocksOf
    <3>2. n \in 1..(Len(prog.stmts[b]) + 1) /\ n \notin DOMAIN prog.stmts[b]
      BY <1>1, <3>1
    <3>3. w \in places
      BY <1>3, <3>2
    <3>4. w.blk = b /\ w.pos = n /\ w.fact = Clean
      BY DEF WalkAt
    <3> HIDE DEF w, n
    <3>5. WalkAt(c, 1, Clean) \in NextPlaces(w)
      BY <3>2, <3>4 DEF NextPlaces, InBlock
    <3>6. WalkAt(c, 1, Clean) \in places
      BY <3>3, <3>5 DEF IsClosed
    <3>7. QED BY <3>1, <3>6
  <2>3. bs \in SUBSET BlocksOf(prog) /\ \A b \in bs : prog.succ[b] \subseteq bs
    BY <2>2
  <2> HIDE DEF bs
  <2>4. QED BY <2>1, <2>3 DEF Traceable, AllReached
<1> HIDE DEF bs
<1>5. QED BY <1>3, <1>4 DEF Blocks

(***************************************************************************)
(* What a statement yields in a traced environment is what some walk does  *)
(* there.                                                                  *)
(***************************************************************************)
Confirms(q, r) ==
  IF prog.kind = "engine"
  THEN \E hit \in Hits(StmtAt(q), q.fact) :
         hit.spec = r.spec /\ hit.sink = r.sink /\ hit.witness[1] = r.witness[1]
  ELSE Returned(StmtAt(q), q.fact, r) \/ Sunk(StmtAt(q), q.fact, r)

Confirmed(places, r) == \E q \in places : InBlock(q) /\ Confirms(q, r)

\* The place of a fact that confirms an answer.
LEMMA ConfirmedAt ==
  ASSUME NEW places, NEW b, NEW i, NEW stmt, NEW e, Placed(places, b, i, stmt, e),
         NEW f, WalkAt(b, i, f) \in places, NEW r,
         IF prog.kind = "engine"
         THEN \E hit \in Hits(stmt, f) :
                hit.spec = r.spec /\ hit.sink = r.sink /\ hit.witness[1] = r.witness[1]
         ELSE Returned(stmt, f, r) \/ Sunk(stmt, f, r)
  PROVE  Confirmed(places, r)
<1> DEFINE q == WalkAt(b, i, f)
<1>1. q.blk = b /\ q.pos = i /\ q.fact = f
  BY DEF WalkAt
<1>2. i \in DOMAIN prog.stmts[b] /\ stmt = prog.stmts[b][i]
  BY DEF Placed, IsProgram, Blocks, BlocksOf
<1>3. InBlock(q) /\ StmtAt(q) = stmt
  BY <1>1, <1>2 DEF InBlock, StmtAt
<1>4. q \in places
  OBVIOUS
<1> HIDE DEF q
<1>5. Confirms(q, r)
  BY <1>1, <1>3 DEF Confirms
<1>6. QED BY <1>3, <1>4, <1>5 DEF Confirmed

\* Appending to a chain leaves its first step.
LEMMA AppendHead ==
  ASSUME NEW c \in Chain \ {<<>>}, NEW s \in WitnessStep
  PROVE  Append(c, s)[1] = c[1]
<1> DEFINE W == WitnessStep
<1>1. c \in Seq(W) /\ s \in W /\ c # <<>>
  BY DEF Chain
<1> HIDE DEF W
<1>2. QED BY <1>1

\* A finding of the second pass, ...
LEMMA FindingConfirmed ==
  ASSUME NEW places, NEW b, NEW i, NEW stmt, NEW e, Placed(places, b, i, stmt, e),
         prog.kind = "engine", NEW r \in StmtFindings(stmt, e, prog.summaries)
  PROVE  Confirmed(places, r)
<1> DEFINE call == stmt.value.call
<1>1. stmt.value.op = "call" /\ call \in Call /\ e \in Env /\ IsSummaries(prog.summaries)
  BY CallOperands DEF StmtFindings, Placed, IsProgram
<1>2. CallStep(call) \in WitnessStep /\ SinkStep(call) \in WitnessStep
  BY <1>1, CallStepType
<1>3. ASSUME NEW g, Brought(places, b, i, g), NEW hit \in SinkHits(call, g),
             hit.spec = r.spec, hit.sink = r.sink, hit.witness[1] = r.witness[1]
      PROVE  Confirmed(places, r)
  <2>1. PICK f : WalkAt(b, i, f) \in places /\ g \in Present(stmt, f)
    BY <1>3 DEF Brought, Placed
  <2>2. hit \in Hits(stmt, f)
    BY <1>1, <1>3, <2>1 DEF Hits
  <2>3. QED BY <1>3, <2>1, <2>2, ConfirmedAt
<1>4. CASE r \in SinkFindings(call, e)
  <2>1. PICK s \in call.sinks : \E l \in CheckedTaint(call, s, e) :
          /\ l.spec = s.spec
          /\ r = [spec |-> l.spec, sink |-> call.loc, witness |-> Append(l.chain, SinkStep(call))]
    BY <1>4 DEF SinkFindings
  <2>2. PICK l \in CheckedTaint(call, s, e) :
          /\ l.spec = s.spec
          /\ r = [spec |-> l.spec, sink |-> call.loc, witness |-> Append(l.chain, SinkStep(call))]
    BY <2>1
  <2>3. PICK n \in s.args : l \in PositionTaint(call, n, e)
    BY <2>2 DEF CheckedTaint
  <2>4. l \in Label /\ l.spec \notin Marker
    BY <1>1, <2>1, <2>2, <2>3, PositionType DEF Call, DetectorId
  <2>5. PICK g : Brought(places, b, i, g) /\ CallReads(call, n, g) /\ Arose(g, l)
    BY <1>1, <2>3, <2>4, PositionTraced DEF Counts
  <2>6. g.spec = l.spec /\ g.chain \in Chain \ {<<>>} /\ g.chain[1] = l.chain[1]
        /\ l.chain \in Chain \ {<<>>}
    BY <2>4, <2>5, FactOfLabel DEF Arose, Label
  <2> DEFINE hit == [spec |-> g.spec, sink |-> call.loc, witness |-> Append(g.chain, SinkStep(call))]
  <2>7. hit \in SinkHits(call, g)
    BY <2>1, <2>2, <2>3, <2>5, <2>6 DEF SinkHits
  <2>8. hit.spec = r.spec /\ hit.sink = r.sink
    BY <2>2, <2>6
  <2>9. hit.witness[1] = r.witness[1]
    <3>1. Append(g.chain, SinkStep(call))[1] = g.chain[1]
      BY <1>2, <2>6, AppendHead
    <3>2. Append(l.chain, SinkStep(call))[1] = l.chain[1]
      BY <1>2, <2>6, AppendHead
    <3>3. QED BY <2>2, <2>6, <3>1, <3>2
  <2> HIDE DEF hit
  <2>10. QED BY <1>3, <2>5, <2>7, <2>8, <2>9
<1>5. CASE r \in InterprocFindings(call, e, prog.summaries)
  <2>1. PICK h \in FlowsOf(call, prog.summaries) : h.dst = "sink" /\ \E l \in PositionTaint(call, h.index, e) :
          /\ l.spec = h.spec
          /\ r = [spec |-> h.spec, sink |-> h.loc, witness |-> Append(l.chain, CallStep(call)) \o h.fragment]
    BY <1>5 DEF InterprocFindings
  <2>2. PICK l \in PositionTaint(call, h.index, e) :
          /\ l.spec = h.spec
          /\ r = [spec |-> h.spec, sink |-> h.loc, witness |-> Append(l.chain, CallStep(call)) \o h.fragment]
    BY <2>1
  <2>3. h.fragment \in Chain /\ h.spec \in DetectorId \cup {NoSpec}
    BY <1>1, FlowsType DEF Flow
  <2>4. l \in Label /\ l.spec \notin Marker
    BY <1>1, <2>2, <2>3, PositionType, MarkerAssumption DEF DetectorId, Label
  <2>5. PICK g : Brought(places, b, i, g) /\ CallReads(call, h.index, g) /\ Arose(g, l)
    BY <1>1, <2>2, <2>4, PositionTraced DEF Counts
  <2>6. g.spec = l.spec /\ g.chain \in Chain \ {<<>>} /\ g.chain[1] = l.chain[1]
        /\ l.chain \in Chain \ {<<>>}
    BY <2>4, <2>5, FactOfLabel DEF Arose, Label
  <2> DEFINE hit == [spec |-> g.spec, sink |-> h.loc, witness |-> Spliced(g, call, h)]
  <2>7. hit \in SinkHits(call, g)
    BY <2>1, <2>2, <2>5, <2>6 DEF SinkHits
  <2>8. hit.spec = r.spec /\ hit.sink = r.sink
    BY <2>2, <2>6
  <2>9. hit.witness[1] = r.witness[1]
    <3>1. Spliced(g, call, h)[1] = g.chain[1]
      BY <1>2, <2>3, <2>6, SpliceHead DEF Spliced
    <3>2. (Append(l.chain, CallStep(call)) \o h.fragment)[1] = l.chain[1]
      BY <1>2, <2>3, <2>6, SpliceHead
    <3>3. QED BY <2>2, <2>6, <3>1, <3>2
  <2> HIDE DEF hit
  <2>10. QED BY <1>3, <2>5, <2>7, <2>8, <2>9
<1>6. QED BY <1>1, <1>4, <1>5 DEF StmtFindings

\* ... and a flow of a summary.
LEMMA FlowConfirmed ==
  ASSUME NEW places, NEW b, NEW i, NEW stmt, NEW e, Placed(places, b, i, stmt, e),
         prog.kind = "summary", NEW r \in StmtFlows(stmt, e, prog.summaries)
  PROVE  Confirmed(places, r)
<1>1. stmt \in Stmt /\ e \in Env /\ \A l : Counts(l)
  BY DEF Placed, Counts
<1>2. CASE stmt.returns /\ \E l \in ExprTaint(stmt.value, e, prog.summaries) : r = ReturnFlow(l)
  <2>1. PICK l \in ExprTaint(stmt.value, e, prog.summaries) : r = ReturnFlow(l)
    BY <1>2
  <2>2. PICK f, v : /\ WalkAt(b, i, f) \in places /\ v \in Values(stmt, f)
                    /\ v.spec = l.spec /\ v.chain[1] = l.chain[1]
    BY <1>1, ExprTraced
  <2>3. Returned(stmt, f, r)
    BY <1>2, <2>1, <2>2 DEF Returned, ReturnFlow
  <2>4. QED BY <2>2, <2>3, ConfirmedAt
<1>3. CASE stmt.value.op = "call" /\ r \in SinkFlows(stmt.value.call, e)
  <2> DEFINE call == stmt.value.call
  <2>1. PICK s \in call.sinks : \E l \in CheckedTaint(call, s, e) :
          /\ l.spec \in Marker
          /\ r = [src |-> "param", index |-> ParamOf[l.spec], dst |-> "sink", spec |-> s.spec,
                  fragment |-> Append(Tail(l.chain), SinkStep(call)), loc |-> call.loc]
    BY <1>3 DEF SinkFlows
  <2>2. PICK l \in CheckedTaint(call, s, e) :
          /\ l.spec \in Marker
          /\ r = [src |-> "param", index |-> ParamOf[l.spec], dst |-> "sink", spec |-> s.spec,
                  fragment |-> Append(Tail(l.chain), SinkStep(call)), loc |-> call.loc]
    BY <2>1
  <2>3. PICK n \in s.args : l \in PositionTaint(call, n, e)
    BY <2>2 DEF CheckedTaint
  <2>4. PICK g : Brought(places, b, i, g) /\ CallReads(call, n, g) /\ Arose(g, l)
    BY <1>1, <1>3, <2>3, PositionTraced
  <2>5. PICK f : WalkAt(b, i, f) \in places /\ g \in Present(stmt, f)
    BY <2>4 DEF Brought, Placed
  <2>6. Sunk(stmt, f, r)
    BY <1>3, <2>1, <2>2, <2>3, <2>4, <2>5 DEF Sunk, Arose
  <2>7. QED BY <2>5, <2>6, ConfirmedAt
<1>4. QED BY <1>2, <1>3 DEF StmtFlows

(***************************************************************************)
(* The inductive invariant: whatever closed set of places one takes, it    *)
(* traces every environment the engine has computed and confirms all that  *)
(* has been collected.  It holds in the middle of the worklist algorithm   *)
(* too, so that nothing is assumed of how the loop ends.                   *)
(***************************************************************************)
AllTraced(places) ==
  /\ \A b \in Blocks : /\ Traced(places, b, 1, in_env[b])
                       /\ Traced(places, b, Len(prog.stmts[b]) + 1, out_env[b])
  /\ phase \in {"visit", "emit"} => Traced(places, cur, pos, env)
  /\ \A r \in raw : Confirmed(places, r)
  /\ phase = "done" => result \subseteq raw

Traceability == \A places : IsClosed(places) => AllTraced(places)

\* What a set of places traces, and whether it is closed, depends on nothing
\* but the function.
LEMMA SameProgram ==
  ASSUME prog' = prog
  PROVE  /\ \A places : IsClosed(places)' <=> IsClosed(places)
         /\ \A places, r : Confirmed(places, r)' <=> Confirmed(places, r)
         /\ \A places, b, i, e : Traced(places, b, i, e)' <=> Traced(places, b, i, e)
<1>1. \A call, f : Continued(call, f)' = Continued(call, f)
  BY DEF Continued
<1>2. \A stmt, f : ValueOf(stmt, f)' = ValueOf(stmt, f)
  BY <1>1 DEF ValueOf
<1>3. \A stmt : Introduced(stmt)' = Introduced(stmt)
  BY DEF Introduced
<1>4. \A stmt, f : Values(stmt, f)' = Values(stmt, f)
  BY <1>2, <1>3 DEF Values
<1>5. \A stmt, f : After(stmt, f)' = After(stmt, f)
  BY <1>4 DEF After
<1>6. \A q : (InBlock(q)' <=> InBlock(q)) /\ StmtAt(q)' = StmtAt(q)
  BY DEF InBlock, StmtAt
<1>7. \A q : NextPlaces(q)' = NextPlaces(q)
  BY <1>5, <1>6 DEF NextPlaces
<1>8. Entered' = Entered
  BY DEF Entered, EntryFacts
<1>9. \A places : IsClosed(places)' <=> IsClosed(places)
  BY <1>7, <1>8 DEF IsClosed
<1>10. \A stmt, f : Hits(stmt, f)' = Hits(stmt, f)
  BY DEF Hits, SinkHits
<1>11. \A stmt, f, r : (Returned(stmt, f, r)' <=> Returned(stmt, f, r))
                       /\ (Sunk(stmt, f, r)' <=> Sunk(stmt, f, r))
  BY <1>4 DEF Returned, Sunk
<1>12. \A q, r : Confirms(q, r)' <=> Confirms(q, r)
  BY <1>6, <1>10, <1>11 DEF Confirms
<1>13. \A places, r : Confirmed(places, r)' <=> Confirmed(places, r)
  BY <1>6, <1>12 DEF Confirmed
<1>14. \A places, b, i, e : Traced(places, b, i, e)' <=> Traced(places, b, i, e)
  BY DEF Traced, Counts
<1>15. QED BY <1>9, <1>13, <1>14

\* At the start only the entry environment has something in it.
LEMMA InitTraced == Init => Traceability
<1> SUFFICES ASSUME Init, NEW places, IsClosed(places) PROVE AllTraced(places)
  BY DEF Traceability
<1>1. /\ phase = "solve" /\ raw = {} /\ IsProgram(prog)
      /\ \A b \in Blocks : /\ out_env[b] = EmptyEnv
                           /\ in_env[b] = EmptyEnv \/ (b = prog.entry /\ in_env[b] = prog.entryEnv)
  BY ProgramsAssumption DEF Init
<1>2. \A b, i : Traced(places, b, i, EmptyEnv)
  BY DEF Traced, EmptyEnv
<1>3. Traced(places, prog.entry, 1, prog.entryEnv)
  BY <1>1, EntryTraced
<1>4. QED BY <1>1, <1>2, <1>3 DEF AllTraced

\* Every step keeps to what some walk does.
LEMMA TracedStep ==
  ASSUME TypeOK, Traceable(prog), Traceability, [Next]_vars
  PROVE  Traceability'
<1>1. prog' = prog /\ Blocks' = Blocks /\ IsProgram(prog)
  BY DEF Next, Pop, Execute, Leave, Stop, Emit, NextBlock, Return, vars, Blocks, BlocksOf, TypeOK
<1> SUFFICES ASSUME NEW places, IsClosed(places) PROVE AllTraced(places)'
  BY <1>1, SameProgram DEF Traceability
<1>2. AllTraced(places)
  BY DEF Traceability
<1>3. /\ \A r : Confirmed(places, r)' <=> Confirmed(places, r)
      /\ \A b, i, e : Traced(places, b, i, e)' <=> Traced(places, b, i, e)
  BY <1>1, SameProgram
<1> DEFINE blocksTraced == \A b \in Blocks : /\ Traced(places, b, 1, in_env'[b])
                                             /\ Traced(places, b, Len(prog.stmts[b]) + 1, out_env'[b])
           envTraced == phase' \in {"visit", "emit"} => Traced(places, cur', pos', env')
           rawConfirmed == \A r \in raw' : Confirmed(places, r)
           answered == phase' = "done" => result' \subseteq raw'
<1> SUFFICES blocksTraced /\ envTraced /\ rawConfirmed /\ answered
  <2>1. ASSUME blocksTraced
        PROVE  (\A b \in Blocks : /\ Traced(places, b, 1, in_env[b])
                                  /\ Traced(places, b, Len(prog.stmts[b]) + 1, out_env[b]))'
    BY <1>1, <1>3, <2>1
  <2>2. ASSUME envTraced
        PROVE  (phase \in {"visit", "emit"} => Traced(places, cur, pos, env))'
    BY <1>1, <2>2 DEF Traced, Counts
  <2>3. ASSUME rawConfirmed PROVE (\A r \in raw : Confirmed(places, r))'
    BY <1>3, <2>3
  <2> HIDE DEF blocksTraced, envTraced, rawConfirmed
  <2>4. QED BY <2>1, <2>2, <2>3 DEF AllTraced
<1>4. ASSUME NEW b \in Blocks, NEW i, i \in 1..Len(prog.stmts[b]), NEW e \in Env, Traced(places, b, i, e)
      PROVE  Placed(places, b, i, prog.stmts[b][i], e)
  <2>1. prog.stmts[b] \in Seq(Stmt)
    BY <1>1 DEF IsProgram, Blocks, BlocksOf
  <2>2. prog.stmts[b][i] \in Stmt /\ i \in 1..(Len(prog.stmts[b]) + 1)
    BY <1>4, <2>1
  <2>3. WalkAt(b, i, Clean) \in places
    BY <1>1, <2>2, AllPlacesReached
  <2>4. QED BY <1>1, <1>4, <2>2, <2>3 DEF Placed
<1>5. ASSUME NEW b \in Blocks, Pop(b) PROVE blocksTraced /\ envTraced /\ rawConfirmed /\ answered
  <2> DEFINE j == JoinOf(b, out_env)
  <2>1. /\ phase' = "visit" /\ in_env' = [in_env EXCEPT ![b] = j]
        /\ cur' = b /\ pos' = 1 /\ env' = j /\ UNCHANGED <<out_env, raw>>
    BY <1>5 DEF Pop
  <2>2. Traced(places, b, 1, j)
    BY <1>1, <1>2, JoinTraced DEF AllTraced, TypeOK
  <2> HIDE DEF j
  <2>3. \A c \in Blocks : in_env'[c] = IF c = b THEN j ELSE in_env[c]
    BY <2>1 DEF TypeOK
  <2>4. QED BY <1>2, <2>1, <2>2, <2>3 DEF AllTraced
<1>6. ASSUME Execute PROVE blocksTraced /\ envTraced /\ rawConfirmed /\ answered
  <2>1. /\ phase = "visit" /\ phase' = phase /\ pos \in 1..Len(prog.stmts[cur])
        /\ env' = Transfer(prog.stmts[cur][pos], env, prog.summaries)
        /\ pos' = pos + 1 /\ UNCHANGED <<in_env, out_env, cur, raw>>
    BY <1>6 DEF Execute, Stmts
  <2>2. Placed(places, cur, pos, prog.stmts[cur][pos], env)
    BY <1>2, <1>4, <2>1 DEF AllTraced, TypeOK
  <2>3. Traced(places, cur, pos + 1, Transfer(prog.stmts[cur][pos], env, prog.summaries))
    BY <2>2, TransferTraced
  <2>4. QED BY <1>2, <2>1, <2>3 DEF AllTraced
<1>7. ASSUME Leave PROVE blocksTraced /\ envTraced /\ rawConfirmed /\ answered
  <2>1. /\ phase = "visit" /\ phase' = "solve" /\ pos = Len(prog.stmts[cur]) + 1
        /\ out_env' = [out_env EXCEPT ![cur] = env] /\ UNCHANGED <<in_env, raw>>
    BY <1>7 DEF Leave, Stmts
  <2>2. \A c \in Blocks : out_env'[c] = IF c = cur THEN env ELSE out_env[c]
    BY <2>1 DEF TypeOK
  <2>3. QED BY <1>2, <2>1, <2>2 DEF AllTraced
<1>8. ASSUME Stop PROVE blocksTraced /\ envTraced /\ rawConfirmed /\ answered
  <2>1. /\ phase' = "emit" /\ cur' = 0 /\ pos' = 1 /\ env' = in_env[0]
        /\ UNCHANGED <<in_env, out_env, raw>>
    BY <1>8 DEF Stop
  <2>2. 0 \in Blocks
    BY <1>1 DEF Blocks, BlocksOf, IsProgram
  <2>3. QED BY <1>2, <2>1, <2>2 DEF AllTraced
<1>9. ASSUME Emit PROVE blocksTraced /\ envTraced /\ rawConfirmed /\ answered
  <2> DEFINE stmt == prog.stmts[cur][pos]
  <2>1. /\ phase = "emit" /\ phase' = phase /\ pos \in 1..Len(prog.stmts[cur])
        /\ env' = Transfer(stmt, env, prog.summaries)
        /\ raw' = raw \cup Collected(prog, stmt, env)
        /\ pos' = pos + 1 /\ UNCHANGED <<in_env, out_env, cur>>
    BY <1>9 DEF Emit, Stmts
  <2>2. Placed(places, cur, pos, stmt, env)
    BY <1>2, <1>4, <2>1 DEF AllTraced, TypeOK
  <2>3. Traced(places, cur, pos + 1, Transfer(stmt, env, prog.summaries))
    BY <2>2, TransferTraced
  <2> HIDE DEF stmt
  <2>4. \A r \in Collected(prog, stmt, env) : Confirmed(places, r)
    <3>1. prog.kind \in {"engine", "summary"}
      BY <1>1 DEF IsProgram
    <3>2. QED BY <2>2, <3>1, FindingConfirmed, FlowConfirmed DEF Collected
  <2>5. QED BY <1>2, <2>1, <2>3, <2>4 DEF AllTraced
<1>10. ASSUME NextBlock PROVE blocksTraced /\ envTraced /\ rawConfirmed /\ answered
  <2>1. /\ phase = "emit" /\ phase' = phase /\ cur + 1 \in Blocks /\ cur' = cur + 1 /\ pos' = 1
        /\ env' = in_env[cur + 1] /\ UNCHANGED <<in_env, out_env, raw>>
    BY <1>10 DEF NextBlock
  <2>2. QED BY <1>2, <2>1 DEF AllTraced
<1>11. ASSUME Return PROVE blocksTraced /\ envTraced /\ rawConfirmed /\ answered
  <2>1. phase' = "done" /\ result' = AnswerOf(prog, raw) /\ UNCHANGED <<in_env, out_env, raw>>
    BY <1>11 DEF Return
  <2>2. AnswerOf(prog, raw) \subseteq raw
    BY DEF AnswerOf, Finalize
  <2>3. QED BY <1>2, <2>1, <2>2 DEF AllTraced
<1>12. ASSUME UNCHANGED vars PROVE blocksTraced /\ envTraced /\ rawConfirmed /\ answered
  <2>1. UNCHANGED <<phase, in_env, out_env, cur, pos, env, raw, result>>
    BY <1>12 DEF vars
  <2>2. QED BY <1>2, <2>1 DEF AllTraced
<1>13. QED BY <1>5, <1>6, <1>7, <1>8, <1>9, <1>10, <1>11, <1>12 DEF Next

\* The function under analysis is one of those given.
LEMMA TracedInvariance ==
  ASSUME \A p \in Programs : Traceable(p)
  PROVE  WalkSpec => [](TypeOK /\ Traceability)
<1> DEFINE Inv == TypeOK /\ Traceability /\ prog \in Programs
<1>1. WalkInit => Inv
  BY InitTypeOK, InitTraced DEF WalkInit, Init
<1>2. Inv /\ [WalkNext]_walkVars => Inv'
  <2> SUFFICES ASSUME Inv, [WalkNext]_walkVars PROVE Inv'
    OBVIOUS
  <2>1. [Next]_vars
    BY DEF WalkNext, walkVars, Analyse, Enter, Run, Branch
  <2>2. prog' = prog
    BY <2>1 DEF Next, Pop, Execute, Leave, Stop, Emit, NextBlock, Return, vars
  <2>3. TypeOK' /\ Traceability'
    BY <2>1, TypeOKStep, TracedStep
  <2>4. QED BY <2>2, <2>3
<1>3. QED BY <1>1, <1>2, PTL DEF WalkSpec

\* Where every label is traced, every answer is confirmed.
LEMMA TracedConfirms ==
  ASSUME Traceability, IsClosed(Reachable)
  PROVE  NoSpuriousFinding /\ NoInventedFlow
<1> DEFINE places == Reachable
<1>1. phase = "done" => \A r \in result : Confirmed(places, r)
  <2> HIDE DEF places
  <2>1. AllTraced(places)
    BY DEF Traceability, places
  <2>2. QED BY <2>1 DEF AllTraced
<1>2. NoSpuriousFinding
  <2> SUFFICES ASSUME phase = "done", prog.kind = "engine", NEW r \in result
               PROVE  \E q \in places : InBlock(q) /\ \E hit \in Hits(StmtAt(q), q.fact) :
                        hit.spec = r.spec /\ hit.sink = r.sink /\ hit.witness[1] = r.witness[1]
    BY DEF NoSpuriousFinding
  <2> HIDE DEF places
  <2>1. QED BY <1>1 DEF Confirmed, Confirms
<1>3. NoInventedFlow
  <2> SUFFICES ASSUME phase = "done", prog.kind = "summary", NEW r \in result
               PROVE  \E q \in places :
                        InBlock(q) /\ (Returned(StmtAt(q), q.fact, r) \/ Sunk(StmtAt(q), q.fact, r))
    BY DEF NoInventedFlow
  <2> HIDE DEF places
  <2>1. QED BY <1>1 DEF Confirmed, Confirms
<1>4. QED BY <1>2, <1>3

\* Precision of the analysis of one function: whatever the function, its
\* loops and the lengths of its paths, analyze_function reports a detector's
\* sink only where some walk carries a value tainted for that detector from
\* the source the witness names - for the functions whose blocks are all
\* reached and whose writes stay within the cap.  The hypothesis on Reachable
\* says that WalkRounds lets the reference follow all walks to their ends.
THEOREM NothingSpurious ==
  ASSUME \A p \in Programs : Traceable(p)
  PROVE  WalkSpec /\ []IsClosed(Reachable) => []NoSpuriousFinding
<1>1. QED BY TracedConfirms, TracedInvariance, PTL

\* The same for summaries: a flow of _summarize_function is one that some
\* walk takes, from the parameter or the source it names to the value that is
\* returned or to the sink.
THEOREM NothingInvented ==
  ASSUME \A p \in Programs : Traceable(p)
  PROVE  WalkSpec /\ []IsClosed(Reachable) => []NoInventedFlow
<1>1. QED BY TracedConfirms, TracedInvariance, PTL

-----------------------------------------------------------------------------
(***************************************************************************)
(* Functions without loops.  The cap stops no analysis of one of these, so *)
(* that the promise holds of them without a hypothesis on it.              *)
(***************************************************************************)
LoopFreeSound ==
  /\ IInv /\ OnePass /\ prog \in Programs
  /\ Forward(prog) => Replays /\ Answered /\ Walking /\ MarkersHeaded /\ WalkHeaded

\* All of it holds as long as no cap is met, and none is.
LEMMA LoopFreeInvariance ==
  ASSUME \A p \in Programs : Precise(p)
  PROVE  WalkSpec => []LoopFreeSound
<1>1. WalkInit => LoopFreeSound
  <2> SUFFICES ASSUME WalkInit PROVE LoopFreeSound
    OBVIOUS
  <2>1. Init /\ walk.on = FALSE
    BY DEF WalkInit, NoWalk
  <2>2. QED BY <2>1, InitSettled, InitHeaded, OnePassInit
              DEF Init, Replays, Answered, Walking, WalkHeaded, LoopFreeSound
<1>2. LoopFreeSound /\ [WalkNext]_walkVars => LoopFreeSound'
  <2> SUFFICES ASSUME LoopFreeSound, [WalkNext]_walkVars PROVE LoopFreeSound'
    OBVIOUS
  <2>1. [Next]_vars
    BY DEF WalkNext, walkVars, Analyse, Enter, Run, Branch
  <2>2. prog' = prog
    BY <2>1 DEF Next, Pop, Execute, Leave, Stop, Emit, NextBlock, Return, vars
  <2>3. TypeOK /\ IInv /\ OnePass
    BY DEF LoopFreeSound, IInv
  <2>4. IInv' /\ OnePass'
    BY <2>1, <2>3, IInvStep, OnePassStep
  <2>5. ASSUME Forward(prog')
        PROVE  Replays' /\ Answered' /\ Walking' /\ MarkersHeaded' /\ WalkHeaded'
    <3>1. Forward(prog)
      BY <2>2, <2>5
    <3>2. CapIsSafetyNet /\ CapIsSafetyNet'
      <4>1. CapIsSafetyNet
        BY <2>3, <3>1, OnePassSafe
      <4>2. OnePass' => (Forward(prog)' => CapIsSafetyNet')
        BY OnePassSafe, PTL
      <4>3. QED BY <2>4, <2>5, <4>1, <4>2
    <3>3. Replays /\ Answered /\ Walking /\ MarkersHeaded /\ WalkHeaded
      BY <3>1 DEF LoopFreeSound
    <3>4. Replays' /\ Answered' /\ MarkersHeaded'
      BY <2>1, <2>3, <3>2, <3>3, IInvStep, ReplaysStep, AnsweredStep, MarkersHeadedStep
    <3>5. prog \in Programs
      BY DEF LoopFreeSound
    <3>6. QED BY <2>3, <2>4, <3>2, <3>3, <3>4, <3>5, WalkingStep, WalkHeadedStep
  <2>6. prog' \in Programs
    BY <2>2 DEF LoopFreeSound
  <2>7. QED BY <2>4, <2>5, <2>6 DEF LoopFreeSound
<1>3. QED BY <1>1, <1>2, PTL DEF WalkSpec

\* Nothing is missed in a function without loops, nor forgotten in its
\* summary: for these NothingMissed and NoFlowForgotten hold with no hypothesis
\* on the bound on visits.
THEOREM LoopFreeMissesNothing ==
  ASSUME \A p \in Programs : Precise(p)
  PROVE  WalkSpec => [](Forward(prog) => NoMissedFlow /\ SummaryComplete)
<1>1. LoopFreeSound => (Forward(prog) => NoMissedFlow /\ SummaryComplete)
  BY WalkingReported, WalkingSummarized DEF LoopFreeSound
<1>2. QED BY <1>1, LoopFreeInvariance, PTL

(***************************************************************************)
(* Nor does the converse need its hypothesis, as soon as WalkRounds covers *)
(* the longest way through the function: where nothing leads back, all     *)
(* that a round adds lies further on than what the round before added.     *)
(***************************************************************************)
OneRound(places) == places \cup UNION {NextPlaces(q) : q \in places}

AreRounds(h, n) == h = [k \in 0..n |-> IF k = 0 THEN Entered ELSE OneRound(h[k - 1])]

\* The recursion of Reachable has a solution.
LEMMA RoundsExist ==
  ASSUME NEW n \in Nat
  PROVE  \E h : AreRounds(h, n)
<1> DEFINE wrong == {k \in Nat : ~ \E h : AreRounds(h, k)}
<1> SUFFICES ASSUME wrong # {} PROVE FALSE
  OBVIOUS
<1>1. PICK k \in wrong : \A j \in wrong : k <= j
  <2>1. wrong \in SUBSET Nat
    OBVIOUS
  <2> HIDE DEF wrong
  <2>2. QED BY <2>1, LeastNumber
<1>2. k # 0
  <2> DEFINE h == [j \in 0..0 |-> Entered]
  <2>1. h = [j \in 0..0 |-> IF j = 0 THEN Entered ELSE OneRound(h[j - 1])]
    OBVIOUS
  <2> HIDE DEF h
  <2>2. AreRounds(h, 0)
    BY <2>1 DEF AreRounds
  <2>3. QED BY <1>1, <2>2
<1>3. k \in Nat /\ k - 1 \in Nat /\ ~ (k <= k - 1)
  BY <1>1, <1>2
<1>4. PICK g : AreRounds(g, k - 1)
  BY <1>1, <1>3
<1> DEFINE h == [j \in 0..k |-> IF j = k THEN OneRound(g[k - 1]) ELSE g[j]]
<1>5. ASSUME NEW j \in 0..k
      PROVE  h[j] = IF j = 0 THEN Entered ELSE OneRound(h[j - 1])
  <2>1. \A i \in 0..(k - 1) : g[i] = IF i = 0 THEN Entered ELSE OneRound(g[i - 1])
    BY <1>4, Zenon DEF AreRounds
  <2>2. \A i \in 0..(k - 1) : i \in 0..k /\ i # k /\ h[i] = g[i]
    BY <1>3
  <2>3. CASE j = k
    <3>1. h[j] = OneRound(g[k - 1]) /\ k - 1 \in 0..(k - 1)
      BY <1>3, <2>3
    <3>2. h[k - 1] = g[k - 1]
      BY <2>2, <3>1
    <3> HIDE DEF h
    <3>3. QED BY <1>2, <2>3, <3>1, <3>2
  <2>4. CASE j # k
    <3>1. j \in 0..(k - 1) /\ (j # 0 => j - 1 \in 0..(k - 1))
      BY <1>3, <2>4
    <3> HIDE DEF h
    <3>2. QED BY <2>1, <2>2, <3>1
  <2>5. QED BY <2>3, <2>4
<1>6. h = [j \in 0..k |-> IF j = 0 THEN Entered ELSE OneRound(h[j - 1])]
  <2>1. h = [j \in 0..k |-> h[j]]
    OBVIOUS
  <2> HIDE DEF h
  <2>2. QED BY <1>5, <2>1
<1> HIDE DEF h
<1>7. AreRounds(h, k)
  BY <1>6 DEF AreRounds
<1>8. QED BY <1>1, <1>7

\* And Reachable is where it ends.
LEMMA ReachableRounds ==
  \E h : /\ h[0] = Entered
         /\ \A k \in 1..WalkRounds : h[k] = OneRound(h[k - 1])
         /\ Reachable = h[WalkRounds]
<1> DEFINE h == CHOOSE g : AreRounds(g, WalkRounds)
<1>1. AreRounds(h, WalkRounds)
  BY RoundsExist, WalkRoundsAssumption
<1>2. Reachable = h[WalkRounds]
  BY DEF Reachable, AreRounds, OneRound
<1> HIDE DEF h
<1>3. \A k \in 0..WalkRounds : h[k] = IF k = 0 THEN Entered ELSE OneRound(h[k - 1])
  BY <1>1, Zenon DEF AreRounds
<1>4. 0 \in 0..WalkRounds /\ \A k \in 1..WalkRounds : k \in 0..WalkRounds /\ k # 0
  BY WalkRoundsAssumption
<1>5. QED BY <1>2, <1>3, <1>4

\* No block has m statements, and WalkRounds lets the reference take m steps
\* in each.
Fits(p) ==
  \E m \in Nat : p.n * m <= WalkRounds /\ \A b \in BlocksOf(p) : Len(p.stmts[b]) < m

\* How far a place is from the beginning of the function.
Distance(q, m) == q.blk * m + q.pos

IsPlaceOf(q) == q.blk \in Blocks /\ q.pos \in 1..(Len(prog.stmts[q.blk]) + 1)

\* What a round adds is at least as far as the round is late.
Advanced(places, k, m) ==
  /\ Entered \subseteq places
  /\ \A q \in places :
       IsPlaceOf(q) /\ (Distance(q, m) > k \/ NextPlaces(q) \subseteq places)

\* These are numbers.
LEMMA PlaceNumbers ==
  ASSUME IsProgram(prog), NEW m \in Nat, NEW q, IsPlaceOf(q)
  PROVE  /\ prog.n \in Nat /\ q.blk \in Nat /\ q.blk < prog.n /\ q.blk * m \in Nat
         /\ Len(prog.stmts[q.blk]) \in Nat /\ DOMAIN prog.stmts[q.blk] = 1..Len(prog.stmts[q.blk])
         /\ q.pos \in Nat /\ q.pos <= Len(prog.stmts[q.blk]) + 1 /\ Distance(q, m) \in Nat
<1>1. /\ prog.n \in Nat /\ q.blk \in 0..(prog.n - 1)
      /\ prog.stmts[q.blk] \in Seq(Stmt) /\ q.pos \in 1..(Len(prog.stmts[q.blk]) + 1)
  BY CapSuffices DEF IsProgram, Blocks, BlocksOf, IsPlaceOf
<1>2. q.blk \in Nat /\ q.blk < prog.n /\ q.blk * m \in Nat
  BY <1>1
<1> DEFINE n == Len(prog.stmts[q.blk])
           a == q.blk * m
<1>3. n \in Nat /\ DOMAIN prog.stmts[q.blk] = 1..n /\ q.pos \in 1..(n + 1) /\ Distance(q, m) = a + q.pos
  BY <1>1 DEF Distance
<1> HIDE DEF n, a
<1>4. q.pos \in Nat /\ q.pos <= n + 1
  BY <1>3
<1>5. a \in Nat
  BY <1>2 DEF a
<1>6. Distance(q, m) \in Nat
  BY <1>3, <1>4, <1>5
<1>7. QED BY <1>1, <1>2, <1>3, <1>4, <1>6 DEF n

\* The next block is at a multiple of m that is higher.
LEMMA BlocksApart ==
  ASSUME NEW a \in Nat, NEW b \in Nat, a < b, NEW m \in Nat
  PROVE  a * m \in Nat /\ a * m + m <= b * m
<1> DEFINE d == b - (a + 1)
<1>1. d \in Nat /\ b = a + 1 + d
  OBVIOUS
<1>2. a * m \in Nat /\ d * m \in Nat
  BY <1>1
<1> HIDE DEF d
<1>3. (a + 1 + d) * m = a * m + m + d * m
  BY <1>1
<1>4. QED BY <1>1, <1>2, <1>3

\* Every step of a walk leads further.
LEMMA StepFurther ==
  ASSUME IsProgram(prog), Forward(prog), NEW m \in Nat,
         \A b \in Blocks : Len(prog.stmts[b]) < m,
         NEW q, IsPlaceOf(q), NEW r \in NextPlaces(q)
  PROVE  IsPlaceOf(r) /\ Distance(r, m) > Distance(q, m)
<1>1. /\ q.blk \in Nat /\ q.pos \in Nat /\ q.blk \in Blocks /\ prog.succ[q.blk] \subseteq Blocks
      /\ Len(prog.stmts[q.blk]) \in Nat /\ DOMAIN prog.stmts[q.blk] = 1..Len(prog.stmts[q.blk])
      /\ q.pos <= Len(prog.stmts[q.blk]) + 1
  BY PlaceNumbers DEF IsProgram, Blocks, BlocksOf, IsPlaceOf
<1>2. CASE InBlock(q)
  <2>1. r.blk = q.blk /\ r.pos = q.pos + 1
    BY <1>2 DEF NextPlaces, WalkAt
  <2>2. q.pos \in 1..Len(prog.stmts[q.blk])
    BY <1>1, <1>2 DEF InBlock, IsPlaceOf
  <2>3. IsPlaceOf(r)
    <3> DEFINE n == Len(prog.stmts[q.blk])
    <3>1. n \in Nat /\ q.pos \in 1..n /\ r.pos = q.pos + 1
      BY <1>1, <2>1, <2>2
    <3> HIDE DEF n
    <3>2. r.pos \in 1..(n + 1)
      BY <3>1
    <3>3. QED BY <1>1, <2>1, <3>2 DEF IsPlaceOf, n
  <2>4. q.blk * m \in Nat
    BY <1>1
  <2> DEFINE base == q.blk * m
  <2>5. Distance(r, m) = base + r.pos /\ Distance(q, m) = base + q.pos
    BY <2>1 DEF Distance
  <2> HIDE DEF base
  <2>6. QED BY <1>1, <2>1, <2>3, <2>4, <2>5 DEF base
<1>3. CASE ~ InBlock(q)
  <2>1. r.blk \in prog.succ[q.blk] /\ r.pos = 1
    BY <1>3 DEF NextPlaces, WalkAt
  <2>2. r.blk \in Blocks /\ q.blk < r.blk
    BY <1>1, <2>1 DEF Forward, Blocks
  <2>3. IsPlaceOf(r)
    <3>1. prog.stmts[r.blk] \in Seq(Stmt)
      BY <2>2 DEF IsProgram, Blocks, BlocksOf
    <3>2. Len(prog.stmts[r.blk]) \in Nat
      BY <3>1
    <3>3. QED BY <2>1, <2>2, <3>2 DEF IsPlaceOf
  <2>4. r.blk \in Nat /\ r.blk * m \in Nat
    BY <2>3, PlaceNumbers
  <2>5. q.blk * m \in Nat /\ q.blk * m + m <= r.blk * m
    BY <1>1, <2>2, <2>4, BlocksApart
  <2>6. q.pos <= m
    <3>1. Len(prog.stmts[q.blk]) < m
      BY <1>1
    <3>2. QED BY <1>1, <3>1
  <2> DEFINE a == q.blk * m
             c == r.blk * m
  <2>7. Distance(r, m) = c + 1 /\ Distance(q, m) = a + q.pos
    BY <2>1 DEF Distance
  <2>8. a \in Nat /\ c \in Nat /\ a + m <= c
    BY <2>4, <2>5
  <2> HIDE DEF a, c
  <2>9. Distance(r, m) > Distance(q, m)
    BY <1>1, <2>6, <2>7, <2>8
  <2>10. QED BY <2>3, <2>9
<1>4. QED BY <1>2, <1>3

\* Round by round.
LEMMA AdvancedStep ==
  ASSUME IsProgram(prog), Forward(prog), NEW m \in Nat,
         \A b \in Blocks : Len(prog.stmts[b]) < m,
         NEW k \in Nat, NEW places, Advanced(places, k, m)
  PROVE  Advanced(OneRound(places), k + 1, m)
<1>1. ASSUME NEW q \in OneRound(places)
      PROVE  /\ IsPlaceOf(q)
             /\ Distance(q, m) > k + 1 \/ NextPlaces(q) \subseteq OneRound(places)
  <2>1. CASE q \in places
    BY <2>1 DEF Advanced, OneRound
  <2>2. CASE q \notin places
    <3>1. PICK o \in places : q \in NextPlaces(o)
      BY <2>2 DEF OneRound
    <3>2. IsPlaceOf(o) /\ Distance(o, m) > k
      BY <2>2, <3>1 DEF Advanced
    <3>3. IsPlaceOf(q) /\ Distance(q, m) > Distance(o, m)
      BY <3>1, <3>2, StepFurther
    <3>4. Distance(o, m) \in Nat /\ Distance(q, m) \in Nat
      BY <3>2, <3>3, PlaceNumbers
    <3>5. QED BY <3>2, <3>3, <3>4
  <2>3. QED BY <2>1, <2>2
<1>2. Entered \subseteq OneRound(places)
  BY DEF Advanced, OneRound
<1>3. QED BY <1>1, <1>2 DEF Advanced

\* In the end there is nothing further to lead to.
LEMMA ReachableClosed ==
  ASSUME IsProgram(prog), Forward(prog), Fits(prog)
  PROVE  IsClosed(Reachable)
<1>1. PICK m \in Nat : /\ prog.n * m <= WalkRounds
                       /\ \A b \in Blocks : Len(prog.stmts[b]) < m
  BY DEF Fits, Blocks
<1>2. PICK h : /\ h[0] = Entered
               /\ \A k \in 1..WalkRounds : h[k] = OneRound(h[k - 1])
               /\ Reachable = h[WalkRounds]
  BY ReachableRounds
<1> DEFINE wrong == {k \in 0..WalkRounds : ~ Advanced(h[k], k, m)}
<1>3. wrong = {}
  <2> SUFFICES ASSUME wrong # {} PROVE FALSE
    OBVIOUS
  <2>1. PICK k \in wrong : \A j \in wrong : k <= j
    <3>1. wrong \in SUBSET Nat
      BY WalkRoundsAssumption
    <3> HIDE DEF wrong
    <3>2. QED BY <3>1, LeastNumber
  <2>2. k # 0
    <3>1. ASSUME NEW q \in Entered
          PROVE  IsPlaceOf(q) /\ Distance(q, m) > 0
      <4>1. q.blk = prog.entry /\ q.pos = 1
        <5>1. \A f : WalkAt(prog.entry, 1, f).blk = prog.entry /\ WalkAt(prog.entry, 1, f).pos = 1
          BY DEF WalkAt
        <5>2. QED BY <3>1, <5>1 DEF Entered
      <4>2. prog.entry \in Blocks /\ prog.stmts[prog.entry] \in Seq(Stmt)
        BY DEF IsProgram, Blocks, BlocksOf
      <4>3. Len(prog.stmts[prog.entry]) \in Nat
        BY <4>2
      <4>4. IsPlaceOf(q)
        BY <4>1, <4>2, <4>3 DEF IsPlaceOf
      <4>5. q.blk * m \in Nat
        BY <4>4, PlaceNumbers
      <4>6. QED BY <4>1, <4>4, <4>5 DEF Distance
    <3>2. Advanced(h[0], 0, m)
      BY <1>2, <3>1 DEF Advanced
    <3>3. QED BY <2>1, <3>2
  <2>3. k \in 1..WalkRounds /\ k - 1 \in 0..WalkRounds /\ ~ (k <= k - 1) /\ (k - 1) + 1 = k /\ k - 1 \in Nat
    BY <2>1, <2>2, WalkRoundsAssumption
  <2>4. Advanced(h[k - 1], k - 1, m)
    BY <2>1, <2>3
  <2>5. Advanced(OneRound(h[k - 1]), k, m)
    BY <1>1, <2>3, <2>4, AdvancedStep
  <2>6. QED BY <1>2, <2>1, <2>3, <2>5
<1>4. Advanced(Reachable, WalkRounds, m)
  BY <1>2, <1>3, WalkRoundsAssumption
<1>5. ASSUME NEW q, IsPlaceOf(q)
      PROVE  ~ (Distance(q, m) > WalkRounds)
  <2>1. prog.n \in Nat /\ q.blk \in Nat /\ q.blk < prog.n /\ q.pos \in Nat /\ q.pos <= m
    <3>1. Len(prog.stmts[q.blk]) < m
      BY <1>1, <1>5 DEF IsPlaceOf
    <3>2. /\ prog.n \in Nat /\ q.blk \in Nat /\ q.blk < prog.n /\ Len(prog.stmts[q.blk]) \in Nat
          /\ q.pos \in Nat /\ q.pos <= Len(prog.stmts[q.blk]) + 1
      BY <1>5, PlaceNumbers
    <3>3. QED BY <3>1, <3>2
  <2> DEFINE a == q.blk * m
             c == prog.n * m
  <2>2. a \in Nat /\ a + m <= c /\ c \in Nat
    BY <2>1, BlocksApart
  <2>3. Distance(q, m) = a + q.pos /\ c <= WalkRounds
    BY <1>1 DEF Distance
  <2> HIDE DEF a, c
  <2>4. QED BY <2>1, <2>2, <2>3, WalkRoundsAssumption
<1>6. QED BY <1>4, <1>5 DEF Advanced, IsClosed

\* Nothing is invented in a function without loops, as soon as WalkRounds is
\* large enough to follow its walks: for these NothingSpurious and
\* NothingInvented hold with no hypothesis on Reachable.
THEOREM LoopFreeInventsNothing ==
  ASSUME \A p \in Programs : Traceable(p)
  PROVE  WalkSpec => [](Forward(prog) /\ Fits(prog) => NoSpuriousFinding /\ NoInventedFlow)
<1>1. TypeOK /\ Traceability => (Forward(prog) /\ Fits(prog) => NoSpuriousFinding /\ NoInventedFlow)
  <2> SUFFICES ASSUME TypeOK, Traceability, Forward(prog), Fits(prog)
               PROVE  NoSpuriousFinding /\ NoInventedFlow
    OBVIOUS
  <2>1. IsClosed(Reachable)
    BY ReachableClosed DEF TypeOK
  <2>2. QED BY <2>1, TracedConfirms
<1>2. QED BY <1>1, TracedInvariance, PTL

=============================================================================
