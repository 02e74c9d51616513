----------------------------- MODULE TaintWalk -----------------------------
(***************************************************************************)
(* What the analysis of one function promises: a tainted value that some   *)
(* execution carries from where it arises to a sink (or, in a summary,     *)
(* from a parameter to the return value) is reported, by a witness at      *)
(* least as good as the path it took.                                      *)
(*                                                                         *)
(* The execution is a walk through the control flow graph that carries one *)
(* fact, "the value at this path is tainted for this detector, through     *)
(* these steps".  It knows no environment, no join, no merging of labels   *)
(* and no bound on the length of a path.  What a statement does to the     *)
(* fact is what the reference of the engine (docs/engine-reference.md,     *)
(* sections 2 and 3) says of the kinds of expressions and of calls.        *)
(***************************************************************************)
EXTENDS Dataflow, Functions

CONSTANTS
  WalkBound,  \* the longest chain a walk follows (it bounds loops)
  WalkRounds  \* how many steps of all walks at once Reachable follows

VARIABLE walk  \* the walk under way: its place and the fact it carries

walkVars == <<vars, walk>>

ASSUME WalkRoundsAssumption == WalkRounds \in Nat

\* The base of no variable.
ASSUME NowhereAssumption == NoSpec \notin Base

\* The place of a value that no variable holds yet.
Nowhere == [base |-> NoSpec, steps |-> <<>>]

Clean == [path |-> Nowhere, spec |-> NoSpec, chain |-> <<>>]

Carries(f) == f.spec # NoSpec

\* Reading a path sees a taint of the value at it or of one that holds it;
\* a source operand is the fact that arises at it.
Reads(a, f) ==
  CASE a.kind = "path"   -> IsPrefixOf(f.path, a.path)
    [] a.kind = "source" -> f.spec \in a.sources /\ f.chain = <<<<SourceRole, a.loc>>>>
    [] OTHER             -> FALSE

CallReads(call, n, f) ==
  IF n = 0 THEN Reads(call.receiver, f)
  ELSE n \in DOMAIN call.args /\ Reads(call.args[n], f)

CallReadsAny(call, f) ==
  \/ Reads(call.receiver, f)
  \/ \E i \in DOMAIN call.args : Reads(call.args[i], f)
  \/ \E i \in DOMAIN call.kwargs : Reads(call.kwargs[i], f)

\* The summary splices the callee's part of the path after the call.
Spliced(f, call, flow) == Append(f.chain, CallStep(call)) \o flow.fragment

(***************************************************************************)
(* The chains by which the fact comes out of a call: cleaned by a          *)
(* sanitizer of its own detector (a parameter, which stands for the taint  *)
(* of any detector, by one of each), moved by a propagator, continued by   *)
(* the summary of a function of the file, passed through by a str method   *)
(* or by a callee of which the detector says nothing.                      *)
(***************************************************************************)
CleansAll(call) == call.sanitizes # {} /\ DetectorId \subseteq call.sanitizes

Cleaned(call, f) == IF f.spec \in Marker THEN CleansAll(call) ELSE f.spec \in call.sanitizes

Continued(call, f) ==
  IF Cleaned(call, f) THEN {}
  ELSE {Spliced(f, call, flow) :
          flow \in {g \in FlowsOf(call, prog.summaries) :
                      g.src = "param" /\ g.dst = "return" /\ CallReads(call, g.index, f)}}
       \cup (IF \/ \E n \in call.moves : CallReads(call, n, f)
                \/ /\ \/ call.strMethod
                      \/ call.callee \notin DOMAIN prog.summaries /\ ~ call.propagator
                   /\ CallReadsAny(call, f)
             THEN {f.chain} ELSE {})

\* The facts that a statement's value carries because of fact f.
ValueOf(stmt, f) ==
  LET e == stmt.value
  IN  CASE e.op = "drop"  -> {}
        [] e.op = "union" -> IF \E i \in DOMAIN e.args : Reads(e.args[i], f)
                             THEN {[spec |-> f.spec, chain |-> f.chain]} ELSE {}
        [] e.op = "call"  -> {[spec |-> f.spec, chain |-> c] : c \in Continued(e.call, f)}

OperandsOf(e) ==
  IF e.op = "call" THEN Range(e.call.args) \cup Range(e.call.kwargs) \cup {e.call.receiver}
                   ELSE Range(e.args)

\* The facts that arise at the operands of a statement.
Fresh(stmt) ==
  UNION {{[path |-> Nowhere, spec |-> d, chain |-> <<<<SourceRole, a.loc>>>>] : d \in a.sources}
         : a \in {b \in OperandsOf(stmt.value) : b.kind = "source"}}

Present(stmt, f) == Fresh(stmt) \cup (IF Carries(f) THEN {f} ELSE {})

\* The facts that the value of a call introduces.
Introduced(stmt) ==
  IF stmt.value.op # "call" THEN {}
  ELSE LET call == stmt.value.call
       IN  {[spec |-> d, chain |-> <<<<SourceRole, call.loc>>>>] : d \in call.sources}
           \cup {[spec |-> g.spec, chain |-> Append(g.fragment, CallStep(call))] :
                   g \in {h \in FlowsOf(call, prog.summaries) :
                           h.src = "source" /\ h.dst = "return" /\ h.spec \notin call.sanitizes}}

Values(stmt, f) == Introduced(stmt) \cup UNION {ValueOf(stmt, g) : g \in Present(stmt, f)}

(***************************************************************************)
(* After a statement the fact is where it was, unless the statement has    *)
(* rebound the path, or it has moved with the value to a target.  An       *)
(* augmented assignment rebinds nothing, nor does one to some element of a *)
(* container, in which the other elements stay.                            *)
(***************************************************************************)
Survives(stmt, f) ==
  stmt.aug \/ \A i \in DOMAIN stmt.targets \ stmt.dynamic : ~ IsPrefixOf(stmt.targets[i], f.path)

Bound(stmt) ==
  {stmt.targets[i] : i \in {j \in DOMAIN stmt.targets :
     \A k \in DOMAIN stmt.targets \ stmt.dynamic :
       k > j => ~ IsPrefixOf(stmt.targets[k], stmt.targets[j])}}

After(stmt, f) ==
  {[path |-> p, spec |-> v.spec, chain |-> v.chain] : p \in Bound(stmt), v \in Values(stmt, f)}
  \cup (IF Survives(stmt, f) THEN {f} ELSE {})
  \cup (IF Carries(f) THEN {} ELSE {Clean})

-----------------------------------------------------------------------------
NoWalk == [on |-> FALSE]

WalkAt(b, i, f) == [on |-> TRUE, blk |-> b, pos |-> i, fact |-> f]

EntryFacts ==
  UNION {{[path |-> p, spec |-> l.spec, chain |-> l.chain] : l \in prog.entryEnv[p]}
         : p \in AccessPath}

WalkInit == Init /\ walk = NoWalk

Analyse == Next /\ walk' = walk

Enter ==
  /\ phase = "done" /\ ~ walk.on
  /\ \E f \in EntryFacts \cup {Clean} : walk' = WalkAt(prog.entry, 1, f)
  /\ UNCHANGED vars

Run ==
  /\ walk.on
  /\ walk.pos \in DOMAIN prog.stmts[walk.blk]
  /\ \E f \in After(prog.stmts[walk.blk][walk.pos], walk.fact) :
       /\ Len(f.chain) <= WalkBound
       /\ walk' = WalkAt(walk.blk, walk.pos + 1, f)
  /\ UNCHANGED vars

Branch ==
  /\ walk.on
  /\ walk.pos \notin DOMAIN prog.stmts[walk.blk]
  /\ \E b \in prog.succ[walk.blk] : walk' = WalkAt(b, 1, walk.fact)
  /\ UNCHANGED vars

WalkNext == Analyse \/ Enter \/ Run \/ Branch

WalkSpec == WalkInit /\ [][WalkNext]_walkVars

\* The analysis is one thread of straight-line code between two loop heads:
\* nothing blocks it.  Nothing obliges the walk to go on.
FairWalkSpec == WalkSpec /\ WF_vars(Analyse)

-----------------------------------------------------------------------------
(***************************************************************************)
(* Where the walk stands a tainted value may reach a sink: a checked       *)
(* argument reads the fact, or the callee's summary leads it to a sink.    *)
(***************************************************************************)
SinkHits(call, f) ==
  {[spec |-> f.spec, sink |-> call.loc, witness |-> Append(f.chain, SinkStep(call))] :
     s \in {t \in call.sinks : t.spec = f.spec /\ \E i \in t.args : CallReads(call, i, f)}}
  \cup
  {[spec |-> f.spec, sink |-> flow.loc, witness |-> Spliced(f, call, flow)] :
     flow \in {g \in FlowsOf(call, prog.summaries) :
                 g.dst = "sink" /\ g.spec = f.spec /\ CallReads(call, g.index, f)}}

Hits(stmt, f) ==
  IF stmt.value.op = "call"
  THEN UNION {SinkHits(stmt.value.call, g) : g \in Present(stmt, f)}
  ELSE {}

AtStmt == walk.on /\ walk.pos \in DOMAIN prog.stmts[walk.blk]

StmtHere == prog.stmts[walk.blk][walk.pos]

\* The promise for findings (engine/taint.py): every way a tainted value
\* takes to a sink is reported, by a witness that is no worse.
NoMissedFlow ==
  AtStmt /\ prog.kind = "engine" =>
    \A hit \in Hits(StmtHere, walk.fact) :
      \E f \in result : /\ f.spec = hit.spec /\ f.sink = hit.sink
                        /\ ~ BetterChain(hit.witness, f.witness)

\* The promise for summaries (engine/summaries.py): every way a parameter
\* takes to a returned value or to a sink call is a flow of the summary, with
\* a fragment that is no worse.
SummaryComplete ==
  AtStmt /\ prog.kind = "summary" =>
    \A f \in Present(StmtHere, walk.fact) : f.spec \in Marker =>
      /\ StmtHere.returns =>
           \A v \in ValueOf(StmtHere, f) :
             \E r \in result : /\ r.src = "param" /\ r.index = ParamOf[f.spec]
                               /\ r.dst = "return"
                               /\ ~ BetterChain(Tail(v.chain), r.fragment)
      /\ StmtHere.value.op = "call" =>
           LET call == StmtHere.value.call
           IN  \A s \in call.sinks :
                 (\E i \in s.args : CallReads(call, i, f)) =>
                   \E r \in result :
                     /\ r.src = "param" /\ r.index = ParamOf[f.spec]
                     /\ r.dst = "sink" /\ r.spec = s.spec /\ r.loc = call.loc
                     /\ ~ BetterChain(Append(Tail(f.chain), SinkStep(call)), r.fragment)

-----------------------------------------------------------------------------
(***************************************************************************)
(* All walks at once: the places that some walk reaches, with the origin   *)
(* of a chain in place of the chain, so that a loop adds only so many.     *)
(***************************************************************************)
Origin(fact) == [fact EXCEPT !.chain = IF @ = <<>> THEN <<>> ELSE <<@[1]>>]

Entered == {WalkAt(prog.entry, 1, Origin(f)) : f \in EntryFacts \cup {Clean}}

InBlock(q) == q.pos \in DOMAIN prog.stmts[q.blk]

StmtAt(q) == prog.stmts[q.blk][q.pos]

NextPlaces(q) ==
  IF InBlock(q)
  THEN {WalkAt(q.blk, q.pos + 1, Origin(f)) : f \in After(StmtAt(q), q.fact)}
  ELSE {WalkAt(b, 1, q.fact) : b \in prog.succ[q.blk]}

IsClosed(places) == Entered \subseteq places /\ \A q \in places : NextPlaces(q) \subseteq places

Reachable ==
  LET upTo[n \in 0..WalkRounds] ==
        IF n = 0 THEN Entered
        ELSE LET places == upTo[n - 1] IN places \cup UNION {NextPlaces(q) : q \in places}
  IN  upTo[WalkRounds]

\* The converse of NoMissedFlow: a finding is reported only where some walk
\* carries a value tainted for its detector from its source to its sink
\* (reassignment and sanitizers do remove taint).
NoSpuriousFinding ==
  phase = "done" /\ ~ walk.on /\ prog.kind = "engine" =>
    \A r \in result : \E q \in Reachable :
      InBlock(q) /\ \E hit \in Hits(StmtAt(q), q.fact) :
        hit.spec = r.spec /\ hit.sink = r.sink /\ hit.witness[1] = r.witness[1]

\* The value a statement returns has the flow r of a summary.
Returned(stmt, f, r) ==
  /\ stmt.returns /\ r.dst = "return"
  /\ \E v \in Values(stmt, f) :
       IF v.spec \in Marker THEN r.src = "param" /\ r.index = ParamOf[v.spec]
       ELSE r.src = "source" /\ r.spec = v.spec /\ r.fragment[1] = v.chain[1]

\* A checked argument of a sink call has it.
Sunk(stmt, f, r) ==
  /\ stmt.value.op = "call" /\ r.dst = "sink" /\ r.src = "param" /\ r.loc = stmt.value.call.loc
  /\ \E s \in stmt.value.call.sinks, g \in Present(stmt, f) :
       /\ s.spec = r.spec /\ g.spec \in Marker /\ r.index = ParamOf[g.spec]
       /\ \E i \in s.args : CallReads(stmt.value.call, i, g)

\* The converse of SummaryComplete: a summary has no flow that no walk takes.
NoInventedFlow ==
  phase = "done" /\ ~ walk.on /\ prog.kind = "summary" =>
    \A r \in result : \E q \in Reachable :
      InBlock(q) /\ (Returned(StmtAt(q), q.fact, r) \/ Sunk(StmtAt(q), q.fact, r))

-----------------------------------------------------------------------------
(***************************************************************************)
(* The promise is kept outside the places where the engine is known not to *)
(* do what its reference says (MCDisagreements has an example of each): a  *)
(* sanitizer of some of the detectors only, where nothing else continues   *)
(* the taint; a write below the cap, to an element of a container, or by   *)
(* an augmented assignment to a value one of whose members the function    *)
(* also writes.                                                            *)
(***************************************************************************)
Places(p) ==
  {q \in AccessPath : p.entryEnv[q] # {}}
  \cup UNION {UNION {Range(p.stmts[b][i].targets) : i \in DOMAIN p.stmts[b]} : b \in BlocksOf(p)}

SanitizesAllOrNone(p, call) ==
  call.strMethod \/ call.propagator \/ call.callee \in DOMAIN p.summaries
    \/ call.sanitizes \in {{}, DetectorId}

WritesWhole(p, stmt) ==
  /\ stmt.dynamic = {}
  /\ \A i \in DOMAIN stmt.targets : Len(stmt.targets[i].steps) <= STEPS_CAP
  /\ stmt.aug =>
       /\ DOMAIN stmt.targets = {1}
       /\ \A t \in Places(p) : IsPrefixOf(stmt.targets[1], t) => t = stmt.targets[1]

Precise(p) ==
  \A b \in BlocksOf(p) : \A i \in DOMAIN p.stmts[b] :
    LET stmt == p.stmts[b][i]
    IN  /\ WritesWhole(p, stmt)
        /\ stmt.value.op = "call" => SanitizesAllOrNone(p, stmt.value.call)

(***************************************************************************)
(* The converse is kept outside these: a block that nothing leads to, which*)
(* the engine analyses all the same; a write below the cap, which taints   *)
(* its siblings; in a summary, a sanitizer of every detector that is known *)
(* to hand on what it is given.                                            *)
(***************************************************************************)
AllReached(p) ==
  \A bs \in SUBSET BlocksOf(p) :
    p.entry \in bs /\ (\A b \in bs : p.succ[b] \subseteq bs) => bs = BlocksOf(p)

CleansForAll(p, call) ==
  CleansAll(call) =>
    ~ call.strMethod /\ call.moves = {} /\ call.callee \notin DOMAIN p.summaries

Traceable(p) ==
  /\ AllReached(p)
  /\ \A b \in BlocksOf(p) : \A i \in DOMAIN p.stmts[b] :
       LET stmt == p.stmts[b][i]
       IN  /\ \A j \in DOMAIN stmt.targets : Len(stmt.targets[j].steps) <= STEPS_CAP
           /\ stmt.aug => DOMAIN stmt.targets = {1}
           /\ p.kind = "summary" /\ stmt.value.op = "call" => CleansForAll(p, stmt.value.call)

=============================================================================
