# scanipy, formally

TLA+ specifications of [scanipy](../src/README.md), a static taint analyser for
Python: it parses a file, lowers it to an intermediate representation of basic
blocks, follows tainted values from sources to sinks through each function and,
by function summaries, through the functions of a file, and reports each flow
with a witness. The specifications cover the analysis, the lowering it rests on,
and the program around it, from the command line to the exit code; TLC checks
them on small instances, and TLAPS proves most of their safety properties for every
instance.

Paths below are relative to the package, `src/src/scanipy/`; `docs/` is
`src/docs/`.

## The system

    cli ── config ── registry ── dsl/parser          options, detectors
     │
    scanner.run_scan
     ├─ discovery                                    which files
     ├─ frontends/python_frontend ── resolver        file -> IRModule
     ├─ engine/taint.TaintEngine.analyze             IRModule -> findings
     │   ├─ engine/summaries.compute_summaries       (call graph, components, rounds)
     │   └─ analyze_function -> _run_dataflow, emission, _finalize
     │        └─ engine/propagation, taint_state, witness, matcher
     ├─ aggregate, compute_exit_code
     └─ reporting

Everything is sequential: one thread, no callbacks, nothing persisted. What is
hard is of another kind: fixpoints that must be reached within bounds, order of
visits, environments read after they have changed, two routines that must agree,
failures that must stay local, rules that overlap while a walk prunes, and
graphs that must have every path of the program they stand for.

| Component | State | Operations | What makes it correct | Hard because |
|---|---|---|---|---|
| taint lattice (`engine/taint_state.py`, `engine/witness.py`) | immutable environments | get, assign, join, better_chain | reads see every covering write; one best witness | collapsed paths; merging must be monotone |
| propagation (`engine/propagation.py`) | none | expr_taint, _call_taint, _apply_summary | taint follows values, per detector | seven rules of calls interact |
| dataflow engine (`engine/taint.py`) | worklist, in/out environments, collected findings | visit, emit, finalize | fixpoint; no flow missed, none invented | loops, joins, kills, the cap |
| summaries (`engine/summaries.py`) | summaries, round, changed | summarize, rounds over a cycle | exact, stable, independent of the order | recursion, mixed rounds, names |
| call graph (same file) | indices, lowlinks, stack, recursion | strongconnect | exact components, callees first | Tarjan's invariants |
| control flow graphs (`frontends/python_frontend.py`) | blocks, successors, loop stack | _emit_* | paths of the graph = executions | break, else, exceptions, finally |
| scopes and expressions (same file) | the scopes so far, the frontier of the walk | _collect_scopes, lower_expr, _qualname | every call in the function that makes it | indices given before the walk; what lowers to nothing |
| import resolution (`frontends/resolver.py`, `ir.py`) | import tables by scope | _collect_imports, resolve, canonical_dotted | a reference resolves to what it denotes | control flow, shadowing, classes |
| matcher (`engine/matcher.py`) | none | match | a pattern selects what the reference says | starred paths, positions, keywords |
| detector language (`dsl/parser.py`) | the check under way, aliases met | parse_spec, validate | accepts the language, blames what is wrong | thirty checks in order, YAML's aliases and types |
| registry (`registry.py`) | none | load_builtin_detectors, load_detector_specs | all detectors or an error | duplicates, invalid files |
| configuration (`config.py`) | none | find_config_file, load_file_config, merge_config | defaults < file < command line | two files, two readers, click's sources |
| discovery (`discovery.py`) | directories left, files found, rules | discover_python_files, _walk, _parse_gitignore | every file the rules leave, once for each path | pruning, the last rule wins, links, globs |
| scan driver (`scanner.py`) | findings, errors, counters | parse, analyse, aggregate, grade | isolation, dedup, honest exit code | two dedups, two thresholds |
| command line (`cli.py`) | the step under way | scan, rules list, show, validate | the exit code says what happened | errors at every step |
| reporting (`reporting/`) | none | text, JSON, SARIF | order of the findings | little |

The interactions that matter: the frontend's graph is what the engine walks; the
call graph decides in which order summaries exist when they are applied; the
import tables decide the callee paths that both the matcher and the call graph
see; the parser and the matcher must mean the same by a pattern; the options
decide which files and detectors a scan has; the engine's findings of one file
reach the report only through both dedups and the threshold.

## The modules

| Module | Models | Correspondence |
|---|---|---|
| `TaintState` | lattice, witnesses | an environment is a total function from capped access paths to label sets (an absent key is the empty set); a witness step is its role and location |
| `Propagation` | `expr_taint`, `_call_taint`, the transfer, sink detection, harvesting of flows | operators; expressions one operator deep, a nested one being a sequence of assignments; which patterns match is data of the call |
| `Dataflow` | `_run_dataflow` + `analyze_function` + `_finalize`, and `_function_fixpoint` + `_summarize_function` | `Pop`, `Execute`, `Leave`: one visit of the worklist; `Stop`: the end of the loop by its condition; `Emit`, `NextBlock`, `Return`: the second pass. A program of kind `engine` or `summary` selects the cap and what is collected |
| `ChaoticIteration` | the abstract specification of `Dataflow` | any block may be visited at any time; the answer comes from a solution, in one step |
| `TaintWalk` | what the engine promises (docs/engine-reference.md sections 2, 3) | after the analysis a walk carries one fact along the graph; it knows no environments, joins or caps. `Reachable` is all walks at once, for the converse: what is reported, a walk takes |
| `CallGraph` | `_reverse_topo_sccs` | the recursion is an explicit stack of frames; a step is one turn of strongconnect's loop or its end |
| `Summaries` | `compute_summaries`, `_summarize_scc`, name resolution | a summary is its parameter-to-return flow, by the length of its fragment; extends `CallGraph`, whose steps come first |
| `CFGBuilder` | `_CFGBuilder` | one operator for each `_emit_*` method; the graph under construction is threaded through |
| `CFGPaths` | Python's control flow, against the graph | two machines in lockstep: one leads, the other follows with all the places it can be in |
| `Lowering` | `_Lowerer`: scopes, import tables, qualnames, expressions, and the walk that finds their calls | `CollectScope`, `CollectOther`: a node of the frontier; `LowerScope`: a function gets its calls |
| `Imports` | the run of the file, against its lowering | the program runs statement by statement, a name is looked up as Python does; each call made records what it denotes |
| `Matcher` | `match` | operators: a pattern, with its positions and keywords, against a call or a reference |
| `SpecParser` | `parse_spec` | one action for each check, in the order of the code, over a graph of YAML nodes; the walk over metadata node by node |
| `DetectorLanguage` | docs/dsl-reference.md | what a legal text is, field by field, and what a pattern selects, independent of the parser and the matcher |
| `Config` | `find_config_file`, `load_file_config`, `merge_config`, and `_resolve_config` of `cli.py` | operators; a text is its kind and its table |
| `Discovery` | `discover_python_files`, `_walk`, `_GitignoreRule`, `_parse_gitignore` | `StartAtFile`, `StartAtDirectory`, `Walk`: one directory; names and patterns are sequences of parts. Beside it git's rules and what is to be found |
| `Scanner` | `run_scan`, `TaintEngine.analyze`, `aggregate`, `compute_exit_code` | one action for each outcome of a file or a function; a location has a start and an end |
| `ScanCommand` | `cli.py`, `registry.py` | one action for each step of a command; composes `Config`, `Discovery`, `Scanner` and `SpecParser` with `Matcher` |
| `DataflowProofs`, `WalkProofs` | theorems about `Dataflow` and `TaintWalk` | "The proofs", below; the second extends the first |
| `CallGraphProofs`, `SummariesProofs` | theorems about `CallGraph` and `Summaries` | the second extends the first, as `Summaries` extends `CallGraph` |
| `DetectorLanguageProofs` | theorems about `SpecParser`, `Matcher` and `DetectorLanguage` | stated for `ScanCommand`'s specification, whose steps the parser's are |
| `ScannerProofs`, `DiscoveryProofs`, `ScanCommandProofs` | theorems about `Scanner` and `Discovery`, and about `ScanCommand`, which runs them | the last extends the other two and `DetectorLanguageProofs` |
| `MC*` | instances; `MCScanCommand` uses `MCScanner` and `MCDetectorLanguage` | |

`Propagation` extends `TaintState`, `Dataflow` extends `Propagation` and
instantiates `ChaoticIteration`, and `TaintWalk` runs on the finished analysis.
`Summaries` composes the ordering of `CallGraph` with the rounds. `Dataflow`
computes one summary in full detail, `Summaries` many in a reduced form.
`Imports` runs what `Lowering` has lowered. `ScanCommand` runs the discovery, the
scan and the parser one after the other, each by its own next-state action, and
what one leaves is what the next starts from: the tree found is the scan's list
of files, the merged options its threshold and gate.

## The runs

Runs that pass:

| Run | Instance | Shows |
|---|---|---|
| `dataflow` | functions on straight-line, if, if/else, while, break and nested-loop graphs, two variables, one attribute, cap 2, two detectors, every choice of up to three body statements from a menu of ten, around 1 000 calls of different kinds (414 000 states) | `EmptyWorklistIsFixpoint`, `CapIsSafetyNet`, `OutEnvsOnlyGrow`, `Terminates`; `NoMissedFlow` and `SummaryComplete`: every way a walk takes a tainted value to a sink or a returned value is reported with a witness as good; `NoSpuriousFinding` and `NoInventedFlow`: the converse, no finding and no flow of a summary that no walk takes; `ImplementsChaotic`: a worklist with visits in this order computes what chaotic iteration may |
| `cfg` | ifs, loops (with `else`), `with`, `class`, `try` nested two deep, three for loops (14 000 states) | `NoLostPath`, `NoInventedPath`; `OnlyLoopsLeadBack`: an edge goes back to the header of a loop and nowhere else |
| `summaries` | all modules of three functions, nested or not, each calling any others by name or as a method (322 000 states) | `CalleesFirst`, `ComponentsExact`, `LowlinkSound`, `AllOrdered` of the call graph; `ResolutionAgrees`, `Stable`, `SummariesExact`, `FlowsOnlyImprove`, `AllSummarized` of the rounds |
| `imports` | two binders at every place of a block with every kind of reference; a call in expressions two constructs deep, in every kind of statement; functions, methods, lambdas and comprehensions three deep with imports of their own (47 000 states) | `NoCallLost`: a call the run makes is one the engine finds; `ResolvedAsRun`: under the path of what it denotes; `ScopesNested`: in the function that makes it; `QualnameDenotes`: whose summary its qualname finds |
| `command` | scans of two files of two functions with every content, threshold and gate; of trees of up to fourteen entries with every pair of ignore lines, globs and links; every pair of a configuration file and options; what makes a step fail; rules commands over every detector text that differs from a legal one in one or two fields (271 000 states) | `VerdictHonest`: the exit code is the one the options call for on the files; `FoundExactly`: the walk finds what the rules leave; `FilesIsolated`, `EachVulnerabilityOnce`, `ExitCodeHonest` of the scan; `AcceptsExactly`, `BlameIsReal`, `NothingLost` of the parser; `SelectsAsDocumented`, `NoDeadPattern` of parser and matcher together; `CommandEnds` |

Runs in which the code does not do what its documentation or a comment says;
each is one small program on which TLC finds the disagreement, and PROJECT.json
quotes the sentence:

| Run | Program |
|---|---|
| `foreign_sanitizer` | a sanitizer of one detector hides the flow of another |
| `long_loop` | a loop that moves a parameter through 22 variables exhausts the cap of the summary analysis |
| `raised_in_body` | a handler is entered only after the whole first block of the body |
| `homonyms` | the order and the application of summaries resolve a name differently |
| `shadowing_parameter` | a parameter named like an import is taken for it |
| `crash_exit` | a clean scan whose report cannot be written ends with the exit code of findings |
| `false_exclusion` | the ignore rule `sub/**` also leaves out `subway.py` |

The MC modules define more programs of this sort, for which no run is kept.
Substituted in the configuration named here they break the property named:

| Program | Configuration, in place of | Property | What happens |
|---|---|---|---|
| `CollapsedPath` (`Step <- TwoSteps`) | `MCForeignSanitizer`, `ForeignSanitizer` | `NoMissedFlow` | a clean write below the cap cleans its sibling (`taint_state.py:69`) |
| `AugmentedObject` | the same | `NoMissedFlow` | `x \|= y` forgets the taint of `x.a` (`taint.py:238`) |
| `DynamicWrite` | the same | `NoMissedFlow` | `x[i] = "c"` cleans all of `x` (`taint.py:260`) |
| `DeadCode` | the same | `NoSpuriousFinding` | a sink behind an `if` both of whose branches return is reported (`python_frontend.py:719`) |
| `CollapsedSibling` (`Step <- TwoSteps`) | the same | `NoSpuriousFinding` | a tainted write below the cap taints its sibling (`taint_state.py:69`) |
| `SanitizingMethod` | the same | `NoInventedFlow` | a method of strings that every detector has as a sanitizer hands on a parameter in a summary all the same (`propagation.py:333`) |
| `EmptyFor` | `MCRaisedInBody`, `RaisedInBody` | `NoLostPath` | the target of a `for` over nothing is bound all the same (`python_frontend.py:753`) |
| `BreakElse` | the same | `NoLostPath` | `break` runs through the loop's `else` (`python_frontend.py:757`) |
| `HandlerElse` | the same | `NoLostPath` | a handled exception runs through the `else` clause (`python_frontend.py:833`) |
| `ReturnFinally` | the same | `NoLostPath` | `finally` is dropped when the body returns (`python_frontend.py:835`) |
| `LongCycle` | `MCHomonyms`, `Homonyms` | `Stable` | nine mutually recursive functions need more rounds than eight (`summaries.py:253`) |
| `FallbackImport` | `MCShadowingParameter`, `ShadowingParameter` | `ResolvedAsRun` | the import in `except ImportError` always wins (`ir.py:77`) |
| `ShadowingTarget` | the same | `ResolvedAsRun` | the target of a comprehension is taken for an import (`resolver.py:236`) |
| `ComparedCall` | `MCImports`, `Ordinary` | `NoCallLost` | a call in a comparison is no call of the test (`python_frontend.py:488`) |
| `CalledCall` | the same | `NoCallLost` | nor is one that is called itself, `f()(v)` |
| `CallInTarget` | the same | `NoCallLost` | nor one in an index of a target |
| `RaisedCall`, `MatchedCall` | the same | `NoCallLost` | nor one in a `raise`, or in a case of a `match` (`python_frontend.py:672`, :80) |
| `CallInDefault` | the same | `NoCallLost` | nor one in a default (`python_frontend.py:289`) |
| `LambdaInDefault` | the same | `ScopesNested` | a lambda in a default counts as made by the function |
| `MethodHomonym` | the same | `QualnameDenotes` | a method takes the qualname of a function (`python_frontend.py:263`) |
| `TwoLambdas` | the same | `QualnameDenotes` | two lambdas of one scope share theirs |
| `OneChain` | `MCScanCommand`, `SmallCommands` | `EachVulnerabilityOnce` | of two sinks that start at one place one is dropped (`scanner.py:154`, against docs/design/v1-design-notes.md:891) |
| `NumberForFlag` (`Documents <- OneFlag`, `Commands <- OneValidation`) | `MCScanCommand`, `MCSites` | `SelectsAsDocumented` | `when: {keyword: {shell: true}}` also selects `system(shell=1)`, for Python takes 1 for equal to True (`matcher.py:255`, against docs/dsl-reference.md:230) |

More disagreements, met while modelling, that the models follow or leave out:

* A gate below the threshold never fails the run, since the findings below the
  threshold are dropped before the gate is applied (`scanner.py:86`, against
  docs/design/v1-design-notes.md:1178): `ExitCodeHonest` and `VerdictHonest`
  exclude that case.
* `--exclude` replaces the list of the file instead of adding to it
  (v1-design-notes.md:1176), and no directory above is searched for a
  configuration file (:1177). `Config` follows the code.
* An ignore rule that takes back a directory does not take back what is in it:
  after `/sub`, `!/sub/` the files are ignored still, for they are matched by
  their directories; `!/sub` (without the slash) takes back everything below.
  A star in a rule with a slash crosses directories. `Supported` in
  `Discovery` excludes these rules from `FoundExactly` and `VerdictHonest`,
  with those that hold `**`: a rule that takes back takes back Python files, and
  where there is something to take back no directory has the name of one.
* `_DOTTED_RE` ends in `$`, so a block scalar that ends in a newline is
  accepted as a pattern, which selects nothing.
* A propagator with `to` other than `return`, or with `from: return`, is
  accepted and does nothing but make the callee known, which ends the
  pass-through of its arguments. Patterns of the kinds parameter and import are
  accepted and never consulted.
* A configuration, an ignore file or a detector that is not UTF-8, a YAML date
  out of range, and a bundle that does not load under `rules list` or
  `rules show` end in a traceback, with the exit code of findings. These are
  modelled: they end in the step `crashed`, as in `crash_exit`.
* A file below a link that leads upward is found once for each path to it.

The programs of the passing runs leave these cases out, at the place where the
MC module defines them: `MCDataflow` has sanitizers of all detectors at once,
at most one step below the cap, augmented assignments to plain variables only,
no write through a dynamic index and no block that nothing leads to; the loops of `MCCFG` break out of loops without
`else` and its `try` bodies raise from the block they start in; `MCImports` binds
a name once in a scope and has no call in a comparison, a default, a target, a
`raise` or a case; the functions of a module in `MCSummaries` have distinct bare
names; the reports of a file in `MCScanner` share one sink; no pattern of
`MCDetectorLanguage` ends in a newline, and none of its sites gives a keyword the
twin of a pattern's value, which is the predicate `NoTwins` of `DetectorLanguage`.

### Bounds

* `STEPS_CAP = 2`, `FIXPOINT_CAP = 8`, `SUMMARY_FIXPOINT_CAP = 8` are the values
  of the code, so the caps are exercised as they are.
* Two variables with one attribute are enough for a value to be moved, read
  through its container, overwritten as a whole and in part. Every mechanism of
  `Merge` (a shorter chain, a smaller one of the same length) occurs with two
  sources. Three statements in a loop body let a value need two rounds.
* `WalkBound = 4` bounds the chain that a walk accumulates around a loop; a
  longer walk only has longer witnesses, which the shorter one already beats.
* `WalkRounds = 30` lets `Reachable` follow every walk of the run's functions to the
  end: 20 rounds settle all of them, and 10 do not. Fewer would only make
  `NoSpuriousFinding` and `NoInventedFlow` stronger.
* Three functions hold self-recursion, a cycle of two or three, a caller outside
  the cycle, a cycle behind a finished component and a back edge past a finished
  subtree; `LongCycle` shows where the number of rounds begins to matter.
* Scopes three deep let a table, a parent or a hidden name come from the scope
  around, from the one above it and from the module; expressions two constructs
  deep put a call into an operand of an operand.
* Two files suffice for isolation and for dedup across and within files; two
  severities for a threshold and a gate in every order.
* `MaxLinks = 1` stands for the limit of the system (40 on Linux) on the links
  of a path: once round a link loop is where a file is met again. Two ignore
  rules, each of eighteen, are enough for one to take back the other; the trees
  have directories two deep, so that a rule applies to a path by itself, by its
  directory and by the one above. The third rule of a file acts only on the
  outcome of the first two.
* Two detectors are enough for a duplicate, an invalid one beside a valid one,
  and a selection that leaves one out.
* A legal detector text, with one or two of its fields replaced by each of the
  values that are handled apart, meets every check of the parser with the
  earlier ones passed, and a fault of a plain field together with one of a list
  or of the metadata, of which the first is reported.

Deadlock is not checked in any run: every one of these programs ends.

### Fairness

`Terminates`, `AllOrdered`, `AllSummarized` and `CommandEnds` assume weak
fairness of the program's own next step and nothing else. The code between two
steps is straight-line code of a single thread that waits for nothing, so it
goes on. The walk of `TaintWalk` and the program of `CFGPaths` are not fair: a
loop may go round for ever.

## The proofs

`DataflowProofs` holds, for all functions, detectors, paths and caps:

* `TypeCorrect`: `Spec => []TypeOK`. The lemmas follow the operators of
  `TaintState` and `Propagation` upward: a merge, a read, an operand, a call, a
  transfer, what the second pass collects; then one step for each action.
* `FixpointReached`: `Spec => []EmptyWorklistIsFixpoint`. When the worklist is
  empty between visits, every block satisfies its dataflow equations. The
  property is not inductive: it says nothing while the worklist holds a block.
  The invariant `IInv` is `TypeOK /\ SettledOffWorklist`: at any time every block
  *off* the worklist is solved, and a block under visit is solved up to the
  statement the visit has reached. `LeaveSettled` is the heart: a changed
  out-environment unsettles only the successors (`JoinLocal`: the join of a block
  mentions only its predecessors), and these go back on the worklist, the block
  itself included when it is its own successor.

Then comes the refinement:

* `WorklistIsChaotic`: `Spec /\ []CapIsSafetyNet => ImplementsChaotic`. Initial
  states map to initial states, and each step to a visit, a part of one, the
  answer, or a stutter. Beside `IInv` it needs `Replays`: while the second pass
  runs, what it has collected so far is what the statements it has passed yield in
  the environments of the solution. The hypothesis is what `long_loop` refutes:
  where the bound ends the loop, the answer is from no solution.

And it has the action property of the dataflow:

* `EnvironmentsGrow`: `Spec => OutEnvsOnlyGrow`. The code compares witnesses by
  length and then by the order of their steps; the lemmas show that this orders
  the chains linearly and that every set of labels that is not empty has a best
  one of each detector (the lengths are natural numbers, and of the chains of one
  length the steps are chosen in turn), so a merge keeps a witness at least as
  good as any it was given. From there `Get`, an operand, a call and a whole
  statement are monotone in that order. What makes it inductive is `GInv`: what a
  block has left behind it would leave behind again, or better, from its
  in-environment of now. It needs `IInv`, for a block under visit.

And, of the bound on visits:

* `LoopFreeNeedsNoCap`: `Spec => [](Forward(prog) => CapIsSafetyNet)`. `Forward`
  says that every edge leads to a block with a higher number, which is what the
  frontend builds of a function without loops: a block is numbered when it is
  opened, and an edge back leads to the header of a loop (`OnlyLoopsLeadBack` of the
  `cfg` run). Since the lowest block of the worklist is visited next, `OnePass` is
  inductive: the worklist is the blocks not yet visited, all of them above the one
  under visit. So each block is visited once. With a loop the bound can be met with
  work left (`long_loop`).

`WalkProofs` proves what the engine promises, against walks that know nothing of
environments, in both directions. First that nothing is missed:

* `NothingMissed`: `WalkSpec /\ []CapIsSafetyNet => []NoMissedFlow`.
* `NoFlowForgotten`: `WalkSpec /\ []CapIsSafetyNet => []SummaryComplete`.

Both are simulations. The invariant is `IInv /\ Replays /\ Answered /\ Walking`:
`Answered` says that the answer is what the second pass collects in a solution of
the equations, whole; `Walking` that the fact a walk carries is held by the
environment of the solution at the place the walk has reached (`Held`: the
environment has a label of its detector at its path, by a chain that is no
worse). A step of the walk over a statement is matched by the transfer, a step to
a successor by the join, and a statement at which the walk meets a sink by what
the second pass reports there. For summaries a witness that is no worse is not
enough: a fragment is the chain without its first step, and a better chain need not
have a better tail unless the two start with the same step. `MarkersHeaded` and
`WalkHeaded` add that the chain of a parameter's label starts with the step
seeded for it.

These two have two hypotheses, and both are sharp:

* `\A p \in Programs : Precise(p)`: no function has what the engine is documented
  or known to be imprecise on. `Precise` in `TaintWalk` is the absence of the four
  programs `ForeignSanitizer`, `CollapsedPath`, `AugmentedObject` and
  `DynamicWrite` above, each of which breaks the property. The functions of the
  `dataflow` run satisfy it (`RunsArePrecise` in `MCDataflow`, evaluated there).
* `[]CapIsSafetyNet`, as for `WorklistIsChaotic`; `long_loop` breaks it.

Then that nothing is made up:

* `NothingSpurious`: `WalkSpec /\ []IsClosed(Reachable) => []NoSpuriousFinding`.
* `NothingInvented`: `WalkSpec /\ []IsClosed(Reachable) => []NoInventedFlow`.

The invariant `Traceability` speaks of any set of places that holds the entry and is
closed under a step of the walk: every label of an environment, in a block or under
visit, has a fact of its detector in that set, at its path or at a path that holds
it, whose chain begins where the label's does (`Placed`); and what has been collected
is met by such a fact at its statement. It holds while the worklist is still full,
so the cap on visits does not matter here. The lemmas go the way a label takes: an
operand, a call, a statement, a join. The hypotheses:

* `\A p \in Programs : Traceable(p)`. `DeadCode`, `CollapsedSibling` and
  `SanitizingMethod` are what the three parts of `Traceable` leave out; that an
  augmented assignment has one target is Python's syntax. `RunsArePrecise` evaluates
  it for the functions of the run. Unlike `Precise` it allows sanitizers of some
  detectors, dynamic indices and augmented assignments to containers: with these the
  engine misses flows, but makes up none.
* `[]IsClosed(Reachable)`: the reference has followed the walks to the end. It
  is a condition on `WalkRounds` and not on the code; the facts of a function with
  origins for chains are finitely many, so that some number of rounds meets it.

For functions without loops both temporal hypotheses go:

* `LoopFreeMissesNothing`: `WalkSpec => [](Forward(prog) => NoMissedFlow /\
  SummaryComplete)`, by `OnePass` beside the invariant of the simulations.
* `LoopFreeInventsNothing`: `WalkSpec => [](Forward(prog) /\ Fits(prog) =>
  NoSpuriousFinding /\ NoInventedFlow)`, where `Fits` asks of `WalkRounds` that it
  be at least the number of blocks times one more than the longest of them. A round of
  `Reachable` then adds only places further on than the round before it did
  (`Advanced`), until there are none. What remains assumed is `Precise` and
  `Traceable`. Two thirds of the functions of the `dataflow` run are loop-free, and all
  of these fit.

`CallGraphProofs` proves Tarjan's algorithm as `_reverse_topo_sccs` has it, for
every finite call graph:

* `TarjanTypes`: `TarjanSpec => []TarjanTypeOK`.
* `CalleesComeFirst`: `TarjanSpec => []CalleesFirst`.
* `LowlinksSound`: `TarjanSpec => []LowlinkSound`.
* `ComponentsAreExact`: `TarjanSpec => []ComponentsExact`.

The invariant `IInv` says, beside the types, that indices number the visited
nodes and grow along the stack and along the frames; that a visited node is on the
stack or in one component; that the callees of a node are visited, except those
its frame has yet to follow; that the node of a frame reaches all above it on the
stack (`Down`), and every node on the stack the node of a frame at or below it
(`Up`); that a lowlink is the index of a node reached on the stack (`LowReached`),
and the lowlink of a frame's node no higher than the index of any callee on the
stack to which a call has been followed from there (`LowComplete`). The last two
give the heart: when a node ends with its lowlink equal to its index, no call leads
from it, or from a node above it, to one below it on the stack, so that what is
popped is a whole component.

`SummariesProofs` proves the summarization, for modules of any size and any cap:

* `OrderIsSound`: `Spec => [](CalleesFirst /\ ComponentsExact /\ LowlinkSound)`,
  the same of the graph that name resolution builds, to the end.
* `SummaryTypes`: `Spec => []TypeOK`; `FlowsImprove`: `Spec => FlowsOnlyImprove`.
  The invariant `SInv`: the components behind the current one, and what is opened
  of it, are what has a summary; and summarizing a function again would give what it
  has, or better.
* `NoSummaryTooLate`: `Spec => []ResolutionAgrees`.
* `SummariesAreExact`: `Spec => []SummariesExact`, and `SummariesAreStable`:
  `Spec => []Stable`. The invariant `EInv` adds: every flow is a chain of calls
  (`AllSound`); the components behind are complete (`BehindComplete`); and in the
  one under way a round either completes one member more or changes nothing
  (`Progress`, `Settled`). For the shortest chain of the incomplete members leads
  through complete ones only. A group of mutually recursive functions thus needs no
  more rounds than it has members.

The hypotheses, on the constants: `QualnamesFound`, that a qualname resolves to
the function that has it (for the last three), and `GroupsWithinCap`, that no
group of mutually recursive functions is larger than `SUMMARY_FIXPOINT_CAP` (for
the last two). Both are sharp: `homonyms` breaks the first, `LongCycle`, a cycle of
nine with a cap of 8, the second. The modules of the `summaries` run satisfy both.

`DetectorLanguageProofs` proves the parser and the matcher, for every text of a
detector file; the theorems are about the `Spec` of `ScanCommand`, in which the
parser runs under `scan`, `rules list`, `rules show` and `rules validate`:

* `ParserTypes`: `Spec => []ParserTypeOK`.
* `BlameHolds`: `Spec => []BlameIsReal`; `AllKept`: `Spec => []NothingLost`.
* `AcceptsJustDetectors`: `Spec /\ OneLiners => []AcceptsExactly`.
* `SelectsJustDocumented`: `Spec /\ OneLiners => [](NoTwins => SelectsAsDocumented)`.
* `NoneDead`: `Spec /\ OneLiners => [](WhenAmong(literals) => NoDeadPattern)`, for
  any set of literals such that `Sites` has every site that can be written with them
  (`EverySite`) and that the `when` constraints take theirs from (`WhenAmong`). The
  `command` run shows it on sites of its own; of a finite set of sites it can only be
  checked.

The invariant `ParserInv` says what the checks behind the current one have shown:
of the fields (`TopChecked`), of the lists done and of the patterns taken
(`ListsChecked`), of the pattern under way (`PatternChecked`), and of the metadata
(`MetadataWalked`), which the code walks depth first through a graph that may share
nodes or run in a circle. There each frame of the path is a child of the one below;
the children behind a frame are `Good`, that is, nothing below them is at fault or in a cycle; so a
node met again on the path closes a cycle, and a node all of whose children are good
is good. `FormsMatch` shows of the matcher that its comparison of prefix, suffix or
whole is the wildcard table, position by position. For `NoneDead` a site is built of
the pattern: an identifier in the place of the star (`FormDenotes`), one argument
more than a position it lists, and its keywords (`ConstraintsMet`). `OneLiners`, that no pattern
ends in a newline, leaves out the disagreement about `_DOTTED_RE` noted above. `NoTwins` leaves
out that of `NumberForFlag`: the reference compares literals with their types
(`Documented`), the matcher with Python's equality (`Equal`), and the two differ on
*twins*, literals of two numeric types with one value, as `True` and `1`. That a site the
reference selects is selected by the matcher holds with twins too (`PatternSelects`), which
is why `NoneDead` does without the hypothesis.

`ScannerProofs` holds, for any number of files and functions, any reports,
ranks and thresholds (`ScanSpec` is a scan on its own, the part of `ScanCommand`
between the list of files and the exit code; each theorem rests on a lemma that
the next module cites again):

* `Isolation`: `ScanSpec => []FilesIsolated`.
* `HonestExit`: `ScanSpec => []ExitCodeHonest`.
* `NothingMergedAway`: `ScanSpec /\ []SinksApart => []EachVulnerabilityOnce`,
  where `SinksApart` says that no two sinks of a detector in a file start at one
  place; `OneChain` is what happens otherwise.

The invariant is the conjunction of `TypeInv`, `Filed` (files, errors and
counters of the files that are done), `Underway` (what the file under analysis has
collected is what its functions so far have reported), `RawExact` (the raw
findings are those of the healthy files so far, finalized) and `Graded` (the
outcome is what grading makes of the raw findings). That each dedup keeps one of
every class rests on a least fingerprint existing, which is the well-foundedness
of the natural numbers (`LeastOne`).

`ScanCommandProofs` carries this over to the whole command, for any commands,
trees, configuration files and options:

* `CommandTypes`: `Spec => []TypeOK`, for all variables of the program, those of
  the parser (`ParserTypes`) and of the scan included.
* `ScanKeepsPromises`: `Spec => [](FilesIsolated /\ ExitCodeHonest /\ (SinksApart
  => EachVulnerabilityOnce))`.

The invariant `CommandInv` says what each step hands on to the next: the files
stay what they were (`Underground`); a step and an exit code go together
(`Stepping`); the merged options are a full set of options, whatever the file
and the command line gave (`Configured`, by `MergedOptions`); the walk stands on
entries of the tree and has found finitely many files of it (`Walking`); and the
scan is untouched until it starts, and then in the invariant of `ScannerProofs`
(`Scanning`). The step that joins them is `ScanStarts`: the list of the files
found is a sequence of all of them. That list is a fold over a set, which the
community modules define by a recursive function; that the function exists, and
that it lists each file of a finite set, is `FoldExists` and `ListedInOrder`, both
by the least size of a set for which it would be false.

Two more theorems say what a command does as a whole:

* `WalkFindsExactly`: `Spec => []FoundExactly`.
* `VerdictIsHonest`: `Spec => []VerdictHonest`.

The first rests on `DiscoveryProofs`, in two parts. `RulesAgree` compares the
decision of the code on a path with git's. Both are read from definitions by
recursion, over the positions of a glob, the names of a path and the rules of a
file: that each recursion has a solution, and what one step of it does, is
proved by the least position for which it would be false (`FoldTable`,
`RestExists`). A pattern without a star then matches just its own text, and one
whose star is a last name what is below (`FixedThenStar`), which gives each rule of the
subset one meaning under `fnmatch` and under git (`RuleIs`, `RuleAlike`), but for the
directories above, which only the code looks at. There the walk itself helps: it
has entered each of them, so git leaves none of them out. A rule that names one is
taken back by a later rule, whose pattern ends in `.py`; but no directory does.

The other part is the walk. `Reachable` makes `(MaxLinks + 1)` times as many steps as
there are entries; `ReachedInTime` shows that this is enough, for a path that
follows no link grows by one name in each step, and no entry is deeper than there are
entries, and `ReachableLeast` that it is the least set closed under a step from one
place to the next. The invariant is `Sought`, over the set of directories listed so far:
what is put down is to be listed, what is found is expected, and each entry of a
directory listed that is to be listed has been or will be, and that is to be found
has been (`WalkKeeps`). At the end everything expected is found, since the places for
which this holds are closed under a step (`WalkEnds`).

For the second theorem `Handed` adds to `CommandInv` what the steps of a scan hand on: the
options in force are the merged ones (`Resolved`), the rules and globs come from them
(`InEffect`), the walk is on its way (`Searching`), the scan is one of the files found
(`ScanOfFound`), and nothing changes any of it afterwards. `VerdictHonest` speaks
of none of this: it computes the options wanted, the files expected and the gate
from the command alone. `FileIs` and `WantedIs` show that the two ways to find the
configuration file agree, `ScannedAsWanted` that the files scanned are the ones
expected, and `FileJudged` that a file is healthy and reports something exactly if its
text says so; `HonestExit`'s lemma does the rest.

The assumptions on constants are named, and TLC evaluates each in a passing run:

* the cap on steps and the two caps on visits are natural numbers, markers are
  detector ids with a position each, the base that stands for no place is no
  variable (`NowhereAssumption`), the reference takes some number of rounds
  (`WalkRoundsAssumption`), and the functions are well formed (`IsProgram`):
  `dataflow`;
* the call graphs are finite (`CallGraphsAssumption`), functions are numbered from
  1 and the graphs of the modules are among these (`ModulesAssumption`), the
  cap on rounds is positive (`SummaryCapAssumption`): `summaries`;
* ranks are natural numbers, and fingerprints injective (`RankAssumption`,
  `FingerprintAssumption`: a digest stands for what it digests), no identifier is a
  star (`IdentifiersAssumption`), the texts are what PyYAML hands over
  (`DocumentsAssumption`), a site has a dotted name and a number of arguments
  (`SitesAssumption`), the system follows some number of links in a path
  (`MaxLinksAssumption`), and commands find what a file system and click hand over:
  a finite tree of named entries, whose links lead to directories of it, and options of
  the types that the command line and the validation of a file let through
  (`CommandsAssumption`): `command`.

Only model-checked:

* liveness (`Terminates`, `AllOrdered`, `AllSummarized`, `CommandEnds`): out of the
  prover's reach;
* what goes through a recursive operator: `CFGBuilder`, `CFGPaths`, `Lowering`,
  `Imports`;
* `CapIsSafetyNet` of functions with loops: it does not hold of each of them
  (`long_loop`).

## Not modelled, and why

* The reporters: formatting of what `Scanner` hands over, in its order.
* The kinds of parameters and the paths of targets: `Propagation` has the
  statements they become, and the translation is structural. The receiver and
  the index of a target are resolved in the module's table instead of the
  scope's (`python_frontend.py:575`); `x := e` binds only where the expression is
  a statement of its own (`python_frontend.py:483`). Of both only data flow tells.
* `match` and `except*` statements, which the frontend turns into one opaque
  statement without their bodies, and the expression of a `raise`, which it
  drops: as control flow they are outside the language of `CFGPaths`. `Imports`
  has `match` and `raise`, for the calls in them; an exception that a handler
  catches comes there from between the statements of the body.
* Click's parsing of the command line and its usage errors, the version command,
  what commands print.
* The composition of YAML text into nodes (PyYAML) and of TOML into tables; the
  bundled detectors, which are data.
* A directory that can be listed but not searched, on whose entries `is_dir`
  raises (`discovery.py:98`).
* `?` and `[...]` in globs, trailing blanks of ignore lines; `load_config`,
  `TaintEnv.kill` and `TaintEnv.sanitize`, which nothing calls.
* In `Summaries`, sinks and more than one parameter; `Dataflow` covers them for
  one function.

## Plan

1. *Done, the analysis:* `TaintState`, `Propagation`, `Dataflow`, `TaintWalk`,
   `CFGBuilder`, `CFGPaths`, `CallGraph`, `Summaries`, `Scanner`, their runs; the
   first theorems.
2. *Done, the system around it:* the abstract specification `ChaoticIteration`
   and the refinement, checked and proved; `Lowering` with `Imports`; `Matcher`,
   `SpecParser`, `DetectorLanguage`; `Config`, `Discovery`, `ScanCommand`;
   locations with ends in `Scanner`; its theorems.
3. *Left to model:* sinks and several parameters in `Summaries`; `match` and the
   expression of a `raise` in `CFGPaths`; qualnames of `Lowering` composed with
   `Summaries`.
4. *Done, proofs:* the call graph, the rounds of the summaries, the growth of
   environments, that findings and summaries are complete and that nothing in them is
   made up, the parser and the matcher, the walk over the files, the scan on its own,
   and the verdict of a command as a whole.
5. *Left to prove:* `CFGPaths` and `Imports`, which need `CFGBuilder` and `Lowering` as
   functions instead of recursive operators.

## Running

    tlc -config MCDataflow.cfg MCDataflow
    tlc -config MCScanCommand.cfg MCScanCommand
    tlapm DataflowProofs.tla
    tlapm WalkProofs.tla
    tlapm CallGraphProofs.tla
    tlapm SummariesProofs.tla
    tlapm ScannerProofs.tla
    tlapm DetectorLanguageProofs.tla
    tlapm DiscoveryProofs.tla
    tlapm ScanCommandProofs.tla

and likewise for the other configurations: a `.cfg` belongs to the module that
PROJECT.json names with it.
