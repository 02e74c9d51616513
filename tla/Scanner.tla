------------------------------- MODULE Scanner -------------------------------
(***************************************************************************)
(* A scan: run_scan of scanner.py, which parses and analyses file after    *)
(* file, and TaintEngine.analyze of engine/taint.py, which analyses the    *)
(* functions of one file.                                                  *)
(*                                                                         *)
(* A file comes with the outcome of parsing it and, for each of its        *)
(* functions, with what the analysis of the function reports or that it    *)
(* raises (Dataflow models that analysis).  A location is a span, the pair *)
(* of its start and its end.  The witnesses of a detector from one source  *)
(* to one sink are numbered in the order of better_chain, the best first.  *)
(***************************************************************************)
EXTENDS Naturals, Sequences, FiniteSets

CONSTANTS
  Rank,        \* the severity rank of each detector
  Fingerprint  \* the fingerprint of a detector's witness, by sink and source: a digest

ASSUME RankAssumption == Rank \in [DOMAIN Rank -> Nat]

\* Different findings have different digests, in any order.
ASSUME FingerprintAssumption ==
  /\ Fingerprint \in [DOMAIN Fingerprint -> Nat]
  /\ \A k, l \in DOMAIN Fingerprint : Fingerprint[k] = Fingerprint[l] => k = l

Detector == DOMAIN Rank

Span == Nat \X Nat

Finding == [det : Detector, file : Nat, sink : Span, source : Span, witness : Nat]

\* What can be reported has a fingerprint.
Reportable == {f \in Finding : <<f.det, f.sink, f.source, f.witness>> \in DOMAIN Fingerprint}

Function == [raises : BOOLEAN, reports : SUBSET Reportable]

SourceFile == [parse : {"ok", "none", "raises"}, functions : Seq(Function)]

\* The gate is no rank, or one.
Scans ==
  [files : Seq(SourceFile), threshold : Nat,
   failOn : {gate \in SUBSET Nat : \A g, h \in gate : g = h}]

VARIABLES
  scan,          \* the files, in the order discovered, and the options
  next,          \* the next file
  fn,            \* the next function of the file under analysis, 0 between files
  collected,     \* what the functions of this file have reported
  raw,           \* what the files analysed so far have reported
  parse_errors,  \* the files that could not be parsed or analysed
  scanned,       \* how many could
  outcome        \* the findings and the exit code, or Pending

scanVars == <<scan, next, fn, collected, raw, parse_errors, scanned, outcome>>

Pending == [findings |-> {}, exit |-> "none"]

File == scan.files[next]

ScanInit ==
  /\ next = 1
  /\ fn = 0
  /\ collected = {}
  /\ raw = {}
  /\ parse_errors = <<>>
  /\ scanned = 0
  /\ outcome = Pending

(***************************************************************************)
(* One file.                                                               *)
(***************************************************************************)
\* The frontend returns None, or raises what it should not.
ParseFails ==
  /\ fn = 0 /\ next <= Len(scan.files)
  /\ File.parse # "ok"
  /\ parse_errors' = Append(parse_errors, next)
  /\ next' = next + 1
  /\ UNCHANGED <<scan, fn, collected, raw, scanned, outcome>>

ParseSucceeds ==
  /\ fn = 0 /\ next <= Len(scan.files)
  /\ File.parse = "ok"
  /\ fn' = 1
  /\ collected' = {}
  /\ UNCHANGED <<scan, next, raw, parse_errors, scanned, outcome>>

AnalyseFunction ==
  /\ fn > 0 /\ fn \in DOMAIN File.functions
  /\ ~ File.functions[fn].raises
  /\ collected' = collected \cup {[f EXCEPT !.file = next] : f \in File.functions[fn].reports}
  /\ fn' = fn + 1
  /\ UNCHANGED <<scan, next, raw, parse_errors, scanned, outcome>>

\* Mutant: what the functions before have reported is kept.
AnalysisFailsKeeps ==
  /\ fn > 0 /\ fn \in DOMAIN File.functions
  /\ File.functions[fn].raises
  /\ parse_errors' = Append(parse_errors, next)
  /\ raw' = raw \cup collected
  /\ next' = next + 1
  /\ fn' = 0
  /\ UNCHANGED <<scan, collected, scanned, outcome>>

\* An exception in one function loses the findings of its whole file.
AnalysisFails ==
  /\ fn > 0 /\ fn \in DOMAIN File.functions
  /\ File.functions[fn].raises
  /\ parse_errors' = Append(parse_errors, next)
  /\ next' = next + 1
  /\ fn' = 0
  /\ UNCHANGED <<scan, collected, raw, scanned, outcome>>

\* _finalize: of the reports from one source to one sink, the best witness.
SameFlow(f, g) == f.det = g.det /\ f.file = g.file /\ f.sink = g.sink /\ f.source = g.source

Finalize(findings) ==
  {f \in findings : \A g \in findings : SameFlow(f, g) => f.witness <= g.witness}

AnalysisSucceeds ==
  /\ fn > 0 /\ fn \notin DOMAIN File.functions
  /\ raw' = raw \cup Finalize(collected)
  /\ scanned' = scanned + 1
  /\ next' = next + 1
  /\ fn' = 0
  /\ UNCHANGED <<scan, collected, parse_errors, outcome>>

(***************************************************************************)
(* Aggregation and the exit code.                                          *)
(***************************************************************************)
FingerprintOf(f) == Fingerprint[<<f.det, f.sink, f.source, f.witness>>]

\* Mutant: the file is not part of the key.
SameKeyAcrossFiles(f, g) == f.det = g.det /\ f.sink[1] = g.sink[1] /\ f.source[1] = g.source[1]

\* The key of the scanner leaves out where sink and source end.
SameKey(f, g) ==
  f.det = g.det /\ f.file = g.file /\ f.sink[1] = g.sink[1] /\ f.source[1] = g.source[1]

\* The findings below the threshold are dropped first; of those that share
\* a key the first in the order of the report is kept.
Aggregate(findings, threshold) ==
  LET kept == {f \in findings : Rank[f.det] >= threshold}
  IN  {f \in kept : \A g \in kept : SameKey(f, g) =>
         f.file < g.file \/ (f.file = g.file /\ FingerprintOf(f) <= FingerprintOf(g))}

Gate == IF scan.failOn = {} THEN scan.threshold ELSE CHOOSE g \in scan.failOn : TRUE

\* Mutant: the gate is always the threshold.
ComputeExitCodeAtThreshold(findings) == IF findings # {} THEN "FINDINGS" ELSE "OK"

ComputeExitCode(findings) == IF \E f \in findings : Rank[f.det] >= Gate THEN "FINDINGS" ELSE "OK"

Grade ==
  /\ fn = 0 /\ next > Len(scan.files) /\ outcome = Pending
  /\ LET findings == Aggregate(raw, scan.threshold)
     IN  outcome' = [findings |-> findings, exit |-> ComputeExitCode(findings)]
  /\ UNCHANGED <<scan, next, fn, collected, raw, parse_errors, scanned>>

ScanNext ==
  \/ ParseFails \/ ParseSucceeds
  \/ AnalyseFunction \/ AnalysisFails \/ AnalysisSucceeds
  \/ Grade

-----------------------------------------------------------------------------
Done == outcome # Pending

Healthy(i) ==
  /\ scan.files[i].parse = "ok"
  /\ \A j \in DOMAIN scan.files[i].functions : ~ scan.files[i].functions[j].raises

\* Everything the functions of file i report.
Reports(i) ==
  UNION {{[f EXCEPT !.file = i] : f \in scan.files[i].functions[j].reports}
         : j \in DOMAIN scan.files[i].functions}

\* One bad file never aborts the run, nor takes part in it: the files that
\* could be analysed and those reported as errors are all the files, each
\* once, and a finding comes from a healthy file, whatever the others do.
FilesIsolated ==
  Done =>
    /\ scanned = Cardinality({i \in DOMAIN scan.files : Healthy(i)})
    /\ {i \in DOMAIN scan.files : ~ Healthy(i)} = {parse_errors[n] : n \in DOMAIN parse_errors}
    /\ Len(parse_errors) + scanned = Len(scan.files)
    /\ \A f \in outcome.findings : Healthy(f.file)

\* A vulnerability, as the documents define it: a sink, and where a source
\* starts.
SameVulnerability(f, g) ==
  f.det = g.det /\ f.file = g.file /\ f.sink = g.sink /\ f.source[1] = g.source[1]

\* The two dedups, with different keys and different choices, together lose no
\* vulnerability: each one at or above the threshold, in each healthy file, is
\* reported exactly once, and by the best witness any function has for the
\* source it is reported from.
EachVulnerabilityOnce ==
  Done =>
    \A i \in DOMAIN scan.files : Healthy(i) =>
      \A r \in Reports(i) : Rank[r.det] >= scan.threshold =>
        LET same == {f \in outcome.findings : SameVulnerability(f, r)}
        IN  /\ Cardinality(same) = 1
            /\ \A f \in same : f \in Reports(i) /\ \A q \in Reports(i) :
                 SameFlow(f, q) => f.witness <= q.witness

\* The exit code tells whether the code scanned has a finding at the gate,
\* provided the gate is not below the threshold of the report: the findings
\* below the threshold are gone when the gate is applied.
ExitCodeHonest ==
  Done /\ Gate >= scan.threshold =>
    (outcome.exit = "FINDINGS" <=>
       \E i \in DOMAIN scan.files : Healthy(i) /\ \E r \in Reports(i) : Rank[r.det] >= Gate)

=============================================================================
