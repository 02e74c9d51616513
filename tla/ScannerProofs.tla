---------------------------- MODULE ScannerProofs ----------------------------
(***************************************************************************)
(* Theorems about Scanner, for any files in any number, any detectors,     *)
(* thresholds and fingerprints.                                            *)
(***************************************************************************)
EXTENDS Scanner, FiniteSetTheorems, SequenceTheorems, WellFoundedInduction, TLAPS

(***************************************************************************)
(* A scan on its own: any scan at all, from its first file on.             *)
(***************************************************************************)
Key(f) == <<f.det, f.sink, f.source, f.witness>>

ScanSpec == scan \in Scans /\ ScanInit /\ [][ScanNext]_scanVars

(***************************************************************************)
(* The inductive invariant: the files behind the scan are counted and      *)
(* filed, the functions behind it have reported, the rest is untouched.    *)
(***************************************************************************)
HealthyBefore == {i \in 1..(next - 1) : Healthy(i)}

FailedBefore == {i \in 1..(next - 1) : ~ Healthy(i)}

InFile(f, i) == [f EXCEPT !.file = i]

TypeInv ==
  /\ scan \in Scans
  /\ next \in 1..(Len(scan.files) + 1)
  /\ fn \in Nat
  /\ fn > 0 => next <= Len(scan.files)
  /\ parse_errors \in Seq(Nat)
  /\ scanned \in Nat

Filed ==
  /\ scanned = Cardinality(HealthyBefore)
  /\ {parse_errors[n] : n \in DOMAIN parse_errors} = FailedBefore
  /\ Len(parse_errors) + scanned = next - 1

Underway ==
  fn > 0 =>
    /\ File.parse = "ok"
    /\ fn <= Len(File.functions) + 1
    /\ \A j \in 1..(fn - 1) : ~ File.functions[j].raises
    /\ collected = UNION {{InFile(f, next) : f \in File.functions[j].reports} : j \in 1..(fn - 1)}

RawExact == raw = UNION {Finalize(Reports(i)) : i \in HealthyBefore}

Graded ==
  Done =>
    /\ next = Len(scan.files) + 1 /\ fn = 0
    /\ outcome.findings = Aggregate(raw, scan.threshold)
    /\ outcome.exit = ComputeExitCode(outcome.findings)

IInv == TypeInv /\ Filed /\ Underway /\ RawExact /\ Graded

(***************************************************************************)
(* The invariant holds at first, and every step keeps it.                  *)
(***************************************************************************)
\* A file under analysis and its functions.
LEMMA FileType ==
  ASSUME TypeInv, next <= Len(scan.files)
  PROVE  /\ next \in DOMAIN scan.files
         /\ File \in SourceFile
         /\ DOMAIN File.functions = 1..Len(File.functions)
         /\ Len(File.functions) \in Nat
<1>1. scan.files \in Seq(SourceFile)
  BY DEF TypeInv, Scans
<1>2. next \in 1..Len(scan.files)
  BY <1>1 DEF TypeInv
<1>3. File \in SourceFile
  BY <1>1, <1>2 DEF File
<1>4. File.functions \in Seq(Function)
  BY <1>3 DEF SourceFile
<1>5. QED BY <1>1, <1>2, <1>3, <1>4

\* Nothing is behind a scan that starts.
LEMMA InitHolds == scan \in Scans /\ ScanInit => IInv
<1> SUFFICES ASSUME scan \in Scans, ScanInit PROVE IInv
  OBVIOUS
<1>1. Len(scan.files) \in Nat
  BY DEF Scans
<1>2. HealthyBefore = {} /\ FailedBefore = {}
  BY DEF ScanInit, HealthyBefore, FailedBefore
<1>3. TypeInv
  BY <1>1 DEF ScanInit, TypeInv
<1>4. Filed
  BY <1>2, FS_EmptySet DEF ScanInit, Filed
<1>5. Underway /\ RawExact /\ Graded
  BY <1>2 DEF ScanInit, Underway, RawExact, Graded, Done
<1>6. QED BY <1>3, <1>4, <1>5 DEF IInv

\* What passing a file adds to the files behind the scan.
LEMMA PassFile ==
  ASSUME TypeInv, next <= Len(scan.files), scan' = scan, next' = next + 1
  PROVE  /\ HealthyBefore' = HealthyBefore \cup (IF Healthy(next) THEN {next} ELSE {})
         /\ FailedBefore' = FailedBefore \cup (IF Healthy(next) THEN {} ELSE {next})
         /\ next \notin HealthyBefore
         /\ IsFiniteSet(HealthyBefore)
<1>1. \A i : Healthy(i)' = Healthy(i)
  BY DEF Healthy
<1>2. next \in Nat /\ 1..(next' - 1) = 1..(next - 1) \cup {next} /\ next \notin 1..(next - 1)
  <2>1. next \in Nat /\ next >= 1
    BY DEF TypeInv
  <2>2. QED BY <2>1
<1>3. IsFiniteSet(HealthyBefore)
  <2>1. IsFiniteSet(1..(next - 1))
    BY <1>2, FS_Interval
  <2>2. HealthyBefore \in SUBSET (1..(next - 1))
    BY DEF HealthyBefore
  <2>3. QED BY <2>1, <2>2, FS_Subset
<1>4. HealthyBefore' = {i \in 1..(next' - 1) : Healthy(i)} /\ FailedBefore' = {i \in 1..(next' - 1) : ~ Healthy(i)}
  BY <1>1 DEF HealthyBefore, FailedBefore
<1>5. QED BY <1>2, <1>3, <1>4 DEF HealthyBefore, FailedBefore

\* A file that fails is filed as an error and adds nothing else.
LEMMA FailHolds ==
  ASSUME IInv, next <= Len(scan.files), ~ Healthy(next),
         parse_errors' = Append(parse_errors, next), next' = next + 1, fn' = 0,
         UNCHANGED <<scan, collected, raw, scanned, outcome>>
  PROVE  IInv'
<1>1. /\ HealthyBefore' = HealthyBefore /\ FailedBefore' = FailedBefore \cup {next}
  BY PassFile DEF IInv
<1>2. /\ next \in Nat /\ parse_errors \in Seq(Nat) /\ Len(scan.files) \in Nat /\ scanned \in Nat
      /\ next >= 1
  BY DEF IInv, TypeInv, Scans
<1>3. TypeInv'
  BY <1>2 DEF IInv, TypeInv
<1>4. {parse_errors'[n] : n \in DOMAIN parse_errors'} = {parse_errors[n] : n \in DOMAIN parse_errors} \cup {next}
  <2>1. /\ DOMAIN parse_errors' = DOMAIN parse_errors \cup {Len(parse_errors) + 1}
        /\ parse_errors'[Len(parse_errors) + 1] = next
        /\ \A n \in DOMAIN parse_errors : parse_errors'[n] = parse_errors[n]
    BY <1>2
  <2>2. QED BY <2>1
<1>5. Len(parse_errors') = Len(parse_errors) + 1 /\ Len(parse_errors) \in Nat
  BY <1>2
<1>6. Filed'
  <2>1. scanned' = Cardinality(HealthyBefore')
    BY <1>1 DEF IInv, Filed
  <2>2. {parse_errors'[n] : n \in DOMAIN parse_errors'} = FailedBefore'
    BY <1>1, <1>4 DEF IInv, Filed
  <2>3. Len(parse_errors') + scanned' = next' - 1
    BY <1>2, <1>5 DEF IInv, Filed
  <2>4. QED BY <2>1, <2>2, <2>3 DEF Filed
<1>7. Underway'
  BY DEF Underway
<1>8. \A i : Finalize(Reports(i))' = Finalize(Reports(i))
  BY DEF Finalize, Reports, SameFlow
<1>9. RawExact'
  BY <1>1, <1>8 DEF IInv, RawExact
<1>10. ~ Done
  BY <1>2 DEF IInv, Graded
<1>11. Graded'
  BY <1>10 DEF Graded, Done
<1>12. QED BY <1>3, <1>6, <1>7, <1>9, <1>11 DEF IInv

\* A file that does not parse is no healthy one.
LEMMA ParseFailsHolds == IInv /\ ParseFails => IInv'
<1> SUFFICES ASSUME IInv, ParseFails PROVE IInv'
  OBVIOUS
<1>1. ~ Healthy(next)
  BY DEF ParseFails, Healthy, File
<1>2. QED BY <1>1, FailHolds DEF ParseFails

\* Neither is one whose analysis raises.
LEMMA AnalysisFailsHolds == IInv /\ AnalysisFails => IInv'
<1> SUFFICES ASSUME IInv, AnalysisFails PROVE IInv'
  OBVIOUS
<1>1. ~ Healthy(next)
  BY DEF AnalysisFails, Healthy, File
<1>2. next <= Len(scan.files)
  BY DEF AnalysisFails, IInv, TypeInv
<1>3. QED BY <1>1, <1>2, FailHolds DEF AnalysisFails

\* The analysis of a file begins with nothing collected.
LEMMA ParseSucceedsHolds == IInv /\ ParseSucceeds => IInv'
<1> SUFFICES ASSUME IInv, ParseSucceeds PROVE IInv'
  OBVIOUS
<1>1. UNCHANGED <<scan, next, raw, parse_errors, scanned, outcome>> /\ next <= Len(scan.files)
  BY DEF ParseSucceeds
<1>2. TypeInv'
  BY <1>1 DEF IInv, TypeInv, ParseSucceeds
<1>3. HealthyBefore' = HealthyBefore /\ FailedBefore' = FailedBefore
  BY <1>1 DEF HealthyBefore, FailedBefore, Healthy
<1>4. Filed'
  BY <1>1, <1>3 DEF IInv, Filed
<1>5. Underway'
  <2>1. Len(File.functions) \in Nat /\ File' = File
    BY <1>1, FileType DEF IInv, File
  <2>2. fn' = 1 /\ 1..(fn' - 1) = {}
    BY DEF ParseSucceeds
  <2>3. QED BY <2>1, <2>2 DEF Underway, ParseSucceeds
<1>6. RawExact'
  BY <1>1, <1>3 DEF IInv, RawExact, Finalize, Reports, SameFlow
<1>7. ~ Done
  BY <1>1 DEF IInv, Graded, TypeInv, Scans
<1>8. QED BY <1>1, <1>2, <1>4, <1>5, <1>6, <1>7 DEF IInv, Graded, Done

\* A function that returns adds what it reports.
LEMMA AnalyseFunctionHolds == IInv /\ AnalyseFunction => IInv'
<1> SUFFICES ASSUME IInv, AnalyseFunction PROVE IInv'
  OBVIOUS
<1>1. UNCHANGED <<scan, next, raw, parse_errors, scanned, outcome>> /\ fn' = fn + 1
  BY DEF AnalyseFunction
<1>2. TypeInv'
  BY <1>1 DEF IInv, TypeInv, AnalyseFunction
<1>3. HealthyBefore' = HealthyBefore /\ FailedBefore' = FailedBefore
  BY <1>1 DEF HealthyBefore, FailedBefore, Healthy
<1>4. Filed'
  BY <1>1, <1>3 DEF IInv, Filed
<1>5. Underway'
  <2>1. /\ DOMAIN File.functions = 1..Len(File.functions) /\ Len(File.functions) \in Nat
        /\ File' = File /\ fn \in Nat /\ fn > 0 /\ fn \in DOMAIN File.functions
        /\ ~ File.functions[fn].raises
    BY <1>1, FileType DEF IInv, TypeInv, File, AnalyseFunction
  <2>2. 1..(fn' - 1) = 1..(fn - 1) \cup {fn}
    BY <1>1, <2>1
  <2>3. collected' = collected \cup {InFile(f, next) : f \in File.functions[fn].reports}
    BY DEF AnalyseFunction, InFile
  <2>4. collected' = UNION {{InFile(f, next) : f \in File.functions[j].reports} : j \in 1..(fn' - 1)}
    BY <2>1, <2>2, <2>3 DEF IInv, Underway
  <2>5. QED BY <1>1, <2>1, <2>2, <2>4 DEF IInv, Underway, InFile
<1>6. RawExact'
  BY <1>1, <1>3 DEF IInv, RawExact, Finalize, Reports, SameFlow
<1>7. ~ Done
  BY DEF IInv, Graded, AnalyseFunction
<1>8. QED BY <1>1, <1>2, <1>4, <1>5, <1>6, <1>7 DEF IInv, Graded, Done

\* A file all of whose functions have returned is healthy, and what is kept
\* of it is what they report.
LEMMA AnalysisSucceedsHolds == IInv /\ AnalysisSucceeds => IInv'
<1> SUFFICES ASSUME IInv, AnalysisSucceeds PROVE IInv'
  OBVIOUS
<1>1. /\ UNCHANGED <<scan, collected, parse_errors, outcome>>
      /\ next' = next + 1 /\ fn' = 0 /\ scanned' = scanned + 1
      /\ raw' = raw \cup Finalize(collected)
  BY DEF AnalysisSucceeds
<1>2. next <= Len(scan.files) /\ Len(scan.files) \in Nat /\ next \in Nat /\ scanned \in Nat
      /\ next >= 1
  BY DEF IInv, TypeInv, AnalysisSucceeds, Scans
<1>3. 1..(fn - 1) = DOMAIN File.functions
  <2>1. /\ DOMAIN File.functions = 1..Len(File.functions) /\ Len(File.functions) \in Nat
        /\ fn \in Nat /\ fn > 0 /\ fn \notin DOMAIN File.functions
        /\ fn <= Len(File.functions) + 1
    BY <1>2, FileType DEF IInv, TypeInv, Underway, AnalysisSucceeds
  <2>2. fn = Len(File.functions) + 1
    BY <2>1
  <2>3. QED BY <2>1, <2>2
<1>4. Healthy(next)
  BY <1>3 DEF IInv, Underway, Healthy, File, AnalysisSucceeds
<1>5. collected = Reports(next)
  BY <1>3 DEF IInv, Underway, Reports, File, InFile, AnalysisSucceeds
<1>6. /\ HealthyBefore' = HealthyBefore \cup {next} /\ FailedBefore' = FailedBefore
      /\ next \notin HealthyBefore /\ IsFiniteSet(HealthyBefore)
  BY <1>1, <1>2, <1>4, PassFile DEF IInv
<1>7. TypeInv'
  BY <1>1, <1>2 DEF IInv, TypeInv
<1>8. Filed'
  <2>1. Cardinality(HealthyBefore') = scanned + 1
    BY <1>6, FS_AddElement DEF IInv, Filed
  <2>2. Len(parse_errors) \in Nat
    BY DEF IInv, TypeInv
  <2>3. QED BY <1>1, <1>2, <1>6, <2>1, <2>2 DEF IInv, Filed
<1>9. Underway'
  BY <1>1 DEF Underway
<1>10. RawExact'
  <2>1. \A i : Finalize(Reports(i))' = Finalize(Reports(i))
    BY <1>1 DEF Finalize, Reports, SameFlow
  <2>2. raw' = raw \cup Finalize(Reports(next))
    BY <1>1, <1>5
  <2>3. QED BY <1>6, <2>1, <2>2 DEF IInv, RawExact
<1>11. ~ Done
  BY <1>2 DEF IInv, Graded
<1>12. QED BY <1>1, <1>7, <1>8, <1>9, <1>10, <1>11 DEF IInv, Graded, Done

\* The outcome is graded after the last file.
LEMMA GradeHolds == IInv /\ Grade => IInv'
<1> SUFFICES ASSUME IInv, Grade PROVE IInv'
  OBVIOUS
<1>1. UNCHANGED <<scan, next, fn, collected, raw, parse_errors, scanned>>
  BY DEF Grade
<1>2. TypeInv' /\ Filed' /\ Underway' /\ RawExact'
  BY <1>1 DEF IInv, TypeInv, Filed, HealthyBefore, FailedBefore, Healthy, Underway, File, InFile,
              RawExact, Finalize, Reports, SameFlow
<1>3. next = Len(scan.files) + 1 /\ fn = 0
  BY DEF IInv, TypeInv, Scans, Grade
<1>4. /\ outcome'.findings = Aggregate(raw, scan.threshold)
      /\ outcome'.exit = ComputeExitCode(outcome'.findings)
  BY DEF Grade
<1>5. ComputeExitCode(outcome.findings)' = ComputeExitCode(outcome'.findings)
      /\ Aggregate(raw, scan.threshold)' = Aggregate(raw, scan.threshold)
  BY <1>1 DEF ComputeExitCode, Gate, Aggregate, SameKey, FingerprintOf
<1>6. Graded'
  BY <1>1, <1>3, <1>4, <1>5 DEF Graded
<1>7. QED BY <1>2, <1>6 DEF IInv

\* Every step of a scan keeps the invariant.
LEMMA IInvStep == IInv /\ [ScanNext]_scanVars => IInv'
<1> SUFFICES ASSUME IInv, [ScanNext]_scanVars PROVE IInv'
  OBVIOUS
<1>1. CASE UNCHANGED scanVars
  <2>1. (TypeInv /\ Filed)' = (TypeInv /\ Filed)
    BY <1>1 DEF scanVars, TypeInv, Filed, HealthyBefore, FailedBefore, Healthy
  <2>2. Underway' = Underway
    BY <1>1 DEF scanVars, Underway, File, InFile
  <2>3. RawExact' = RawExact
    BY <1>1 DEF scanVars, RawExact, HealthyBefore, Healthy, Finalize, Reports, SameFlow
  <2>4. Graded' = Graded
    BY <1>1 DEF scanVars, Graded, Done, Aggregate, ComputeExitCode, Gate, SameKey, FingerprintOf
  <2>5. QED BY <2>1, <2>2, <2>3, <2>4 DEF IInv
<1>2. CASE ScanNext
  BY <1>2, ParseFailsHolds, ParseSucceedsHolds, AnalyseFunctionHolds, AnalysisFailsHolds,
     AnalysisSucceedsHolds, GradeHolds DEF ScanNext
<1>3. QED BY <1>1, <1>2

\* In every state of a scan the invariant holds.
LEMMA Invariance == ScanSpec => []IInv
<1>1. scan \in Scans /\ ScanInit => IInv
  BY InitHolds
<1>2. QED BY <1>1, IInvStep, PTL DEF ScanSpec

-----------------------------------------------------------------------------
(***************************************************************************)
(* What a finished scan has done.                                          *)
(***************************************************************************)
\* Once the scan is done the files behind it are all its files.
LEMMA AllBehind ==
  ASSUME IInv, Done
  PROVE  /\ HealthyBefore = {i \in DOMAIN scan.files : Healthy(i)}
         /\ FailedBefore = {i \in DOMAIN scan.files : ~ Healthy(i)}
         /\ next - 1 = Len(scan.files)
<1>1. scan.files \in Seq(SourceFile) /\ next = Len(scan.files) + 1
  BY DEF IInv, TypeInv, Scans, Graded
<1>2. 1..(next - 1) = DOMAIN scan.files /\ next - 1 = Len(scan.files)
  BY <1>1
<1>3. QED BY <1>2 DEF HealthyBefore, FailedBefore

\* A report of a file carries the number of the file.
LEMMA ReportsInFile ==
  ASSUME IInv, NEW i \in DOMAIN scan.files, NEW r \in Reports(i)
  PROVE  r \in Reportable /\ r.file = i
<1>1. scan.files \in Seq(SourceFile) /\ i \in Nat
  BY DEF IInv, TypeInv, Scans
<1>2. scan.files[i].functions \in Seq(Function)
  <2>1. scan.files[i] \in SourceFile
    BY <1>1
  <2>2. QED BY <2>1 DEF SourceFile
<1>3. PICK j \in DOMAIN scan.files[i].functions :
        \E f \in scan.files[i].functions[j].reports : r = [f EXCEPT !.file = i]
  BY DEF Reports
<1>4. scan.files[i].functions[j] \in Function
  BY <1>2, <1>3
<1>5. PICK f \in Reportable : r = [f EXCEPT !.file = i]
  BY <1>3, <1>4 DEF Function
<1>6. r \in Finding /\ Key(r) = Key(f) /\ r.file = i
  BY <1>1, <1>5 DEF Reportable, Finding, Key
<1>7. QED BY <1>5, <1>6 DEF Reportable, Key

\* What the invariant says of a finished scan: the files ...
LEMMA IsolationFollows == IInv => FilesIsolated
<1> SUFFICES ASSUME IInv, Done PROVE FilesIsolated
  BY DEF FilesIsolated
<1>1. \A f \in outcome.findings : Healthy(f.file)
  <2> SUFFICES ASSUME NEW f \in outcome.findings PROVE Healthy(f.file)
    OBVIOUS
  <2>1. f \in raw
    BY DEF IInv, Graded, Aggregate
  <2>2. PICK i \in HealthyBefore : f \in Reports(i)
    BY <2>1 DEF IInv, RawExact, Finalize
  <2>3. i \in DOMAIN scan.files /\ Healthy(i)
    BY AllBehind, <2>2
  <2>4. QED BY <2>2, <2>3, ReportsInFile
<1>2. QED BY AllBehind, <1>1 DEF FilesIsolated, IInv, Filed

\* The isolation of files in run_scan: whatever fails, and wherever, the
\* files that could be analysed and those reported as errors are all the
\* files, each once, and every finding comes from a healthy one.
THEOREM Isolation == ScanSpec => []FilesIsolated
BY IsolationFollows, Invariance, PTL

\* A set of natural numbers has a least one.
LEMMA LeastOne ==
  ASSUME NEW S \in SUBSET Nat, S # {}
  PROVE  \E n \in S : \A m \in S : n <= m
<1>1. IsWellFoundedOn(OpToRel(<, Nat), Nat)
  BY NatLessThanWellFounded
<1>2. PICK n \in S : \A m \in S : ~ (<<m, n>> \in OpToRel(<, Nat))
  BY <1>1, WFMin, Zenon
<1>3. \A m \in S : ~ (m < n)
  BY <1>2 DEF OpToRel
<1>4. QED BY <1>3

\* What is collected comes from a healthy file, and is the best of its flow.
LEMMA RawFinding ==
  ASSUME IInv, Done, NEW f \in raw
  PROVE  /\ f \in Reportable
         /\ f.file \in DOMAIN scan.files /\ Healthy(f.file)
         /\ f \in Reports(f.file)
         /\ \A q \in Reports(f.file) : SameFlow(f, q) => f.witness <= q.witness
<1>1. PICK i \in HealthyBefore : f \in Finalize(Reports(i))
  BY DEF IInv, RawExact
<1>2. i \in DOMAIN scan.files /\ Healthy(i) /\ f \in Reports(i)
  BY <1>1, AllBehind DEF Finalize
<1>3. f \in Reportable /\ f.file = i
  BY <1>2, ReportsInFile
<1>4. QED BY <1>1, <1>2, <1>3 DEF Finalize

\* The engine's dedup keeps one report of each flow.
LEMMA FinalizeKeeps ==
  ASSUME IInv, NEW i \in DOMAIN scan.files, NEW r \in Reports(i)
  PROVE  \E b \in Finalize(Reports(i)) : SameFlow(b, r)
<1> DEFINE flow == {q \in Reports(i) : SameFlow(q, r)}
           W == {q.witness : q \in flow}
<1>1. W \in SUBSET Nat
  BY ReportsInFile DEF Reportable, Finding
<1>2. r.witness \in W
  BY DEF SameFlow
<1>3. PICK n \in W : \A m \in W : n <= m
  <2> HIDE DEF W
  <2>1. QED BY <1>1, <1>2, LeastOne
<1>4. PICK b \in flow : b.witness = n
  OBVIOUS
<1>5. \A q \in Reports(i) : SameFlow(b, q) => b.witness <= q.witness
  BY <1>3, <1>4 DEF SameFlow
<1>6. QED BY <1>4, <1>5 DEF Finalize

\* The scanner's keeps one report of each key at or above the threshold.
LEMMA AggregateKeeps ==
  ASSUME IInv, Done, NEW b \in raw, Rank[b.det] >= scan.threshold
  PROVE  \E f \in outcome.findings : SameKey(f, b)
<1> DEFINE kept == {f \in raw : Rank[f.det] >= scan.threshold}
           alike == {g \in kept : SameKey(g, b)}
           F == {FingerprintOf(g) : g \in alike}
<1>1. F \in SUBSET Nat
  <2>1. \A g \in raw : g \in Reportable
    BY RawFinding
  <2>2. \A g \in raw : FingerprintOf(g) \in Nat
    BY <2>1, FingerprintAssumption DEF Reportable, Key, FingerprintOf
  <2>3. QED BY <2>2
<1>2. FingerprintOf(b) \in F
  BY DEF SameKey
<1>3. PICK n \in F : \A m \in F : n <= m
  <2> HIDE DEF F
  <2>1. QED BY <1>1, <1>2, LeastOne
<1>4. PICK f \in alike : FingerprintOf(f) = n
  OBVIOUS
<1>5. \A g \in kept : SameKey(f, g) => f.file = g.file /\ FingerprintOf(f) <= FingerprintOf(g)
  <2> SUFFICES ASSUME NEW g \in kept, SameKey(f, g)
               PROVE  f.file = g.file /\ FingerprintOf(f) <= FingerprintOf(g)
    OBVIOUS
  <2>1. g \in alike
    BY <1>4 DEF SameKey
  <2>2. QED BY <1>3, <1>4, <2>1 DEF SameKey
<1>6. f \in Aggregate(raw, scan.threshold)
  BY <1>4, <1>5 DEF Aggregate
<1>7. QED BY <1>4, <1>6 DEF IInv, Graded

\* The gate is a rank.
LEMMA GateType ==
  ASSUME IInv
  PROVE  Gate \in Nat /\ scan.threshold \in Nat
<1>1. scan.threshold \in Nat /\ scan.failOn \in SUBSET Nat
  BY DEF IInv, TypeInv, Scans
<1>2. QED BY <1>1 DEF Gate

\* ... the exit code ...
LEMMA HonestyFollows == IInv => ExitCodeHonest
<1> SUFFICES ASSUME IInv, Done, Gate >= scan.threshold PROVE ExitCodeHonest
  BY DEF ExitCodeHonest
<1>1. outcome.exit = "FINDINGS" <=> \E f \in outcome.findings : Rank[f.det] >= Gate
  BY DEF IInv, Graded, ComputeExitCode
<1>2. ASSUME NEW f \in outcome.findings, Rank[f.det] >= Gate
      PROVE  \E i \in DOMAIN scan.files : Healthy(i) /\ \E r \in Reports(i) : Rank[r.det] >= Gate
  <2>1. f \in raw
    BY DEF IInv, Graded, Aggregate
  <2>2. QED BY <1>2, <2>1, RawFinding
<1>3. ASSUME NEW i \in DOMAIN scan.files, Healthy(i), NEW r \in Reports(i), Rank[r.det] >= Gate
      PROVE  \E f \in outcome.findings : Rank[f.det] >= Gate
  <2>1. PICK b \in Finalize(Reports(i)) : SameFlow(b, r)
    BY FinalizeKeeps
  <2>2. b \in raw
    BY <1>3, <2>1, AllBehind DEF IInv, RawExact
  <2>3. Rank[b.det] \in Nat /\ Rank[b.det] >= Gate
    <3>1. b.det = r.det /\ b.det \in DOMAIN Rank
      BY <2>1, <2>2, RawFinding DEF SameFlow, Reportable, Finding, Detector
    <3>2. QED BY <1>3, <3>1, RankAssumption
  <2>4. Rank[b.det] >= scan.threshold
    BY <2>3, GateType
  <2>5. PICK f \in outcome.findings : SameKey(f, b)
    BY <2>2, <2>4, AggregateKeeps
  <2>6. QED BY <2>3, <2>5 DEF SameKey
<1>4. QED BY <1>1, <1>2, <1>3 DEF ExitCodeHonest

\* compute_exit_code: whatever the files, the two dedups and the options, the
\* code of a finished scan is FINDINGS exactly if a file that could be
\* analysed has a report at the gate, unless the gate is below the threshold.
THEOREM HonestExit == ScanSpec => []ExitCodeHonest
BY HonestyFollows, Invariance, PTL

\* No two sinks of a detector in a file start at one place.
SinksApart ==
  \A i \in DOMAIN scan.files : \A q, r \in Reports(i) :
    q.det = r.det /\ q.sink[1] = r.sink[1] => q.sink = r.sink

\* ... and the vulnerabilities.
LEMMA OnceFollows == IInv /\ SinksApart => EachVulnerabilityOnce
<1> SUFFICES ASSUME IInv, SinksApart, Done, NEW i \in DOMAIN scan.files, Healthy(i),
                    NEW r \in Reports(i), Rank[r.det] >= scan.threshold
             PROVE  LET same == {f \in outcome.findings : SameVulnerability(f, r)}
                    IN  /\ Cardinality(same) = 1
                        /\ \A f \in same : f \in Reports(i) /\ \A q \in Reports(i) :
                             SameFlow(f, q) => f.witness <= q.witness
  BY DEF EachVulnerabilityOnce
<1> DEFINE same == {f \in outcome.findings : SameVulnerability(f, r)}
<1>1. PICK b \in Finalize(Reports(i)) : SameFlow(b, r)
  BY FinalizeKeeps
<1>2. b \in raw /\ Rank[b.det] >= scan.threshold
  BY <1>1, AllBehind DEF IInv, RawExact, SameFlow
<1>3. PICK f \in outcome.findings : SameKey(f, b)
  BY <1>2, AggregateKeeps
<1>4. \A g \in outcome.findings : g \in raw /\ Rank[g.det] >= scan.threshold
  BY DEF IInv, Graded, Aggregate
<1>5. r.file = i
  BY ReportsInFile
<1>6. f \in same
  <2>1. f.det = r.det /\ f.file = i /\ f.sink[1] = r.sink[1] /\ f.source[1] = r.source[1]
    BY <1>1, <1>3, <1>5 DEF SameKey, SameFlow
  <2>2. f \in Reports(i)
    BY <1>4, <2>1, RawFinding
  <2>3. QED BY <1>5, <2>1, <2>2 DEF SinksApart, SameVulnerability
<1>7. \A g \in same : g = f
  <2> SUFFICES ASSUME NEW g \in same PROVE g = f
    OBVIOUS
  <2>1. SameKey(f, g) /\ SameKey(g, f) /\ f.file = g.file
    BY <1>6 DEF SameKey, SameVulnerability
  <2>2. f \in Reportable /\ g \in Reportable
    BY <1>4, RawFinding
  <2>3. FingerprintOf(f) <= FingerprintOf(g) /\ FingerprintOf(g) <= FingerprintOf(f)
    BY <1>4, <2>1, <2>2 DEF IInv, Graded, Aggregate, Reportable, Finding
  <2>4. FingerprintOf(f) \in Nat /\ FingerprintOf(g) \in Nat
    BY <2>2, FingerprintAssumption DEF Reportable, Key, FingerprintOf
  <2>5. Key(f) = Key(g)
    BY <2>2, <2>3, <2>4, FingerprintAssumption DEF Reportable, Key, FingerprintOf
  <2>6. QED BY <2>1, <2>2, <2>5 DEF Key, Reportable, Finding
<1>8. Cardinality(same) = 1
  <2>1. same = {f}
    BY <1>6, <1>7
  <2>2. QED BY <2>1, FS_Singleton
<1>9. ASSUME NEW g \in same
      PROVE  g \in Reports(i) /\ \A q \in Reports(i) : SameFlow(g, q) => g.witness <= q.witness
  <2>1. g \in raw /\ g.file = i
    BY <1>4, <1>5 DEF SameVulnerability
  <2>2. QED BY <2>1, RawFinding
<1>10. QED BY <1>8, <1>9

\* aggregate and _finalize: two dedups with different keys lose no
\* vulnerability and repeat none, in any scan whose sinks start apart.
THEOREM NothingMergedAway == ScanSpec /\ []SinksApart => []EachVulnerabilityOnce
BY OnceFollows, Invariance, PTL

=============================================================================
