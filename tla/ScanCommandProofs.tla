-------------------------- MODULE ScanCommandProofs --------------------------
(***************************************************************************)
(* Theorems about ScanCommand: what a command hands from step to step, and *)
(* the promises of a scan kept in whatever command runs it.                *)
(***************************************************************************)
EXTENDS DetectorLanguageProofs, ScannerProofs, DiscoveryProofs

-----------------------------------------------------------------------------
(***************************************************************************)
(* The files of a scan.                                                    *)
(***************************************************************************)
\* The recursion of a fold is defined on the subsets of a finite set.
Chosen(s) == CHOOSE x \in s : TRUE

Folded(it, D) ==
  it = [s \in D |-> IF s = {} THEN <<>> ELSE Append(it[s \ {Chosen(s)}], Chosen(s))]

\* What is chosen leaves a smaller set.
LEMMA ChosenIn ==
  ASSUME NEW S, IsFiniteSet(S), NEW s \in SUBSET S, s # {}
  PROVE  /\ Chosen(s) \in s /\ s \ {Chosen(s)} \in SUBSET S
         /\ Cardinality(s) \in Nat \ {0}
         /\ Cardinality(s \ {Chosen(s)}) = Cardinality(s) - 1
<1>1. Chosen(s) \in s
  BY DEF Chosen
<1>2. IsFiniteSet(s)
  BY FS_Subset
<1>3. Cardinality(s) \in Nat /\ Cardinality(s) # 0
  BY <1>2, FS_CardinalityType, FS_EmptySet
<1>4. Cardinality(s \ {Chosen(s)}) = Cardinality(s) - 1
  BY <1>1, <1>2, FS_RemoveElement
<1>5. QED BY <1>1, <1>3, <1>4

\* By the least size of a set whose fold would be missing.
LEMMA FoldExists ==
  ASSUME NEW S, IsFiniteSet(S)
  PROVE  \E it : Folded(it, SUBSET S)
<1> DEFINE upTo(n) == {s \in SUBSET S : Cardinality(s) <= n}
           missing == {n \in Nat : ~ \E it : Folded(it, upTo(n))}
<1>1. missing = {}
  <2> SUFFICES ASSUME missing # {} PROVE FALSE
    OBVIOUS
  <2>1. PICK n \in missing : \A m \in missing : n <= m
    BY LeastOne
  <2>2. \A s \in upTo(n) : s # {} => n > 0 /\ s \ {Chosen(s)} \in upTo(n - 1)
    <3> SUFFICES ASSUME NEW s \in upTo(n), s # {}
                 PROVE  n > 0 /\ s \ {Chosen(s)} \in upTo(n - 1)
      OBVIOUS
    <3>1. /\ s \ {Chosen(s)} \in SUBSET S /\ Cardinality(s) \in Nat \ {0}
          /\ Cardinality(s \ {Chosen(s)}) = Cardinality(s) - 1
      BY ChosenIn
    <3>2. QED BY <3>1
  <2>3. CASE n = 0
    <3> DEFINE it == [s \in upTo(n) |-> <<>>]
    <3>1. \A s \in upTo(n) : s = {}
      BY <2>2, <2>3
    <3>2. Folded(it, upTo(n))
      BY <3>1 DEF Folded
    <3>3. QED BY <2>1, <3>2
  <2>4. CASE n > 0
    <3>1. n - 1 \in Nat /\ n - 1 \notin missing
      <4>1. n \in Nat /\ n - 1 \in Nat /\ ~ (n <= n - 1)
        BY <2>4
      <4> HIDE DEF missing
      <4>2. QED BY <2>1, <4>1
    <3>2. PICK g : Folded(g, upTo(n - 1))
      BY <3>1
    <3> DEFINE it == [s \in upTo(n) |->
                        IF s = {} THEN <<>> ELSE Append(g[s \ {Chosen(s)}], Chosen(s))]
    <3>3. ASSUME NEW s \in upTo(n - 1) PROVE s \in upTo(n) /\ g[s] = it[s]
      <4>1. s \in upTo(n)
        <5>1. IsFiniteSet(s)
          BY FS_Subset
        <5>2. Cardinality(s) \in Nat
          BY <5>1, FS_CardinalityType
        <5>3. QED BY <5>2, <2>1
      <4>2. g[s] = IF s = {} THEN <<>> ELSE Append(g[s \ {Chosen(s)}], Chosen(s))
        BY <3>2 DEF Folded
      <4>3. QED BY <4>1, <4>2
    <3>4. \A s \in upTo(n) : s # {} => g[s \ {Chosen(s)}] = it[s \ {Chosen(s)}]
      BY <2>2, <3>3
    <3> HIDE DEF upTo
    <3>5. Folded(it, upTo(n))
      BY <3>4 DEF Folded
    <3>6. QED BY <2>1, <3>5
  <2>5. QED BY <2>1, <2>3, <2>4
<1>2. Cardinality(S) \in Nat
  BY FS_CardinalityType
<1>3. upTo(Cardinality(S)) = SUBSET S
  BY FS_Subset
<1>4. QED BY <1>1, <1>2, <1>3

\* What the files of a scan are listed as: a sequence of them, all of them.
LEMMA ListedInOrder ==
  ASSUME NEW S, IsFiniteSet(S)
  PROVE  InOrder(S) \in Seq(S) /\ S = {InOrder(S)[i] : i \in DOMAIN InOrder(S)}
<1> DEFINE iter == CHOOSE it : Folded(it, SUBSET S)
           Holds(s) == iter[s] \in Seq(S) /\ s = {iter[s][i] : i \in DOMAIN iter[s]}
           bad == {n \in Nat : \E s \in SUBSET S : Cardinality(s) = n /\ ~ Holds(s)}
<1>1. Folded(iter, SUBSET S)
  BY FoldExists
<1>2. InOrder(S) = iter[S]
  BY DEF InOrder, FoldSet, MapThenFoldSet, Folded, Chosen
<1> HIDE DEF iter
<1>3. bad = {}
  <2> SUFFICES ASSUME bad # {} PROVE FALSE
    OBVIOUS
  <2>1. PICK n \in bad : \A m \in bad : n <= m
    BY LeastOne
  <2>2. PICK s \in SUBSET S : Cardinality(s) = n /\ ~ Holds(s)
    BY <2>1
  <2>3. s # {}
    <3>1. iter[{}] = <<>>
      BY <1>1 DEF Folded
    <3>2. Holds({})
      BY <3>1
    <3>3. QED BY <2>2, <3>2
  <2> DEFINE x == Chosen(s)
             r == s \ {x}
  <2>4. /\ x \in s /\ r \in SUBSET S
        /\ Cardinality(r) = n - 1 /\ n \in Nat \ {0}
    BY <2>2, <2>3, ChosenIn
  <2>5. Holds(r)
    <3>1. n - 1 \in Nat /\ ~ (n <= n - 1)
      BY <2>4
    <3>2. n - 1 \notin bad
      <4> HIDE DEF bad
      <4>1. QED BY <2>1, <3>1
    <3>3. QED BY <2>4, <3>1, <3>2
  <2>6. iter[s] = Append(iter[r], x)
    BY <1>1, <2>3 DEF Folded
  <2> HIDE DEF r, x
  <2>7. Holds(s)
    <3> DEFINE q == iter[r]
    <3>1. q \in Seq(S) /\ r = {q[i] : i \in DOMAIN q} /\ x \in S /\ iter[s] = Append(q, x)
      BY <2>4, <2>5, <2>6
    <3> HIDE DEF q
    <3>2. /\ iter[s] \in Seq(S) /\ DOMAIN iter[s] = DOMAIN q \cup {Len(q) + 1}
          /\ iter[s][Len(q) + 1] = x /\ \A i \in DOMAIN q : iter[s][i] = q[i]
      BY <3>1
    <3>3. s = r \cup {x}
      BY <2>4 DEF r
    <3>4. QED BY <3>1, <3>2, <3>3
  <2>8. QED BY <2>2, <2>7
<1>4. Cardinality(S) \in Nat
  BY FS_CardinalityType
<1>5. Holds(S)
  BY <1>3, <1>4
<1>6. QED BY <1>2, <1>5

-----------------------------------------------------------------------------
(***************************************************************************)
(* The invariant: what each step leaves is what the next may start from.   *)
(***************************************************************************)
Steps ==
  {"resolve", "load", "discover", "walk", "scan", "list", "show", "validate", "parse",
   "exited", "crashed"}

BeforeScan == step \in {"resolve", "load", "discover", "walk"}

\* The files do not change under the command.
Underground == command \in Commands /\ place = command.place

Stepping ==
  /\ step \in Steps /\ exit \in {"none", "OK", "FINDINGS", "ERROR"}
  /\ exit = "none" <=> step \notin {"exited", "crashed"}

Configured == DOMAIN config = KnownKeys /\ AreOptions(config)

\* The walk stands on entries of the tree and has found files of it.
Walking ==
  /\ \A d \in todo : d.at \in DOMAIN Tree /\ d.links \in 0..MaxLinks
  /\ \A f \in found : f.at \in DOMAIN Tree /\ Tree[f.at].kind = "file"
  /\ IsFiniteSet(found)

\* Up to its first step the scan is untouched.
Scanning == IInv /\ (BeforeScan => ScanInit)

CommandInv == Underground /\ Stepping /\ Configured /\ Walking /\ Scanning

\* The defaults are options, one for each key.
LEMMA DefaultOptions == AreOptions(Defaults) /\ DOMAIN Defaults = KnownKeys
<1>1. KnownKeys = {"detectors", "severity_threshold", "fail_on", "exclude", "output_format",
                   "gitignore"}
  BY DEF KnownKeys, Defaults
<1>2. IsOption("severity_threshold", Defaults["severity_threshold"])
  BY DEF IsOption, Defaults
<1>3. IsOption("fail_on", Defaults["fail_on"])
  BY DEF IsOption, Defaults
<1>4. IsOption("detectors", Defaults["detectors"])
  BY DEF IsOption, Defaults
<1>5. IsOption("exclude", Defaults["exclude"])
  BY DEF IsOption, Defaults
<1>6. IsOption("gitignore", Defaults["gitignore"])
  BY DEF IsOption, Defaults
<1>7. IsOption("output_format", Defaults["output_format"])
  BY DEF IsOption, Defaults
<1>8. DOMAIN Defaults = KnownKeys
  BY DEF KnownKeys
<1>9. QED
  BY <1>1, <1>2, <1>3, <1>4, <1>5, <1>6, <1>7, <1>8 DEF AreOptions

\* A command starts in the invariant.
LEMMA InitCommand == Init => CommandInv
<1> SUFFICES ASSUME Init PROVE CommandInv
  OBVIOUS
<1>1. IsCommand(command)
  BY CommandsAssumption DEF Init
<1>2. Underground
  BY DEF Init, Underground
<1>3. Stepping
  BY <1>1 DEF Init, Stepping, Steps, IsCommand
<1>4. Configured
  BY DefaultOptions DEF Init, Configured
<1>5. Walking
  BY FS_EmptySet DEF Init, WalkInit, Walking
<1>6. Scanning
  <2>1. NoScan \in Scans
    BY DEF NoScan, Scans
  <2>2. QED BY <2>1, InitHolds DEF Init, Scanning
<1>7. QED BY <1>2, <1>3, <1>4, <1>5, <1>6 DEF CommandInv

\* Options over options are options.
LEMMA OverOptions ==
  ASSUME NEW a, NEW b, AreOptions(a), AreOptions(b)
  PROVE  AreOptions(Over(a, b)) /\ DOMAIN Over(a, b) = DOMAIN a \cup DOMAIN b
BY DEF AreOptions, Over

\* Whatever the file and the command line give, the merged options are options.
LEMMA MergedOptions ==
  ASSUME IsCommand(command)
  PROVE  DOMAIN MergeConfig(command) = KnownKeys /\ AreOptions(MergeConfig(command))
<1>1. AreOptions(Defaults) /\ DOMAIN Defaults = KnownKeys
  BY DefaultOptions
<1>2. AreOptions(command.cli)
  BY DEF IsCommand
<1>3. AreOptions(FileOptions(command))
  <2>1. CASE Loaded(command) = "table"
    <3> DEFINE file == CHOOSE f \in ConfigFile(command) : TRUE
    <3>1. ConfigFile(command) # {}
      BY <2>1 DEF Loaded
    <3>2. file \in ConfigFile(command)
      BY <3>1
    <3>3. IsValid(file.text.table)
      BY <2>1, <3>1 DEF Loaded
    <3>4. FileOptions(command) = [k \in DOMAIN file.text.table |-> file.text.table[k][1]]
      BY <2>1 DEF FileOptions
    <3> HIDE DEF file
    <3>5. file.text \in {command.near.yml, command.near.pyproject} \cup {f.text : f \in command.config}
      BY <3>2 DEF ConfigFile, FindConfigFile
    <3>6. IsConfigText(file.text)
      BY <3>5 DEF IsCommand
    <3>7. QED BY <3>3, <3>6, <3>4 DEF IsConfigText
  <2>2. CASE Loaded(command) # "table"
    BY <2>2 DEF FileOptions, AreOptions
  <2>3. QED BY <2>1, <2>2
<1>4. /\ AreOptions(Over(FileOptions(command), Defaults))
      /\ DOMAIN Over(FileOptions(command), Defaults) = DOMAIN FileOptions(command) \cup KnownKeys
  BY <1>1, <1>3, OverOptions
<1>5. /\ AreOptions(MergeConfig(command))
      /\ DOMAIN MergeConfig(command)
           = DOMAIN command.cli \cup (DOMAIN FileOptions(command) \cup KnownKeys)
  BY <1>2, <1>4, OverOptions DEF MergeConfig
<1>6. QED BY <1>2, <1>3, <1>5 DEF AreOptions

\* A step that leaves the walk and the scan alone.
LEMMA StepAlone ==
  ASSUME CommandInv, UNCHANGED <<command, walkVars, scanVars>>, Stepping', Configured',
         BeforeScan' => BeforeScan
  PROVE  CommandInv'
<1>1. UNCHANGED <<place, todo, found, Tree>>
  BY DEF walkVars, Tree
<1>2. Underground'
  BY <1>1 DEF CommandInv, Underground
<1>3. Walking'
  BY <1>1 DEF CommandInv, Walking
<1>4. IInv'
  BY IInvStep DEF CommandInv, Scanning
<1>5. ScanInit => ScanInit'
  BY DEF ScanInit, scanVars
<1>6. QED BY <1>2, <1>3, <1>4, <1>5 DEF CommandInv, Scanning

\* The walk finds files of the tree, and finitely many.
LEMMA DiscoveryStep ==
  ASSUME CommandInv, WalkDirectory
  PROVE  CommandInv'
<1>1. PICK d \in todo : Walk(d)
  BY DEF WalkDirectory
<1>2. /\ UNCHANGED <<command, step, config, exit, place, scanVars>>
      /\ Tree' = Tree
  BY <1>1 DEF WalkDirectory, Walk, commandVars, Tree
<1>3. /\ IsFiniteSet(DOMAIN Tree)
      /\ \A e \in DOMAIN Tree : Tree[e].kind = "link" => Tree[e].to \in DOMAIN Tree
  BY CommandsAssumption DEF CommandInv, Underground, IsCommand, IsPlace, Tree
<1> DEFINE entries == IF Tree[d.at].readable THEN EntriesOf(d.at) ELSE {}
           kept(e, isDir) == LET p == Append(d.path, Last(e))
                             IN  ~ ExcludedByGlobs(p, globs) /\ ~ Ignored(p, isDir)
           dirs == {e \in entries : IsDir(e) /\ Reached(d, e).links <= MaxLinks
                                      /\ Last(e) \notin DefaultExcludeDirs /\ kept(e, TRUE)}
           files == {e \in entries : Tree[e].kind = "file" /\ IsPython(Last(e)) /\ kept(e, FALSE)}
           new == {[path |-> Append(d.path, Last(e)), at |-> e] : e \in files}
<1>4. /\ todo' = (todo \ {d}) \cup {Reached(d, e) : e \in dirs}
      /\ found' = found \cup new
      /\ dirs \in SUBSET DOMAIN Tree /\ files \in SUBSET DOMAIN Tree
      /\ \A e \in dirs : Reached(d, e).links <= MaxLinks
      /\ \A e \in files : Tree[e].kind = "file"
  <2>1. entries \in SUBSET DOMAIN Tree
    BY DEF EntriesOf
  <2>2. QED BY <1>1, <2>1 DEF Walk
<1> HIDE DEF dirs, files
<1>5. ASSUME NEW e \in dirs
      PROVE  Reached(d, e).at \in DOMAIN Tree /\ Reached(d, e).links \in 0..MaxLinks
  <2>1. d.links \in Nat
    BY DEF CommandInv, Walking
  <2>2. QED BY <1>3, <1>4, <2>1, MaxLinksAssumption DEF Reached
<1>6. IsFiniteSet(found')
  <2>1. IsFiniteSet(files)
    BY <1>3, <1>4, FS_Subset
  <2>2. [e \in files |-> [path |-> Append(d.path, Last(e)), at |-> e]] \in Surjection(files, new)
    BY DEF Surjection
  <2>3. IsFiniteSet(new)
    BY <2>1, <2>2, FS_Surjection
  <2>4. QED BY <1>4, <2>3, FS_Union DEF CommandInv, Walking
<1>7. Walking'
  BY <1>2, <1>4, <1>5, <1>6 DEF CommandInv, Walking
<1>8. Underground' /\ Stepping' /\ Configured'
  BY <1>2 DEF CommandInv, Underground, Stepping, Configured
<1>9. Scanning'
  <2>1. IInv'
    BY <1>2, IInvStep DEF CommandInv, Scanning
  <2>2. ScanInit => ScanInit'
    BY <1>2 DEF ScanInit, scanVars
  <2>3. QED BY <1>2, <2>1, <2>2 DEF CommandInv, Scanning, BeforeScan
<1>10. QED BY <1>7, <1>8, <1>9 DEF CommandInv

\* The discovery starts at the root.
LEMMA StartStep ==
  ASSUME CommandInv, StartDiscovery
  PROVE  CommandInv'
<1>1. /\ UNCHANGED <<command, config, place, scanVars>> /\ Tree' = Tree
      /\ step = "discover"
  BY DEF StartDiscovery, StartAtFile, StartAtDirectory, walkVars, Tree
<1>2. exit = "none"
  BY <1>1 DEF CommandInv, Stepping
<1>3. \/ step' = "crashed" /\ exit' = "FINDINGS"
      \/ step' = "walk" /\ exit' = "none"
  BY <1>2 DEF StartDiscovery, Crash, GoOn
<1>4. place.root \in DOMAIN Tree
  BY CommandsAssumption DEF CommandInv, Underground, IsCommand, IsPlace, Tree
<1>5. 0 \in 0..MaxLinks
  BY MaxLinksAssumption
<1>6. Walking'
  <2>1. CASE UNCHANGED walkVars
    BY <1>1, <2>1 DEF CommandInv, Walking, walkVars
  <2>2. CASE StartAtFile
    <3>1. todo' = todo /\ Tree[place.root].kind = "file"
      BY <2>2 DEF StartAtFile
    <3>2. found' \in {{[path |-> <<>>, at |-> place.root]}, {}}
      BY <2>2 DEF StartAtFile
    <3>3. IsFiniteSet(found')
      <4>1. IsFiniteSet({}) /\ IsFiniteSet({[path |-> <<>>, at |-> place.root]})
        BY FS_EmptySet, FS_Singleton
      <4>2. QED BY <3>2, <4>1
    <3>4. QED BY <1>1, <1>4, <3>1, <3>2, <3>3 DEF CommandInv, Walking
  <2>3. CASE StartAtDirectory(config.exclude, config.gitignore)
    BY <1>1, <1>4, <1>5, <2>3 DEF StartAtDirectory, CommandInv, Walking
  <2>4. QED BY <2>1, <2>2, <2>3 DEF StartDiscovery
<1>7. Underground' /\ Configured' /\ Stepping'
  BY <1>1, <1>3 DEF CommandInv, Underground, Configured, Stepping, Steps
<1>8. Scanning'
  <2>1. IInv'
    BY <1>1, IInvStep DEF CommandInv, Scanning
  <2>2. ScanInit => ScanInit'
    BY <1>1 DEF ScanInit, scanVars
  <2>3. QED BY <1>1, <2>1, <2>2 DEF CommandInv, Scanning, BeforeScan
<1>9. QED BY <1>6, <1>7, <1>8 DEF CommandInv

\* What the detectors selected report of a file is a file's content still.
LEMMA ContentsType ==
  ASSUME NEW at, Tree[at].content \in SourceFile
  PROVE  Contents(at) \in SourceFile
<1> DEFINE text == Tree[at].content
           fns == text.functions
           chosen == [i \in DOMAIN fns |->
                        [fns[i] EXCEPT !.reports = {f \in @ : f.det \in Selected(config.detectors)}]]
<1>1. text.parse \in {"ok", "none", "raises"} /\ fns \in Seq(Function)
  BY DEF SourceFile
<1>2. Contents(at) = [parse |-> text.parse, functions |-> chosen]
  BY DEF Contents
<1> HIDE DEF text
<1>3. ASSUME NEW i \in DOMAIN fns PROVE chosen[i] \in Function
  <2> DEFINE mine == {f \in fns[i].reports : f.det \in Selected(config.detectors)}
  <2>1. fns[i] \in Function
    BY <1>1
  <2>2. chosen[i] = [fns[i] EXCEPT !.reports = mine]
    OBVIOUS
  <2>3. mine \in SUBSET Reportable
    BY <2>1 DEF Function
  <2> HIDE DEF mine, chosen
  <2>4. QED BY <2>1, <2>2, <2>3 DEF Function
<1>4. DOMAIN fns = 1..Len(fns) /\ Len(fns) \in Nat
  BY <1>1
<1> HIDE DEF fns
<1>5. chosen \in Seq(Function)
  <2> DEFINE c == chosen
  <2>1. DOMAIN c = 1..Len(fns) /\ c = [i \in 1..Len(fns) |-> c[i]] /\ \A i \in 1..Len(fns) : c[i] \in Function
    BY <1>3, <1>4
  <2> HIDE DEF c
  <2>2. c \in [1..Len(fns) -> Function]
    BY <2>1
  <2>3. QED BY <1>4, <2>2, SeqDef DEF c
<1> HIDE DEF chosen
<1>6. QED BY <1>1, <1>2, <1>5 DEF SourceFile

\* The scan starts on the files found, whatever they are.
LEMMA ScanStarts ==
  ASSUME CommandInv, StartScan
  PROVE  CommandInv'
<1> DEFINE files == InOrder(found)
           contents == [i \in DOMAIN files |-> Contents(files[i].at)]
<1>1. /\ UNCHANGED <<command, config, exit, walkVars>> /\ step = "walk" /\ step' = "scan"
      /\ UNCHANGED <<next, fn, collected, raw, parse_errors, scanned, outcome>>
      /\ scan' = [files |-> contents, threshold |-> config.severity_threshold, failOn |-> config.fail_on]
  BY DEF StartScan, GoOn
<1> HIDE DEF files
<1>2. files \in Seq(found)
  BY ListedInOrder DEF files, CommandInv, Walking
<1>3. DOMAIN files = 1..Len(files) /\ Len(files) \in Nat /\ \A i \in DOMAIN files : files[i] \in found
  BY <1>2
<1>4. \A i \in DOMAIN files : Contents(files[i].at) \in SourceFile
  <2> SUFFICES ASSUME NEW i \in DOMAIN files PROVE Contents(files[i].at) \in SourceFile
    OBVIOUS
  <2>1. files[i].at \in DOMAIN Tree /\ Tree[files[i].at].kind = "file"
    BY <1>3 DEF CommandInv, Walking
  <2>2. Tree[files[i].at].content \in SourceFile
    BY <2>1, CommandsAssumption DEF CommandInv, Underground, IsCommand, IsPlace, Tree
  <2>3. QED BY <2>2, ContentsType
<1>5. contents \in Seq(SourceFile)
  <2> DEFINE c == contents
  <2>1. c = [i \in 1..Len(files) |-> c[i]] /\ \A i \in 1..Len(files) : c[i] \in SourceFile
    BY <1>3, <1>4
  <2> HIDE DEF c
  <2>2. c \in [1..Len(files) -> SourceFile]
    BY <2>1
  <2>3. QED BY <1>3, <2>2, SeqDef DEF c
<1>6. /\ config.severity_threshold \in Nat
      /\ config.fail_on \in {gate \in SUBSET Nat : \A g, h \in gate : g = h}
  <2>1. {"severity_threshold", "fail_on"} \subseteq KnownKeys
    BY DEF KnownKeys, Defaults
  <2>2. /\ IsOption("severity_threshold", config["severity_threshold"])
        /\ IsOption("fail_on", config["fail_on"])
    BY <2>1 DEF CommandInv, Configured, AreOptions
  <2>3. QED BY <2>2 DEF IsOption
<1> HIDE DEF contents
<1>7. scan' \in Scans
  BY <1>1, <1>5, <1>6 DEF Scans
<1>8. ScanInit'
  BY <1>1 DEF CommandInv, Scanning, BeforeScan, ScanInit
<1>9. (scan \in Scans /\ ScanInit => IInv)'
  BY InitHolds, PTL
<1>10. IInv'
  BY <1>7, <1>8, <1>9
<1>11. Underground' /\ Stepping' /\ Configured'
  BY <1>1 DEF CommandInv, Underground, Stepping, Steps, Configured, walkVars
<1>12. Walking'
  BY <1>1 DEF CommandInv, Walking, walkVars, Tree
<1>13. QED BY <1>8, <1>10, <1>11, <1>12 DEF CommandInv, Scanning

\* The scan goes on.
LEMMA ScanStep ==
  ASSUME CommandInv, RunScan
  PROVE  CommandInv'
<1>1. UNCHANGED <<commandVars, walkVars>> /\ ScanNext /\ step = "scan"
  BY DEF RunScan
<1>2. IInv'
  BY <1>1, IInvStep DEF CommandInv, Scanning
<1>3. Underground' /\ Stepping' /\ Configured'
  BY <1>1 DEF CommandInv, Underground, Stepping, Configured, walkVars, commandVars
<1>4. Walking'
  BY <1>1 DEF CommandInv, Walking, walkVars, Tree
<1>5. ~ BeforeScan'
  BY <1>1 DEF BeforeScan, commandVars
<1>6. QED BY <1>2, <1>3, <1>4, <1>5 DEF CommandInv, Scanning

\* The grade of a finished scan is its exit code.
LEMMA GradeType ==
  ASSUME IInv, Done
  PROVE  outcome.exit \in {"OK", "FINDINGS"}
BY DEF IInv, Graded, ComputeExitCode

\* Every step of a command keeps the invariant.
LEMMA CommandHolds == CommandInv /\ [Next]_vars => CommandInv'
<1> SUFFICES ASSUME CommandInv, [Next]_vars PROVE CommandInv'
  OBVIOUS
<1>1. IsCommand(command)
  BY CommandsAssumption DEF CommandInv, Underground
<1>2. Stepping /\ Configured
  BY DEF CommandInv
<1>3. CASE ResolveConfig
  <2>1. Stepping' /\ (BeforeScan' => BeforeScan)
    BY <1>2, <1>3 DEF ResolveConfig, Stepping, Steps, BeforeScan, Crash, Fail, GoOn
  <2>2. Configured'
    BY <1>1, <1>2, <1>3, MergedOptions DEF ResolveConfig, Configured
  <2>3. QED BY <1>3, <2>1, <2>2, StepAlone DEF ResolveConfig
<1>4. CASE LoadDetectorSpecs
  <2>1. Stepping' /\ Configured' /\ (BeforeScan' => BeforeScan)
    BY <1>2, <1>4 DEF LoadDetectorSpecs, Stepping, Steps, Configured, BeforeScan, Fail, GoOn
  <2>2. QED BY <1>4, <2>1, StepAlone DEF LoadDetectorSpecs
<1>5. CASE Emit
  <2>1. outcome.exit \in {"OK", "FINDINGS"}
    BY <1>5, GradeType DEF Emit, CommandInv, Scanning
  <2>2. Stepping' /\ Configured' /\ ~ BeforeScan'
    BY <1>2, <1>5, <2>1 DEF Emit, Stepping, Steps, Configured, BeforeScan, Crash
  <2>3. QED BY <1>5, <2>2, StepAlone DEF Emit
<1>6. CASE RulesList \/ RulesShow
  <2>1. Stepping' /\ Configured' /\ ~ BeforeScan'
    BY <1>2, <1>6 DEF RulesList, RulesShow, Stepping, Steps, Configured, BeforeScan, Crash, Fail, Succeed
  <2>2. QED BY <1>6, <2>1, StepAlone DEF RulesList, RulesShow
<1>7. CASE ReadSpec \/ RulesValidate
  <2>1. Stepping' /\ Configured' /\ ~ BeforeScan'
    BY <1>2, <1>7 DEF ReadSpec, RulesValidate, Stepping, Steps, Configured, BeforeScan, Crash, Fail,
                      Succeed, GoOn
  <2>2. QED BY <1>7, <2>1, StepAlone DEF ReadSpec, RulesValidate
<1>8. CASE ParseSpec \/ UNCHANGED vars
  <2>1. UNCHANGED <<commandVars, walkVars, scanVars>>
    BY <1>8 DEF ParseSpec, vars
  <2>2. Stepping' /\ Configured' /\ (BeforeScan' => BeforeScan)
    BY <1>2, <2>1 DEF Stepping, Configured, BeforeScan, commandVars
  <2>3. QED BY <2>1, <2>2, StepAlone DEF commandVars
<1>9. QED
  BY <1>3, <1>4, <1>5, <1>6, <1>7, <1>8, StartStep, DiscoveryStep, ScanStarts, ScanStep DEF Next

\* The invariant holds in every state of every command.
LEMMA CommandAlways == Spec => []CommandInv
BY InitCommand, CommandHolds, PTL DEF Spec

-----------------------------------------------------------------------------
(***************************************************************************)
(* What it implies.                                                        *)
(***************************************************************************)
\* Every variable of the program keeps its type, in every command: the walk
\* stays within the tree, a scan within its files, and a command has an exit
\* code exactly when it is over.
THEOREM CommandTypes == Spec => []TypeOK
<1>1. CommandInv /\ ParserTypeOK => TypeOK
  <2> SUFFICES ASSUME CommandInv, ParserTypeOK PROVE TypeOK
    OBVIOUS
  <2>1. IInv
    BY DEF CommandInv, Scanning
  <2>2. scanned \in 0..Len(scan.files)
    <3>1. Len(scan.files) \in Nat /\ next \in 1..(Len(scan.files) + 1) /\ scanned \in Nat
          /\ Len(parse_errors) \in Nat
      BY <2>1 DEF IInv, TypeInv, Scans
    <3>2. Len(parse_errors) + scanned = next - 1
      BY <2>1 DEF IInv, Filed
    <3>3. QED BY <3>1, <3>2
  <2>3. next \in 1..(Len(scan.files) + 1) /\ fn \in Nat
    BY <2>1 DEF IInv, TypeInv
  <2>4. QED BY <2>2, <2>3 DEF TypeOK, CommandInv, Stepping, Steps, Configured, Walking
<1>2. QED BY <1>1, CommandAlways, ParserTypes, PTL

\* A scan keeps its promises in whatever command runs it, on the files the
\* walk has found and with the options as they are merged: a file that fails
\* costs the others nothing, the exit code is that of findings exactly if a
\* file that could be analysed has a report at the gate, and each
\* vulnerability is reported once, if no two sinks start at one place.
THEOREM ScanKeepsPromises ==
  Spec => [](FilesIsolated /\ ExitCodeHonest /\ (SinksApart => EachVulnerabilityOnce))
<1>1. CommandInv => FilesIsolated /\ ExitCodeHonest /\ (SinksApart => EachVulnerabilityOnce)
  BY IsolationFollows, HonestyFollows, OnceFollows DEF CommandInv, Scanning
<1>2. QED BY <1>1, CommandAlways, PTL

-----------------------------------------------------------------------------
(***************************************************************************)
(* From the command line to the exit code: what the steps of a scan hand   *)
(* on, and that it stays as it is from then on.                            *)
(***************************************************************************)
\* The options in force are those the user asked for.
Resolved == Loaded(command) \in {"table", "empty"} /\ config = MergeConfig(command)

\* And so are the rules and the globs, for a directory.
InEffect ==
  \/ Tree[place.root].kind = "file" /\ rules = <<>> /\ globs = {}
  \/ /\ Tree[place.root].kind = "dir"
     /\ globs = config.exclude
     /\ rules = IF config.gitignore /\ place.gitignore.kind = "lines"
                THEN ParseGitignore(place.gitignore.lines) ELSE <<>>

\* The walk is on its way, or there is none to go.
Searching ==
  \/ Tree[place.root].kind = "file" /\ todo = {} /\ found = Expected(rules, globs)
  \/ Tree[place.root].kind = "dir" /\ \E seen : Sought(seen)

\* The scan of the files found.
Listed == InOrder(found)

ScanOfFound ==
  [files |-> [i \in DOMAIN Listed |-> Contents(Listed[i].at)],
   threshold |-> config.severity_threshold, failOn |-> config.fail_on]

\* A scan has returned its verdict.
Judged == step = "exited" /\ command.starts = "resolve" /\ exit # "ERROR"

Handed ==
  /\ step \in {"list", "show", "validate", "parse"} => command.starts # "resolve"
  /\ step \in {"resolve", "load", "discover"} => WalkInit
  /\ rules \in Seq(Rules)
  /\ step \in {"load", "discover", "walk", "scan"} \/ Judged => Resolved
  /\ step \in {"walk", "scan"} \/ Judged => InEffect
  /\ step = "walk" /\ Supported(rules) => Searching
  /\ (step = "scan" \/ Judged) /\ Supported(rules) => found = Expected(rules, globs)
  /\ step = "scan" \/ Judged => scan = ScanOfFound
  /\ Judged => Done /\ exit = outcome.exit

\* All of it stays as long as what it is about does.
LEMMA UnchangedAlike ==
  ASSUME UNCHANGED <<command, config, walkVars>>
  PROVE  /\ Resolved' <=> Resolved
         /\ InEffect' <=> InEffect
         /\ Searching' <=> Searching
         /\ Supported(rules)' <=> Supported(rules)
         /\ Expected(rules, globs)' = Expected(rules, globs)
         /\ WalkInit' <=> WalkInit
         /\ ScanOfFound' = ScanOfFound
<1>1. UNCHANGED <<command, config, place, rules, globs, todo, found>> /\ Tree' = Tree
  BY DEF walkVars, Tree
<1>2. /\ Reachable' = Reachable
      /\ \A x : Listable(x)' = Listable(x) /\ EntriesOf(x)' = EntriesOf(x)
      /\ \A x, e : Reached(x, e)' = Reached(x, e)
      /\ Start' = Start
  BY <1>1 DEF Reachable, Tree, EntriesOf, Reached, Listable, Start
<1>3. ToList' = ToList /\ ToFind' = ToFind /\ Expected(rules, globs)' = Expected(rules, globs)
  BY <1>1, <1>2 DEF ToList, ToFind, Open, Expected, GitIgnores
<1>4. \A seen : Sought(seen)' <=> Sought(seen)
  BY <1>1, <1>2, <1>3 DEF Sought
<1>5. Searching' <=> Searching
  BY <1>1, <1>3, <1>4 DEF Searching
<1>6. Supported(rules)' <=> Supported(rules)
  BY <1>1 DEF Supported, NoDirectoryIsPython, IsDir
<1>7. ScanOfFound' = ScanOfFound
  <2>1. Listed' = Listed
    BY <1>1 DEF Listed
  <2>2. \A at : Contents(at)' = Contents(at)
    BY <1>1 DEF Contents, Selected, Ids
  <2>3. QED BY <1>1, <2>1, <2>2 DEF ScanOfFound
<1>8. Resolved' <=> Resolved
  BY <1>1 DEF Resolved
<1>9. InEffect' <=> InEffect
  BY <1>1 DEF InEffect
<1>10. WalkInit' <=> WalkInit
  BY <1>1 DEF WalkInit
<1>11. QED BY <1>3, <1>5, <1>6, <1>7, <1>8, <1>9, <1>10

\* What is expected depends on the place, the rules and the globs only.
LEMMA ExpectedAlike ==
  ASSUME UNCHANGED <<place, rules, globs>>
  PROVE  /\ Expected(rules, globs)' = Expected(rules, globs)
         /\ Supported(rules)' <=> Supported(rules)
<1>1. Reachable' = Reachable /\ Tree' = Tree
  BY DEF Reachable, Tree, EntriesOf, Reached
<1>2. Expected(rules, globs)' = Expected(rules, globs)
  BY <1>1 DEF Expected, GitIgnores
<1>3. Supported(rules)' <=> Supported(rules)
  BY <1>1 DEF Supported, NoDirectoryIsPython, IsDir
<1>4. QED BY <1>2, <1>3

\* A command starts with nothing handed on.
LEMMA InitHanded == Init => Handed
<1> SUFFICES ASSUME Init PROVE Handed
  OBVIOUS
<1>1. command.starts \in {"resolve", "list", "show", "validate"} /\ step = command.starts
  BY CommandsAssumption DEF Init, IsCommand
<1>2. rules = <<>> /\ WalkInit
  BY DEF Init, WalkInit
<1>3. <<>> \in Seq(Rules)
  OBVIOUS
<1>4. QED BY <1>1, <1>2, <1>3 DEF Handed, Judged

\* A step that leaves alone the command, the options, the walk and the files
\* of the scan.
LEMMA HandedAlone ==
  ASSUME Handed, UNCHANGED <<command, config, walkVars, scan>>,
         \/ step' = step /\ ~ Judged /\ ~ Judged'
         \/ step = "load" /\ step' = "discover"
         \/ step \in {"list", "show", "validate", "parse"} /\ step' = "parse"
         \/ step' \in {"exited", "crashed"} /\ ~ Judged'
         \/ step = "scan" /\ Judged' /\ Done /\ UNCHANGED outcome /\ exit' = outcome.exit
         \/ UNCHANGED <<step, exit, outcome>>
  PROVE  Handed'
<1>1. /\ Resolved' <=> Resolved
      /\ InEffect' <=> InEffect
      /\ Searching' <=> Searching
      /\ Supported(rules)' <=> Supported(rules)
      /\ Expected(rules, globs)' = Expected(rules, globs)
      /\ WalkInit' <=> WalkInit
      /\ ScanOfFound' = ScanOfFound
  BY UnchangedAlike
<1>2. UNCHANGED <<rules, found>>
  BY DEF walkVars
<1>3. CASE step' = step /\ ~ Judged /\ ~ Judged'
  BY <1>1, <1>2, <1>3 DEF Handed
<1>4. CASE step = "load" /\ step' = "discover"
  <2>1. ~ Judged'
    BY <1>4 DEF Judged
  <2>2. QED BY <1>1, <1>2, <1>4, <2>1 DEF Handed
<1>5. CASE step \in {"list", "show", "validate", "parse"} /\ step' = "parse"
  <2>1. ~ Judged'
    BY <1>5 DEF Judged
  <2>2. QED BY <1>1, <1>2, <1>5, <2>1 DEF Handed
<1>6. CASE step' \in {"exited", "crashed"} /\ ~ Judged'
  BY <1>1, <1>2, <1>6 DEF Handed
<1>7. CASE step = "scan" /\ Judged' /\ Done /\ UNCHANGED outcome /\ exit' = outcome.exit
  <2>1. step' = "exited"
    BY <1>7 DEF Judged
  <2>2. Done'
    BY <1>7 DEF Done, Pending
  <2>3. QED BY <1>1, <1>2, <1>7, <2>1, <2>2 DEF Handed
<1>8. CASE UNCHANGED <<step, exit, outcome>>
  <2>1. (Judged' <=> Judged) /\ (Done' <=> Done)
    BY <1>8 DEF Judged, Done, Pending
  <2>2. QED BY <1>1, <1>2, <1>8, <2>1 DEF Handed
<1>9. QED BY <1>3, <1>4, <1>5, <1>6, <1>7, <1>8

\* The tree a command scans is one.
LEMMA PlaceIs == CommandInv => IsPlace(place)
BY CommandsAssumption DEF CommandInv, Underground, IsCommand

\* The walk that starts has found what there is to find, or is on its way.
LEMMA StartHands ==
  ASSUME CommandInv, Handed, StartDiscovery
  PROVE  Handed'
<1>1. step = "discover" /\ UNCHANGED <<command, config, place, scanVars>> /\ Tree' = Tree
  BY DEF StartDiscovery, StartAtFile, StartAtDirectory, walkVars, Tree
<1>2. WalkInit /\ Resolved /\ IsPlace(place)
  BY <1>1, PlaceIs DEF Handed
<1>3. CASE Undecodable /\ Crash /\ UNCHANGED walkVars
  <2>1. step' = "crashed" /\ ~ Judged'
    BY <1>3 DEF Crash, Judged
  <2>2. UNCHANGED scan
    BY <1>1 DEF scanVars
  <2>3. QED BY <1>1, <1>3, <2>1, <2>2, HandedAlone
<1>4. Resolved'
  BY <1>1, <1>2 DEF Resolved
<1>5. CASE StartAtFile /\ GoOn("walk")
  <2>1. step' = "walk" /\ ~ Judged' /\ UNCHANGED <<rules, globs, todo>>
    BY <1>5 DEF StartAtFile, GoOn, Judged
  <2>2. Expected(rules, globs)' = Expected(rules, globs)
    BY <1>1, <2>1, ExpectedAlike
  <2>3. Tree[place.root].kind = "file" /\ found' = Expected(rules, globs)
    BY <1>2, <1>5, FileAlone DEF StartAtFile
  <2>4. rules' = <<>> /\ globs' = {} /\ todo' = {}
    BY <1>2, <2>1 DEF WalkInit
  <2>5. InEffect' /\ Searching'
    BY <1>1, <2>2, <2>3, <2>4 DEF InEffect, Searching
  <2>6. QED BY <1>4, <2>1, <2>4, <2>5 DEF Handed
<1>6. CASE StartAtDirectory(config.exclude, config.gitignore) /\ GoOn("walk")
  <2>1. step' = "walk" /\ ~ Judged' /\ Tree[place.root].kind = "dir"
    BY <1>6 DEF StartAtDirectory, GoOn, Judged
  <2>2. /\ globs' = config.exclude
        /\ rules' = IF config.gitignore /\ place.gitignore.kind = "lines"
                    THEN ParseGitignore(place.gitignore.lines) ELSE <<>>
        /\ todo' = {Start} /\ found' = found
    BY <1>6 DEF StartAtDirectory, Start
  <2>3. InEffect'
    BY <1>1, <2>1, <2>2 DEF InEffect
  <2>4. rules' \in Seq(Rules)
    <3>1. CASE config.gitignore /\ place.gitignore.kind = "lines"
      <4>1. place.gitignore.lines \in Seq(Seq(STRING))
        BY <1>2, <3>1 DEF IsPlace
      <4>2. QED BY <2>2, <3>1, <4>1, ParsedRules
    <3>2. CASE ~ (config.gitignore /\ place.gitignore.kind = "lines")
      BY <2>2, <3>2
    <3>3. QED BY <3>1, <3>2
  <2>5. Sought({})'
    <3>1. Start' = Start
      BY <1>1 DEF Start
    <3>2. (IsPlace(place) /\ Tree[place.root].kind = "dir" /\ todo = {Start} /\ found = {})'
      BY <1>1, <1>2, <2>1, <2>2, <3>1 DEF WalkInit
    <3>3. (IsPlace(place) /\ Tree[place.root].kind = "dir" /\ todo = {Start} /\ found = {}
             => Sought({}))'
      BY WalkStarts, PTL
    <3>4. QED BY <3>2, <3>3
  <2>6. Searching'
    BY <1>1, <2>1, <2>5 DEF Searching
  <2>7. QED BY <1>4, <2>1, <2>3, <2>4, <2>6 DEF Handed
<1>7. QED BY <1>3, <1>5, <1>6 DEF StartDiscovery

\* The walk goes on as it has begun.
LEMMA WalkHands ==
  ASSUME CommandInv, Handed, WalkDirectory
  PROVE  Handed'
<1>1. PICK d \in todo : Walk(d)
  BY DEF WalkDirectory
<1>2. /\ step = "walk" /\ UNCHANGED <<command, step, config, exit, place, rules, globs>>
      /\ Tree' = Tree
  BY <1>1 DEF WalkDirectory, Walk, commandVars, Tree
<1>3. ~ Judged'
  BY <1>2 DEF Judged
<1>4. Resolved' /\ InEffect'
  BY <1>2 DEF Handed, Resolved, InEffect
<1>5. Supported(rules)' <=> Supported(rules)
  BY <1>2, ExpectedAlike
<1>6. ASSUME Supported(rules) PROVE Searching'
  <2>1. PICK seen : Tree[place.root].kind = "dir" /\ Sought(seen)
    BY <1>1, <1>2, <1>6 DEF Handed, Searching
  <2>2. InForce
    BY <1>6, PlaceIs DEF InForce, Handed
  <2>3. Sought(seen \cup {d})'
    BY <1>1, <2>1, <2>2, WalkKeeps
  <2>4. QED BY <1>2, <2>1, <2>3 DEF Searching
<1>7. QED BY <1>2, <1>3, <1>4, <1>5, <1>6 DEF Handed

\* What has been found when nothing is left to be listed is what there is.
LEMMA WalkedFinds ==
  ASSUME CommandInv, Handed, step = "walk", todo = {}, Supported(rules)
  PROVE  found = Expected(rules, globs)
<1>1. Searching /\ InForce
  BY PlaceIs DEF Handed, InForce
<1>2. CASE Tree[place.root].kind = "file"
  BY <1>1, <1>2 DEF Searching
<1>3. CASE Tree[place.root].kind = "dir"
  BY <1>1, <1>3, WalkEnds DEF Searching
<1>4. QED BY <1>1, <1>2, <1>3 DEF Searching

\* And it is what is scanned.
LEMMA ScanHands ==
  ASSUME CommandInv, Handed, StartScan
  PROVE  Handed'
<1>1. /\ step = "walk" /\ todo = {} /\ step' = "scan" /\ ~ Judged'
      /\ UNCHANGED <<command, config, walkVars>>
  BY DEF StartScan, GoOn, Judged
<1>2. scan' = ScanOfFound
  BY DEF StartScan, ScanOfFound, Listed
<1>3. /\ Resolved' <=> Resolved
      /\ InEffect' <=> InEffect
      /\ Supported(rules)' <=> Supported(rules)
      /\ Expected(rules, globs)' = Expected(rules, globs)
      /\ ScanOfFound' = ScanOfFound
  BY <1>1, UnchangedAlike
<1>4. UNCHANGED <<rules, found>>
  BY <1>1 DEF walkVars
<1>5. Supported(rules) => found = Expected(rules, globs)
  BY <1>1, WalkedFinds
<1>6. QED BY <1>1, <1>2, <1>3, <1>4, <1>5 DEF Handed

\* Every step of a command hands on what it has been given.
LEMMA HandedStep == CommandInv /\ Handed /\ [Next]_vars => Handed'
<1> SUFFICES ASSUME CommandInv, Handed, [Next]_vars PROVE Handed'
  OBVIOUS
<1>1. CASE ResolveConfig
  <2>1. step = "resolve" /\ UNCHANGED <<command, walkVars, scanVars>> /\ UNCHANGED scan
    BY <1>1 DEF ResolveConfig, scanVars
  <2>2. CASE UNCHANGED config /\ (Crash \/ Fail)
    <3>1. step' \in {"exited", "crashed"} /\ ~ Judged'
      BY <2>2 DEF Crash, Fail, Judged
    <3>2. QED BY <2>1, <2>2, <3>1, HandedAlone
  <2>3. CASE Loaded(command) \in {"table", "empty"} /\ config' = MergeConfig(command) /\ GoOn("load")
    <3>1. step' = "load" /\ ~ Judged'
      BY <2>3 DEF GoOn, Judged
    <3>2. Resolved'
      BY <2>1, <2>3 DEF Resolved
    <3>3. WalkInit' /\ rules' \in Seq(Rules)
      BY <2>1 DEF Handed, WalkInit, walkVars
    <3>4. QED BY <3>1, <3>2, <3>3 DEF Handed
  <2>4. QED BY <1>1, <2>2, <2>3 DEF ResolveConfig
<1>2. CASE LoadDetectorSpecs
  <2>1. step = "load" /\ UNCHANGED <<command, config, walkVars>> /\ UNCHANGED scan
    BY <1>2 DEF LoadDetectorSpecs, scanVars
  <2>2. \/ step' = "discover"
        \/ step' = "exited" /\ ~ Judged'
    BY <1>2 DEF LoadDetectorSpecs, GoOn, Fail, Judged
  <2>3. QED BY <2>1, <2>2, HandedAlone
<1>3. CASE RunScan
  <2>1. step = "scan" /\ UNCHANGED <<command, step, config, walkVars>> /\ UNCHANGED scan
    BY <1>3 DEF RunScan, commandVars, ScanNext, ParseFails, ParseSucceeds,
                      AnalyseFunction, AnalysisFails, AnalysisSucceeds, Grade
  <2>2. ~ Judged /\ ~ Judged'
    BY <2>1 DEF Judged
  <2>3. QED BY <2>1, <2>2, HandedAlone
<1>4. CASE Emit
  <2>1. /\ step = "scan" /\ Done
        /\ UNCHANGED <<command, config, walkVars>> /\ UNCHANGED <<scan, outcome>>
    BY <1>4 DEF Emit, scanVars
  <2>2. CASE Crash
    <3>1. step' = "crashed" /\ ~ Judged'
      BY <2>2 DEF Crash, Judged
    <3>2. QED BY <2>1, <3>1, HandedAlone
  <2>3. CASE step' = "exited" /\ exit' = outcome.exit
    BY <2>1, <2>3, HandedAlone
  <2>4. QED BY <1>4, <2>2, <2>3 DEF Emit
<1>5. CASE RulesList \/ RulesShow \/ ReadSpec \/ RulesValidate
  <2>1. /\ step \in {"list", "show", "validate", "parse"}
        /\ UNCHANGED <<command, config, walkVars>> /\ UNCHANGED scan
    BY <1>5 DEF RulesList, RulesShow, ReadSpec, RulesValidate, scanVars
  <2>2. command'.starts # "resolve"
    BY <2>1 DEF Handed
  <2>3. ~ Judged'
    BY <2>2 DEF Judged
  <2>4. step' \in {"parse", "exited", "crashed"}
    BY <1>5 DEF RulesList, RulesShow, ReadSpec, RulesValidate, Crash, Fail, Succeed, GoOn
  <2>5. QED BY <2>1, <2>3, <2>4, HandedAlone
<1>6. CASE ParseSpec \/ UNCHANGED vars
  <2>1. UNCHANGED <<command, config, walkVars>> /\ UNCHANGED scan /\ UNCHANGED <<step, exit, outcome>>
    BY <1>6 DEF ParseSpec, vars, commandVars, scanVars
  <2>2. QED BY <2>1, HandedAlone
<1>7. QED
  BY <1>1, <1>2, <1>3, <1>4, <1>5, <1>6, StartHands, WalkHands, ScanHands DEF Next

\* So it is in every state of every command.
LEMMA HandedAlways == Spec => [](CommandInv /\ Handed)
<1>1. Init => CommandInv /\ Handed
  BY InitCommand, InitHanded
<1>2. CommandInv /\ Handed /\ [Next]_vars => (CommandInv /\ Handed)'
  BY CommandHolds, HandedStep
<1>3. QED BY <1>1, <1>2, PTL DEF Spec

\* The walk, which prunes as it goes and tells of a directory only what its
\* name and its parents' names say, finds exactly the Python files that no
\* rule as git reads it, no glob and no default leaves out, themselves or by
\* a directory above them, for every tree, cycles of links included, and for
\* every set of rules of the supported subset.
THEOREM WalkFindsExactly == Spec => []FoundExactly
<1>1. CommandInv /\ Handed => FoundExactly
  BY WalkedFinds DEF FoundExactly, Walked
<1>2. QED BY <1>1, HandedAlways, PTL

-----------------------------------------------------------------------------
(***************************************************************************)
(* The verdict.                                                            *)
(***************************************************************************)
\* The options of the file that counts are those that are read from it: the
\* two ways to say which file that is agree.
LEMMA FileIs ==
  ASSUME IsCommand(command), Loaded(command) \in {"table", "empty"}
  PROVE  /\ DOMAIN FileOptions(command) = DOMAIN FileTable
         /\ \A k \in DOMAIN FileTable : FileOptions(command)[k] = FileTable[k][1]
<1> DEFINE file == CHOOSE f \in ConfigFile(command) : TRUE
           texts == {command.near.yml, command.near.pyproject} \cup {f.text : f \in command.config}
<1>1. \A text \in texts : text.kind # "table" => text.table = <<>>
  BY DEF IsCommand, IsConfigText
<1>2. CASE ConfigFile(command) = {}
  <2>1. /\ command.config = {} /\ command.near.yml.kind = "absent"
        /\ ~ HasScanipyTable(command.near.pyproject, command.toml)
    BY <1>2 DEF ConfigFile, FindConfigFile
  <2>2. command.toml => command.near.pyproject.table = <<>>
    BY <1>1, <2>1 DEF HasScanipyTable
  <2>3. FileTable = <<>>
    BY <2>1, <2>2 DEF FileTable, TableIn
  <2>4. FileOptions(command) = <<>>
    BY <1>2 DEF FileOptions, Loaded
  <2>5. QED BY <2>3, <2>4
<1>3. CASE ConfigFile(command) # {}
  <2>1. file \in ConfigFile(command)
    BY <1>3
  <2>2. FileTable = TableIn(file.name, file.text) /\ file.text \in texts
    <3>1. CASE command.config # {}
      BY <2>1, <3>1 DEF FileTable, ConfigFile
    <3>2. CASE command.config = {} /\ command.near.yml.kind # "absent"
      <4>1. file = [name |-> "yml", text |-> command.near.yml]
        BY <2>1, <3>2 DEF ConfigFile, FindConfigFile
      <4> HIDE DEF file
      <4>2. QED BY <3>2, <4>1 DEF FileTable, TableIn
    <3>3. CASE command.config = {} /\ command.near.yml.kind = "absent"
      <4>1. file = [name |-> "pyproject", text |-> command.near.pyproject]
        BY <2>1, <3>3 DEF ConfigFile, FindConfigFile
      <4> HIDE DEF file
      <4>2. QED BY <3>3, <4>1 DEF FileTable
    <3>4. QED BY <3>1, <3>2, <3>3
  <2>3. ReadRaw(file, command.toml) = Loaded(command)
    BY <1>3 DEF Loaded
  <2>4. Loaded(command) = "table" => FileOptions(command) = [k \in DOMAIN file.text.table |-> file.text.table[k][1]]
    BY DEF FileOptions
  <2> HIDE DEF file
  <2>5. CASE Loaded(command) = "table"
    <3>1. file.name = "yml" \/ command.toml
      BY <2>3, <2>5 DEF ReadRaw
    <3>2. FileTable = file.text.table
      BY <2>2, <3>1 DEF TableIn
    <3>3. QED BY <2>4, <2>5, <3>2
  <2>6. CASE Loaded(command) = "empty"
    <3>1. \/ file.name = "pyproject" /\ ~ command.toml
          \/ file.text.kind \in {"no table", "empty"}
      BY <2>3, <2>6 DEF ReadRaw
    <3>2. FileTable = <<>>
      BY <1>1, <2>2, <3>1 DEF TableIn
    <3>3. FileOptions(command) = <<>>
      BY <2>6 DEF FileOptions
    <3>4. QED BY <3>2, <3>3
  <2>7. QED BY <2>5, <2>6
<1>4. QED BY <1>2, <1>3

\* The options in force are the ones wanted.
LEMMA WantedIs ==
  ASSUME CommandInv, Resolved, NEW o \in KnownKeys
  PROVE  Wanted(o) = config[o]
<1>1. IsCommand(command)
  BY CommandsAssumption DEF CommandInv, Underground
<1>2. /\ DOMAIN FileOptions(command) = DOMAIN FileTable
      /\ \A k \in DOMAIN FileTable : FileOptions(command)[k] = FileTable[k][1]
  BY <1>1, FileIs DEF Resolved
<1>3. config = Over(command.cli, Over(FileOptions(command), Defaults))
  BY DEF Resolved, MergeConfig
<1>4. o \in DOMAIN Defaults
  BY DEF KnownKeys
<1> DEFINE below == Over(FileOptions(command), Defaults)
<1>5. /\ o \in DOMAIN below
      /\ below[o] = IF o \in DOMAIN FileOptions(command) THEN FileOptions(command)[o] ELSE Defaults[o]
  BY <1>4 DEF Over
<1>6. config[o] = IF o \in DOMAIN command.cli THEN command.cli[o] ELSE below[o]
  BY <1>3, <1>5 DEF Over
<1> HIDE DEF below
<1>7. QED BY <1>2, <1>5, <1>6 DEF Wanted

\* Named as they are used.
LEMMA AllWanted ==
  ASSUME CommandInv, Resolved
  PROVE  /\ Wanted("gitignore") = config.gitignore
         /\ Wanted("exclude") = config.exclude
         /\ Wanted("detectors") = config.detectors
         /\ Wanted("severity_threshold") = config.severity_threshold
         /\ Wanted("fail_on") = config.fail_on
<1>1. {"gitignore", "exclude", "detectors", "severity_threshold", "fail_on"} \subseteq KnownKeys
  BY DEF KnownKeys, Defaults
<1>2. QED BY <1>1, WantedIs

\* What has been scanned are the files expected, by what the user wanted.
LEMMA ScannedAsWanted ==
  ASSUME CommandInv, Handed, Judged, Supported(WantedRules)
  PROVE  found = Expected(WantedRules, Wanted("exclude"))
<1>1. Resolved /\ InEffect
  BY DEF Handed
<1>2. Wanted("gitignore") = config.gitignore /\ Wanted("exclude") = config.exclude
  BY <1>1, AllWanted
<1>3. CASE Tree[place.root].kind = "dir"
  <2>1. rules = WantedRules /\ globs = Wanted("exclude")
    BY <1>1, <1>2, <1>3 DEF InEffect, WantedRules
  <2>2. QED BY <2>1 DEF Handed
<1>4. CASE Tree[place.root].kind = "file"
  <2>1. rules = <<>>
    BY <1>1, <1>4 DEF InEffect
  <2>2. Supported(rules)
    BY <2>1 DEF Supported
  <2>3. found = Expected(rules, globs)
    BY <2>2 DEF Handed
  <2>4. QED BY <1>4, <2>3, FileAlone, PlaceIs
<1>5. QED BY <1>1, <1>3, <1>4 DEF InEffect

\* A file of the scan is healthy if its text is sound, and reports at the
\* gate what the detectors selected report of its text.
LEMMA FileJudged ==
  ASSUME CommandInv, scan = ScanOfFound, NEW i \in DOMAIN Listed, NEW at \in DOMAIN Tree,
         at = Listed[i].at, Tree[at].content \in SourceFile, NEW gate
  PROVE  /\ i \in DOMAIN scan.files
         /\ Healthy(i) <=> Sound(Tree[at].content)
         /\ (\E r \in Reports(i) : Rank[r.det] >= gate) <=>
              \E j \in DOMAIN Tree[at].content.functions :
                \E r \in Tree[at].content.functions[j].reports :
                  r.det \in Selected(config.detectors) /\ Rank[r.det] >= gate
<1> DEFINE text == Tree[at].content
           fns == text.functions
           mine(j) == {f \in fns[j].reports : f.det \in Selected(config.detectors)}
           chosen == [j \in DOMAIN fns |-> [fns[j] EXCEPT !.reports = {f \in @ : f.det \in Selected(config.detectors)}]]
<1>1. i \in DOMAIN scan.files /\ scan.files[i] = [parse |-> text.parse, functions |-> chosen]
  BY DEF ScanOfFound, Contents
<1>2. text \in SourceFile
  OBVIOUS
<1> HIDE DEF text
<1>3. \A j \in DOMAIN fns : fns[j] \in Function
  BY <1>2 DEF SourceFile
<1> HIDE DEF fns
<1>4. \A j \in DOMAIN fns : chosen[j].raises = fns[j].raises /\ chosen[j].reports = mine(j)
  <2> SUFFICES ASSUME NEW j \in DOMAIN fns
               PROVE  chosen[j].raises = fns[j].raises /\ chosen[j].reports = mine(j)
    OBVIOUS
  <2>1. chosen[j] = [fns[j] EXCEPT !.reports = mine(j)]
    OBVIOUS
  <2> HIDE DEF mine, chosen
  <2>2. fns[j] \in Function
    BY <1>3
  <2>3. QED BY <2>1, <2>2 DEF Function
<1>5. DOMAIN chosen = DOMAIN fns
  OBVIOUS
<1> HIDE DEF chosen
<1>6. scan.files[i].parse = text.parse /\ scan.files[i].functions = chosen
  BY <1>1
<1>7. Healthy(i) <=> Sound(text)
  BY <1>4, <1>5, <1>6 DEF Healthy, Sound, fns
<1>8. \A j \in DOMAIN fns : \A f \in fns[j].reports : f \in Finding
  BY <1>3 DEF Function, Reportable
<1>9. \A f \in Finding : [f EXCEPT !.file = i].det = f.det
  BY DEF Finding
<1>10. Reports(i) = UNION {{[f EXCEPT !.file = i] : f \in mine(j)} : j \in DOMAIN fns}
  BY <1>4, <1>5, <1>6 DEF Reports
<1>11. ASSUME NEW r \in Reports(i), Rank[r.det] >= gate
       PROVE  \E j \in DOMAIN fns : \E f \in fns[j].reports :
                f.det \in Selected(config.detectors) /\ Rank[f.det] >= gate
  <2>1. PICK j \in DOMAIN fns : \E f \in mine(j) : r = [f EXCEPT !.file = i]
    BY <1>10
  <2>2. PICK f \in mine(j) : r = [f EXCEPT !.file = i]
    BY <2>1
  <2>3. r.det = f.det
    BY <1>8, <1>9, <2>2
  <2>4. QED BY <1>11, <2>2, <2>3
<1>12. ASSUME NEW j \in DOMAIN fns, NEW f \in fns[j].reports, f.det \in Selected(config.detectors),
              Rank[f.det] >= gate
       PROVE  \E r \in Reports(i) : Rank[r.det] >= gate
  <2> DEFINE r == [f EXCEPT !.file = i]
  <2>1. r \in Reports(i)
    <3>1. f \in mine(j)
      BY <1>12
    <3> HIDE DEF mine
    <3>2. r \in {[q EXCEPT !.file = i] : q \in mine(j)}
      BY <3>1
    <3> HIDE DEF r
    <3>3. QED BY <1>10, <3>2
  <2>2. r.det = f.det
    BY <1>8, <1>9
  <2> HIDE DEF r
  <2>3. QED BY <1>12, <2>1, <2>2
<1>13. QED BY <1>1, <1>7, <1>11, <1>12 DEF text, fns

\* The exit code of a scan that returns a verdict is that of findings exactly
\* if one of the files that the options of the user call for can be analysed
\* and reports something at the gate: from the command line, over the
\* configuration file, the detectors, the walk and the scan, to the exit code,
\* for every command, every tree and every supported set of rules, provided
\* the gate is not below the threshold.
THEOREM VerdictIsHonest == Spec => []VerdictHonest
<1>1. CommandInv /\ Handed => VerdictHonest
  <2> SUFFICES ASSUME CommandInv, Handed, Judged, Supported(WantedRules),
                      WantedGate >= Wanted("severity_threshold")
               PROVE  exit = "FINDINGS" <=> SomethingAtGate
    BY DEF VerdictHonest, Judged
  <2>1. Resolved /\ scan = ScanOfFound /\ Done /\ exit = outcome.exit
    BY DEF Handed
  <2>2. /\ Wanted("detectors") = config.detectors
        /\ Wanted("severity_threshold") = config.severity_threshold
        /\ Wanted("fail_on") = config.fail_on
    BY <2>1, AllWanted
  <2>3. scan.threshold = config.severity_threshold /\ scan.failOn = config.fail_on
    BY <2>1 DEF ScanOfFound
  <2>4. Gate = WantedGate
    <3> DEFINE gates == Wanted("fail_on")
    <3>1. scan.threshold = Wanted("severity_threshold") /\ scan.failOn = gates
      BY <2>2, <2>3
    <3>2. WantedGate = IF gates = {} THEN Wanted("severity_threshold") ELSE CHOOSE g \in gates : TRUE
      BY DEF WantedGate
    <3> HIDE DEF gates
    <3>3. QED BY <3>1, <3>2 DEF Gate
  <2>5. exit = "FINDINGS" <=>
          \E i \in DOMAIN scan.files : Healthy(i) /\ \E r \in Reports(i) : Rank[r.det] >= Gate
    <3>1. ExitCodeHonest
      BY HonestyFollows DEF CommandInv, Scanning
    <3>2. QED BY <2>1, <2>2, <2>3, <2>4, <3>1 DEF ExitCodeHonest
  <2>6. found = Expected(WantedRules, Wanted("exclude"))
    BY ScannedAsWanted
  <2>7. Listed \in Seq(found) /\ found = {Listed[i] : i \in DOMAIN Listed}
    BY ListedInOrder DEF Listed, CommandInv, Walking
  <2>8. \A f \in found : f.at \in DOMAIN Tree /\ Tree[f.at].content \in SourceFile
    BY CommandsAssumption DEF CommandInv, Walking, Underground, IsCommand, Tree
  <2>9. DOMAIN scan.files = DOMAIN Listed
    BY <2>1 DEF ScanOfFound
  <2> DEFINE AtGate(f) ==
        LET text == Tree[f.at].content
        IN  Sound(text) /\ \E j \in DOMAIN text.functions : \E r \in text.functions[j].reports :
              r.det \in Selected(config.detectors) /\ Rank[r.det] >= Gate
  <2>10. ASSUME NEW i \in DOMAIN Listed
         PROVE  Healthy(i) /\ (\E r \in Reports(i) : Rank[r.det] >= Gate) <=> AtGate(Listed[i])
    <3>1. Listed[i] \in found
      BY <2>7
    <3>2. Listed[i].at \in DOMAIN Tree /\ Tree[Listed[i].at].content \in SourceFile
      BY <2>8, <3>1
    <3>3. QED BY <2>1, <3>2, FileJudged
  <2>11. SomethingAtGate <=> \E f \in found : AtGate(f)
    BY <2>2, <2>4, <2>6 DEF SomethingAtGate
  <2> HIDE DEF AtGate
  <2>12. (\E f \in found : AtGate(f)) <=> \E i \in DOMAIN Listed : AtGate(Listed[i])
    BY <2>7
  <2>13. QED BY <2>5, <2>9, <2>10, <2>11, <2>12
<1>2. QED BY <1>1, HandedAlways, PTL

=============================================================================
