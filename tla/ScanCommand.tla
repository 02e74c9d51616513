---------------------------- MODULE ScanCommand ----------------------------
(***************************************************************************)
(* The program: the scan and rules commands of cli.py, which lead from the *)
(* options (Config) over the bundled detectors (registry.py) and the files *)
(* (Discovery) to the analysis (Scanner), or from a detector's text        *)
(* through the parser (DetectorLanguage), and end in an exit code.         *)
(*                                                                         *)
(* A command is what it finds when it starts: its options, the             *)
(* configuration files, the bundle, the tree it scans.  An exception no    *)
(* one catches ends Python with status 1, the number of FINDINGS.          *)
(***************************************************************************)
EXTENDS Config, Discovery, Scanner, DetectorLanguage

CONSTANTS
  Commands,   \* the commands and what they find
  Documents   \* the texts a detector file can have

IsCommand(c) ==
  /\ c.starts \in {"resolve", "list", "show", "validate"}
  /\ AreOptions(c.cli)
  /\ \A text \in {c.near.yml, c.near.pyproject} \cup {file.text : file \in c.config} :
       IsConfigText(text)
  /\ IsPlace(c.place)
  /\ \A e \in DOMAIN c.place.tree :
       c.place.tree[e].kind = "file" => c.place.tree[e].content \in SourceFile

ASSUME CommandsAssumption == \A c \in Commands : IsCommand(c)

\* A text is YAML that PyYAML can read.
ASSUME DocumentsAssumption == \A d \in Documents : IsDocument(d)

VARIABLES
  command,  \* what runs
  step,     \* how far it is
  config,   \* the options in force
  exit      \* the exit code

commandVars == <<command, step, config, exit>>
vars == <<commandVars, walkVars, scanVars, parserVars>>

NoDocument == [root |-> [tag |-> "map", entries |-> <<>>], graph |-> <<>>]

NoScan == [files |-> <<>>, threshold |-> 0, failOn |-> {}]

Fail == step' = "exited" /\ exit' = "ERROR"

Crash == step' = "crashed" /\ exit' = "FINDINGS"

Succeed == step' = "exited" /\ exit' = "OK"

GoOn(to) == step' = to /\ UNCHANGED exit

-----------------------------------------------------------------------------
(***************************************************************************)
(* scan.                                                                   *)
(***************************************************************************)
ResolveConfig ==
  /\ step = "resolve"
  /\ \/ Loaded(command) = "crash" /\ Crash /\ UNCHANGED config
     \/ Loaded(command) = "error" /\ Fail /\ UNCHANGED config
     \/ /\ Loaded(command) \in {"table", "empty"}
        /\ config' = MergeConfig(command) /\ GoOn("load")
  /\ UNCHANGED <<command, walkVars, scanVars, parserVars>>

Ids == {command.pack[i].id : i \in DOMAIN command.pack}

\* load_builtin_detectors: every file of the bundle is valid, every id new.
PackLoads ==
  /\ \A i \in DOMAIN command.pack : command.pack[i].valid
  /\ Cardinality(Ids) = Len(command.pack)

Selected(detectors) == IF detectors = {} THEN Ids ELSE detectors

LoadDetectorSpecs ==
  /\ step = "load"
  /\ \/ PackLoads /\ config.detectors \subseteq Ids /\ GoOn("discover")
     \/ ~ (PackLoads /\ config.detectors \subseteq Ids) /\ Fail
  /\ UNCHANGED <<command, config, walkVars, scanVars, parserVars>>

\* A .gitignore that is not UTF-8 is not expected.
Undecodable ==
  Tree[place.root].kind = "dir" /\ config.gitignore /\ place.gitignore.kind = "undecodable"

StartDiscovery ==
  /\ step = "discover"
  /\ \/ Undecodable /\ Crash /\ UNCHANGED walkVars
     \/ StartAtFile /\ GoOn("walk")
     \/ ~ Undecodable /\ StartAtDirectory(config.exclude, config.gitignore) /\ GoOn("walk")
  /\ UNCHANGED <<command, config, scanVars, parserVars>>

WalkDirectory ==
  /\ step = "walk"
  /\ \E d \in todo : Walk(d)
  /\ UNCHANGED <<commandVars, scanVars, parserVars>>

\* The files in one fixed order, each with what the detectors selected report.
InOrder(files) == FoldSet(LAMBDA f, seq : Append(seq, f), <<>>, files)

Contents(at) ==
  LET text == Tree[at].content
  IN  [parse |-> text.parse,
       functions |-> [i \in DOMAIN text.functions |->
         [text.functions[i] EXCEPT !.reports =
            {f \in @ : f.det \in Selected(config.detectors)}]]]

StartScan ==
  /\ step = "walk" /\ todo = {}
  /\ LET files == InOrder(found)
     IN  scan' = [files |-> [i \in DOMAIN files |-> Contents(files[i].at)],
                  threshold |-> config.severity_threshold, failOn |-> config.fail_on]
  /\ GoOn("scan")
  /\ UNCHANGED <<command, config, walkVars, parserVars>>
  /\ UNCHANGED <<next, fn, collected, raw, parse_errors, scanned, outcome>>

RunScan ==
  /\ step = "scan"
  /\ ScanNext
  /\ UNCHANGED <<commandVars, walkVars, parserVars>>

\* The report is written where -o says only now.
Emit ==
  /\ step = "scan" /\ Done
  /\ \/ command.output = "unwritable" /\ Crash
     \/ command.output # "unwritable" /\ step' = "exited" /\ exit' = outcome.exit
  /\ UNCHANGED <<command, config, walkVars, scanVars, parserVars>>

-----------------------------------------------------------------------------
(***************************************************************************)
(* rules.                                                                  *)
(***************************************************************************)
\* A bundle that does not load is expected by scan only.
RulesList ==
  /\ step = "list"
  /\ IF PackLoads THEN Succeed ELSE Crash
  /\ UNCHANGED <<command, config, walkVars, scanVars, parserVars>>

RulesShow ==
  /\ step = "show"
  /\ \/ ~ PackLoads /\ Crash
     \/ PackLoads /\ command.id \in Ids /\ Succeed
     \/ PackLoads /\ command.id \notin Ids /\ Fail
  /\ UNCHANGED <<command, config, walkVars, scanVars, parserVars>>

\* load_spec_file decodes the file, parse_spec reads the YAML.
ReadSpec ==
  /\ step = "validate"
  /\ \/ command.text = "undecodable" /\ Crash
     \/ command.text = "malformed" /\ Fail
     \/ command.text = "yaml" /\ GoOn("parse")
  /\ UNCHANGED <<command, config, walkVars, scanVars, parserVars>>

ParseSpec ==
  /\ step = "parse"
  /\ ParserNext
  /\ UNCHANGED <<commandVars, walkVars, scanVars>>

RulesValidate ==
  /\ step = "parse"
  /\ \/ stage = "accepted" /\ Succeed
     \/ stage = "rejected" /\ Fail
  /\ UNCHANGED <<command, config, walkVars, scanVars, parserVars>>

-----------------------------------------------------------------------------
Init ==
  /\ command \in Commands
  /\ place = command.place
  /\ \/ command.text = "yaml" /\ doc \in Documents
     \/ command.text # "yaml" /\ doc = NoDocument
  /\ step = command.starts
  /\ config = Defaults
  /\ exit = "none"
  /\ scan = NoScan
  /\ WalkInit /\ ScanInit /\ ParserInit

Next ==
  \/ ResolveConfig \/ LoadDetectorSpecs
  \/ StartDiscovery \/ WalkDirectory
  \/ StartScan \/ RunScan \/ Emit
  \/ RulesList \/ RulesShow
  \/ ReadSpec \/ ParseSpec \/ RulesValidate

\* One thread, and nothing it waits for.
Spec == Init /\ [][Next]_vars /\ WF_vars(Next)

-----------------------------------------------------------------------------
(***************************************************************************)
(* Properties.                                                             *)
(***************************************************************************)
\* Every variable has its type.
TypeOK ==
  /\ step \in {"resolve", "load", "discover", "walk", "scan", "list", "show", "validate",
               "parse", "exited", "crashed"}
  /\ exit \in {"none", "OK", "FINDINGS", "ERROR"}
  /\ exit = "none" <=> step \notin {"exited", "crashed"}
  /\ DOMAIN config = KnownKeys
  /\ \A d \in todo : d.at \in DOMAIN Tree /\ d.links \in 0..MaxLinks
  /\ \A f \in found : f.at \in DOMAIN Tree
  /\ next \in 1..(Len(scan.files) + 1) /\ scanned \in 0..Len(scan.files) /\ fn \in Nat
  /\ ParserTypeOK

Walked == step = "walk" /\ todo = {}

\* The walk, which prunes as it goes, finds exactly the Python files that no
\* rule, glob or default leaves out, themselves or by a directory above them,
\* whatever the rules say of one another; below links as well.
FoundExactly ==
  Walked /\ Supported(rules) => found = Expected(rules, globs)

\* What the user asked for: the command line, else the file, else the default
\* ("defaults < file < CLI").
\* Before Python 3.11 a pyproject.toml is passed over, as documented.
TableIn(name, text) == IF name = "pyproject" /\ ~ command.toml THEN <<>> ELSE text.table

FileTable ==
  IF command.config # {}
  THEN LET file == CHOOSE f \in command.config : TRUE IN TableIn(file.name, file.text)
  ELSE IF command.near.yml.kind # "absent" THEN command.near.yml.table
  ELSE TableIn("pyproject", command.near.pyproject)

Wanted(o) ==
  IF o \in DOMAIN command.cli THEN command.cli[o]
  ELSE IF o \in DOMAIN FileTable THEN FileTable[o][1] ELSE Defaults[o]

WantedRules ==
  IF Wanted("gitignore") /\ place.gitignore.kind = "lines"
  THEN ParseGitignore(place.gitignore.lines) ELSE <<>>

WantedGate ==
  IF Wanted("fail_on") = {} THEN Wanted("severity_threshold")
  ELSE CHOOSE g \in Wanted("fail_on") : TRUE

Sound(text) ==
  text.parse = "ok" /\ \A i \in DOMAIN text.functions : ~ text.functions[i].raises

\* A file to be scanned reports something at the gate.
SomethingAtGate ==
  \E f \in Expected(WantedRules, Wanted("exclude")) :
    LET text == Tree[f.at].content
    IN  Sound(text) /\ \E i \in DOMAIN text.functions : \E r \in text.functions[i].reports :
          r.det \in Selected(Wanted("detectors")) /\ Rank[r.det] >= WantedGate

\* From the command line to the exit code: a scan that returns a verdict
\* gives the one the options it was given call for on the files it was given,
\* provided the gate is not below the threshold.
VerdictHonest ==
  step = "exited" /\ command.starts = "resolve" /\ exit # "ERROR"
    /\ Supported(WantedRules) /\ WantedGate >= Wanted("severity_threshold") =>
      (exit = "FINDINGS" <=> SomethingAtGate)

\* Every command ends, in a cycle of links or of aliases as well.
CommandEnds == <>(exit # "none")

\* exit_codes.py: 1 is a scan that found something, "anything else (usage
\* error, crash, ...) is 2".
OneMeansFindings == exit = "FINDINGS" => \E f \in outcome.findings : Rank[f.det] >= Gate

\* discovery.py: a file no rule of git's ignores is not left out.
NoFalseExclusion == Walked => Expected(rules, globs) \subseteq found

=============================================================================
