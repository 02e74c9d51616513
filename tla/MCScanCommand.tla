---------------------------- MODULE MCScanCommand ----------------------------
(***************************************************************************)
(* Small commands: scans of two files with every content, of trees with    *)
(* every pair of ignore rules, with every pair of a configuration file and *)
(* options, and with what makes a command fail; the rules commands, with   *)
(* every small detector.                                                   *)
(***************************************************************************)
EXTENDS ScanCommand, MCScanner, MCDetectorLanguage

TwoDetectors == <<[id |-> "medium", valid |-> TRUE], [id |-> "high", valid |-> TRUE]>>

(***************************************************************************)
(* Trees.                                                                  *)
(***************************************************************************)
MCDefaultExcludeDirs == {<<"venv">>}

Dir == [kind |-> "dir", readable |-> TRUE]
Unreadable == [kind |-> "dir", readable |-> FALSE]
LinkTo(at) == [kind |-> "link", to |-> at]
Holding(text) == [kind |-> "file", content |-> text]

Clean == [parse |-> "ok", functions |-> <<Fn({})>>]
High == [parse |-> "ok", functions |-> <<Fn({Report("high", <<1, 2>>, 1)})>>]
Medium == [parse |-> "ok", functions |-> <<Fn({Report("medium", <<1, 2>>, 1)})>>]

App == <<"app", ".py">>
F == <<"f", ".py">>
Subway == <<"sub", "way", ".py">>
Sub == <<"sub">>
Deep == <<"deep">>

Place(tree) == [tree |-> tree, root |-> <<>>, gitignore |-> NoGitignore]

Two(a, b) == Place((<<>> :> Dir) @@ (<<App>> :> Holding(a)) @@ (<<F>> :> Holding(b)))

Deeper ==
  (<<>> :> Dir) @@ (<<App>> :> Holding(Clean)) @@ (<<Subway>> :> Holding(Clean))
  @@ (<<Sub>> :> Dir) @@ (<<Sub, F>> :> Holding(Medium))
  @@ (<<Sub, Deep>> :> Dir) @@ (<<Sub, Deep, F>> :> Holding(High))

\* A directory that is always skipped, and the same name for a file; a file of
\* another kind, a name that is only a suffix, a directory named as a file,
\* something that is no file.
Noisy ==
  Deeper @@ (<<<<"venv">>>> :> Dir) @@ (<<<<"venv">>, F>> :> Holding(High))
  @@ (<<Deep>> :> Holding(High)) @@ (<<<<".py">>>> :> Holding(High))
  @@ (<<F>> :> Dir) @@ (<<F, App>> :> Holding(Clean)) @@ (<<<<"pipe", ".py">>>> :> [kind |-> "other"])

Looping == (<<Sub, <<"up">>>> :> LinkTo(<<>>)) @@ Deeper
Locked == (<<Sub, Deep>> :> Unreadable) @@ Deeper

Lines ==
  {<<>>, <<"/">>, <<"!">>, <<"#", "f", ".py">>, <<"f", ".py">>, <<"/", "f", ".py">>, <<"*", ".py">>,
   <<"deep">>, <<"/", "sub">>, <<"sub", "/">>, <<"sub", "/", "*">>, <<"/", "sub", "/", "deep", "/">>,
   <<"!", "f", ".py">>, <<"!", "/", "f", ".py">>, <<"!", "sub", "/", "f", ".py">>, <<"!", "sub">>,
   <<"!", "/", "sub", "/", "deep">>, <<"!", "*", ".py">>}

Ignoring(tree, lines) ==
  [Place(tree) EXCEPT !.gitignore = [kind |-> "lines", lines |-> lines]]

Globs == {<<"sub", "/", "*">>, <<"deep">>, <<"*", ".py">>, <<"sub", "*">>, <<"sub">>, <<"**", "/", "f", ".py">>}

(***************************************************************************)
(* Scans.                                                                  *)
(***************************************************************************)
Plain ==
  [starts |-> "resolve", toml |-> TRUE, config |-> {}, near |-> [yml |-> Absent, pyproject |-> Absent],
   cli |-> <<>>, pack |-> TwoDetectors, output |-> "stdout", id |-> "none", text |-> "none",
   place |-> Two(Medium, High)]

\* Without the option: the default.
Option(name, values) == {<<>>} \cup {name :> one : one \in values}

OfContents ==
  {[Plain EXCEPT !.place = Two(a, b), !.cli = t @@ g] : a \in Files, b \in Files,
     t \in Option("severity_threshold", {1, 2}), g \in Option("fail_on", {{1}, {2}})}

OfTrees ==
  {[Plain EXCEPT !.place = Ignoring(Deeper, <<a, b>>)] : a \in Lines, b \in Lines}
  \cup {[Plain EXCEPT !.place = Ignoring(Looping, <<a>>), !.cli = x] :
          a \in Lines, x \in Option("exclude", {{g} : g \in Globs})}
  \cup {[Plain EXCEPT !.place = Ignoring(tree, <<a>>), !.cli = x @@ ("gitignore" :> i)] :
          tree \in {Noisy, Locked}, a \in Lines, x \in Option("exclude", {{g} : g \in Globs}),
          i \in BOOLEAN}
  \cup {[Plain EXCEPT !.place = [Ignoring(Noisy, <<<<"*", ".py">>>>) EXCEPT !.root = r]] :
          r \in {<<Sub>>, <<Sub, F>>, <<Deep>>, <<<<".py">>>>}}

Table(t) == [kind |-> "table", table |-> t]
Kinded(k) == [kind |-> k, table |-> <<>>]

Tables ==
  {"detectors" :> <<{"high"}>>, "severity_threshold" :> <<2>>, "fail_on" :> <<{2}>>, "fail_on" :> <<{}>>,
   "exclude" :> <<{<<"sub", "*">>}>>, "gitignore" :> <<FALSE>>, "output_format" :> <<"json">>,
   ("severity_threshold" :> <<1>>) @@ ("fail_on" :> <<{2}>>) @@ ("exclude" :> <<{<<"app", ".py">>}>>),
   "treshold" :> <<2>>, "exclude" :> Invalid, ("detectors" :> <<{"nope"}>>), <<>>}

Texts ==
  {Table(t) : t \in Tables}
    \cup {Kinded(k) : k \in {"empty", "no table", "not a table", "malformed", "undecodable"}}

Options ==
  {<<>>, "detectors" :> {"medium"}, "detectors" :> {"medium", "nope"}, "severity_threshold" :> 0,
   "fail_on" :> {1}, "exclude" :> {<<"f", ".py">>}, "gitignore" :> TRUE,
   ("detectors" :> {"high"}) @@ ("gitignore" :> FALSE)}

Sources(text) ==
  {[Plain EXCEPT !.near.yml = text], [Plain EXCEPT !.near.yml = text, !.near.pyproject = Table("fail_on" :> <<{2}>>)],
   [Plain EXCEPT !.near.pyproject = text], [Plain EXCEPT !.near.pyproject = text, !.toml = FALSE],
   [Plain EXCEPT !.config = {[name |-> "yml", text |-> text]}, !.near.yml = Kinded("malformed")],
   [Plain EXCEPT !.config = {[name |-> "pyproject", text |-> text]}],
   [Plain EXCEPT !.config = {[name |-> "pyproject", text |-> text]}, !.toml = FALSE]}

OfOptions ==
  {[c EXCEPT !.cli = o, !.place = Ignoring(Deeper, <<<<"f", ".py">>>>)] :
     c \in UNION {Sources(text) : text \in Texts}, o \in Options}

Packs ==
  {TwoDetectors, Append(TwoDetectors, TwoDetectors[1]),
   [TwoDetectors EXCEPT ![2].valid = FALSE]}

OfFailures ==
  {[Plain EXCEPT !.output = o, !.pack = p, !.place.gitignore = g, !.cli = x] :
     o \in {"stdout", "file", "unwritable"}, p \in Packs, x \in Option("gitignore", {FALSE}),
     g \in {NoGitignore, [kind |-> "unreadable", lines |-> <<>>], [kind |-> "undecodable", lines |-> <<>>]}}

(***************************************************************************)
(* Rules.                                                                  *)
(***************************************************************************)
OfRules ==
  {[Plain EXCEPT !.starts = s, !.pack = p, !.id = i] :
     s \in {"list", "show"}, p \in Packs, i \in {"high", "nope"}}
  \cup {[Plain EXCEPT !.starts = "validate", !.text = t] : t \in {"yaml", "malformed", "undecodable"}}

SmallCommands == OfContents \cup OfTrees \cup OfOptions \cup OfFailures \cup OfRules

\* Two calls that start at one place and end at different ones, each a sink:
\* db.execute(x).execute(x).
OneChain ==
  LET first == Report("high", <<1, 2>>, 1)
      chain == [parse |-> "ok", functions |-> <<Fn({first, [first EXCEPT !.sink = <<7, 9>>]})>>]
  IN  {[Plain EXCEPT !.place = Two(chain, Clean)]}

\* A clean file, and a report that cannot be written.
OneUnwritable == {[Plain EXCEPT !.place = Two(Clean, Clean), !.output = "unwritable"]}

\* One rule for what lies below sub, beside a file whose name begins so.
OneGlobstar == {[Plain EXCEPT !.place = Ignoring(Deeper, <<<<"sub", "/", "**">>>>)]}

\* One detector, checked by rules validate.
OneValidation == {[Plain EXCEPT !.starts = "validate", !.text = "yaml"]}

=============================================================================
