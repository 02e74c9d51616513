----------------------------- MODULE Discovery -----------------------------
(***************************************************************************)
(* discover_python_files (discovery.py): the walk over the directories of  *)
(* a scan root, with the names that are always skipped, the globs of       *)
(* --exclude and the rules of the root's .gitignore.                       *)
(*                                                                         *)
(* Text is a sequence of tokens: fragments of names, "/", "*" and "**".  A *)
(* name is such a sequence without "/", and a path a sequence of names.    *)
(* The tree maps the paths below the root of the tree, <<>> for the root   *)
(* itself, to entries of kind "dir", "link" (to another directory),        *)
(* "file" or "other".                                                      *)
(***************************************************************************)
EXTENDS Naturals, Sequences, SequencesExt, FiniteSets

CONSTANTS
  DefaultExcludeDirs,  \* the names of directories that are never entered
  MaxLinks             \* how many links the system follows in one path

ASSUME MaxLinksAssumption == MaxLinks \in Nat

VARIABLES
  place,  \* what is scanned: the tree, the root, and the root's .gitignore
  rules,  \* the rules in force
  globs,  \* the excludes in force
  todo,   \* the directories still to be listed
  found   \* the files found: their paths below the root, and where they are

walkVars == <<place, rules, globs, todo, found>>

\* A name is some text without a slash.
IsName(name) == name \in Seq(STRING) /\ name # <<>> /\ "/" \notin Range(name)

\* A link leads to a directory.
IsPlace(p) ==
  /\ IsFiniteSet(DOMAIN p.tree) /\ p.root \in DOMAIN p.tree
  /\ \A e \in DOMAIN p.tree :
       /\ e \in Seq(Seq(STRING)) /\ \A i \in DOMAIN e : IsName(e[i])
       /\ p.tree[e].kind = "dir" => p.tree[e].readable \in BOOLEAN
       /\ p.tree[e].kind = "link" =>
            p.tree[e].to \in DOMAIN p.tree /\ p.tree[p.tree[e].to].kind = "dir"
  /\ p.gitignore.kind = "lines" => p.gitignore.lines \in Seq(Seq(STRING))

NoGitignore == [kind |-> "absent", lines |-> <<>>]

-----------------------------------------------------------------------------
(***************************************************************************)
(* Names and globs.                                                        *)
(***************************************************************************)
\* as_posix
Posix(p) ==
  FoldLeft(LAMBDA text, name : IF text = <<>> THEN name ELSE text \o <<"/">> \o name, <<>>, p)

Stars == {"*", "**"}

\* fnmatch: a star stands for any text, slashes included.  Where in the name
\* its rest is matched by the rest of the glob from j on:
Fnmatch(name, glob) ==
  LET rest[j \in 1..(Len(glob) + 1)] ==
        IF j > Len(glob) THEN {Len(name) + 1}
        ELSE IF glob[j] \in Stars
             THEN {i \in 1..(Len(name) + 1) : \E k \in rest[j + 1] : i <= k}
             ELSE {i \in DOMAIN name : name[i] = glob[j] /\ i + 1 \in rest[j + 1]}
  IN  1 \in rest[1]

\* .py alone has no suffix.
IsPython(name) == Len(name) > 1 /\ Last(name) = ".py"

ExcludedByGlobs(p, excludes) ==
  \E glob \in excludes : Fnmatch(Posix(p), glob) \/ Fnmatch(Last(p), glob)

(***************************************************************************)
(* The rules of .gitignore.                                                *)
(***************************************************************************)
Strip(holds, text, rest) == IF holds THEN rest ELSE text

ParseLine(line) ==
  LET negated == line # <<>> /\ Head(line) = "!"
      body == Strip(negated, line, Tail(line))
      dirOnly == body # <<>> /\ Last(body) = "/"
      name == Strip(dirOnly, body, Front(body))
      anchored == name # <<>> /\ Head(name) = "/"
  IN  [pattern |-> Strip(anchored, name, Tail(name)),
       negated |-> negated, anchored |-> anchored, dirOnly |-> dirOnly]

IsComment(line) == line # <<>> /\ Head(line) = "#"

ParseGitignore(lines) ==
  FoldLeft(LAMBDA rs, line : IF IsComment(line) \/ ParseLine(line).pattern = <<>> THEN rs
                             ELSE Append(rs, ParseLine(line)), <<>>, lines)

\* _globstar_to_fnmatch: **/ becomes *, of what is left /** and then **.
GlobstarToFnmatch(pattern) ==
  LET Globstar(i) == i \in DOMAIN pattern /\ pattern[i] = "**"
      Gone(i) ==
        /\ pattern[i] = "/"
        /\ \/ Globstar(i - 1)
           \/ Globstar(i + 1) /\ ~ (i + 2 \in DOMAIN pattern /\ pattern[i + 2] = "/")
  IN  FoldLeft(LAMBDA text, i : IF Gone(i) THEN text
                                ELSE Append(text, IF Globstar(i) THEN "*" ELSE pattern[i]),
               <<>>, [i \in DOMAIN pattern |-> i])

\* _match_path: the path, or a directory above it.
MatchPath(pattern, p) ==
  \E n \in 1..Len(p) : Fnmatch(Posix(SubSeq(p, 1, n)), GlobstarToFnmatch(pattern))

RuleMatches(rule, p) ==
  IF rule.anchored \/ "/" \in Range(rule.pattern)
  THEN MatchPath(rule.pattern, p)
  ELSE Fnmatch(Last(p), rule.pattern)

\* Mutant: the first rule that matches decides.
IgnoredByFirst(p, isDir) ==
  \E i \in DOMAIN rules :
    /\ (isDir \/ ~ rules[i].dirOnly) /\ RuleMatches(rules[i], p)
    /\ ~ rules[i].negated
    /\ \A j \in 1..(i - 1) : ~ ((isDir \/ ~ rules[j].dirOnly) /\ RuleMatches(rules[j], p))

\* _ignored: the last rule that matches decides.
Ignored(p, isDir) ==
  LET Applies(rule) == (isDir \/ ~ rule.dirOnly) /\ RuleMatches(rule, p)
  IN  FoldLeft(LAMBDA decision, rule : IF Applies(rule) THEN ~ rule.negated ELSE decision,
               FALSE, rules)

(***************************************************************************)
(* The walk.                                                               *)
(***************************************************************************)
Tree == place.tree

IsDir(at) == Tree[at].kind \in {"dir", "link"}

EntriesOf(at) == {e \in DOMAIN Tree : Len(e) = Len(at) + 1 /\ Front(e) = at}

\* Entry e of the directory d, as it is reached: a link that is one too many
\* is no directory to the system any more.
Reached(d, e) ==
  [path |-> Append(d.path, Last(e)),
   at |-> IF Tree[e].kind = "link" THEN Tree[e].to ELSE e,
   links |-> d.links + (IF Tree[e].kind = "link" THEN 1 ELSE 0)]

WalkInit ==
  /\ rules = <<>>
  /\ globs = {}
  /\ todo = {}
  /\ found = {}

\* A file is taken as it is.
StartAtFile ==
  /\ Tree[place.root].kind = "file"
  /\ found' = IF IsPython(Last(place.root))
              THEN {[path |-> <<>>, at |-> place.root]} ELSE {}
  /\ UNCHANGED <<place, rules, globs, todo>>

\* A .gitignore that cannot be opened has no rules.
StartAtDirectory(exclude, useGitignore) ==
  /\ Tree[place.root].kind = "dir"
  /\ globs' = exclude
  /\ rules' = IF useGitignore /\ place.gitignore.kind = "lines"
              THEN ParseGitignore(place.gitignore.lines) ELSE <<>>
  /\ todo' = {[path |-> <<>>, at |-> place.root, links |-> 0]}
  /\ UNCHANGED <<place, found>>

\* _walk, for one directory: one that cannot be listed has no entries.
Walk(d) ==
  LET entries == IF Tree[d.at].readable THEN EntriesOf(d.at) ELSE {}
      Kept(e, isDir) == LET p == Append(d.path, Last(e))
                        IN  ~ ExcludedByGlobs(p, globs) /\ ~ Ignored(p, isDir)
      dirs == {e \in entries : IsDir(e) /\ Reached(d, e).links <= MaxLinks
                                 /\ Last(e) \notin DefaultExcludeDirs /\ Kept(e, TRUE)}
      files == {e \in entries : Tree[e].kind = "file" /\ IsPython(Last(e)) /\ Kept(e, FALSE)}
  IN  /\ todo' = (todo \ {d}) \cup {Reached(d, e) : e \in dirs}
      /\ found' = found \cup {[path |-> Append(d.path, Last(e)), at |-> e] : e \in files}
      /\ UNCHANGED <<place, rules, globs>>

-----------------------------------------------------------------------------
(***************************************************************************)
(* What is to be found.                                                    *)
(***************************************************************************)
\* Git's wildcards: * within a name, and ** as a whole name for any number of
\* directories (as the last one, for everything below).
GitGlob(name, glob) ==
  LET Whole(j) == glob[j] = "**" /\ (j = 1 \/ glob[j - 1] = "/")
      rest[j \in 1..(Len(glob) + 1)] ==
        IF j > Len(glob) THEN {Len(name) + 1}
        ELSE IF Whole(j) /\ j = Len(glob) THEN DOMAIN name
        ELSE IF Whole(j) /\ glob[j + 1] = "/"
             THEN {i \in 1..(Len(name) + 1) :
                     \E k \in rest[j + 2] : i = k \/ (i < k /\ name[k - 1] = "/")}
        ELSE IF glob[j] \in Stars
             THEN {i \in 1..(Len(name) + 1) :
                     \E k \in rest[j + 1] : i <= k /\ \A t \in i..(k - 1) : name[t] # "/"}
             ELSE {i \in DOMAIN name : name[i] = glob[j] /\ i + 1 \in rest[j + 1]}
  IN  1 \in rest[1]

GitRuleMatches(rule, p, isDir) ==
  /\ rule.dirOnly => isDir
  /\ IF rule.anchored \/ "/" \in Range(rule.pattern)
     THEN GitGlob(Posix(p), rule.pattern) ELSE GitGlob(Last(p), rule.pattern)

\* The last rule that matches the path decides on it alone.
GitIgnores(rs, p, isDir) ==
  \E i \in DOMAIN rs :
    /\ GitRuleMatches(rs[i], p, isDir) /\ ~ rs[i].negated
    /\ \A j \in (i + 1)..Len(rs) : ~ GitRuleMatches(rs[j], p, isDir)

\* The rules for which the subset of .gitignore agrees with git.  No ** and,
\* where a path is matched, a star as the last name only.  A rule that takes
\* back takes back files, and no directory looks like one where there is
\* something to take back: a directory taken back keeps its files ignored by
\* the rule that named it, for they are matched by their directories too.
Slashed(rule) == rule.anchored \/ "/" \in Range(rule.pattern)

NoDirectoryIsPython ==
  \A e \in DOMAIN Tree : IsDir(e) /\ e # <<>> => Last(Last(e)) # ".py"

Supported(rs) ==
  /\ \A i \in DOMAIN rs :
       /\ "**" \notin Range(rs[i].pattern)
       /\ Slashed(rs[i]) =>
            \A j \in DOMAIN rs[i].pattern :
              rs[i].pattern[j] = "*" =>
                j = Len(rs[i].pattern) /\ (j = 1 \/ rs[i].pattern[j - 1] = "/")
       /\ rs[i].negated => ~ rs[i].dirOnly /\ Last(rs[i].pattern) = ".py"
  /\ \A i, j \in DOMAIN rs :
       i < j /\ ~ rs[i].negated /\ rs[j].negated => NoDirectoryIsPython

\* Everything below the root, by the paths that lead to it.
Reachable ==
  LET step(reached) ==
        reached \cup
        UNION {{Reached(d, e) : e \in {x \in EntriesOf(d.at) : Reached(d, x).links <= MaxLinks}}
               : d \in {r \in reached : Tree[r.at].kind = "dir" /\ Tree[r.at].readable}}
      upTo[n \in 0..((MaxLinks + 1) * Cardinality(DOMAIN Tree))] ==
        IF n = 0 THEN {[path |-> <<>>, at |-> place.root, links |-> 0]} ELSE step(upTo[n - 1])
  IN  upTo[(MaxLinks + 1) * Cardinality(DOMAIN Tree)]

\* The Python files none of whose directories, nor they themselves, are left
\* out, by the rules rs and the globs excludes.
Expected(rs, excludes) ==
  {[path |-> r.path, at |-> r.at] : r \in
     {x \in Reachable :
        /\ Tree[x.at].kind = "file" /\ IsPython(Last(x.at))
        /\ \A n \in 1..Len(x.path) :
             LET above == SubSeq(x.path, 1, n)
             IN  /\ n < Len(x.path) => Last(above) \notin DefaultExcludeDirs
                 /\ ~ ExcludedByGlobs(above, excludes)
                 /\ ~ GitIgnores(rs, above, n < Len(x.path))}}

=============================================================================
