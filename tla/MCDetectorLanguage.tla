------------------------- MODULE MCDetectorLanguage -------------------------
(***************************************************************************)
(* Small detectors: a legal one in which one or two fields are replaced    *)
(* by every other form the parser tells apart, and the sites its patterns  *)
(* are tried on.                                                           *)
(***************************************************************************)
EXTENDS DetectorLanguage, FiniteSets, TLC

MCIdentifiers == {"os", "system", "shell"}
MCCWEs == {"CWE-78"}
MCFlowTokens == {"any-arg", "self", "return", "arg:0"}

Str(s) == [tag |-> "str", v |-> s]
Number(i) == [tag |-> "int", v |-> i]
Bool(i) == [tag |-> "bool", v |-> i]
Other(tag) == [tag |-> tag, v |-> 0]
List(items) == [tag |-> "seq", items |-> items]
Map(entries) == [tag |-> "map", entries |-> entries]
Dotted(segments) == [tag |-> "str", v |-> segments, eol |-> FALSE]

(***************************************************************************)
(* Patterns.                                                               *)
(***************************************************************************)
Kind(k) == <<"kind", Str(k)>>
Name(n) == <<"pattern", n>>
System == Dotted(<<"os", "system">>)
Call(rest) == Map(<<Kind("call"), Name(System)>> \o rest)
Args(n) == <<"args", n>>
When(n) == <<"when", n>>
Shell(value) == When(Map(<<<<"keyword", Map(<<<<"shell", value>>>>)>>>>))

SegmentLists ==
  {<<"os">>, <<"*">>, <<"os", "*">>, <<"*", "system">>, <<"*", "os", "system">>,
   <<"os", "", "system">>, <<"os", "sys*">>, <<"os", "*", "system">>, <<"*", "*">>,
   <<"*", "os", "*">>}

Patterns ==
  {Call(<<>>), List(<<>>), Map(<<Name(System)>>), Map(<<Kind("call")>>),
   Map(<<Kind("call"), Kind("call"), Name(System)>>),
   Map(<<<<"kind", Number(1)>>, Name(System)>>), Map(<<Kind("calls"), Name(System)>>),
   Map(<<Kind("call"), <<"pattern", Number(1)>>>>), Map(<<Kind("call"), <<"pattern", Other("blank")>>>>)}
  \cup {Map(<<Kind("call"), Name(Dotted(s))>>) : s \in SegmentLists}
  \cup {Map(<<Kind("attribute"), Name(System)>> \o rest) :
          rest \in {<<>>, <<Args(List(<<Number(0)>>))>>, <<Shell(Bool(1))>>}}
  \cup {Map(<<Kind(k), Name(Dotted(<<"*">>))>>) : k \in {"parameter", "import"}}
  \cup {Call(<<Args(n)>>) :
          n \in {Number(0), List(<<>>), List(<<Number(0)>>), List(<<Number(1), Number(0), Number(1)>>),
                 List(<<Number(2)>>), List(<<Number(-1)>>), List(<<Number(0), Str("1")>>),
                 List(<<Other("oddint")>>)}}
  \cup {Call(<<When(n)>>) :
          n \in {Str("shell"), Map(<<>>), Map(<<<<"argument", Map(<<>>)>>>>),
                 Map(<<<<"keyword", Str("shell")>>>>), Map(<<<<"keyword", Map(<<>>)>>>>),
                 Map(<<<<"keyword", Map(<<<<"shell=", Bool(1)>>>>)>>>>),
                 Map(<<<<"keyword", Map(<<<<"shell", Bool(1)>>, <<"shell", Bool(0)>>>>)>>>>),
                 Map(<<<<"keyword", Map(<<<<"shell", Bool(1)>>, <<"os", Number(0)>>>>)>>>>)}}
  \cup {Call(<<Shell(n)>>) :
          n \in {Bool(1), Bool(0), Str("true"), Number(2), Other("null"), Other("float"),
                 Other("oddint"), List(<<>>)}}
  \cup {Call(<<Args(List(<<Number(0)>>)), Shell(Bool(1))>>), Call(<<<<"flow", Map(<<>>)>>>>)}

Flow(n) == <<"flow", n>>
FromTo(f, t) == Flow(Map(<<<<"from", f>>, <<"to", t>>>>))

Propagators ==
  {Call(<<>>), Str("os.system"), Map(<<Kind("attribute"), Name(System), FromTo(Str("self"), Str("return"))>>),
   Call(<<Args(List(<<Number(-1)>>)), FromTo(Str("self"), Str("return"))>>),
   Call(<<Args(List(<<Number(1)>>)), FromTo(Str("arg:0"), Str("return"))>>),
   Call(<<Flow(Str("self"))>>), Call(<<Flow(Map(<<>>))>>),
   Call(<<Flow(Map(<<<<"from", Str("self")>>>>))>>),
   Call(<<Flow(Map(<<<<"from", Str("self")>>, <<"to", Str("return")>>, <<"via", Str("self")>>>>))>>),
   Call(<<FromTo(Str("self"), Other("blank"))>>), Call(<<FromTo(Str("returns"), Str("self"))>>),
   Call(<<FromTo(Str("any-arg"), Str("arg:x"))>>), Call(<<<<"via", Str("self")>>, FromTo(Str("self"), Str("return"))>>)}

(***************************************************************************)
(* Metadata: {k: 1}, with an alias met twice, with itself inside, in a     *)
(* list of itself, with a longer cycle, with a cycle or a float below one  *)
(* of two children, with a duplicate key; a list, a scalar, a list of      *)
(* itself.                                                                 *)
(***************************************************************************)
Leaf(tag) == [tag |-> tag, v |-> 0, dup |-> FALSE, kids |-> <<>>]
Inner(tag, kids) == [tag |-> tag, v |-> 0, dup |-> FALSE, kids |-> kids]
M == 0

Graphs ==
  {(M :> Inner("map", <<1>>)) @@ (1 :> Leaf("int")),
   (M :> Inner("map", <<1, 1>>)) @@ (1 :> Inner("seq", <<2>>)) @@ (2 :> Leaf("str")),
   (M :> Inner("map", <<1, 2>>)) @@ (1 :> Inner("map", <<3>>)) @@ (2 :> Inner("seq", <<1, 3>>))
      @@ (3 :> Leaf("bool")),
   M :> Inner("map", <<M>>),
   (M :> Inner("map", <<1>>)) @@ (1 :> Inner("seq", <<2, M>>)) @@ (2 :> Leaf("null")),
   (M :> Inner("map", <<1>>)) @@ (1 :> Inner("map", <<2>>)) @@ (2 :> Inner("seq", <<1>>)),
   (M :> Inner("map", <<1, 2>>)) @@ (1 :> Inner("seq", <<>>)) @@ (2 :> Inner("seq", <<1, 2>>)),
   (M :> Inner("map", <<1, 2>>)) @@ (1 :> Leaf("str")) @@ (2 :> Inner("seq", <<1, 3>>))
      @@ (3 :> Leaf("float")),
   (M :> Inner("seq", <<1>>)) @@ (1 :> [Inner("map", <<>>) EXCEPT !.dup = TRUE]),
   (M :> Inner("map", <<1>>)) @@ (1 :> [Inner("map", <<>>) EXCEPT !.dup = TRUE]),
   M :> Inner("seq", <<>>), M :> Inner("seq", <<M>>), M :> Leaf("int"), M :> Leaf("oddint")}

(***************************************************************************)
(* Texts.                                                                  *)
(***************************************************************************)
Base ==
  <<<<"id", Str("d")>>, <<"name", Str("n")>>, <<"cwe", Str("CWE-78")>>, <<"severity", Str("high")>>,
    <<"languages", List(<<Str("python")>>)>>, <<"message", Str("m")>>,
    <<"sources", List(<<Call(<<>>)>>)>>, <<"sinks", List(<<Call(<<>>), Call(<<>>)>>)>>>>

NoGraph == M :> Leaf("null")
Text(entries) == [root |-> Map(entries), graph |-> NoGraph]

With(text, i, key, n) ==
  [text EXCEPT !.root.entries = SubSeq(@, 1, i - 1) \o <<<<key, n>>>> \o SubSeq(@, i + 1, Len(@))]
Adding(text, key, n) == [text EXCEPT !.root.entries = Append(@, <<key, n>>)]
Without(text, i) ==
  [text EXCEPT !.root.entries = SubSeq(@, 1, i - 1) \o SubSeq(@, i + 1, Len(@))]

\* Every other form of one of the plain fields of a text.
Plainly(text) ==
  {text}
  \cup {With(text, i, Base[i][1], n) : i \in {1, 2, 6}, n \in {Number(1), Other("blank")}}
  \cup {With(text, 3, "cwe", n) : n \in {Str("78"), Number(78)}}
  \cup {With(text, 4, "severity", n) : n \in {Str("High"), Bool(1), Other("blank")}}
  \cup {With(text, 5, "languages", List(items)) :
          items \in {<<>>, <<Str("ruby")>>, <<Str("python"), Str("ruby")>>, <<Number(1)>>,
                     <<Str("python"), Str("python")>>}}
  \cup {With(text, 5, "languages", Str("python"))}
  \cup {Without(text, i) : i \in 1..8}
  \cup {Adding(text, "sink", List(<<>>)), Adding(text, "id", Str("e")),
        Adding(text, NotAString, Str("e"))}
  \cup {[text EXCEPT !.root = n] : n \in {Str("d"), List(<<>>)}}

\* Every other form of one of its lists, or its metadata.
Structurally(text) ==
  {With(text, i, Base[i][1], n) : i \in {7, 8}, n \in {Str("os.system"), List(<<>>)}}
  \cup {With(text, 7, "sources", List(<<p>>)) : p \in Patterns}
  \cup {With(text, 8, "sinks", List(<<Call(<<>>), p>>)) : p \in Patterns}
  \cup {Adding(text, "sanitizers", List(<<p>>)) : p \in Patterns}
  \cup {Adding(text, key, n) : key \in {"sanitizers", "propagators"}, n \in {Str("quote"), List(<<>>)}}
  \cup {Adding(text, "propagators", List(<<p, q>>)) :
          p \in {Call(<<FromTo(Str("any-arg"), Str("return"))>>)}, q \in Propagators}
  \cup {[Adding(text, "metadata", [tag |-> "graph", root |-> M]) EXCEPT !.graph = g] : g \in Graphs}

MCDocuments ==
  LET texts == Plainly(Text(Base))
  IN  texts \cup UNION {Structurally(text) : text \in {t \in texts : t.root.tag = "map"}}

(***************************************************************************)
(* Sites.  No number is passed for a flag that has its value, nor a flag   *)
(* for a number; NumberForFlag is a site that does, system(shell=1), and   *)
(* OneFlag a detector that asks for the flag.                              *)
(***************************************************************************)
Names == UNION {[1..n -> MCIdentifiers] : n \in 1..3}

Keywords ==
  {<<>>} \cup {"shell" :> v : v \in {<<"bool", 1>>, <<"bool", 0>>, <<"str", "true">>, <<"int", 2>>,
                                     <<"null", 0>>, NotLiteral}}
    \cup {("shell" :> <<"bool", 1>>) @@ ("os" :> v) : v \in {<<"int", 0>>, <<"int", 2>>}}

MCSites ==
  [kind : {"call"}, name : Names \cup {Unresolved}, args : 0..3, kwargs : Keywords]
    \cup [kind : Kinds \ {"call"}, name : Names \cup {Unresolved}, args : {0}, kwargs : {<<>>}]

NumberForFlag ==
  {[kind |-> "call", name |-> <<"os", "system">>, args |-> 0, kwargs |-> "shell" :> <<"int", 1>>]}

OneFlag == {With(Text(Base), 8, "sinks", List(<<Call(<<Shell(Bool(1))>>)>>))}

=============================================================================
