----------------------------- MODULE SpecParser -----------------------------
(***************************************************************************)
(* parse_spec (dsl/parser.py): the checks that turn the YAML of a detector *)
(* into a specification or into one error, in the order of the code.       *)
(*                                                                         *)
(* A YAML node is a record with a tag.  "str", "int", "bool", "null" and   *)
(* "float" are scalars with a value v, "blank" is a string of spaces and   *)
(* "oddint" an integer of a spelling Python does not read (010); "seq" has *)
(* items and "map" entries, pairs of a key and a node in document order.   *)
(* The value of a pattern is the sequence of its segments, and whether a   *)
(* newline follows them.  Only metadata may hold aliases that form cycles, *)
(* so it is a graph: its node has a root, and doc.graph gives each node of *)
(* it a tag and its children.                                              *)
(***************************************************************************)
EXTENDS Matcher

CONSTANTS
  Identifiers,   \* the segments that are Python identifiers
  CWEs,          \* the strings of the form CWE-79
  FlowTokens     \* any-arg, self, return and arg:N

\* A star is no identifier.
ASSUME IdentifiersAssumption == Star \notin Identifiers

VARIABLES
  doc,       \* the text
  stage,     \* the check to come
  list, idx, \* the list of patterns under way, and the place in it
  path,      \* the recursion of _build_metadata: its nodes and their next child
  id,        \* the detector id, once it is known
  spec,      \* the patterns accepted so far, by list
  error      \* the error raised

parserVars == <<doc, stage, list, idx, path, id, spec, error>>

RequiredTop == <<"id", "name", "cwe", "severity", "languages", "message", "sources", "sinks">>
OptionalTop == {"sanitizers", "propagators", "metadata"}
AllowedTop == Range(RequiredTop) \cup OptionalTop

Lists == <<"sources", "sinks", "sanitizers", "propagators">>

PatternKeys == {"kind", "pattern", "args", "when"}
PropKeys == PatternKeys \cup {"flow"}

NotAString == "<not a string>"
NoId == "?"
NoError == [field |-> <<>>, id |-> "none"]
Severities == {"low", "medium", "high", "critical"}

-----------------------------------------------------------------------------
(***************************************************************************)
(* Nodes.                                                                  *)
(***************************************************************************)
Keys(n) == {n.entries[i][1] : i \in DOMAIN n.entries}

\* _as_mapping: a mapping with distinct string keys.
IsMapping(n) ==
  /\ n.tag = "map"
  /\ NotAString \notin Keys(n)
  /\ \A i, j \in DOMAIN n.entries : n.entries[i][1] = n.entries[j][1] => i = j

Child(n, key) == (CHOOSE e \in Range(n.entries) : e[1] = key)[2]

(***************************************************************************)
(* What PyYAML hands over, as deep as the parser looks into it: pairs in a *)
(* mapping, children in a list, integers as integers; a pattern split into *)
(* its segments; metadata as a graph.                                      *)
(***************************************************************************)
Children(n) ==
  CASE n.tag = "map" -> {n.entries[i][2] : i \in DOMAIN n.entries}
    [] n.tag = "seq" -> {n.items[i] : i \in DOMAIN n.items}
    [] OTHER         -> {}

IsNode(n) ==
  /\ n.tag = "map" => n.entries \in Seq(STRING \X Children(n))
  /\ n.tag = "seq" => n.items \in Seq(Children(n))
  /\ n.tag = "int" => n.v \in Int

Opened(nodes) == nodes \cup UNION {Children(n) : n \in nodes}

\* The nodes under a key, of some of the nodes.
Under(nodes, key) ==
  UNION {{n.entries[i][2] : i \in {j \in DOMAIN n.entries : n.entries[j][1] = key}}
         : n \in {m \in nodes : m.tag = "map"}}

ListedNodes(d) ==
  UNION {Children(n) : n \in UNION {Under({d.root}, field) : field \in Range(Lists)}}

IsDocument(d) ==
  /\ \A n \in Opened(Opened(Opened(Opened({d.root})))) : IsNode(n)
  /\ \A n \in Under(ListedNodes(d), "pattern") :
       n.tag = "str" => n.v \in Seq(STRING) \ {<<>>} /\ n.eol \in BOOLEAN
  /\ \A n \in Under({d.root}, "metadata") : n.root \in DOMAIN d.graph
  /\ \A node \in DOMAIN d.graph :
       /\ d.graph[node].dup \in BOOLEAN
       /\ d.graph[node].kids \in Seq(DOMAIN d.graph)
       /\ d.graph[node].tag \notin {"map", "seq"} => d.graph[node].kids = <<>>

\* _require_str: a string with something in it.
IsText(n) == n.tag = "str"

\* _scalar_value: a string, a boolean, null, or an integer of a spelling that
\* Python reads.
IsTyped(n) == n.tag \in {"str", "blank", "bool", "null", "int"}

-----------------------------------------------------------------------------
(***************************************************************************)
(* One check: it is passed, or the error names the field and the detector. *)
(***************************************************************************)
Reject(field) ==
  /\ stage' = "rejected"
  /\ error' = [field |-> field, id |-> id]

Check(here, next, holds, field) ==
  /\ stage = here
  /\ \/ holds /\ stage' = next /\ UNCHANGED error
     \/ ~ holds /\ Reject(field)
  /\ UNCHANGED <<doc, list, idx, path, id, spec>>

Root == doc.root

CheckRoot == Check("root", "id", IsMapping(Root), <<>>)

\* Mutant: later errors do not know the detector.
CheckIdForgotten ==
  Check("id", "unknown", "id" \in Keys(Root) /\ IsText(Child(Root, "id")), <<"id">>)

CheckId ==
  /\ stage = "id"
  /\ \/ /\ "id" \in Keys(Root) /\ IsText(Child(Root, "id"))
        /\ stage' = "unknown" /\ id' = Child(Root, "id").v /\ UNCHANGED error
     \/ /\ ~ ("id" \in Keys(Root) /\ IsText(Child(Root, "id")))
        /\ Reject(<<"id">>) /\ UNCHANGED id
  /\ UNCHANGED <<doc, list, idx, path, spec>>

FirstOutside(keys, set) ==
  keys[CHOOSE i \in DOMAIN keys : keys[i] \notin set /\ \A j \in 1..(i - 1) : keys[j] \in set]

CheckUnknown ==
  Check("unknown", "missing", Keys(Root) \subseteq AllowedTop,
        <<FirstOutside([i \in DOMAIN Root.entries |-> Root.entries[i][1]], AllowedTop)>>)

CheckMissing ==
  Check("missing", "name", Range(RequiredTop) \subseteq Keys(Root),
        <<FirstOutside(RequiredTop, Keys(Root))>>)

CheckName == Check("name", "message", IsText(Child(Root, "name")), <<"name">>)

CheckMessage == Check("message", "cwe", IsText(Child(Root, "message")), <<"message">>)

CheckCwe ==
  Check("cwe", "severity", IsText(Child(Root, "cwe")) /\ Child(Root, "cwe").v \in CWEs, <<"cwe">>)

CheckSeverity ==
  Check("severity", "languages",
        IsText(Child(Root, "severity")) /\ Child(Root, "severity").v \in Severities,
        <<"severity">>)

CheckLanguages ==
  LET n == Child(Root, "languages")
  IN  Check("languages", "metadata",
            /\ n.tag = "seq" /\ n.items # <<>>
            /\ \A i \in DOMAIN n.items : IsText(n.items[i]) /\ n.items[i].v = "python",
            <<"languages">>)

(***************************************************************************)
(* _build_metadata: a depth-first walk.  A node on the way to itself is a  *)
(* cycle; a node met again beside itself is walked again.                  *)
(***************************************************************************)
Graph == doc.graph

OnPath(node) == \E i \in DOMAIN path : path[i].node = node

CanBuild(node) ==
  /\ ~ OnPath(node)
  /\ Graph[node].tag = "map" => ~ Graph[node].dup
  /\ Graph[node].tag \notin {"map", "seq"} => IsTyped(Graph[node])

Build(node, above) ==
  \/ /\ CanBuild(node)
     /\ path' = IF Graph[node].tag \in {"map", "seq"}
                THEN Append(above, [node |-> node, next |-> 1]) ELSE above
     /\ stage' = "build" /\ UNCHANGED error
  \/ /\ ~ CanBuild(node)
     /\ Reject(<<"metadata">>) /\ UNCHANGED path

StartMetadata ==
  /\ stage = "metadata"
  /\ IF "metadata" \in Keys(Root)
     THEN Build(Child(Root, "metadata").root, <<>>)
     ELSE stage' = "list" /\ UNCHANGED <<path, error>>
  /\ UNCHANGED <<doc, list, idx, id, spec>>

\* Mutant: the walk does not go on to the next child.
BuildSameChild ==
  /\ stage = "build" /\ path # <<>>
  /\ LET frame == Last(path)
         kids == Graph[frame.node].kids
     IN  IF frame.next \in DOMAIN kids
         THEN Build(kids[frame.next], path)
         ELSE path' = Front(path) /\ UNCHANGED <<stage, error>>
  /\ UNCHANGED <<doc, list, idx, id, spec>>

BuildChild ==
  /\ stage = "build" /\ path # <<>>
  /\ LET frame == Last(path)
         kids == Graph[frame.node].kids
     IN  IF frame.next \in DOMAIN kids
         THEN Build(kids[frame.next], Append(Front(path), [frame EXCEPT !.next = @ + 1]))
         ELSE path' = Front(path) /\ UNCHANGED <<stage, error>>
  /\ UNCHANGED <<doc, list, idx, id, spec>>

FinishMetadata ==
  /\ path = <<>>
  /\ Check("build", "list", Graph[Child(Root, "metadata").root].tag = "map", <<"metadata">>)

-----------------------------------------------------------------------------
(***************************************************************************)
(* The lists of patterns.                                                  *)
(***************************************************************************)
Field == Lists[list]

Elements == Child(Root, Field).items

Node == Elements[idx]

At(key) == <<Field, idx, key>>

\* _parse_pattern_list: sources and sinks are not empty.
OpenList ==
  /\ stage = "list"
  /\ \/ Field \notin Keys(Root) /\ stage' = "next" /\ idx' = 0 /\ UNCHANGED error
     \/ /\ Field \in Keys(Root)
        /\ LET n == Child(Root, Field)
               holds == n.tag = "seq" /\ (Field \in {"sources", "sinks"} => n.items # <<>>)
           IN  \/ holds /\ idx' = 1 /\ UNCHANGED error
                  /\ stage' = IF n.items # <<>> THEN "keys" ELSE "next"
               \/ ~ holds /\ Reject(<<Field>>) /\ UNCHANGED idx
  /\ UNCHANGED <<doc, list, path, id, spec>>

CheckKeys ==
  Check("keys", "kind",
        /\ IsMapping(Node)
        /\ Field = "propagators" => "flow" \in Keys(Node)
        /\ Keys(Node) \subseteq (IF Field = "propagators" THEN PropKeys ELSE PatternKeys)
        /\ "kind" \in Keys(Node),
        <<Field, idx>>)

CheckKind ==
  Check("kind", "pattern", IsText(Child(Node, "kind")) /\ Child(Node, "kind").v \in Kinds,
        At("kind"))

IsCall == Child(Node, "kind").v = "call"

\* _validate_pattern_string.  The regular expression ends in $, which lets a
\* newline follow the last segment (a block scalar leaves one there): it is
\* then part of that segment, which is no star any more.
EndsInNewline == "<newline>"

Segments(n) == IF n.eol THEN Append(Front(n.v), EndsInNewline) ELSE n.v

\* Mutant: only the shape of the segments is checked.
WellPlacedAnywhere(segments) == segments # <<>>

WellPlaced(segments) ==
  LET stars == {i \in DOMAIN segments : segments[i] = Star}
  IN  stars \in {{}, {1}, {Len(segments)}}

CheckPattern ==
  LET n == Child(Node, "pattern")
  IN  Check("pattern", "args",
            /\ "pattern" \in Keys(Node)
            /\ IsText(n)
            /\ Range(n.v) \subseteq Identifiers \cup {Star}
            /\ WellPlaced(Segments(n)),
            IF "pattern" \in Keys(Node) THEN At("pattern") ELSE <<Field, idx>>)

\* _parse_args: plain indices of arguments, of calls only.
CheckArgs ==
  LET n == Child(Node, "args")
  IN  Check("args", "when",
            "args" \in Keys(Node) =>
              /\ IsCall
              /\ n.tag = "seq" /\ n.items # <<>>
              /\ \A i \in DOMAIN n.items :
                   n.items[i].tag = "int" /\ n.items[i].v \in Nat,
            At("args"))

\* _parse_when: exactly {keyword: {name: scalar}}, of calls only.
CheckWhen ==
  LET n == Child(Node, "when")
      keyword == Child(n, "keyword")
  IN  Check("when", IF Field = "propagators" THEN "flow" ELSE "take",
            "when" \in Keys(Node) =>
              /\ IsCall
              /\ IsMapping(n) /\ Keys(n) = {"keyword"}
              /\ IsMapping(keyword) /\ keyword.entries # <<>>
              /\ Keys(keyword) \subseteq Identifiers
              /\ \A e \in Range(keyword.entries) : IsTyped(e[2]),
            At("when"))

\* _parse_propagator: calls only, with a flow from one position to another.
CheckFlow ==
  LET n == Child(Node, "flow")
  IN  Check("flow", "take",
            /\ IsCall
            /\ IsMapping(n) /\ Keys(n) = {"from", "to"}
            /\ \A e \in Range(n.entries) : IsText(e[2]) /\ e[2].v \in FlowTokens,
            IF IsCall THEN At("flow") ELSE At("kind"))

\* The Pattern built of the node.
Parsed(n) ==
  [kind |-> Child(n, "kind").v,
   pattern |-> Segments(Child(n, "pattern")),
   args |-> IF "args" \in Keys(n)
            THEN {item.v : item \in Range(Child(n, "args").items)} ELSE EveryArg,
   when |-> IF "when" \in Keys(n)
            THEN LET keyword == Child(Child(n, "when"), "keyword")
                 IN  [k \in Keys(keyword) |-> <<Child(keyword, k).tag, Child(keyword, k).v>>]
            ELSE NoWhen]

\* Mutant: a pattern takes the place of the one before it.
TakeLast ==
  /\ stage = "take"
  /\ spec' = [spec EXCEPT ![Field] = <<Parsed(Node)>>]
  /\ \/ idx < Len(Elements) /\ stage' = "keys" /\ idx' = idx + 1
     \/ idx = Len(Elements) /\ stage' = "next" /\ idx' = idx
  /\ UNCHANGED <<doc, list, path, id, error>>

Take ==
  /\ stage = "take"
  /\ spec' = [spec EXCEPT ![Field] = Append(@, Parsed(Node))]
  /\ \/ idx < Len(Elements) /\ stage' = "keys" /\ idx' = idx + 1
     \/ idx = Len(Elements) /\ stage' = "next" /\ idx' = idx
  /\ UNCHANGED <<doc, list, path, id, error>>

\* Mutant: one list too many.
NextListBeyond ==
  /\ stage = "next"
  /\ list' = list + 1 /\ stage' = "list"
  /\ UNCHANGED <<doc, idx, path, id, spec, error>>

NextList ==
  /\ stage = "next"
  /\ \/ list < Len(Lists) /\ list' = list + 1 /\ stage' = "list"
     \/ list = Len(Lists) /\ stage' = "accepted" /\ UNCHANGED list
  /\ UNCHANGED <<doc, idx, path, id, spec, error>>

-----------------------------------------------------------------------------
ParserInit ==
  /\ stage = "root"
  /\ list = 1 /\ idx = 0
  /\ path = <<>>
  /\ id = NoId
  /\ spec = [field \in Range(Lists) |-> <<>>]
  /\ error = NoError

ParserNext ==
  \/ CheckRoot \/ CheckId \/ CheckUnknown \/ CheckMissing
  \/ CheckName \/ CheckMessage \/ CheckCwe \/ CheckSeverity \/ CheckLanguages
  \/ StartMetadata \/ BuildChild \/ FinishMetadata
  \/ OpenList \/ CheckKeys \/ CheckKind \/ CheckPattern \/ CheckArgs \/ CheckWhen \/ CheckFlow
  \/ Take \/ NextList

=============================================================================
