-------------------------- MODULE DetectorLanguage --------------------------
(***************************************************************************)
(* What docs/dsl-reference.md promises of detector specifications: which   *)
(* texts are one, what an error says, and which sites an accepted pattern  *)
(* selects.                                                                *)
(***************************************************************************)
EXTENDS SpecParser

CONSTANT Sites  \* the sites of programs the patterns are tried on

\* A site has a dotted name, counts the arguments it writes, and gives each
\* keyword a type and a value.
ASSUME SitesAssumption ==
  \A site \in Sites :
    /\ site.name \in Seq(STRING) /\ site.args \in Nat
    /\ \A k \in DOMAIN site.kwargs : site.kwargs[k] = <<site.kwargs[k][1], site.kwargs[k][2]>>

(***************************************************************************)
(* The wildcard table ("Wildcard matching semantics (pinned)"): the names  *)
(* a pattern stands for are those its star can be replaced in.             *)
(***************************************************************************)
Literal == Seq(Identifiers)

IsPatternForm(p) ==
  /\ p # <<>>
  /\ \/ p \in Literal
     \/ Front(p) \in Literal /\ Last(p) = Star
     \/ Tail(p) \in Literal /\ Head(p) = Star

\* Pattern p with the segments w in the place of its star stands for n.
Denotes(p, n) ==
  \/ p \in Literal /\ n = p
  \/ Last(p) = Star /\ \E w \in Range(n) : n = Append(Front(p), w)
  \/ Head(p) = Star /\ Len(p) > 1 /\ \E k \in 1..Len(n) : n = SubSeq(n, 1, k) \o Tail(p)

\* "Optional constraints": any listed position that is written, and every
\* keyword a constant equal to its value, the type included ("shell=True
\* matches only a literal True", "Scalar typing is exact").
Documented(p, site) ==
  /\ p.kind = site.kind
  /\ site.name # Unresolved
  /\ Denotes(p.pattern, site.name)
  /\ site.kind = "call" =>
       /\ p.args = EveryArg \/ \E i \in p.args : i < site.args
       /\ \A k \in DOMAIN p.when :
            /\ k \in DOMAIN site.kwargs /\ site.kwargs[k] # NotLiteral
            /\ site.kwargs[k] = p.when[k]

\* Literals of different types that Python takes for equal.
Twins(u, v) == u[1] # v[1] /\ {u[1], v[1]} \subseteq Numeric /\ u[2] = v[2]

(***************************************************************************)
(* The schema, field by field.                                             *)
(***************************************************************************)
Optional(n, key, Test(_)) == key \in Keys(n) => Test(Child(n, key))

ArgsOK(n) ==
  n.tag = "seq" /\ n.items # <<>> /\ \A item \in Range(n.items) : item.tag = "int" /\ item.v >= 0

WhenOK(n) ==
  /\ IsMapping(n) /\ Keys(n) = {"keyword"}
  /\ LET pairs == Child(n, "keyword")
     IN  /\ IsMapping(pairs) /\ Keys(pairs) # {}
         /\ \A k \in Keys(pairs) : k \in Identifiers /\ IsTyped(Child(pairs, k))

FlowOK(n) ==
  /\ IsMapping(n) /\ Keys(n) = {"from", "to"}
  /\ {Child(n, "from").tag, Child(n, "to").tag} = {"str"}
  /\ {Child(n, "from").v, Child(n, "to").v} \subseteq FlowTokens

PatternOK(n) ==
  /\ IsMapping(n)
  /\ {"kind", "pattern"} \subseteq Keys(n)
  /\ Child(n, "kind").tag = "str" /\ Child(n, "kind").v \in Kinds
  /\ Child(n, "pattern").tag = "str" /\ IsPatternForm(Child(n, "pattern").v)
  /\ Child(n, "kind").v # "call" => {"args", "when"} \cap Keys(n) = {}
  /\ Optional(n, "args", ArgsOK)
  /\ Optional(n, "when", WhenOK)

PlainPatternOK(n) == PatternOK(n) /\ Keys(n) \subseteq PatternKeys

PropagatorOK(n) ==
  /\ PatternOK(n) /\ Keys(n) \subseteq PropKeys
  /\ Child(n, "kind").v = "call"
  /\ "flow" \in Keys(n) /\ FlowOK(Child(n, "flow"))

AllOf(n, Test(_)) == n.tag = "seq" /\ \A i \in DOMAIN n.items : Test(n.items[i])

\* The nodes of the metadata: the least set with its root and their children.
Below(nodes) == UNION {Range(Graph[node].kids) : node \in nodes}

MetadataNodes(root) ==
  {node \in DOMAIN Graph :
     \A S \in SUBSET DOMAIN Graph : root \in S /\ Below(S) \subseteq S => node \in S}

\* Free-form, but made of mappings, lists and typed scalars, and a tree.
MetadataOK(n) ==
  LET nodes == MetadataNodes(n.root)
  IN  /\ Graph[n.root].tag = "map"
      /\ \A node \in nodes : CASE Graph[node].tag = "map" -> ~ Graph[node].dup
                               [] Graph[node].tag = "seq" -> TRUE
                               [] OTHER -> IsTyped(Graph[node])
      /\ ~ \E S \in SUBSET nodes : /\ S # {}
                                   /\ \A node \in S : Range(Graph[node].kids) \cap S # {}

FieldOK(key) ==
  LET n == Child(Root, key)
  IN  CASE key \in {"id", "name", "message"} -> n.tag = "str"
        [] key = "cwe" -> n.tag = "str" /\ n.v \in CWEs
        [] key = "severity" -> n.tag = "str" /\ n.v \in Severities
        [] key = "languages" ->
             n.tag = "seq" /\ {item.tag : item \in Range(n.items)} = {"str"}
               /\ {item.v : item \in Range(n.items)} = {"python"}
        [] key \in {"sources", "sinks"} -> AllOf(n, PlainPatternOK) /\ n.items # <<>>
        [] key = "sanitizers" -> AllOf(n, PlainPatternOK)
        [] key = "propagators" -> AllOf(n, PropagatorOK)
        [] key = "metadata" -> MetadataOK(n)
        [] OTHER -> FALSE

\* The top-level fields that are wrong or missing (none of a root that is no
\* mapping: all of it is wrong).
AtFault == {key \in Keys(Root) \cup Range(RequiredTop) : key \notin Keys(Root) \/ ~ FieldOK(key)}

WellFormed == IsMapping(Root) /\ AtFault = {}

-----------------------------------------------------------------------------
(***************************************************************************)
(* Properties.                                                             *)
(***************************************************************************)
Finished == stage \in {"accepted", "rejected"}

\* Every variable of the parser has its type.
ParserTypeOK ==
  /\ stage \in {"root", "id", "unknown", "missing", "name", "message", "cwe", "severity",
                "languages", "metadata", "build", "list", "keys", "kind", "pattern", "args",
                "when", "flow", "take", "next", "accepted", "rejected"}
  /\ list \in DOMAIN Lists /\ idx \in Nat
  /\ \A i \in DOMAIN path : path[i].node \in DOMAIN Graph /\ path[i].next \in Nat
  /\ DOMAIN spec = Range(Lists)
  /\ error = NoError \/ stage = "rejected"

\* A text is accepted exactly if the reference calls it a detector: no check
\* is skipped by the path taken to it, and none refuses a legal field.
AcceptsExactly ==
  /\ stage = "accepted" => WellFormed
  /\ stage = "rejected" => ~ WellFormed

\* An error names a field that is wrong, and the detector as soon as the text
\* tells which it is ("names the spec id, the offending field").
BlameIsReal ==
  stage = "rejected" =>
    IF error.field = <<>> THEN ~ IsMapping(Root)
    ELSE /\ error.field[1] \in AtFault
         /\ "id" \notin AtFault => error.id = Child(Root, "id").v

\* What is accepted is what was written: the patterns of every list, all of
\* them and in their order.
NothingLost ==
  stage = "accepted" =>
    \A field \in Range(Lists) :
      spec[field] = IF field \in Keys(Root)
                    THEN [i \in DOMAIN Child(Root, field).items |->
                            Parsed(Child(Root, field).items[i])]
                    ELSE <<>>

Accepted == UNION {Range(spec[field]) : field \in Range(Lists)}

\* The parser and the matcher agree on the language: an accepted pattern
\* selects exactly the sites the reference says it does, whatever wildcards,
\* positions and keywords it combines (_match_when, _match_dotted).
SelectsAsDocumented ==
  stage = "accepted" =>
    \A p \in Accepted : \A site \in Sites :
      Matches(p, site) <=> Documented(p, site)

\* No site gives a keyword of an accepted pattern the twin of its value.
NoTwins ==
  \A p \in Accepted : \A site \in Sites : \A k \in DOMAIN p.when \cap DOMAIN site.kwargs :
    ~ Twins(site.kwargs[k], p.when[k])

\* No silently dead rule (_validate_pattern_string): an accepted pattern
\* selects some site.
NoDeadPattern ==
  stage = "accepted" => \A p \in Accepted : \E site \in Sites : Matches(p, site)

=============================================================================
