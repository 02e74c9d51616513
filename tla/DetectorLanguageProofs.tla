----------------------- MODULE DetectorLanguageProofs -----------------------
(***************************************************************************)
(* Theorems about SpecParser and DetectorLanguage, within the program: for *)
(* every text of a detector file, whether the parser accepts it, what it   *)
(* blames, what it keeps, and which sites an accepted pattern selects.     *)
(***************************************************************************)
EXTENDS ScanCommand, SequenceTheorems, WellFoundedInduction, TLAPS

-----------------------------------------------------------------------------
(***************************************************************************)
(* Nodes.                                                                  *)
(***************************************************************************)

\* A node and what it holds, d levels below it at most.
IsNode1(n) == IsNode(n) /\ \A c \in Children(n) : IsNode(c)
IsNode2(n) == IsNode(n) /\ \A c \in Children(n) : IsNode1(c)
IsNode3(n) == IsNode(n) /\ \A c \in Children(n) : IsNode2(c)
IsNode4(n) == IsNode(n) /\ \A c \in Children(n) : IsNode3(c)

\* The nodes opened are those four levels below the root.
LEMMA RootIsNode ==
  ASSUME IsDocument(doc)
  PROVE  IsNode4(Root)
<1> DEFINE A == Opened({Root})
           B == Opened(A)
           C == Opened(B)
           D == Opened(C)
<1>1. \A n \in D : IsNode(n)
  BY DEF IsDocument, Root
<1>2. Root \in A /\ Children(Root) \subseteq A
  BY DEF Opened
<1>3. \A S : \A n \in S : n \in Opened(S) /\ Children(n) \subseteq Opened(S)
  BY DEF Opened
<1> HIDE DEF A, B, C, D
<1>4. /\ \A n \in C : n \in D /\ Children(n) \subseteq D
      /\ \A n \in B : n \in C /\ Children(n) \subseteq C
      /\ \A n \in A : n \in B /\ Children(n) \subseteq B
  BY <1>3 DEF B, C, D
<1>5. \A n \in C : IsNode1(n)
  BY <1>1, <1>4 DEF IsNode1
<1>6. \A n \in B : IsNode2(n)
  BY <1>1, <1>4, <1>5 DEF IsNode2
<1>7. \A n \in A : IsNode3(n)
  BY <1>1, <1>4, <1>6 DEF IsNode3
<1>8. QED BY <1>1, <1>2, <1>4, <1>7 DEF IsNode4

\* What a mapping has under a key.
LEMMA ChildIs ==
  ASSUME NEW n, IsMapping(n), NEW i \in DOMAIN n.entries
  PROVE  Child(n, n.entries[i][1]) = n.entries[i][2]
BY DEF IsMapping, Child, Range

\* It is one of the children.
LEMMA ChildIn ==
  ASSUME NEW n, IsMapping(n), NEW key \in Keys(n)
  PROVE  Child(n, key) \in Children(n)
<1>1. PICK i \in DOMAIN n.entries : key = n.entries[i][1]
  BY DEF Keys
<1>2. Child(n, key) = n.entries[i][2]
  BY <1>1, ChildIs
<1>3. QED BY <1>2 DEF Children, IsMapping

\* What a list has.
LEMMA ItemIn ==
  ASSUME NEW n, n.tag = "seq", IsNode(n)
  PROVE  /\ n.items \in Seq(Children(n)) /\ Len(n.items) \in Nat
         /\ DOMAIN n.items = 1..Len(n.items)
         /\ \A i \in DOMAIN n.items : n.items[i] \in Children(n)
<1> DEFINE S == Children(n)
<1>1. n.items \in Seq(S)
  BY DEF IsNode
<1> HIDE DEF S
<1>2. /\ Len(n.items) \in Nat /\ DOMAIN n.items = 1..Len(n.items)
      /\ \A i \in DOMAIN n.items : n.items[i] \in S
  BY <1>1
<1>3. QED BY <1>1, <1>2 DEF S

\* What the text says stays.
LEMMA SameText ==
  ASSUME doc' = doc
  PROVE  /\ Root' = Root /\ Graph' = Graph
         /\ \A key : FieldOK(key)' <=> FieldOK(key)
         /\ AtFault' = AtFault
         /\ \A n : MetadataNodes(n)' = MetadataNodes(n)
<1>1. Root' = Root /\ Graph' = Graph
  BY DEF Root, Graph
<1>2. \A key : FieldOK(key)' <=> FieldOK(key)
  BY DEF FieldOK, Root, Graph, AllOf, PlainPatternOK, PatternOK, PropagatorOK, MetadataOK,
         MetadataNodes, Below
<1>3. AtFault' = AtFault
  BY <1>1, <1>2 DEF AtFault
<1>4. \A n : MetadataNodes(n)' = MetadataNodes(n)
  BY <1>1 DEF MetadataNodes, Below
<1>5. QED BY <1>1, <1>2, <1>3, <1>4

-----------------------------------------------------------------------------
(***************************************************************************)
(* A pattern.  The checks of the code, each named, and the schema of the   *)
(* reference: a pattern on one line passes the checks if and only if it is *)
(* well formed.                                                            *)
(***************************************************************************)
KeysPass(field, n) ==
  /\ IsMapping(n)
  /\ field = "propagators" => "flow" \in Keys(n)
  /\ Keys(n) \subseteq (IF field = "propagators" THEN PropKeys ELSE PatternKeys)
  /\ "kind" \in Keys(n)

KindPasses(n) == IsText(Child(n, "kind")) /\ Child(n, "kind").v \in Kinds

PatternPasses(n) ==
  LET m == Child(n, "pattern")
  IN  /\ "pattern" \in Keys(n)
      /\ IsText(m)
      /\ Range(m.v) \subseteq Identifiers \cup {Star}
      /\ WellPlaced(Segments(m))

ArgsPass(n) ==
  LET m == Child(n, "args")
  IN  "args" \in Keys(n) =>
        /\ Child(n, "kind").v = "call"
        /\ m.tag = "seq" /\ m.items # <<>>
        /\ \A i \in DOMAIN m.items : m.items[i].tag = "int" /\ m.items[i].v \in Nat

WhenPasses(n) ==
  LET m == Child(n, "when")
      keyword == Child(m, "keyword")
  IN  "when" \in Keys(n) =>
        /\ Child(n, "kind").v = "call"
        /\ IsMapping(m) /\ Keys(m) = {"keyword"}
        /\ IsMapping(keyword) /\ keyword.entries # <<>>
        /\ Keys(keyword) \subseteq Identifiers
        /\ \A e \in Range(keyword.entries) : IsTyped(e[2])

FlowPasses(n) ==
  LET m == Child(n, "flow")
  IN  /\ Child(n, "kind").v = "call"
      /\ IsMapping(m) /\ Keys(m) = {"from", "to"}
      /\ \A e \in Range(m.entries) : IsText(e[2]) /\ e[2].v \in FlowTokens

Passes(field, n) ==
  /\ KeysPass(field, n) /\ KindPasses(n) /\ PatternPasses(n) /\ ArgsPass(n) /\ WhenPasses(n)
  /\ field = "propagators" => FlowPasses(n)

\* A pattern as the reference has it, of one of the lists.
ElementOK(field, n) == IF field = "propagators" THEN PropagatorOK(n) ELSE PlainPatternOK(n)

Written(n) == n.tag = "str" => n.v \in Seq(STRING) \ {<<>>} /\ n.eol \in BOOLEAN

\* The values of a mapping, by key or by entry.
LEMMA EntriesAre ==
  ASSUME NEW n, IsMapping(n), IsNode(n)
  PROVE  /\ n.entries = <<>> <=> Keys(n) = {}
         /\ \A key \in Keys(n) : \E e \in Range(n.entries) : e[2] = Child(n, key)
         /\ \A e \in Range(n.entries) : e[1] \in Keys(n) /\ e[2] = Child(n, e[1])
<1> DEFINE P == STRING \X Children(n)
<1>1. n.entries \in Seq(P)
  BY DEF IsNode, IsMapping
<1> DEFINE es == n.entries
<1> HIDE DEF P, es
<1>2. n.entries = <<>> <=> DOMAIN n.entries = {}
  <2>1. es \in Seq(P)
    BY <1>1 DEF es
  <2>2. es = <<>> <=> DOMAIN es = {}
    BY <2>1
  <2>3. QED BY <2>2 DEF es
<1>3. n.entries = <<>> <=> Keys(n) = {}
  BY <1>2 DEF Keys
<1>4. \A i \in DOMAIN n.entries : Child(n, n.entries[i][1]) = n.entries[i][2]
  BY ChildIs
<1>5. QED BY <1>3, <1>4 DEF Keys, Range

\* The constraints on arguments: the check of the code and the reference.
LEMMA ArgsAgree ==
  ASSUME NEW n, IsMapping(n), "args" \in Keys(n), IsNode1(Child(n, "args"))
  PROVE  ArgsPass(n) <=> Child(n, "kind").v = "call" /\ ArgsOK(Child(n, "args"))
<1> DEFINE m == Child(n, "args")
<1> HIDE DEF m
<1>1. CASE m.tag = "seq"
  <2>1. /\ DOMAIN m.items = 1..Len(m.items) /\ Len(m.items) \in Nat
        /\ \A i \in DOMAIN m.items : IsNode(m.items[i])
    BY <1>1, ItemIn DEF IsNode1, m
  <2>2. \A i \in DOMAIN m.items : m.items[i].tag = "int" => (m.items[i].v \in Nat <=> m.items[i].v >= 0)
    <3>1. \A x \in Int : x \in Nat <=> x >= 0
      OBVIOUS
    <3>2. \A i \in DOMAIN m.items : m.items[i].tag = "int" => m.items[i].v \in Int
      BY <2>1 DEF IsNode
    <3>3. QED BY <3>1, <3>2
  <2>3. (\A item \in Range(m.items) : item.tag = "int" /\ item.v >= 0)
          <=> \A i \in DOMAIN m.items : m.items[i].tag = "int" /\ m.items[i].v >= 0
    BY DEF Range
  <2>4. QED BY <1>1, <2>2, <2>3 DEF ArgsPass, ArgsOK, m
<1>2. CASE m.tag # "seq"
  BY <1>2 DEF ArgsPass, ArgsOK, m
<1>3. QED BY <1>1, <1>2

\* The constraint on a keyword, in the same way.
LEMMA WhenAgrees ==
  ASSUME NEW n, IsMapping(n), "when" \in Keys(n), IsNode1(Child(n, "when"))
  PROVE  WhenPasses(n) <=> Child(n, "kind").v = "call" /\ WhenOK(Child(n, "when"))
<1> DEFINE m == Child(n, "when")
           keyword == Child(m, "keyword")
<1> HIDE DEF m, keyword
<1>1. CASE IsMapping(m) /\ Keys(m) = {"keyword"} /\ IsMapping(keyword)
  <2>1. IsNode(keyword)
    BY <1>1, ChildIn DEF IsNode1, m, keyword
  <2>2. (keyword.entries # <<>> <=> Keys(keyword) # {})
        /\ ((\A e \in Range(keyword.entries) : IsTyped(e[2]))
              <=> \A k \in Keys(keyword) : IsTyped(Child(keyword, k)))
    BY <1>1, <2>1, EntriesAre
  <2>3. (\A k \in Keys(keyword) : k \in Identifiers) <=> Keys(keyword) \subseteq Identifiers
    OBVIOUS
  <2>4. WhenPasses(n) <=> /\ Child(n, "kind").v = "call" /\ keyword.entries # <<>>
                          /\ Keys(keyword) \subseteq Identifiers
                          /\ \A e \in Range(keyword.entries) : IsTyped(e[2])
    BY <1>1 DEF WhenPasses, m, keyword
  <2>5. WhenOK(m) <=> /\ Keys(keyword) # {}
                      /\ \A k \in Keys(keyword) : k \in Identifiers /\ IsTyped(Child(keyword, k))
    BY <1>1 DEF WhenOK, keyword
  <2>6. QED BY <2>2, <2>3, <2>4, <2>5 DEF m
<1>2. CASE ~ (IsMapping(m) /\ Keys(m) = {"keyword"} /\ IsMapping(keyword))
  BY <1>2 DEF WhenPasses, WhenOK, m, keyword
<1>3. QED BY <1>1, <1>2

\* The ends of a propagator, in the same way.
LEMMA FlowAgrees ==
  ASSUME NEW n, IsMapping(n), "flow" \in Keys(n), IsNode(Child(n, "flow"))
  PROVE  FlowPasses(n) <=> Child(n, "kind").v = "call" /\ FlowOK(Child(n, "flow"))
<1> DEFINE m == Child(n, "flow")
<1> HIDE DEF m
<1>1. CASE IsMapping(m) /\ Keys(m) = {"from", "to"}
  <2>1. (\A e \in Range(m.entries) : IsText(e[2]) /\ e[2].v \in FlowTokens)
          <=> \A k \in Keys(m) : Child(m, k).tag = "str" /\ Child(m, k).v \in FlowTokens
    BY <1>1, EntriesAre DEF IsText, m
  <2>2. FlowOK(m) <=> /\ Child(m, "from").tag = "str" /\ Child(m, "to").tag = "str"
                      /\ Child(m, "from").v \in FlowTokens /\ Child(m, "to").v \in FlowTokens
    BY <1>1 DEF FlowOK
  <2>3. QED BY <1>1, <2>1, <2>2 DEF FlowPasses, m
<1>2. CASE ~ (IsMapping(m) /\ Keys(m) = {"from", "to"})
  BY <1>2 DEF FlowPasses, FlowOK, m
<1>3. QED BY <1>1, <1>2

\* Stars of a pattern on one line: placed well exactly if the pattern is one
\* of the three forms.
LEMMA WellPlacedForm ==
  ASSUME NEW p \in Seq(STRING) \ {<<>>}, Range(p) \subseteq Identifiers \cup {Star}
  PROVE  WellPlaced(p) <=> IsPatternForm(p)
<1> DEFINE S == STRING
           stars == {i \in DOMAIN p : p[i] = Star}
           n == Len(p)
<1>1. p \in Seq(S) /\ p # <<>>
  OBVIOUS
<1> HIDE DEF S
<1>2. n \in Nat \ {0} /\ DOMAIN p = 1..n /\ p \in [1..n -> S]
  BY <1>1
<1>3. /\ Front(p) \in Seq(S) /\ Len(Front(p)) = n - 1
      /\ \A i \in 1..(n - 1) : Front(p)[i] = p[i]
  BY <1>1, <1>2 DEF Front
<1>4. /\ Tail(p) \in Seq(S) /\ Len(Tail(p)) = n - 1
      /\ \A i \in 1..(n - 1) : Tail(p)[i] = p[i + 1]
  BY <1>1, <1>2
<1>5. Last(p) = p[n] /\ Head(p) = p[1]
  BY <1>1, <1>2 DEF Last
<1>6. ASSUME NEW q \in Seq(S)
      PROVE  q \in Literal <=> \A i \in 1..Len(q) : q[i] \in Identifiers
  BY <1>6 DEF Literal
<1>7. \A i \in 1..n : p[i] \in Identifiers <=> i \notin stars
  BY <1>2, IdentifiersAssumption DEF Range
<1>8. p \in Literal <=> stars = {}
  BY <1>1, <1>2, <1>6, <1>7
<1>9. (Front(p) \in Literal /\ Last(p) = Star) <=> stars = {n}
  <2>1. Front(p) \in Literal <=> \A i \in 1..(n - 1) : i \notin stars
    BY <1>2, <1>3, <1>6, <1>7
  <2>2. Last(p) = Star <=> n \in stars
    BY <1>2, <1>5
  <2>3. stars \subseteq 1..n
    BY <1>2
  <2> HIDE DEF stars, n
  <2>4. /\ \A i \in 1..n : i \in 1..(n - 1) \/ i = n
        /\ \A i \in 1..(n - 1) : i # n
    BY <1>2
  <2>5. (\A i \in 1..(n - 1) : i \notin stars) /\ n \in stars <=> stars = {n}
    BY <2>3, <2>4
  <2>6. QED BY <2>1, <2>2, <2>5
<1>10. (Tail(p) \in Literal /\ Head(p) = Star) <=> stars = {1}
  <2>1. Tail(p) \in Literal <=> \A i \in 1..(n - 1) : i + 1 \notin stars
    <3>1. Tail(p) \in Literal <=> \A i \in 1..(n - 1) : Tail(p)[i] \in Identifiers
      BY <1>4, <1>6
    <3>2. \A i \in 1..(n - 1) : i + 1 \in 1..n
      BY <1>2
    <3> HIDE DEF n, stars
    <3>3. QED BY <1>4, <1>7, <3>1, <3>2
  <2>2. Head(p) = Star <=> 1 \in stars
    BY <1>2, <1>5
  <2>3. stars \subseteq 1..n
    BY <1>2
  <2> HIDE DEF stars, n
  <2>4. (\A i \in 1..(n - 1) : i + 1 \notin stars) <=> \A j \in 2..n : j \notin stars
    <3>1. ASSUME \A i \in 1..(n - 1) : i + 1 \notin stars, NEW j \in 2..n PROVE j \notin stars
      <4>1. j - 1 \in 1..(n - 1) /\ (j - 1) + 1 = j
        BY <1>2
      <4>2. QED BY <3>1, <4>1
    <3>2. ASSUME \A j \in 2..n : j \notin stars, NEW i \in 1..(n - 1) PROVE i + 1 \notin stars
      <4>1. i + 1 \in 2..n
        BY <1>2
      <4>2. QED BY <3>2, <4>1
    <3>3. QED BY <3>1, <3>2
  <2>5. /\ \A i \in 1..n : i \in 2..n \/ i = 1
        /\ \A i \in 2..n : i # 1
    BY <1>2
  <2>6. (\A j \in 2..n : j \notin stars) /\ 1 \in stars <=> stars = {1}
    BY <2>3, <2>5
  <2>7. QED BY <2>1, <2>2, <2>4, <2>6
<1>11. QED BY <1>1, <1>8, <1>9, <1>10 DEF WellPlaced, IsPatternForm

\* The segments of a pattern of one of the three forms are shaped well.
LEMMA FormShape ==
  ASSUME NEW p \in Seq(STRING) \ {<<>>}, IsPatternForm(p)
  PROVE  Range(p) \subseteq Identifiers \cup {Star}
<1> DEFINE S == STRING
           n == Len(p)
<1>1. p \in Seq(S) /\ p # <<>>
  OBVIOUS
<1> HIDE DEF S
<1>2. n \in Nat \ {0} /\ DOMAIN p = 1..n
  BY <1>1
<1>3. Len(Front(p)) = n - 1 /\ \A i \in 1..(n - 1) : Front(p)[i] = p[i]
  BY <1>1, <1>2 DEF Front
<1>4. Len(Tail(p)) = n - 1 /\ \A i \in 1..(n - 1) : Tail(p)[i] = p[i + 1]
  BY <1>1, <1>2
<1>5. Last(p) = p[n] /\ Head(p) = p[1]
  BY <1>1, <1>2 DEF Last
<1>6. \A q \in Literal : \A i \in 1..Len(q) : q[i] \in Identifiers
  BY DEF Literal
<1> HIDE DEF n
<1>7. \A i \in 1..n : i \in 1..(n - 1) \/ i = n
  BY <1>2
<1>8. \A i \in 1..n : i = 1 \/ (i - 1 \in 1..(n - 1) /\ (i - 1) + 1 = i)
  BY <1>2
<1>9. CASE p \in Literal
  BY <1>2, <1>6, <1>9 DEF Range, n
<1>10. CASE Front(p) \in Literal /\ Last(p) = Star
  <2>1. \A i \in 1..n : p[i] \in Identifiers \cup {Star}
    BY <1>3, <1>5, <1>6, <1>7, <1>10
  <2>2. QED BY <1>2, <2>1 DEF Range
<1>11. CASE Tail(p) \in Literal /\ Head(p) = Star
  <2>1. \A i \in 1..(n - 1) : p[i + 1] \in Identifiers
    BY <1>4, <1>6, <1>11
  <2>2. \A i \in 1..n : p[i] \in Identifiers \cup {Star}
    BY <1>5, <1>8, <1>11, <2>1
  <2>3. QED BY <1>2, <2>2 DEF Range
<1>12. QED BY <1>9, <1>10, <1>11 DEF IsPatternForm

\* A newline can only hide a star from the check, never add one.
LEMMA NewlineHides ==
  ASSUME NEW p \in Seq(STRING) \ {<<>>}, WellPlaced(p)
  PROVE  WellPlaced(Append(Front(p), EndsInNewline))
<1> DEFINE S == STRING \cup {EndsInNewline}
           n == Len(p)
           q == Append(Front(p), EndsInNewline)
<1>1. p \in Seq(S) /\ p # <<>> /\ EndsInNewline \in S
  OBVIOUS
<1> HIDE DEF S
<1>2. n \in Nat \ {0} /\ DOMAIN p = 1..n
  BY <1>1
<1>3. Front(p) \in Seq(S) /\ Len(Front(p)) = n - 1 /\ \A i \in 1..(n - 1) : Front(p)[i] = p[i]
  BY <1>1, <1>2 DEF Front
<1>4. /\ Len(q) = n /\ DOMAIN q = 1..n /\ q[n] = EndsInNewline
      /\ \A i \in 1..(n - 1) : q[i] = p[i]
  <2> DEFINE f == Front(p)
  <2> HIDE DEF f, n
  <2>1. f \in Seq(S) /\ Len(f) = n - 1 /\ EndsInNewline \in S /\ q = Append(f, EndsInNewline)
    BY <1>1, <1>3 DEF f
  <2>2. /\ Len(q) = Len(f) + 1 /\ DOMAIN q = 1..(Len(f) + 1) /\ q[Len(f) + 1] = EndsInNewline
        /\ \A i \in 1..Len(f) : q[i] = f[i]
    BY <2>1
  <2>3. Len(f) + 1 = n
    BY <1>2, <2>1
  <2>4. QED BY <1>3, <2>1, <2>2, <2>3 DEF f
<1> HIDE DEF q, n
<1>5. /\ \A i \in 1..n : i \in 1..(n - 1) \/ i = n
      /\ \A i \in 1..(n - 1) : i # n /\ i \in 1..n
  BY <1>2
<1>6. {i \in DOMAIN q : q[i] = Star} = {i \in DOMAIN p : p[i] = Star} \ {n}
  <2>1. q[n] # Star
    BY <1>4 DEF EndsInNewline, Star
  <2>2. \A i \in 1..n : q[i] = Star <=> p[i] = Star /\ i # n
    BY <1>4, <1>5, <2>1
  <2>3. QED BY <1>2, <1>4, <2>2
<1>7. {i \in DOMAIN p : p[i] = Star} \in {{}, {1}, {n}}
  BY DEF WellPlaced, n
<1>8. {i \in DOMAIN q : q[i] = Star} \in {{}, {1}, {Len(q)}}
  BY <1>6, <1>7
<1>9. QED BY <1>8 DEF WellPlaced, q

\* The string of a pattern: the code's check of it and the reference's.
LEMMA PatternStringsAgree ==
  ASSUME NEW m, m.tag = "str", Written(m)
  PROVE  /\ IsPatternForm(m.v) =>
              Range(m.v) \subseteq Identifiers \cup {Star} /\ WellPlaced(Segments(m))
         /\ ~ m.eol /\ Range(m.v) \subseteq Identifiers \cup {Star} /\ WellPlaced(Segments(m)) =>
              IsPatternForm(m.v)
<1>1. m.v \in Seq(STRING) \ {<<>>} /\ m.eol \in BOOLEAN
  BY DEF Written
<1>2. Segments(m) = IF m.eol THEN Append(Front(m.v), EndsInNewline) ELSE m.v
  BY DEF Segments
<1>3. ASSUME IsPatternForm(m.v)
      PROVE  Range(m.v) \subseteq Identifiers \cup {Star} /\ WellPlaced(Segments(m))
  <2>1. Range(m.v) \subseteq Identifiers \cup {Star}
    BY <1>1, <1>3, FormShape
  <2>2. WellPlaced(m.v)
    BY <1>1, <1>3, <2>1, WellPlacedForm
  <2>3. WellPlaced(Append(Front(m.v), EndsInNewline))
    BY <1>1, <2>2, NewlineHides
  <2>4. QED BY <1>2, <2>1, <2>2, <2>3
<1>4. ASSUME ~ m.eol, Range(m.v) \subseteq Identifiers \cup {Star}, WellPlaced(Segments(m))
      PROVE  IsPatternForm(m.v)
  BY <1>1, <1>2, <1>4, WellPlacedForm
<1>5. QED BY <1>3, <1>4

\* A pattern on one line.
OneLine(n) == IsText(Child(n, "pattern")) => ~ Child(n, "pattern").eol

\* The checks refuse no well-formed pattern, and let pass no other on one line.
LEMMA ElementAgrees ==
  ASSUME NEW field, NEW n, IsNode2(n),
         IsMapping(n) /\ "pattern" \in Keys(n) => Written(Child(n, "pattern"))
  PROVE  /\ ElementOK(field, n) => Passes(field, n)
         /\ Passes(field, n) /\ OneLine(n) => ElementOK(field, n)
<1>1. CASE ~ IsMapping(n)
  BY <1>1 DEF ElementOK, Passes, KeysPass, PropagatorOK, PlainPatternOK, PatternOK
<1>2. CASE IsMapping(n)
  <2>1. \A key \in Keys(n) : IsNode1(Child(n, key)) /\ IsNode(Child(n, key))
    BY <1>2, ChildIn DEF IsNode2, IsNode1
  <2>2. "pattern" \in Keys(n) =>
          /\ IsText(Child(n, "pattern")) /\ IsPatternForm(Child(n, "pattern").v) => PatternPasses(n)
          /\ PatternPasses(n) /\ OneLine(n) =>
               IsText(Child(n, "pattern")) /\ IsPatternForm(Child(n, "pattern").v)
    BY <1>2, PatternStringsAgree DEF PatternPasses, OneLine, IsText
  <2>3. "args" \in Keys(n) => (ArgsPass(n) <=> Child(n, "kind").v = "call" /\ ArgsOK(Child(n, "args")))
    BY <1>2, <2>1, ArgsAgree
  <2>4. "when" \in Keys(n) => (WhenPasses(n) <=> Child(n, "kind").v = "call" /\ WhenOK(Child(n, "when")))
    BY <1>2, <2>1, WhenAgrees
  <2>5. "flow" \in Keys(n) => (FlowPasses(n) <=> Child(n, "kind").v = "call" /\ FlowOK(Child(n, "flow")))
    BY <1>2, <2>1, FlowAgrees
  <2>6. ("args" \notin Keys(n) => ArgsPass(n)) /\ ("when" \notin Keys(n) => WhenPasses(n))
    BY DEF ArgsPass, WhenPasses
  <2>7. /\ PlainPatternOK(n) <=>
             /\ {"kind", "pattern"} \subseteq Keys(n) /\ Keys(n) \subseteq PatternKeys
             /\ KindPasses(n) /\ IsText(Child(n, "pattern")) /\ IsPatternForm(Child(n, "pattern").v)
             /\ Child(n, "kind").v # "call" => {"args", "when"} \cap Keys(n) = {}
             /\ "args" \in Keys(n) => ArgsOK(Child(n, "args"))
             /\ "when" \in Keys(n) => WhenOK(Child(n, "when"))
        /\ PropagatorOK(n) <=>
             /\ {"kind", "pattern", "flow"} \subseteq Keys(n) /\ Keys(n) \subseteq PropKeys
             /\ KindPasses(n) /\ IsText(Child(n, "pattern")) /\ IsPatternForm(Child(n, "pattern").v)
             /\ Child(n, "kind").v = "call"
             /\ "args" \in Keys(n) => ArgsOK(Child(n, "args"))
             /\ "when" \in Keys(n) => WhenOK(Child(n, "when"))
             /\ FlowOK(Child(n, "flow"))
    BY <1>2 DEF PlainPatternOK, PropagatorOK, PatternOK, Optional, KindPasses, IsText
  <2>8. /\ ArgsPass(n) <=> ("args" \in Keys(n) => Child(n, "kind").v = "call" /\ ArgsOK(Child(n, "args")))
        /\ WhenPasses(n) <=> ("when" \in Keys(n) => Child(n, "kind").v = "call" /\ WhenOK(Child(n, "when")))
    BY <2>3, <2>4, <2>6
  <2>9. CASE field = "propagators"
    <3>1. KeysPass(field, n) <=> {"kind", "flow"} \subseteq Keys(n) /\ Keys(n) \subseteq PropKeys
      BY <1>2, <2>9 DEF KeysPass
    <3>2. PatternPasses(n) => "pattern" \in Keys(n)
      BY DEF PatternPasses
    <3>3. QED BY <2>2, <2>5, <2>7, <2>8, <2>9, <3>1, <3>2 DEF ElementOK, Passes
  <2>10. CASE field # "propagators"
    <3>1. KeysPass(field, n) <=> "kind" \in Keys(n) /\ Keys(n) \subseteq PatternKeys
      BY <1>2, <2>10 DEF KeysPass
    <3>2. PatternPasses(n) => "pattern" \in Keys(n)
      BY DEF PatternPasses
    <3>3. QED BY <2>2, <2>7, <2>8, <2>10, <3>1, <3>2 DEF ElementOK, Passes
  <2>11. QED BY <2>9, <2>10
<1>3. QED BY <1>1, <1>2

-----------------------------------------------------------------------------
(***************************************************************************)
(* Metadata.  A node is good when nothing it leads to is refused, nor      *)
(* leads back to itself.  That is so if its children are good: the walk    *)
(* that has walked them all has nothing more to find.                      *)
(***************************************************************************)
IsGraph ==
  \A node \in DOMAIN Graph :
    /\ Graph[node].dup \in BOOLEAN
    /\ Graph[node].kids \in Seq(DOMAIN Graph)
    /\ Graph[node].tag \notin {"map", "seq"} => Graph[node].kids = <<>>

NodeOK(node) ==
  CASE Graph[node].tag = "map" -> ~ Graph[node].dup
    [] Graph[node].tag = "seq" -> TRUE
    [] OTHER -> IsTyped(Graph[node])

Cyclic(S) == S # {} /\ \A node \in S : Range(Graph[node].kids) \cap S # {}

Good(n) ==
  /\ \A node \in MetadataNodes(n) : NodeOK(node)
  /\ \A S \in SUBSET MetadataNodes(n) : ~ Cyclic(S)

LEMMA GoodIsOK ==
  ASSUME NEW n
  PROVE  MetadataOK(n) <=> Graph[n.root].tag = "map" /\ Good(n.root)
<1> DEFINE nodes == MetadataNodes(n.root)
<1>1. MetadataOK(n) <=>
        /\ Graph[n.root].tag = "map"
        /\ \A node \in nodes : NodeOK(node)
        /\ ~ \E S \in SUBSET nodes : Cyclic(S)
  BY DEF MetadataOK, NodeOK, Cyclic
<1>2. QED BY <1>1 DEF Good

\* A child of a node is a node.
LEMMA KidsAreNodes ==
  ASSUME IsGraph, NEW node \in DOMAIN Graph
  PROVE  /\ Range(Graph[node].kids) \subseteq DOMAIN Graph
         /\ Len(Graph[node].kids) \in Nat
         /\ DOMAIN Graph[node].kids = 1..Len(Graph[node].kids)
<1> DEFINE kids == Graph[node].kids
           N == DOMAIN Graph
<1>1. kids \in Seq(N)
  BY DEF IsGraph
<1> HIDE DEF kids, N
<1>2. Len(kids) \in Nat /\ DOMAIN kids = 1..Len(kids) /\ \A i \in DOMAIN kids : kids[i] \in N
  BY <1>1
<1>3. QED BY <1>2 DEF Range, kids, N

\* The nodes below a node: itself, with every node its children, and no
\* other than itself and those below its children.
LEMMA NodesBelow ==
  ASSUME IsGraph, NEW n \in DOMAIN Graph
  PROVE  /\ n \in MetadataNodes(n) /\ MetadataNodes(n) \subseteq DOMAIN Graph
         /\ \A m \in MetadataNodes(n) : Range(Graph[m].kids) \subseteq MetadataNodes(n)
<1>1. n \in MetadataNodes(n) /\ MetadataNodes(n) \subseteq DOMAIN Graph
  BY DEF MetadataNodes
<1>2. ASSUME NEW m \in MetadataNodes(n), NEW k \in Range(Graph[m].kids)
      PROVE  k \in MetadataNodes(n)
  <2>1. k \in DOMAIN Graph
    BY <1>1, KidsAreNodes
  <2>2. ASSUME NEW S \in SUBSET DOMAIN Graph, n \in S, Below(S) \subseteq S
        PROVE  k \in S
    <3>1. m \in S
      BY <2>2 DEF MetadataNodes
    <3>2. k \in Below(S)
      BY <3>1 DEF Below
    <3>3. QED BY <2>2, <3>2
  <2>3. QED BY <2>1, <2>2 DEF MetadataNodes
<1>3. QED BY <1>1, <1>2

\* The nodes below a node are itself and those below its children.
LEMMA NodesSplit ==
  ASSUME IsGraph, NEW n \in DOMAIN Graph, NEW m \in MetadataNodes(n)
  PROVE  m = n \/ \E k \in Range(Graph[n].kids) : m \in MetadataNodes(k)
<1> DEFINE kids == Range(Graph[n].kids)
           S == {n} \cup UNION {MetadataNodes(k) : k \in kids}
<1>1. \A k \in kids : k \in DOMAIN Graph
  BY KidsAreNodes
<1> HIDE DEF kids
<1>2. S \in SUBSET DOMAIN Graph
  BY <1>1, NodesBelow
<1>3. ASSUME NEW x \in S PROVE Range(Graph[x].kids) \subseteq S
  <2>1. CASE x = n
    <3>1. \A k \in kids : k \in S
      BY <1>1, NodesBelow
    <3>2. QED BY <2>1, <3>1 DEF kids
  <2>2. CASE \E k \in kids : x \in MetadataNodes(k)
    <3>1. PICK k \in kids : x \in MetadataNodes(k)
      BY <2>2
    <3>2. Range(Graph[x].kids) \subseteq MetadataNodes(k)
      BY <1>1, <3>1, NodesBelow
    <3>3. QED BY <3>2
  <2>3. QED BY <1>3, <2>1, <2>2
<1>4. Below(S) \subseteq S
  BY <1>3 DEF Below
<1>5. n \in S
  OBVIOUS
<1> HIDE DEF S
<1>6. m \in S
  BY <1>2, <1>4, <1>5 DEF MetadataNodes
<1>7. QED BY <1>6 DEF S, kids

\* Good children make a good node: a cycle through the node would pass
\* through one of them.
LEMMA GoodIf ==
  ASSUME IsGraph, NEW n \in DOMAIN Graph, NodeOK(n),
         \A k \in Range(Graph[n].kids) : Good(k)
  PROVE  Good(n)
<1> DEFINE kids == Range(Graph[n].kids)
<1>1. \A k \in kids : k \in DOMAIN Graph /\ k \in MetadataNodes(k)
  BY KidsAreNodes, NodesBelow
<1>2. \A node \in MetadataNodes(n) : NodeOK(node)
  BY NodesSplit DEF Good
<1>3. ASSUME NEW S \in SUBSET MetadataNodes(n), Cyclic(S) PROVE FALSE
  <2>1. ASSUME NEW k \in kids, NEW x \in S, x \in MetadataNodes(k) PROVE FALSE
    <3> DEFINE T == S \cap MetadataNodes(k)
    <3>1. \A y \in T : Range(Graph[y].kids) \cap T # {}
      <4>1. TAKE y \in T
      <4>2. Range(Graph[y].kids) \subseteq MetadataNodes(k)
        BY <1>1, NodesBelow
      <4>3. Range(Graph[y].kids) \cap S # {}
        BY <1>3 DEF Cyclic
      <4>4. QED BY <4>2, <4>3
    <3>2. Cyclic(T)
      BY <2>1, <3>1 DEF Cyclic
    <3>3. T \in SUBSET MetadataNodes(k) /\ Good(k)
      BY DEF kids
    <3> HIDE DEF T
    <3>4. QED BY <3>2, <3>3 DEF Good
  <2>2. \A x \in S : x = n
    BY <2>1, NodesSplit DEF kids
  <2>3. PICK y \in S : y \in kids
    BY <1>3, <2>2 DEF Cyclic, kids
  <2>4. QED BY <1>1, <2>1, <2>3
<1>4. QED BY <1>2, <1>3 DEF Good

\* A scalar that is typed, or not.
LEMMA LeafGood ==
  ASSUME IsGraph, NEW n \in DOMAIN Graph, Graph[n].tag \notin {"map", "seq"}, NodeOK(n)
  PROVE  Good(n)
<1>1. Range(Graph[n].kids) = {}
  BY DEF IsGraph, Range
<1>2. QED BY <1>1, GoodIf

(***************************************************************************)
(* The walk below top: the frames lead from one to the next, and what they *)
(* have walked is good, the child they are in aside.                       *)
(***************************************************************************)
Kids(node) == Graph[node].kids

Frame(top, f) ==
  /\ f.node \in MetadataNodes(top) /\ NodeOK(f.node)
  /\ Graph[f.node].tag \in {"map", "seq"}
  /\ f.next \in 1..(Len(Kids(f.node)) + 1)

WalkOK(top, p) ==
  /\ top \in DOMAIN Graph
  /\ p \in Seq([node : DOMAIN Graph, next : Nat])
  /\ p = <<>> => Good(top)
  /\ p # <<>> => p[1].node = top
  /\ \A i \in 1..Len(p) : Frame(top, p[i])
  /\ \A i \in 1..(Len(p) - 1) :
       p[i].next > 1 /\ p[i + 1].node = Kids(p[i].node)[p[i].next - 1]
  /\ \A i \in 1..Len(p) : \A k \in 1..(p[i].next - 1) :
       (i < Len(p) /\ k = p[i].next - 1) \/ Good(Kids(p[i].node)[k])

\* A step into the next child.
Advanced(p) == Append(Front(p), [Last(p) EXCEPT !.next = @ + 1])

\* The last frame of a walk, and what is left without it.
LEMMA LastFrame ==
  ASSUME NEW W, NEW p \in Seq(W), p # <<>>
  PROVE  /\ Len(p) \in Nat \ {0} /\ Last(p) = p[Len(p)] /\ Last(p) \in W
         /\ Front(p) \in Seq(W) /\ Len(Front(p)) = Len(p) - 1
         /\ \A i \in 1..(Len(p) - 1) : Front(p)[i] = p[i]
         /\ \A x \in W : /\ Append(Front(p), x) \in Seq(W) /\ Len(Append(Front(p), x)) = Len(p)
                         /\ Append(Front(p), x)[Len(p)] = x
                         /\ \A i \in 1..(Len(p) - 1) : Append(Front(p), x)[i] = p[i]
<1>1. Len(p) \in Nat \ {0} /\ Last(p) = p[Len(p)] /\ Last(p) \in W
  BY DEF Last
<1>2. Front(p) \in Seq(W) /\ Len(Front(p)) = Len(p) - 1 /\ \A i \in 1..(Len(p) - 1) : Front(p)[i] = p[i]
  <2>1. Front(p) \in Seq(W)
    BY <1>1 DEF Front
  <2>2. Len(Front(p)) = Len(p) - 1
    <3> DEFINE m == Len(p) - 1
    <3>1. m \in Nat /\ Front(p) = SubSeq(p, 1, m) /\ m <= Len(p)
      BY <1>1 DEF Front
    <3> HIDE DEF m
    <3>2. Len(SubSeq(p, 1, m)) = m
      BY <3>1
    <3>3. QED BY <3>1, <3>2 DEF m
  <2>3. \A i \in 1..(Len(p) - 1) : Front(p)[i] = p[i]
    BY <1>1 DEF Front
  <2>4. QED BY <2>1, <2>2, <2>3
<1> DEFINE f == Front(p)
           n == Len(p)
<1>3. f \in Seq(W) /\ Len(f) = n - 1 /\ n \in Nat \ {0}
  BY <1>1, <1>2
<1>4. \A i \in 1..(n - 1) : f[i] = p[i]
  BY <1>2
<1> HIDE DEF f, n
<1>5. ASSUME NEW x \in W
      PROVE  /\ Append(f, x) \in Seq(W) /\ Len(Append(f, x)) = n /\ Append(f, x)[n] = x
             /\ \A i \in 1..(n - 1) : Append(f, x)[i] = p[i]
  <2>1. /\ Append(f, x) \in Seq(W) /\ Len(Append(f, x)) = Len(f) + 1
        /\ Append(f, x)[Len(f) + 1] = x /\ \A i \in 1..Len(f) : Append(f, x)[i] = f[i]
    BY <1>3
  <2>2. Len(f) + 1 = n
    BY <1>3
  <2>3. QED BY <1>3, <1>4, <2>1, <2>2
<1>6. QED BY <1>1, <1>2, <1>5 DEF f, n

\* A node that is refused is no good, nor is what leads to it.
LEMMA BadNode ==
  ASSUME IsGraph, NEW top, NEW p, WalkOK(top, p), p # <<>>,
         Last(p).next \in DOMAIN Kids(Last(p).node),
         NEW node, node = Kids(Last(p).node)[Last(p).next]
  PROVE  /\ node \in MetadataNodes(top)
         /\ ~ NodeOK(node) => ~ Good(top)
         /\ (\E i \in DOMAIN p : p[i].node = node) => ~ Good(top)
<1> DEFINE W == [node : DOMAIN Graph, next : Nat]
           n == Len(p)
           last == Last(p)
<1>1. p \in Seq(W)
  BY DEF WalkOK
<1> HIDE DEF W
<1>2. n \in Nat \ {0} /\ last = p[n] /\ DOMAIN p = 1..n
  <2>1. n \in Nat \ {0} /\ last = p[n]
    BY <1>1, LastFrame
  <2>2. DOMAIN p = 1..n
    BY <1>1
  <2>3. QED BY <2>1, <2>2
<1>3. \A i \in 1..n : p[i].node \in MetadataNodes(top)
  BY DEF WalkOK, Frame
<1>4. node \in Range(Kids(last.node))
  BY DEF Range
<1>5. node \in MetadataNodes(top)
  BY <1>2, <1>3, <1>4, NodesBelow DEF WalkOK, Kids
<1>6. ASSUME NEW i \in 1..n, p[i].node = node PROVE ~ Good(top)
  <2> DEFINE S == {p[j].node : j \in i..n}
  <2>1. \A j \in i..n : j \in 1..n
    BY <1>2
  <2>2. i \in i..n
    BY <1>2
  <2>3. S \in SUBSET MetadataNodes(top)
    BY <1>3, <2>1
  <2>4. \A j \in i..n : Range(Kids(p[j].node)) \cap S # {}
    <3>1. TAKE j \in i..n
    <3>2. CASE j = n
      <4>1. node \in S
        BY <1>6, <2>2
      <4>2. QED BY <1>2, <1>4, <3>2, <4>1
    <3>3. CASE j # n
      <4>1. j \in 1..(n - 1) /\ j + 1 \in i..n /\ j \in 1..n
        <5> HIDE DEF n
        <5>1. QED BY <1>2, <3>3
      <4>2. p[j + 1].node \in S
        BY <4>1
      <4>3. p[j].next > 1 /\ p[j + 1].node = Kids(p[j].node)[p[j].next - 1] /\ Frame(top, p[j])
        BY <4>1 DEF WalkOK
      <4>4. p[j].node \in DOMAIN Graph
        BY <1>3, <4>1, NodesBelow DEF WalkOK
      <4>5. p[j].next - 1 \in DOMAIN Kids(p[j].node)
        <5>1. /\ Len(Kids(p[j].node)) \in Nat
              /\ DOMAIN Kids(p[j].node) = 1..Len(Kids(p[j].node))
          BY <4>4, KidsAreNodes DEF Kids
        <5>2. p[j].next \in 1..(Len(Kids(p[j].node)) + 1)
          BY <4>3 DEF Frame
        <5>3. QED BY <4>3, <5>1, <5>2
      <4>6. p[j + 1].node \in Range(Kids(p[j].node))
        BY <4>3, <4>5 DEF Range
      <4>7. QED BY <4>2, <4>6
    <3>4. QED BY <3>2, <3>3
  <2>5. S # {}
    BY <1>6, <2>2
  <2>6. \A x \in S : Range(Graph[x].kids) \cap S # {}
    BY <2>4 DEF Kids
  <2> HIDE DEF S
  <2>7. Cyclic(S)
    BY <2>5, <2>6 DEF Cyclic
  <2>8. QED BY <2>3, <2>7 DEF Good
<1>7. QED BY <1>2, <1>5, <1>6 DEF Good

\* The walk stands before the next child of its last node, or has seen all.
LEMMA WalkStands ==
  ASSUME IsGraph, NEW top, NEW p, WalkOK(top, p), p # <<>>
  PROVE  LET last == Last(p) IN
         /\ last = p[Len(p)] /\ Len(p) \in Nat \ {0}
         /\ last \in [node : DOMAIN Graph, next : Nat]
         /\ Frame(top, last)
         /\ Len(Kids(last.node)) \in Nat /\ DOMAIN Kids(last.node) = 1..Len(Kids(last.node))
         /\ \A k \in 1..(last.next - 1) : Good(Kids(last.node)[k])
         /\ last.next \notin DOMAIN Kids(last.node) => Good(last.node)
<1> DEFINE W == [node : DOMAIN Graph, next : Nat]
           last == Last(p)
           n == Len(p)
           kids == Kids(last.node)
<1>1. p \in Seq(W)
  BY DEF WalkOK
<1>2. last = p[n] /\ n \in Nat \ {0} /\ last \in W
  <2> HIDE DEF W
  <2>1. QED BY <1>1, LastFrame
<1>3. Frame(top, last)
  BY <1>2 DEF WalkOK
<1>4. Len(kids) \in Nat /\ DOMAIN kids = 1..Len(kids)
  BY <1>2, KidsAreNodes DEF Kids
<1>5. \A k \in 1..(last.next - 1) : Good(kids[k])
  <2>1. \A i \in 1..Len(p) : \A k \in 1..(p[i].next - 1) :
          (i < Len(p) /\ k = p[i].next - 1) \/ Good(Kids(p[i].node)[k])
    BY DEF WalkOK
  <2>2. n \in 1..n /\ ~ (n < n)
    BY <1>2
  <2> HIDE DEF n, last
  <2>3. \A k \in 1..(p[n].next - 1) : Good(Kids(p[n].node)[k])
    BY <2>1, <2>2 DEF n
  <2>4. QED BY <1>2, <2>3
<1>6. ASSUME last.next \notin DOMAIN kids PROVE Good(last.node)
  <2>1. last.next \in 1..(Len(kids) + 1)
    BY <1>3 DEF Frame
  <2> HIDE DEF kids, last
  <2>2. last.next = Len(kids) + 1
    BY <1>4, <1>6, <2>1
  <2>3. \A k \in DOMAIN kids : k \in 1..(last.next - 1)
    BY <1>4, <2>2
  <2>4. \A k \in Range(kids) : Good(k)
    BY <1>5, <2>3 DEF Range
  <2>5. last.node \in DOMAIN Graph /\ NodeOK(last.node)
    BY <1>2, <1>3 DEF Frame
  <2>6. QED BY <2>4, <2>5, GoodIf DEF kids, Kids
<1>7. QED BY <1>2, <1>3, <1>4, <1>5, <1>6

\* A walk begins.
LEMMA WalkBegins ==
  ASSUME IsGraph, NEW top \in DOMAIN Graph, NodeOK(top)
  PROVE  /\ Graph[top].tag \in {"map", "seq"} => WalkOK(top, <<[node |-> top, next |-> 1]>>)
         /\ Graph[top].tag \notin {"map", "seq"} => WalkOK(top, <<>>)
<1> DEFINE W == [node : DOMAIN Graph, next : Nat]
           w == [node |-> top, next |-> 1]
           p == <<w>>
<1>1. ASSUME Graph[top].tag \in {"map", "seq"} PROVE WalkOK(top, p)
  <2>1. w \in W /\ w.node = top /\ w.next = 1
    OBVIOUS
  <2>2. top \in MetadataNodes(top)
    BY NodesBelow
  <2>3. Len(Kids(top)) \in Nat
    BY KidsAreNodes DEF Kids
  <2>4. 1 \in 1..(Len(Kids(top)) + 1)
    BY <2>3
  <2> HIDE DEF W, w
  <2>5. p \in Seq(W) /\ Len(p) = 1 /\ p[1] = w /\ p # <<>>
    BY <2>1
  <2> HIDE DEF p
  <2>6. Frame(top, p[1])
    BY <1>1, <2>1, <2>2, <2>4, <2>5 DEF Frame
  <2>7. \A i \in 1..Len(p) : i = 1
    BY <2>5
  <2>8. 1..(Len(p) - 1) = {} /\ 1..(p[1].next - 1) = {}
    BY <2>1, <2>5
  <2>9. QED BY <2>1, <2>5, <2>6, <2>7, <2>8 DEF WalkOK, W
<1>2. ASSUME Graph[top].tag \notin {"map", "seq"} PROVE WalkOK(top, <<>>)
  BY <1>2, LeafGood DEF WalkOK
<1>3. QED BY <1>1, <1>2

\* It goes past a child that is a scalar.
LEMMA WalkPasses ==
  ASSUME IsGraph, NEW top, NEW p, WalkOK(top, p), p # <<>>,
         Last(p).next \in DOMAIN Kids(Last(p).node),
         Good(Kids(Last(p).node)[Last(p).next])
  PROVE  WalkOK(top, Advanced(p))
<1> DEFINE W == [node : DOMAIN Graph, next : Nat]
           last == Last(p)
           n == Len(p)
           x == [last EXCEPT !.next = @ + 1]
           q == Advanced(p)
           kids == Kids(last.node)
<1>1. /\ last = p[n] /\ n \in Nat \ {0} /\ last \in W /\ Frame(top, last)
      /\ Len(kids) \in Nat /\ DOMAIN kids = 1..Len(kids)
      /\ \A k \in 1..(last.next - 1) : Good(kids[k])
  BY WalkStands
<1>2. x \in W /\ x.node = last.node /\ x.next = last.next + 1
  BY <1>1
<1>3. p \in Seq(W) /\ p[1].node = top /\ top \in DOMAIN Graph
  BY DEF WalkOK
<1> HIDE DEF W, x
<1>4. q \in Seq(W) /\ Len(q) = n /\ q[n] = x /\ \A i \in 1..(n - 1) : q[i] = p[i]
  <2>1. q = Append(Front(p), x)
    BY DEF Advanced, x
  <2>2. QED BY <1>2, <1>3, <2>1, LastFrame
<1>5. last.next \in 1..Len(kids) /\ last.next \in Nat \ {0} /\ Good(kids[last.next])
  BY <1>1
<1>6. Frame(top, x)
  <2> HIDE DEF kids, last
  <2>1. last.next + 1 \in 1..(Len(kids) + 1)
    BY <1>1, <1>5
  <2>2. QED BY <1>1, <1>2, <2>1 DEF Frame, kids
<1>7. \A k \in 1..(x.next - 1) : Good(kids[k])
  <2> HIDE DEF kids, last
  <2>1. \A k \in 1..(x.next - 1) : k \in 1..(last.next - 1) \/ k = last.next
    BY <1>2, <1>5
  <2>2. QED BY <1>1, <1>5, <2>1
<1> HIDE DEF q, n, last, kids
<1>8. \A i \in 1..n : i \in 1..(n - 1) \/ i = n
  BY <1>1
<1>9. q # <<>> /\ q[1].node = top
  <2>1. CASE n = 1
    BY <1>1, <1>2, <1>3, <1>4, <2>1
  <2>2. CASE n # 1
    <3>1. 1 \in 1..(n - 1)
      BY <1>1, <2>2
    <3>2. QED BY <1>1, <1>3, <1>4, <3>1
  <2>3. QED BY <2>1, <2>2
<1>10. \A i \in 1..n : Frame(top, q[i])
  BY <1>4, <1>8, <1>6 DEF WalkOK, n
<1>11. \A i \in 1..(n - 1) : /\ q[i].next > 1
                             /\ q[i + 1].node = Kids(q[i].node)[q[i].next - 1]
  <2>1. TAKE i \in 1..(n - 1)
  <2>2. p[i].next > 1 /\ p[i + 1].node = Kids(p[i].node)[p[i].next - 1]
    BY DEF WalkOK, n
  <2>3. q[i + 1].node = p[i + 1].node
    <3>1. i + 1 \in 1..n
      BY <1>1
    <3>2. i + 1 \in 1..(n - 1) \/ i + 1 = n
      BY <1>8, <3>1
    <3>3. QED BY <1>1, <1>2, <1>4, <3>2
  <2>4. QED BY <1>4, <2>2, <2>3
<1>12. \A i \in 1..n : \A k \in 1..(q[i].next - 1) :
         (i < n /\ k = q[i].next - 1) \/ Good(Kids(q[i].node)[k])
  <2>1. TAKE i \in 1..n
  <2>2. CASE i = n
    BY <1>2, <1>4, <1>7, <2>2 DEF kids
  <2>3. CASE i \in 1..(n - 1)
    BY <1>4, <2>3 DEF WalkOK, n
  <2>4. QED BY <1>8, <2>2, <2>3
<1>13. QED BY <1>3, <1>4, <1>9, <1>10, <1>11, <1>12 DEF WalkOK, q, W

\* It enters a child that has children.
LEMMA WalkEnters ==
  ASSUME IsGraph, NEW top, NEW p, WalkOK(top, p), p # <<>>,
         Last(p).next \in DOMAIN Kids(Last(p).node),
         NEW node, node = Kids(Last(p).node)[Last(p).next],
         NodeOK(node), Graph[node].tag \in {"map", "seq"}
  PROVE  WalkOK(top, Append(Advanced(p), [node |-> node, next |-> 1]))
<1> DEFINE W == [node : DOMAIN Graph, next : Nat]
           last == Last(p)
           n == Len(p)
           x == [last EXCEPT !.next = @ + 1]
           y == [node |-> node, next |-> 1]
           f == Advanced(p)
           q == Append(f, y)
           kids == Kids(last.node)
<1>1. /\ last = p[n] /\ n \in Nat \ {0} /\ last \in W /\ Frame(top, last)
      /\ Len(kids) \in Nat /\ DOMAIN kids = 1..Len(kids)
      /\ \A k \in 1..(last.next - 1) : Good(kids[k])
  BY WalkStands
<1>2. x \in W /\ x.node = last.node /\ x.next = last.next + 1
  BY <1>1
<1>3. p \in Seq(W) /\ p[1].node = top /\ top \in DOMAIN Graph
  BY DEF WalkOK
<1>4. node \in MetadataNodes(top) /\ node \in DOMAIN Graph
  <2>1. node \in MetadataNodes(top)
    BY BadNode
  <2>2. QED BY <1>3, <2>1, NodesBelow
<1>5. y \in W /\ y.node = node /\ y.next = 1
  BY <1>4
<1>6. Frame(top, y)
  <2>1. Len(Kids(node)) \in Nat
    BY <1>4, KidsAreNodes DEF Kids
  <2>2. 1 \in 1..(Len(Kids(node)) + 1)
    BY <2>1
  <2>3. QED BY <1>4, <1>5, <2>2 DEF Frame
<1> HIDE DEF W, x, y
<1>7. f \in Seq(W) /\ Len(f) = n /\ f[n] = x /\ \A i \in 1..(n - 1) : f[i] = p[i]
  <2>1. f = Append(Front(p), x)
    BY DEF Advanced, x
  <2>2. QED BY <1>2, <1>3, <2>1, LastFrame
<1>8. last.next \in 1..Len(kids) /\ last.next \in Nat \ {0}
  BY <1>1
<1>9. Frame(top, x)
  <2> HIDE DEF kids, last
  <2>1. last.next + 1 \in 1..(Len(kids) + 1)
    BY <1>1, <1>8
  <2>2. QED BY <1>1, <1>2, <2>1 DEF Frame, kids
<1> HIDE DEF f, n
<1>10. /\ q \in Seq(W) /\ Len(q) = n + 1 /\ q[n + 1] = y /\ \A i \in 1..n : q[i] = f[i]
  BY <1>1, <1>7, <1>5
<1>11. \A k \in 1..(x.next - 1) : k = x.next - 1 \/ Good(kids[k])
  <2> HIDE DEF kids, last
  <2>1. \A k \in 1..(x.next - 1) : k \in 1..(last.next - 1) \/ k = x.next - 1
    BY <1>2, <1>8
  <2>2. QED BY <1>1, <1>8, <2>1
<1> HIDE DEF q, last, kids
<1>12. /\ \A i \in 1..n : (i \in 1..(n - 1) \/ i = n) /\ i < n + 1
       /\ \A i \in 1..(n + 1) : i \in 1..n \/ i = n + 1
       /\ \A i \in 1..(n - 1) : i \in 1..n /\ i + 1 \in 1..n
       /\ n \in 1..n /\ 1 \in 1..n /\ (n + 1) - 1 = n
  BY <1>1
<1>13. q # <<>> /\ q[1].node = top
  <2>1. q # <<>> /\ q[1] = f[1]
    BY <1>1, <1>12, <1>10
  <2>2. CASE n = 1
    BY <1>1, <1>2, <1>3, <1>7, <2>2, <2>1
  <2>3. CASE n # 1
    <3>1. 1 \in 1..(n - 1)
      BY <1>1, <2>3
    <3>2. QED BY <1>3, <1>7, <2>1, <3>1
  <2>4. QED BY <2>2, <2>3
<1>14. \A i \in 1..(n + 1) : Frame(top, q[i])
  <2>1. \A i \in 1..(n - 1) : Frame(top, p[i])
    BY <1>12 DEF WalkOK, n
  <2>2. QED BY <1>7, <1>12, <1>9, <1>6, <1>10, <2>1
<1>15. \A i \in 1..n : /\ q[i].next > 1
                       /\ q[i + 1].node = Kids(q[i].node)[q[i].next - 1]
  <2>1. TAKE i \in 1..n
  <2>2. CASE i = n
    <3>1. x.next > 1 /\ x.next - 1 = last.next
      BY <1>2, <1>8
    <3>2. node = Kids(x.node)[x.next - 1]
      BY <1>2, <3>1 DEF last
    <3>3. q[i] = x /\ q[i + 1] = y
      BY <1>7, <1>12, <1>10, <2>2
    <3>4. QED BY <1>5, <3>1, <3>2, <3>3
  <2>3. CASE i \in 1..(n - 1)
    <3>1. p[i].next > 1 /\ p[i + 1].node = Kids(p[i].node)[p[i].next - 1]
      BY <2>3 DEF WalkOK, n
    <3>2. q[i] = p[i]
      BY <1>7, <1>12, <1>10, <2>3
    <3>3. q[i + 1].node = p[i + 1].node
      <4>1. i + 1 \in 1..n
        BY <1>12, <2>3
      <4>2. i + 1 \in 1..(n - 1) \/ i + 1 = n
        BY <1>12, <4>1
      <4>3. q[i + 1] = f[i + 1]
        BY <1>10, <4>1
      <4>4. QED BY <1>1, <1>2, <1>7, <4>2, <4>3
    <3>4. QED BY <3>1, <3>2, <3>3
  <2>4. QED BY <1>12, <2>2, <2>3
<1>16. \A i \in 1..(n + 1) : \A k \in 1..(q[i].next - 1) :
         (i < n + 1 /\ k = q[i].next - 1) \/ Good(Kids(q[i].node)[k])
  <2>1. TAKE i \in 1..(n + 1)
  <2>2. CASE i = n + 1
    <3>1. 1..(q[i].next - 1) = {}
      BY <1>5, <1>10, <2>2
    <3>2. QED BY <3>1
  <2>3. CASE i = n
    <3>1. q[i] = x /\ x.node = last.node
      BY <1>2, <1>7, <1>12, <1>10, <2>3
    <3>2. QED BY <1>12, <1>11, <2>3, <3>1 DEF kids
  <2>4. CASE i \in 1..(n - 1)
    <3>1. q[i] = p[i] /\ i < n + 1
      BY <1>7, <1>12, <1>10, <2>4
    <3>2. \A k \in 1..(p[i].next - 1) : k = p[i].next - 1 \/ Good(Kids(p[i].node)[k])
      BY <1>12, <2>4 DEF WalkOK, n
    <3>3. QED BY <3>1, <3>2
  <2>5. QED BY <1>12, <2>2, <2>3, <2>4
<1>17. Len(q) - 1 = n
  BY <1>12, <1>10
<1>18. WalkOK(top, q)
  BY <1>3, <1>13, <1>14, <1>15, <1>16, <1>10, <1>17 DEF WalkOK, W
<1>19. QED BY <1>18 DEF q, f, y

\* It comes back from a node it has seen all of.
LEMMA WalkReturns ==
  ASSUME IsGraph, NEW top, NEW p, WalkOK(top, p), p # <<>>,
         Last(p).next \notin DOMAIN Kids(Last(p).node)
  PROVE  WalkOK(top, Front(p))
<1> DEFINE W == [node : DOMAIN Graph, next : Nat]
           last == Last(p)
           n == Len(p)
           q == Front(p)
<1>1. last = p[n] /\ n \in Nat \ {0} /\ Good(last.node)
  BY WalkStands
<1>2. p \in Seq(W) /\ p[1].node = top /\ top \in DOMAIN Graph
  BY DEF WalkOK
<1> HIDE DEF W
<1>3. q \in Seq(W) /\ Len(q) = n - 1 /\ \A i \in 1..(n - 1) : q[i] = p[i]
  BY <1>2, LastFrame
<1> HIDE DEF q, n, last
<1>4. /\ \A i \in 1..(n - 1) : i \in 1..n /\ i < n
      /\ \A i \in 1..((n - 1) - 1) : i \in 1..(n - 1) /\ i + 1 \in 1..(n - 1)
      /\ n - 1 \in Nat
  BY <1>1
<1>5. q = <<>> => Good(top)
  <2>1. ASSUME q = <<>> PROVE n = 1
    BY <1>1, <1>3, <2>1
  <2>2. QED BY <1>1, <1>2, <2>1
<1>6. q # <<>> => q[1].node = top
  <2>1. ASSUME q # <<>> PROVE 1 \in 1..(n - 1)
    BY <1>3, <1>4, <2>1
  <2>2. QED BY <1>2, <1>3, <2>1
<1>7. \A i \in 1..(n - 1) : Frame(top, q[i])
  BY <1>3, <1>4 DEF WalkOK, n
<1>8. \A i \in 1..((n - 1) - 1) : /\ q[i].next > 1
                                  /\ q[i + 1].node = Kids(q[i].node)[q[i].next - 1]
  <2>1. TAKE i \in 1..((n - 1) - 1)
  <2>2. i \in 1..(n - 1) /\ i + 1 \in 1..(n - 1)
    BY <1>4
  <2>3. p[i].next > 1 /\ p[i + 1].node = Kids(p[i].node)[p[i].next - 1]
    BY <2>2 DEF WalkOK, n
  <2>4. QED BY <1>3, <2>2, <2>3
<1>9. \A i \in 1..(n - 1) : \A k \in 1..(q[i].next - 1) :
        (i < n - 1 /\ k = q[i].next - 1) \/ Good(Kids(q[i].node)[k])
  <2>1. TAKE i \in 1..(n - 1)
  <2>2. /\ \A k \in 1..(p[i].next - 1) : k = p[i].next - 1 \/ Good(Kids(p[i].node)[k])
        /\ p[i + 1].node = Kids(p[i].node)[p[i].next - 1]
    BY <1>4 DEF WalkOK, n
  <2>3. CASE i < n - 1
    BY <1>3, <2>2, <2>3
  <2>4. CASE ~ (i < n - 1)
    <3>1. i + 1 = n
      BY <1>1, <2>4
    <3>2. QED BY <1>1, <1>3, <2>2, <3>1
  <2>5. QED BY <2>3, <2>4
<1>10. QED BY <1>2, <1>3, <1>5, <1>6, <1>7, <1>8, <1>9 DEF WalkOK, W, q

-----------------------------------------------------------------------------
(***************************************************************************)
(* The inductive invariant.  What the checks behind the parser have shown: *)
(* of the fields of the root, of the metadata, of the lists before this    *)
(* one, and of the patterns before this one.                               *)
(***************************************************************************)
TopChecked ==
  /\ stage \notin {"rejected", "root"} => IsMapping(Root)
  /\ stage \notin {"rejected", "root", "id"} =>
       "id" \in Keys(Root) /\ FieldOK("id") /\ id = Child(Root, "id").v
  /\ stage \notin {"rejected", "root", "id", "unknown"} => Keys(Root) \subseteq AllowedTop
  /\ stage \notin {"rejected", "root", "id", "unknown", "missing"} =>
       Range(RequiredTop) \subseteq Keys(Root)
  /\ stage \notin {"rejected", "root", "id", "unknown", "missing", "name"} => FieldOK("name")
  /\ stage \notin {"rejected", "root", "id", "unknown", "missing", "name", "message"} =>
       FieldOK("message")
  /\ stage \notin {"rejected", "root", "id", "unknown", "missing", "name", "message", "cwe"} =>
       FieldOK("cwe")
  /\ stage \notin {"rejected", "root", "id", "unknown", "missing", "name", "message", "cwe",
                   "severity"} => FieldOK("severity")
  /\ stage \notin {"rejected", "root", "id", "unknown", "missing", "name", "message", "cwe",
                   "severity", "languages"} => FieldOK("languages")
  /\ stage \notin {"rejected", "root", "id", "unknown", "missing", "name", "message", "cwe",
                   "severity", "languages", "metadata", "build"} =>
       ("metadata" \in Keys(Root) => FieldOK("metadata"))

TopNode == Child(Root, "metadata").root

MetadataWalked ==
  /\ stage \notin {"build", "rejected"} => path = <<>>
  /\ stage = "build" => "metadata" \in Keys(Root) /\ WalkOK(TopNode, path)

Items(field) == Child(Root, field).items

ListShape(field) ==
  /\ Child(Root, field).tag = "seq"
  /\ field \in {"sources", "sinks"} => Items(field) # <<>>

\* The first n patterns of a list have passed, and are kept.
Kept(field, n) ==
  /\ \A i \in 1..n : Passes(field, Items(field)[i])
  /\ spec[field] = [i \in 1..n |-> Parsed(Items(field)[i])]

ListDone(field) ==
  /\ field \in Keys(Root) => ListShape(field) /\ Kept(field, Len(Items(field)))
  /\ field \notin Keys(Root) => spec[field] = <<>>

OfAPattern == {"keys", "kind", "pattern", "args", "when", "flow", "take"}

ListsChecked ==
  /\ stage # "rejected" =>
       \A j \in 1..4 : /\ j < list => ListDone(Lists[j])
                       /\ j > list => spec[Lists[j]] = <<>>
  /\ stage \notin OfAPattern \cup {"next", "accepted", "rejected"} => spec[Field] = <<>>
  /\ stage \notin OfAPattern \cup {"list", "next", "accepted", "rejected"} => list = 1
  /\ stage \in {"next", "accepted"} => ListDone(Field)
  /\ stage = "accepted" => list = 4

\* The checks of the pattern under way that it has passed.
PatternChecked ==
  /\ stage \in OfAPattern =>
       /\ Field \in Keys(Root) /\ ListShape(Field)
       /\ idx \in 1..Len(Items(Field)) /\ Kept(Field, idx - 1)
  /\ stage \in OfAPattern \ {"keys"} => KeysPass(Field, Node)
  /\ stage \in OfAPattern \ {"keys", "kind"} => KindPasses(Node)
  /\ stage \in OfAPattern \ {"keys", "kind", "pattern"} => PatternPasses(Node)
  /\ stage \in OfAPattern \ {"keys", "kind", "pattern", "args"} => ArgsPass(Node)
  /\ stage \in OfAPattern \ {"keys", "kind", "pattern", "args", "when"} => WhenPasses(Node)
  /\ stage = "flow" => Field = "propagators"
  /\ stage = "take" => (Field = "propagators" => FlowPasses(Node))

\* The invariant, which holds while the rest of the program runs as well.
ParserInv ==
  /\ IsDocument(doc)
  /\ ParserTypeOK
  /\ TopChecked
  /\ MetadataWalked
  /\ ListsChecked
  /\ PatternChecked
  /\ BlameIsReal

\* The names of the fields.
LEMMA FieldsAre ==
  /\ Range(RequiredTop) = {"id", "name", "cwe", "severity", "languages", "message", "sources", "sinks"}
  /\ Range(Lists) = {"sources", "sinks", "sanitizers", "propagators"}
  /\ DOMAIN Lists = 1..4 /\ Len(Lists) = 4
  /\ Lists[1] = "sources" /\ Lists[2] = "sinks" /\ Lists[3] = "sanitizers" /\ Lists[4] = "propagators"
<1>1. DOMAIN RequiredTop = 1..8
  BY DEF RequiredTop
<1>2. \A i \in 1..8 : i = 1 \/ i = 2 \/ i = 3 \/ i = 4 \/ i = 5 \/ i = 6 \/ i = 7 \/ i = 8
  OBVIOUS
<1>3. Range(RequiredTop) = {"id", "name", "cwe", "severity", "languages", "message", "sources", "sinks"}
  BY <1>1, <1>2 DEF Range, RequiredTop
<1>4. DOMAIN Lists = 1..4 /\ Len(Lists) = 4
  BY DEF Lists
<1>5. \A i \in 1..4 : i = 1 \/ i = 2 \/ i = 3 \/ i = 4
  OBVIOUS
<1>6. Range(Lists) = {"sources", "sinks", "sanitizers", "propagators"}
  BY <1>4, <1>5 DEF Range, Lists
<1>7. QED BY <1>3, <1>4, <1>6 DEF Lists

\* The first of some keys that is outside a set.
LEMMA FirstOutsideIs ==
  ASSUME NEW keys, NEW set, NEW n \in Nat, DOMAIN keys = 1..n, \E i \in DOMAIN keys : keys[i] \notin set
  PROVE  FirstOutside(keys, set) \in Range(keys) /\ FirstOutside(keys, set) \notin set
<1> DEFINE Out == {i \in Nat : i \in DOMAIN keys /\ keys[i] \notin set}
           Least(i) == i \in DOMAIN keys /\ keys[i] \notin set /\ \A j \in 1..(i - 1) : keys[j] \in set
<1>1. Out # {} /\ Out \subseteq Nat
  OBVIOUS
<1>2. PICK i \in Out : \A j \in Out : ~ (j < i)
  <2> DEFINE R == OpToRel(<, Nat)
  <2>1. \A j, i \in Nat : j < i => <<j, i>> \in R
    BY DEF OpToRel
  <2>2. IsWellFoundedOn(R, Nat)
    BY NatLessThanWellFounded
  <2> HIDE DEF Out, R
  <2>3. PICK i \in Out : \A j \in Out : ~ (<<j, i>> \in R)
    BY <1>1, <2>2, WFMin
  <2>4. QED BY <1>1, <2>1, <2>3
<1>3. Least(i)
  <2>1. i \in 1..n /\ keys[i] \notin set
    BY <1>2
  <2>2. \A j \in 1..(i - 1) : j \in Nat /\ j \in DOMAIN keys /\ j < i
    BY <2>1
  <2>3. QED BY <1>2, <2>1, <2>2
<1>4. FirstOutside(keys, set) = keys[CHOOSE k \in DOMAIN keys : Least(k)]
  BY DEF FirstOutside
<1>5. QED BY <1>3, <1>4 DEF Range

(***************************************************************************)
(* The lists of a text, by the checks of the code and by the reference.    *)
(***************************************************************************)
OneLiners == \A n \in ListedNodes(doc) : OneLine(n)

\* The string of a pattern of the text is written in segments.
LEMMA PatternWritten ==
  ASSUME IsDocument(doc), NEW n \in ListedNodes(doc), IsMapping(n), "pattern" \in Keys(n)
  PROVE  Written(Child(n, "pattern"))
<1>1. PICK i \in DOMAIN n.entries : n.entries[i][1] = "pattern"
  BY DEF Keys
<1>2. Child(n, "pattern") = n.entries[i][2]
  BY <1>1, ChildIs
<1>3. Child(n, "pattern") \in Under(ListedNodes(doc), "pattern")
  BY <1>1, <1>2 DEF Under, IsMapping
<1>4. QED BY <1>3 DEF IsDocument, Written

\* The elements of a list are among those the assumption on texts speaks of,
\* and the checks of one are those of the reference.
LEMMA ListNodes ==
  ASSUME IsDocument(doc), IsMapping(Root), NEW field \in Range(Lists), field \in Keys(Root),
         Child(Root, field).tag = "seq"
  PROVE  /\ Len(Items(field)) \in Nat /\ DOMAIN Items(field) = 1..Len(Items(field))
         /\ Items(field) = <<>> <=> Len(Items(field)) = 0
         /\ \A i \in DOMAIN Items(field) :
              /\ Items(field)[i] \in ListedNodes(doc)
              /\ ElementOK(field, Items(field)[i]) => Passes(field, Items(field)[i])
              /\ Passes(field, Items(field)[i]) /\ OneLine(Items(field)[i]) =>
                   ElementOK(field, Items(field)[i])
<1> DEFINE n == Child(Root, field)
           items == n.items
<1>1. IsNode3(n)
  BY RootIsNode, ChildIn DEF IsNode4
<1>2. n \in Under({doc.root}, field)
  <2>1. PICK i \in DOMAIN Root.entries : Root.entries[i][1] = field
    BY DEF Keys
  <2>2. n = Root.entries[i][2]
    BY <2>1, ChildIs
  <2>3. QED BY <2>1, <2>2 DEF Under, IsMapping, Root
<1>3. /\ items \in Seq(Children(n)) /\ Len(items) \in Nat
      /\ DOMAIN items = 1..Len(items)
      /\ \A i \in DOMAIN items : items[i] \in Children(n)
  BY <1>1, ItemIn DEF IsNode3
<1>4. items = <<>> <=> Len(items) = 0
  <2> DEFINE S == Children(n)
  <2>1. items \in Seq(S)
    BY <1>3
  <2> HIDE DEF S, items
  <2>2. QED BY <2>1
<1>5. ASSUME NEW i \in DOMAIN items
      PROVE  /\ items[i] \in ListedNodes(doc) /\ IsNode2(items[i])
             /\ IsMapping(items[i]) /\ "pattern" \in Keys(items[i]) =>
                  Written(Child(items[i], "pattern"))
  <2> DEFINE m == items[i]
  <2>1. m \in Children(n) /\ IsNode2(m)
    BY <1>1, <1>3 DEF IsNode3
  <2>2. m \in ListedNodes(doc)
    BY <1>2, <2>1 DEF ListedNodes
  <2> HIDE DEF m
  <2>3. QED BY <2>1, <2>2, PatternWritten DEF m
<1> HIDE DEF items
<1>6. \A i \in DOMAIN items : /\ ElementOK(field, items[i]) => Passes(field, items[i])
                              /\ Passes(field, items[i]) /\ OneLine(items[i]) => ElementOK(field, items[i])
  BY <1>5, ElementAgrees
<1>7. QED BY <1>3, <1>4, <1>5, <1>6 DEF Items, items

\* A list as the reference has it.
LEMMA ListFieldIs ==
  ASSUME NEW field \in Range(Lists)
  PROVE  FieldOK(field) <=>
           ListShape(field) /\ \A i \in DOMAIN Items(field) : ElementOK(field, Items(field)[i])
<1>1. field \in {"sources", "sinks", "sanitizers", "propagators"}
  BY FieldsAre
<1>2. CASE field = "propagators"
  BY <1>2 DEF FieldOK, AllOf, ListShape, Items, ElementOK
<1>3. CASE field \in {"sources", "sinks"}
  BY <1>3 DEF FieldOK, AllOf, ListShape, Items, ElementOK
<1>4. CASE field = "sanitizers"
  BY <1>4 DEF FieldOK, AllOf, ListShape, Items, ElementOK
<1>5. QED BY <1>1, <1>2, <1>3, <1>4

\* The elements of a list that the reference accepts pass every check.
LEMMA ListBlame ==
  ASSUME IsDocument(doc), IsMapping(Root), NEW field \in Range(Lists), field \in Keys(Root),
         FieldOK(field)
  PROVE  ListShape(field) /\ \A i \in 1..Len(Items(field)) : Passes(field, Items(field)[i])
<1>1. ListShape(field) /\ \A i \in DOMAIN Items(field) : ElementOK(field, Items(field)[i])
  BY ListFieldIs
<1>2. QED BY <1>1, ListNodes DEF ListShape

\* A list all of whose elements have passed is one the reference accepts.
LEMMA ListFine ==
  ASSUME IsDocument(doc), IsMapping(Root), NEW field \in Range(Lists), field \in Keys(Root),
         ListDone(field), OneLiners
  PROVE  FieldOK(field)
<1>1. ListShape(field) /\ \A i \in 1..Len(Items(field)) : Passes(field, Items(field)[i])
  BY DEF ListDone, Kept
<1>2. \A i \in DOMAIN Items(field) : ElementOK(field, Items(field)[i])
  BY <1>1, ListNodes DEF OneLiners, ListShape
<1>3. QED BY <1>1, <1>2, ListFieldIs

-----------------------------------------------------------------------------
(***************************************************************************)
(* The steps.                                                              *)
(***************************************************************************)
InTop == {"root", "id", "unknown", "missing", "name", "message", "cwe", "severity",
          "languages", "metadata"}

\* What the lists hold stays, if they and the text do.
LEMMA SameLists ==
  ASSUME UNCHANGED <<doc, spec, list>>
  PROVE  /\ Field' = Field /\ \A field : Items(field)' = Items(field)
         /\ \A field : ListShape(field)' <=> ListShape(field)
         /\ \A field, n : Kept(field, n)' <=> Kept(field, n)
         /\ \A field : ListDone(field)' <=> ListDone(field)
<1>1. Root' = Root
  BY DEF Root
<1>2. Field' = Field /\ \A field : Items(field)' = Items(field)
  BY <1>1 DEF Field, Items
<1>3. \A field : ListShape(field)' <=> ListShape(field)
  BY <1>1 DEF ListShape, Items
<1>4. \A field, n : Kept(field, n)' <=> Kept(field, n)
  BY <1>1 DEF Kept, Items
<1>5. \A field : ListDone(field)' <=> ListDone(field)
  BY <1>1 DEF ListDone, ListShape, Kept, Items
<1>6. QED BY <1>2, <1>3, <1>4, <1>5

\* An error is raised, with the field that is at fault.
LEMMA Rejected ==
  ASSUME ParserInv, UNCHANGED <<doc, list, idx, path, id, spec>>, NEW field, Reject(field),
         \/ field = <<>> /\ ~ IsMapping(Root)
         \/ /\ field # <<>> /\ field[1] \in AtFault
            /\ "id" \notin AtFault => id = Child(Root, "id").v
  PROVE  ParserInv'
<1>1. stage' = "rejected" /\ error' = [field |-> field, id |-> id]
  BY DEF Reject
<1>2. Root' = Root /\ Graph' = Graph /\ AtFault' = AtFault
  BY SameText
<1>3. IsDocument(doc)' /\ ParserTypeOK'
  BY <1>1, <1>2 DEF ParserInv, ParserTypeOK
<1>4. TopChecked' /\ MetadataWalked' /\ ListsChecked' /\ PatternChecked'
  BY <1>1 DEF TopChecked, MetadataWalked, ListsChecked, PatternChecked, OfAPattern
<1>5. BlameIsReal'
  BY <1>1, <1>2 DEF BlameIsReal
<1>6. QED BY <1>3, <1>4, <1>5 DEF ParserInv

\* A check of the top is passed.
LEMMA TopStep ==
  ASSUME ParserInv, UNCHANGED <<doc, list, idx, path, spec, error>>,
         stage \in InTop, stage' \in InTop \cup {"list"}, TopChecked'
  PROVE  ParserInv'
<1>1. Root' = Root /\ Graph' = Graph /\ AtFault' = AtFault
  BY SameText
<1>2. IsDocument(doc)' /\ ParserTypeOK'
  BY <1>1 DEF ParserInv, ParserTypeOK, InTop
<1>3. MetadataWalked'
  BY DEF ParserInv, MetadataWalked, InTop
<1>4. ListsChecked'
  <2>1. ListsChecked /\ stage \notin OfAPattern \cup {"list", "next", "accepted", "rejected"}
    BY DEF ParserInv, OfAPattern, InTop
  <2>2. stage' \notin OfAPattern \cup {"next", "accepted", "rejected"}
    BY DEF OfAPattern, InTop
  <2>3. list = 1 /\ spec[Field] = <<>>
    BY <2>1 DEF ListsChecked
  <2>4. \A j \in 1..4 : (j < list => ListDone(Lists[j])) /\ (j > list => spec[Lists[j]] = <<>>)
    BY <2>1 DEF ListsChecked
  <2>5. Field' = Field /\ \A field : ListDone(field)' <=> ListDone(field)
    BY SameLists
  <2>6. QED BY <2>2, <2>3, <2>4, <2>5 DEF ListsChecked
<1>5. PatternChecked'
  BY DEF PatternChecked, OfAPattern, InTop
<1>6. BlameIsReal'
  BY DEF BlameIsReal, InTop
<1>7. QED BY <1>2, <1>3, <1>4, <1>5, <1>6 DEF ParserInv

\* The checks of the top, up to the languages.
LEMMA TopSteps ==
  ASSUME ParserInv,
         CheckRoot \/ CheckId \/ CheckUnknown \/ CheckMissing
           \/ CheckName \/ CheckMessage \/ CheckCwe \/ CheckSeverity \/ CheckLanguages
  PROVE  ParserInv'
<1> DEFINE Known == IsMapping(Root) /\ ("id" \notin AtFault => id = Child(Root, "id").v)
           Told(field) == field # <<>> /\ field[1] \in AtFault /\ Known
<1>1. TopChecked /\ IsDocument(doc)
  BY DEF ParserInv
<1>2. \A key : key \in Range(RequiredTop) \/ key \in Keys(Root) =>
        (key \notin Keys(Root) \/ ~ FieldOK(key) => key \in AtFault)
  BY DEF AtFault
<1>3. CASE CheckRoot
  <2>1. stage = "root" /\ UNCHANGED <<doc, list, idx, path, id, spec>>
    BY <1>3 DEF CheckRoot, Check
  <2>2. CASE IsMapping(Root) /\ stage' = "id" /\ UNCHANGED error
    <3>1. TopChecked'
      BY <2>1, <2>2, SameText DEF TopChecked, IsMapping, Keys
    <3>2. QED BY <2>1, <2>2, <3>1, TopStep DEF InTop
  <2>3. CASE ~ IsMapping(Root) /\ Reject(<<>>)
    BY <2>1, <2>3, Rejected
  <2>4. QED BY <1>3, <2>2, <2>3 DEF CheckRoot, Check
<1>4. CASE CheckId
  <2>1. stage = "id" /\ UNCHANGED <<doc, list, idx, path, spec>> /\ IsMapping(Root)
    BY <1>1, <1>4 DEF CheckId, TopChecked
  <2>2. CASE /\ "id" \in Keys(Root) /\ IsText(Child(Root, "id"))
             /\ stage' = "unknown" /\ id' = Child(Root, "id").v /\ UNCHANGED error
    <3>1. FieldOK("id")
      BY <2>2 DEF FieldOK, IsText
    <3>2. TopChecked'
      BY <2>1, <2>2, <3>1, SameText DEF TopChecked
    <3>3. QED BY <2>1, <2>2, <3>2, TopStep DEF InTop
  <2>3. CASE /\ ~ ("id" \in Keys(Root) /\ IsText(Child(Root, "id")))
             /\ Reject(<<"id">>) /\ UNCHANGED id
    <3>1. "id" \in AtFault
      <4>1. "id" \notin Keys(Root) \/ ~ FieldOK("id")
        BY <2>3 DEF FieldOK, IsText
      <4>2. QED BY <1>2, <4>1, FieldsAre
    <3>2. QED BY <2>1, <2>3, <3>1, Rejected
  <2>4. QED BY <1>4, <2>2, <2>3 DEF CheckId
<1>5. ASSUME stage \notin {"root", "id", "rejected"}
      PROVE  Known
  BY <1>1, <1>5 DEF TopChecked
<1>6. ASSUME NEW field, Told(field), Reject(field), UNCHANGED <<doc, list, idx, path, id, spec>>
      PROVE  ParserInv'
  BY <1>6, Rejected
<1> HIDE DEF Known
<1>7. CASE CheckUnknown
  <2> DEFINE keys == [i \in DOMAIN Root.entries |-> Root.entries[i][1]]
             key == FirstOutside(keys, AllowedTop)
  <2>1. stage = "unknown" /\ UNCHANGED <<doc, list, idx, path, id, spec>>
    BY <1>7 DEF CheckUnknown, Check
  <2>2. CASE Keys(Root) \subseteq AllowedTop /\ stage' = "missing" /\ UNCHANGED error
    <3>1. TopChecked'
      BY <1>1, <2>1, <2>2, SameText DEF TopChecked
    <3>2. QED BY <2>1, <2>2, <3>1, TopStep DEF InTop
  <2>3. CASE ~ (Keys(Root) \subseteq AllowedTop) /\ Reject(<<key>>)
    <3>1. \E n \in Nat : DOMAIN Root.entries = 1..n
      <4> DEFINE P == STRING \X Children(Root)
      <4>1. Root.entries \in Seq(P)
        BY <1>1, <1>5, <2>1, RootIsNode DEF IsNode4, IsNode, IsMapping, Known
      <4> HIDE DEF P
      <4>2. QED BY <4>1
    <3>2. \E i \in DOMAIN keys : keys[i] \notin AllowedTop
      BY <2>3 DEF Keys
    <3>3. key \in Range(keys) /\ key \notin AllowedTop
      <4> HIDE DEF keys
      <4>1. QED BY <3>1, <3>2, FirstOutsideIs DEF keys
    <3>4. key \in Keys(Root)
      BY <3>3 DEF Range, Keys
    <3>5. ~ FieldOK(key)
      <4>1. AllowedTop = {"id", "name", "cwe", "severity", "languages", "message", "sources",
                          "sinks", "sanitizers", "propagators", "metadata"}
        BY FieldsAre DEF AllowedTop, OptionalTop
      <4> HIDE DEF key
      <4>2. QED BY <3>3, <4>1 DEF FieldOK
    <3> HIDE DEF key
    <3>6. Told(<<key>>)
      BY <1>2, <1>5, <2>1, <3>4, <3>5
    <3>7. QED BY <1>6, <2>1, <2>3, <3>6
  <2>4. QED BY <1>7, <2>2, <2>3 DEF CheckUnknown, Check
<1>8. CASE CheckMissing
  <2> DEFINE key == FirstOutside(RequiredTop, Keys(Root))
  <2>1. stage = "missing" /\ UNCHANGED <<doc, list, idx, path, id, spec>>
    BY <1>8 DEF CheckMissing, Check
  <2>2. CASE Range(RequiredTop) \subseteq Keys(Root) /\ stage' = "name" /\ UNCHANGED error
    <3>1. TopChecked'
      BY <1>1, <2>1, <2>2, SameText DEF TopChecked
    <3>2. QED BY <2>1, <2>2, <3>1, TopStep DEF InTop
  <2>3. CASE ~ (Range(RequiredTop) \subseteq Keys(Root)) /\ Reject(<<key>>)
    <3>1. DOMAIN RequiredTop = 1..8
      BY DEF RequiredTop
    <3>2. \E i \in DOMAIN RequiredTop : RequiredTop[i] \notin Keys(Root)
      BY <2>3 DEF Range
    <3>3. key \in Range(RequiredTop) /\ key \notin Keys(Root)
      BY <3>1, <3>2, FirstOutsideIs
    <3> HIDE DEF key
    <3>4. Told(<<key>>)
      BY <1>2, <1>5, <2>1, <3>3
    <3>5. QED BY <1>6, <2>1, <2>3, <3>4
  <2>4. QED BY <1>8, <2>2, <2>3 DEF CheckMissing, Check
<1>9. ASSUME stage \notin {"root", "id", "unknown", "missing", "rejected"}, NEW key \in Range(RequiredTop),
             ~ FieldOK(key)
      PROVE  Told(<<key>>)
  BY <1>2, <1>5, <1>9
<1> HIDE DEF Told
<1>10. CASE CheckName
  <2>1. stage = "name" /\ UNCHANGED <<doc, list, idx, path, id, spec>>
    BY <1>10 DEF CheckName, Check
  <2>2. CASE IsText(Child(Root, "name")) /\ stage' = "message" /\ UNCHANGED error
    <3>1. FieldOK("name")
      BY <2>2 DEF FieldOK, IsText
    <3>2. TopChecked'
      BY <1>1, <2>1, <2>2, <3>1, SameText DEF TopChecked
    <3>3. QED BY <2>1, <2>2, <3>2, TopStep DEF InTop
  <2>3. CASE ~ IsText(Child(Root, "name")) /\ Reject(<<"name">>)
    <3>1. ~ FieldOK("name")
      BY <2>3 DEF FieldOK, IsText
    <3>2. QED BY <1>6, <1>9, <2>1, <2>3, <3>1, FieldsAre
  <2>4. QED BY <1>10, <2>2, <2>3 DEF CheckName, Check
<1>11. CASE CheckMessage
  <2>1. stage = "message" /\ UNCHANGED <<doc, list, idx, path, id, spec>>
    BY <1>11 DEF CheckMessage, Check
  <2>2. CASE IsText(Child(Root, "message")) /\ stage' = "cwe" /\ UNCHANGED error
    <3>1. FieldOK("message")
      BY <2>2 DEF FieldOK, IsText
    <3>2. TopChecked'
      BY <1>1, <2>1, <2>2, <3>1, SameText DEF TopChecked
    <3>3. QED BY <2>1, <2>2, <3>2, TopStep DEF InTop
  <2>3. CASE ~ IsText(Child(Root, "message")) /\ Reject(<<"message">>)
    <3>1. ~ FieldOK("message")
      BY <2>3 DEF FieldOK, IsText
    <3>2. QED BY <1>6, <1>9, <2>1, <2>3, <3>1, FieldsAre
  <2>4. QED BY <1>11, <2>2, <2>3 DEF CheckMessage, Check
<1>12. CASE CheckCwe
  <2> DEFINE Fine == IsText(Child(Root, "cwe")) /\ Child(Root, "cwe").v \in CWEs
  <2>1. stage = "cwe" /\ UNCHANGED <<doc, list, idx, path, id, spec>>
    BY <1>12 DEF CheckCwe, Check
  <2>2. CASE Fine /\ stage' = "severity" /\ UNCHANGED error
    <3>1. FieldOK("cwe")
      BY <2>2 DEF FieldOK, IsText
    <3>2. TopChecked'
      BY <1>1, <2>1, <2>2, <3>1, SameText DEF TopChecked
    <3>3. QED BY <2>1, <2>2, <3>2, TopStep DEF InTop
  <2>3. CASE ~ Fine /\ Reject(<<"cwe">>)
    <3>1. ~ FieldOK("cwe")
      BY <2>3 DEF FieldOK, IsText
    <3>2. QED BY <1>6, <1>9, <2>1, <2>3, <3>1, FieldsAre
  <2>4. QED BY <1>12, <2>2, <2>3 DEF CheckCwe, Check
<1>13. CASE CheckSeverity
  <2> DEFINE Fine == IsText(Child(Root, "severity")) /\ Child(Root, "severity").v \in Severities
  <2>1. stage = "severity" /\ UNCHANGED <<doc, list, idx, path, id, spec>>
    BY <1>13 DEF CheckSeverity, Check
  <2>2. CASE Fine /\ stage' = "languages" /\ UNCHANGED error
    <3>1. FieldOK("severity")
      BY <2>2 DEF FieldOK, IsText
    <3>2. TopChecked'
      BY <1>1, <2>1, <2>2, <3>1, SameText DEF TopChecked
    <3>3. QED BY <2>1, <2>2, <3>2, TopStep DEF InTop
  <2>3. CASE ~ Fine /\ Reject(<<"severity">>)
    <3>1. ~ FieldOK("severity")
      BY <2>3 DEF FieldOK, IsText
    <3>2. QED BY <1>6, <1>9, <2>1, <2>3, <3>1, FieldsAre
  <2>4. QED BY <1>13, <2>2, <2>3 DEF CheckSeverity, Check
<1>14. CASE CheckLanguages
  <2> DEFINE n == Child(Root, "languages")
             Fine == /\ n.tag = "seq" /\ n.items # <<>>
                     /\ \A i \in DOMAIN n.items : IsText(n.items[i]) /\ n.items[i].v = "python"
  <2>1. stage = "languages" /\ UNCHANGED <<doc, list, idx, path, id, spec>>
    BY <1>14 DEF CheckLanguages, Check
  <2>2. Fine <=> FieldOK("languages")
    <3>1. IsMapping(Root) /\ "languages" \in Keys(Root)
      BY <1>1, <2>1, FieldsAre DEF TopChecked
    <3>2. IsNode3(n)
      BY <1>1, <3>1, RootIsNode, ChildIn DEF IsNode4
    <3>3. FieldOK("languages") <=>
            /\ n.tag = "seq" /\ {item.tag : item \in Range(n.items)} = {"str"}
            /\ {item.v : item \in Range(n.items)} = {"python"}
      BY DEF FieldOK
    <3>4. ASSUME n.tag = "seq" PROVE n.items # <<>> <=> Range(n.items) # {}
      <4> DEFINE items == n.items
                 S == Children(n)
      <4>1. items \in Seq(S)
        BY <3>2, <3>4, ItemIn DEF IsNode3
      <4> HIDE DEF S, items
      <4>2. items # <<>> <=> DOMAIN items # {}
        BY <4>1
      <4>3. QED BY <4>2 DEF Range, items
    <3> HIDE DEF n
    <3>5. (\A i \in DOMAIN n.items : IsText(n.items[i]) /\ n.items[i].v = "python")
            <=> \A item \in Range(n.items) : item.tag = "str" /\ item.v = "python"
      BY DEF Range, IsText
    <3>6. QED BY <3>3, <3>4, <3>5
  <2> HIDE DEF Fine
  <2>3. CASE Fine /\ stage' = "metadata" /\ UNCHANGED error
    <3>1. TopChecked'
      BY <1>1, <2>1, <2>2, <2>3, SameText DEF TopChecked
    <3>2. QED BY <2>1, <2>3, <3>1, TopStep DEF InTop
  <2>4. CASE ~ Fine /\ Reject(<<"languages">>)
    BY <1>6, <1>9, <2>1, <2>2, <2>4, FieldsAre
  <2>5. QED BY <1>14, <2>3, <2>4 DEF CheckLanguages, Check, Fine
<1>15. QED BY <1>3, <1>4, <1>7, <1>8, <1>10, <1>11, <1>12, <1>13, <1>14

\* The metadata of a text.
LEMMA MetadataIs ==
  ASSUME IsDocument(doc), IsMapping(Root), "metadata" \in Keys(Root)
  PROVE  /\ IsGraph /\ TopNode \in DOMAIN Graph
         /\ FieldOK("metadata") <=> Graph[TopNode].tag = "map" /\ Good(TopNode)
<1>1. IsGraph
  BY DEF IsDocument, IsGraph, Graph
<1>2. TopNode \in DOMAIN Graph
  <2>1. PICK i \in DOMAIN Root.entries : Root.entries[i][1] = "metadata"
    BY DEF Keys
  <2>2. Child(Root, "metadata") = Root.entries[i][2]
    BY <2>1, ChildIs
  <2>3. Child(Root, "metadata") \in Under({doc.root}, "metadata")
    BY <2>1, <2>2 DEF Under, IsMapping, Root
  <2>4. QED BY <2>3 DEF IsDocument, TopNode, Graph
<1>3. FieldOK("metadata") <=> Graph[TopNode].tag = "map" /\ Good(TopNode)
  BY GoodIsOK DEF FieldOK, TopNode
<1>4. QED BY <1>1, <1>2, <1>3

\* The walk goes on.
LEMMA WalkStep ==
  ASSUME ParserInv, UNCHANGED <<doc, list, idx, id, spec, error>>,
         stage \in {"metadata", "build"}, stage' = "build",
         "metadata" \in Keys(Root), WalkOK(TopNode, path')
  PROVE  ParserInv'
<1>1. /\ Root' = Root /\ Graph' = Graph /\ AtFault' = AtFault
      /\ \A key : FieldOK(key)' <=> FieldOK(key)
      /\ \A n : MetadataNodes(n)' = MetadataNodes(n)
  BY SameText
<1>2. MetadataWalked'
  BY <1>1 DEF MetadataWalked, WalkOK, TopNode, Frame, Kids, Good, NodeOK, Cyclic
<1>3. IsDocument(doc)' /\ ParserTypeOK'
  <2>1. \A i \in DOMAIN path' : path'[i].node \in DOMAIN Graph /\ path'[i].next \in Nat
    <3> DEFINE W == [node : DOMAIN Graph, next : Nat]
    <3>1. path' \in Seq(W)
      BY DEF WalkOK
    <3> HIDE DEF W
    <3>2. \A i \in DOMAIN path' : path'[i] \in W
      BY <3>1
    <3>3. QED BY <3>2 DEF W
  <2>2. QED BY <1>1, <2>1 DEF ParserInv, ParserTypeOK
<1>4. TopChecked'
  BY <1>1 DEF ParserInv, TopChecked
<1>5. ListsChecked'
  <2>1. Field' = Field /\ \A field : ListDone(field)' <=> ListDone(field)
    BY SameLists
  <2>2. QED BY <2>1 DEF ParserInv, ListsChecked, OfAPattern
<1>6. PatternChecked' /\ BlameIsReal'
  BY DEF PatternChecked, BlameIsReal, OfAPattern
<1>7. QED BY <1>2, <1>3, <1>4, <1>5, <1>6 DEF ParserInv

\* The steps of the walk over the metadata.
LEMMA MetadataSteps ==
  ASSUME ParserInv, StartMetadata \/ BuildChild \/ FinishMetadata
  PROVE  ParserInv'
<1>1. IsDocument(doc) /\ TopChecked /\ MetadataWalked
  BY DEF ParserInv
<1>2. stage \in {"metadata", "build"} /\ UNCHANGED <<doc, list, idx, id, spec>>
  BY DEF StartMetadata, BuildChild, FinishMetadata, Check
<1>3. IsMapping(Root) /\ id = Child(Root, "id").v
  BY <1>1, <1>2 DEF TopChecked
<1>4. ASSUME "metadata" \in Keys(Root), ~ (Graph[TopNode].tag = "map" /\ Good(TopNode)),
             Reject(<<"metadata">>), UNCHANGED path
      PROVE  ParserInv'
  <2>1. "metadata" \in AtFault
    BY <1>1, <1>3, <1>4, MetadataIs DEF AtFault
  <2>2. QED BY <1>2, <1>3, <1>4, <2>1, Rejected
<1>5. \A node : CanBuild(node) <=> ~ OnPath(node) /\ NodeOK(node)
  BY DEF CanBuild, NodeOK
<1>6. CASE StartMetadata
  <2>1. stage = "metadata" /\ path = <<>>
    BY <1>1, <1>6 DEF StartMetadata, MetadataWalked
  <2>2. CASE "metadata" \notin Keys(Root)
    <3>1. stage' = "list" /\ UNCHANGED <<path, error>>
      BY <1>6, <2>2 DEF StartMetadata
    <3>2. TopChecked'
      BY <1>1, <1>2, <2>1, <2>2, <3>1, SameText DEF TopChecked
    <3>3. QED BY <1>2, <2>1, <3>1, <3>2, TopStep DEF InTop
  <2>3. CASE "metadata" \in Keys(Root)
    <3>1. Build(TopNode, <<>>)
      BY <1>6, <2>3 DEF StartMetadata, TopNode
    <3>2. IsGraph /\ TopNode \in DOMAIN Graph /\ ~ OnPath(TopNode)
      BY <1>1, <1>3, <2>1, <2>3, MetadataIs DEF OnPath
    <3>3. CASE CanBuild(TopNode)
      <4>1. /\ stage' = "build" /\ UNCHANGED error
            /\ path' = IF Graph[TopNode].tag \in {"map", "seq"}
                       THEN Append(<<>>, [node |-> TopNode, next |-> 1]) ELSE <<>>
        BY <3>1, <3>3 DEF Build
      <4>2. WalkOK(TopNode, path')
        <5>1. \A x : Append(<<>>, x) = <<x>>
          OBVIOUS
        <5>2. QED BY <1>5, <3>2, <3>3, <4>1, <5>1, WalkBegins
      <4>3. QED BY <1>2, <2>3, <4>1, <4>2, WalkStep
    <3>4. CASE ~ CanBuild(TopNode)
      <4>1. Reject(<<"metadata">>) /\ UNCHANGED path
        BY <3>1, <3>4 DEF Build
      <4>2. ~ Good(TopNode)
        BY <1>5, <3>2, <3>4, NodesBelow DEF Good
      <4>3. QED BY <1>4, <2>3, <4>1, <4>2
    <3>5. QED BY <3>3, <3>4
  <2>4. QED BY <2>2, <2>3
<1>7. CASE BuildChild
  <2> DEFINE last == Last(path)
             node == Kids(last.node)[last.next]
  <2>1. stage = "build" /\ path # <<>> /\ "metadata" \in Keys(Root) /\ WalkOK(TopNode, path)
    BY <1>1, <1>7 DEF BuildChild, MetadataWalked
  <2>2. IsGraph
    BY <1>1, <1>3, <2>1, MetadataIs
  <2>3. CASE last.next \notin DOMAIN Kids(last.node)
    <3>1. path' = Front(path) /\ UNCHANGED <<stage, error>>
      BY <1>7, <2>3 DEF BuildChild, Kids
    <3>2. WalkOK(TopNode, path')
      BY <2>1, <2>2, <2>3, <3>1, WalkReturns
    <3>3. QED BY <1>2, <2>1, <3>1, <3>2, WalkStep
  <2>4. CASE last.next \in DOMAIN Kids(last.node)
    <3>1. Build(node, Advanced(path))
      BY <1>7, <2>4 DEF BuildChild, Kids, Advanced
    <3>2. /\ node \in MetadataNodes(TopNode)
          /\ ~ NodeOK(node) => ~ Good(TopNode)
          /\ OnPath(node) => ~ Good(TopNode)
      BY <2>1, <2>2, <2>4, BadNode DEF OnPath
    <3>3. node \in DOMAIN Graph
      BY <2>1, <2>2, <3>2, NodesBelow DEF WalkOK
    <3> HIDE DEF node
    <3>4. CASE CanBuild(node)
      <4>1. /\ stage' = "build" /\ UNCHANGED error
            /\ path' = IF Graph[node].tag \in {"map", "seq"}
                       THEN Append(Advanced(path), [node |-> node, next |-> 1]) ELSE Advanced(path)
        BY <3>1, <3>4 DEF Build
      <4>2. NodeOK(node)
        BY <1>5, <3>4
      <4>3. CASE Graph[node].tag \in {"map", "seq"}
        <5>1. WalkOK(TopNode, path')
          BY <2>1, <2>2, <2>4, <4>1, <4>2, <4>3, WalkEnters DEF node
        <5>2. QED BY <1>2, <2>1, <4>1, <5>1, WalkStep
      <4>4. CASE Graph[node].tag \notin {"map", "seq"}
        <5>1. Good(node)
          BY <2>2, <3>3, <4>2, <4>4, LeafGood
        <5>2. WalkOK(TopNode, path')
          BY <2>1, <2>2, <2>4, <4>1, <4>4, <5>1, WalkPasses DEF node
        <5>3. QED BY <1>2, <2>1, <4>1, <5>2, WalkStep
      <4>5. QED BY <4>3, <4>4
    <3>5. CASE ~ CanBuild(node)
      <4>1. Reject(<<"metadata">>) /\ UNCHANGED path
        BY <3>1, <3>5 DEF Build
      <4>2. ~ Good(TopNode)
        BY <1>5, <3>2, <3>5
      <4>3. QED BY <1>4, <2>1, <4>1, <4>2
    <3>6. QED BY <3>4, <3>5
  <2>5. QED BY <2>3, <2>4
<1>8. CASE FinishMetadata
  <2>1. stage = "build" /\ path = <<>> /\ "metadata" \in Keys(Root) /\ WalkOK(TopNode, path)
    BY <1>1, <1>8 DEF FinishMetadata, Check, MetadataWalked
  <2>2. Good(TopNode)
    BY <2>1 DEF WalkOK
  <2>3. CASE Graph[TopNode].tag = "map" /\ stage' = "list" /\ UNCHANGED <<path, error>>
    <3>1. FieldOK("metadata")
      BY <1>1, <1>3, <2>1, <2>2, <2>3, MetadataIs
    <3>2. TopChecked'
      BY <1>1, <1>2, <2>1, <2>3, <3>1, SameText DEF TopChecked
    <3>3. Root' = Root /\ Graph' = Graph
      BY <1>2, SameText
    <3>4. IsDocument(doc)' /\ ParserTypeOK'
      BY <1>2, <2>1, <2>3, <3>3 DEF ParserInv, ParserTypeOK
    <3>5. MetadataWalked'
      BY <2>1, <2>3 DEF MetadataWalked
    <3>6. ListsChecked'
      <4>1. Field' = Field /\ \A field : ListDone(field)' <=> ListDone(field)
        BY <1>2, SameLists
      <4>2. QED BY <1>2, <2>1, <2>3, <4>1 DEF ParserInv, ListsChecked, OfAPattern
    <3>7. PatternChecked' /\ BlameIsReal'
      BY <2>3 DEF PatternChecked, BlameIsReal, OfAPattern
    <3>8. QED BY <3>2, <3>4, <3>5, <3>6, <3>7 DEF ParserInv
  <2>4. CASE Graph[TopNode].tag # "map" /\ Reject(<<"metadata">>) /\ UNCHANGED path
    BY <1>4, <2>1, <2>4
  <2>5. QED BY <1>8, <2>3, <2>4 DEF FinishMetadata, Check, TopNode
<1>9. QED BY <1>6, <1>7, <1>8

\* Where the lists are, the root and the detector are known.
LEMMA InLists ==
  ASSUME ParserInv, stage \notin InTop \cup {"build", "rejected"}
  PROVE  /\ IsDocument(doc) /\ IsMapping(Root) /\ id = Child(Root, "id").v
         /\ list \in 1..4 /\ Field = Lists[list] /\ Field \in Range(Lists)
         /\ \A field \in Range(Lists) : field \in Keys(Root) /\ ~ FieldOK(field) => field \in AtFault
<1>1. IsDocument(doc) /\ IsMapping(Root) /\ id = Child(Root, "id").v
  BY DEF ParserInv, TopChecked, InTop
<1>2. list \in 1..4 /\ Field = Lists[list]
  BY FieldsAre DEF ParserInv, ParserTypeOK, Field
<1>3. Field \in Range(Lists)
  BY <1>2, FieldsAre DEF Range
<1>4. QED BY <1>1, <1>2, <1>3 DEF AtFault

\* A step among the lists: what was known of the rest stays.
LEMMA ListStep ==
  ASSUME ParserInv, UNCHANGED <<doc, path, id, error>>,
         stage \notin InTop \cup {"build", "accepted", "rejected"},
         stage' \in OfAPattern \cup {"list", "next", "accepted"},
         list' \in 1..4, idx' \in Nat, DOMAIN spec' = Range(Lists),
         ListsChecked', PatternChecked'
  PROVE  ParserInv'
<1>1. Root' = Root /\ Graph' = Graph /\ AtFault' = AtFault /\ \A key : FieldOK(key)' <=> FieldOK(key)
  BY SameText
<1>2. IsDocument(doc)' /\ ParserTypeOK'
  BY <1>1, FieldsAre DEF ParserInv, ParserTypeOK, OfAPattern
<1>3. TopChecked'
  BY <1>1 DEF ParserInv, TopChecked, InTop, OfAPattern
<1>4. MetadataWalked'
  BY DEF ParserInv, MetadataWalked, InTop, OfAPattern
<1>5. BlameIsReal'
  BY DEF BlameIsReal, OfAPattern
<1>6. QED BY <1>2, <1>3, <1>4, <1>5 DEF ParserInv

\* A pattern that fails a check puts its list at fault.
LEMMA PatternBlame ==
  ASSUME ParserInv, stage \in OfAPattern, ~ Passes(Field, Node),
         UNCHANGED <<doc, list, idx, path, id, spec>>,
         NEW field, Reject(field), field # <<>>, field[1] = Field
  PROVE  ParserInv'
<1>1. /\ IsDocument(doc) /\ IsMapping(Root) /\ id = Child(Root, "id").v /\ Field \in Range(Lists)
      /\ Field \in Keys(Root) /\ ~ FieldOK(Field) => Field \in AtFault
  BY InLists DEF InTop, OfAPattern
<1>2. Field \in Keys(Root) /\ idx \in 1..Len(Items(Field)) /\ Node = Items(Field)[idx]
  BY DEF ParserInv, PatternChecked, Node, Elements, Items
<1>3. Field \in AtFault
  BY <1>1, <1>2, ListBlame
<1>4. QED BY <1>1, <1>3, Rejected

\* A list is opened, if it is there and has the shape of one.
LEMMA OpenListStep ==
  ASSUME ParserInv, OpenList
  PROVE  ParserInv'
<1>1. stage = "list" /\ UNCHANGED <<doc, list, path, id, spec>>
  BY DEF OpenList
<1>2. /\ IsDocument(doc) /\ IsMapping(Root) /\ id = Child(Root, "id").v
      /\ list \in 1..4 /\ Field = Lists[list] /\ Field \in Range(Lists)
      /\ Field \in Keys(Root) /\ ~ FieldOK(Field) => Field \in AtFault
  BY <1>1, InLists DEF InTop
<1>3. /\ spec[Field] = <<>> /\ DOMAIN spec = Range(Lists)
      /\ \A j \in 1..4 : (j < list => ListDone(Lists[j])) /\ (j > list => spec[Lists[j]] = <<>>)
  BY <1>1 DEF ParserInv, ListsChecked, ParserTypeOK, OfAPattern
<1>4. /\ Field' = Field /\ Root' = Root /\ \A field : Items(field)' = Items(field)
      /\ \A field : ListShape(field)' <=> ListShape(field)
      /\ \A field, n : Kept(field, n)' <=> Kept(field, n)
      /\ \A field : ListDone(field)' <=> ListDone(field)
  BY <1>1, SameLists, SameText
<1>5. Kept(Field, 0)
  <2>1. \A x : [i \in 1..0 |-> Parsed(Items(x)[i])] = <<>>
    OBVIOUS
  <2>2. QED BY <1>3, <2>1 DEF Kept
<1>6. CASE Field \notin Keys(Root) /\ stage' = "next" /\ idx' = 0 /\ UNCHANGED error
  <2>1. ListDone(Field)
    BY <1>3, <1>6 DEF ListDone
  <2>2. ListsChecked' /\ PatternChecked'
    BY <1>1, <1>3, <1>4, <1>6, <2>1 DEF ListsChecked, PatternChecked, OfAPattern
  <2>3. QED BY <1>1, <1>2, <1>3, <1>6, <2>2, ListStep DEF InTop
<1>7. CASE /\ Field \in Keys(Root) /\ ListShape(Field) /\ idx' = 1 /\ UNCHANGED error
           /\ stage' = IF Items(Field) # <<>> THEN "keys" ELSE "next"
  <2>1. /\ Len(Items(Field)) \in Nat
        /\ Items(Field) = <<>> <=> Len(Items(Field)) = 0
    BY <1>2, <1>7, ListNodes DEF ListShape
  <2>2. CASE Items(Field) # <<>>
    <3>1. 1 \in 1..Len(Items(Field))
      BY <2>1, <2>2
    <3>2. Kept(Field, idx' - 1)
      BY <1>5, <1>7
    <3>3. ListsChecked'
      BY <1>1, <1>3, <1>4, <1>7, <2>2 DEF ListsChecked, OfAPattern
    <3>4. PatternChecked'
      BY <1>4, <1>7, <2>2, <3>1, <3>2 DEF PatternChecked, OfAPattern
    <3>5. QED BY <1>1, <1>2, <1>3, <1>7, <2>2, <3>3, <3>4, ListStep DEF InTop, OfAPattern
  <2>3. CASE Items(Field) = <<>>
    <3>1. ListDone(Field)
      BY <1>5, <1>7, <2>1, <2>3 DEF ListDone
    <3>2. ListsChecked' /\ PatternChecked'
      BY <1>1, <1>3, <1>4, <1>7, <2>3, <3>1 DEF ListsChecked, PatternChecked, OfAPattern
    <3>3. QED BY <1>1, <1>2, <1>3, <1>7, <2>3, <3>2, ListStep DEF InTop
  <2>4. QED BY <2>2, <2>3
<1>8. CASE Field \in Keys(Root) /\ ~ ListShape(Field) /\ Reject(<<Field>>) /\ UNCHANGED idx
  <2>1. Field \in AtFault
    BY <1>2, <1>8, ListBlame
  <2>2. QED BY <1>1, <1>2, <1>8, <2>1, Rejected
<1>9. QED BY <1>6, <1>7, <1>8 DEF OpenList, ListShape, Items

\* The checks of one pattern, in their order.
LEMMA PatternSteps ==
  ASSUME ParserInv,
         CheckKeys \/ CheckKind \/ CheckPattern \/ CheckArgs \/ CheckWhen \/ CheckFlow
  PROVE  ParserInv'
<1>1. stage \in OfAPattern \ {"take"} /\ UNCHANGED <<doc, list, idx, path, id, spec>>
  BY DEF CheckKeys, CheckKind, CheckPattern, CheckArgs, CheckWhen, CheckFlow, Check, OfAPattern
<1>2. ListsChecked /\ PatternChecked /\ list \in 1..4 /\ idx \in Nat /\ DOMAIN spec = Range(Lists)
  BY <1>1, InLists DEF ParserInv, ParserTypeOK, OfAPattern, InTop
<1>3. /\ Field' = Field /\ Root' = Root /\ \A field : Items(field)' = Items(field)
      /\ \A field : ListShape(field)' <=> ListShape(field)
      /\ \A field, n : Kept(field, n)' <=> Kept(field, n)
      /\ \A field : ListDone(field)' <=> ListDone(field)
  BY <1>1, SameLists, SameText
<1>4. Node' = Node
  BY <1>1, <1>3 DEF Node, Elements
<1>5. ASSUME stage' \in OfAPattern, UNCHANGED error, PatternChecked'
      PROVE  ParserInv'
  <2>1. ListsChecked'
    BY <1>1, <1>2, <1>3, <1>5 DEF ListsChecked, OfAPattern
  <2>2. QED BY <1>1, <1>2, <1>5, <2>1, ListStep DEF InTop, OfAPattern
<1>6. ASSUME NEW field, Reject(field), field # <<>>, field[1] = Field, ~ Passes(Field, Node)
      PROVE  ParserInv'
  BY <1>1, <1>6, PatternBlame
<1>7. CASE CheckKeys
  <2>1. stage = "keys"
    BY <1>7 DEF CheckKeys, Check
  <2>2. CASE KeysPass(Field, Node) /\ stage' = "kind" /\ UNCHANGED error
    <3>1. PatternChecked'
      BY <1>1, <1>2, <1>3, <1>4, <2>1, <2>2 DEF PatternChecked, OfAPattern
    <3>2. QED BY <1>5, <2>2, <3>1 DEF OfAPattern
  <2>3. CASE ~ KeysPass(Field, Node) /\ Reject(<<Field, idx>>)
    BY <1>6, <2>3 DEF Passes
  <2>4. QED BY <1>7, <2>2, <2>3 DEF CheckKeys, Check, KeysPass
<1>8. CASE CheckKind
  <2>1. stage = "kind"
    BY <1>8 DEF CheckKind, Check
  <2>2. CASE KindPasses(Node) /\ stage' = "pattern" /\ UNCHANGED error
    <3>1. PatternChecked'
      BY <1>1, <1>2, <1>3, <1>4, <2>1, <2>2 DEF PatternChecked, OfAPattern
    <3>2. QED BY <1>5, <2>2, <3>1 DEF OfAPattern
  <2>3. CASE ~ KindPasses(Node) /\ Reject(At("kind"))
    BY <1>6, <2>3 DEF Passes, At
  <2>4. QED BY <1>8, <2>2, <2>3 DEF CheckKind, Check, KindPasses
<1>9. CASE CheckPattern
  <2>1. stage = "pattern"
    BY <1>9 DEF CheckPattern, Check
  <2>2. CASE PatternPasses(Node) /\ stage' = "args" /\ UNCHANGED error
    <3>1. PatternChecked'
      BY <1>1, <1>2, <1>3, <1>4, <2>1, <2>2 DEF PatternChecked, OfAPattern
    <3>2. QED BY <1>5, <2>2, <3>1 DEF OfAPattern
  <2>3. CASE /\ ~ PatternPasses(Node)
             /\ Reject(IF "pattern" \in Keys(Node) THEN At("pattern") ELSE <<Field, idx>>)
    BY <1>6, <2>3 DEF Passes, At
  <2>4. QED BY <1>9, <2>2, <2>3 DEF CheckPattern, Check, PatternPasses
<1>10. CASE CheckArgs
  <2>1. stage = "args"
    BY <1>10 DEF CheckArgs, Check
  <2>2. CASE ArgsPass(Node) /\ stage' = "when" /\ UNCHANGED error
    <3>1. PatternChecked'
      BY <1>1, <1>2, <1>3, <1>4, <2>1, <2>2 DEF PatternChecked, OfAPattern
    <3>2. QED BY <1>5, <2>2, <3>1 DEF OfAPattern
  <2>3. CASE ~ ArgsPass(Node) /\ Reject(At("args"))
    BY <1>6, <2>3 DEF Passes, At
  <2>4. QED BY <1>10, <2>2, <2>3 DEF CheckArgs, Check, ArgsPass, IsCall
<1>11. CASE CheckWhen
  <2>1. stage = "when"
    BY <1>11 DEF CheckWhen, Check
  <2>2. CASE /\ WhenPasses(Node) /\ UNCHANGED error
             /\ stage' = IF Field = "propagators" THEN "flow" ELSE "take"
    <3>1. PatternChecked'
      BY <1>1, <1>2, <1>3, <1>4, <2>1, <2>2 DEF PatternChecked, OfAPattern
    <3>2. QED BY <1>5, <2>2, <3>1 DEF OfAPattern
  <2>3. CASE ~ WhenPasses(Node) /\ Reject(At("when"))
    BY <1>6, <2>3 DEF Passes, At
  <2>4. QED BY <1>11, <2>2, <2>3 DEF CheckWhen, Check, WhenPasses, IsCall
<1>12. CASE CheckFlow
  <2>1. stage = "flow" /\ Field = "propagators"
    BY <1>2, <1>12 DEF CheckFlow, Check, PatternChecked
  <2>2. CASE FlowPasses(Node) /\ stage' = "take" /\ UNCHANGED error
    <3>1. PatternChecked'
      BY <1>1, <1>2, <1>3, <1>4, <2>1, <2>2 DEF PatternChecked, OfAPattern
    <3>2. QED BY <1>5, <2>2, <3>1 DEF OfAPattern
  <2>3. CASE ~ FlowPasses(Node) /\ Reject(IF IsCall THEN At("flow") ELSE At("kind"))
    BY <1>6, <2>1, <2>3 DEF Passes, At
  <2>4. QED BY <1>12, <2>2, <2>3 DEF CheckFlow, Check, FlowPasses, IsCall
<1>13. QED BY <1>7, <1>8, <1>9, <1>10, <1>11, <1>12

\* A pattern that has passed them is added to its list.
LEMMA TakeStep ==
  ASSUME ParserInv, Take
  PROVE  ParserInv'
<1> DEFINE items == Items(Field)
           n == Len(items)
           P(i) == Parsed(items[i])
<1>1. stage = "take" /\ UNCHANGED <<doc, list, path, id, error>>
  BY DEF Take
<1>2. /\ IsDocument(doc) /\ IsMapping(Root) /\ list \in 1..4 /\ Field = Lists[list]
      /\ Field \in Range(Lists)
  BY <1>1, InLists DEF InTop
<1>3. /\ Field \in Keys(Root) /\ ListShape(Field) /\ idx \in 1..n /\ Kept(Field, idx - 1)
      /\ Node = items[idx] /\ Passes(Field, Node)
  BY <1>1 DEF ParserInv, PatternChecked, OfAPattern, Node, Elements, Items, Passes
<1>4. /\ \A j \in 1..4 : (j < list => ListDone(Lists[j])) /\ (j > list => spec[Lists[j]] = <<>>)
      /\ DOMAIN spec = Range(Lists)
  BY <1>1 DEF ParserInv, ListsChecked, ParserTypeOK
<1>5. Field' = Field /\ Root' = Root /\ \A field : Items(field)' = Items(field)
  BY <1>1, SameText DEF Field, Items
<1>6. n \in Nat /\ Elements = items
  BY <1>2, <1>3, ListNodes DEF ListShape, Elements, Items
<1>7. spec' = [spec EXCEPT ![Field] = Append(@, P(idx))]
  BY <1>3 DEF Take
<1> HIDE DEF items, n
<1>8. /\ \A i \in 1..idx : i \in 1..(idx - 1) \/ i = idx
      /\ idx - 1 \in Nat /\ idx \in Nat
  BY <1>3, <1>6
<1>9. (\A i \in 1..idx : Passes(Field, items[i])) /\ spec'[Field] = [i \in 1..idx |-> P(i)]
  <2>1. \A i \in 1..idx : Passes(Field, items[i])
    BY <1>3, <1>8 DEF Kept, items
  <2>2. Append([i \in 1..(idx - 1) |-> P(i)], P(idx)) = [i \in 1..idx |-> P(i)]
    <3> DEFINE S == {P(i) : i \in 1..idx}
               s == [i \in 1..(idx - 1) |-> P(i)]
    <3> HIDE DEF P
    <3>1. \A i \in 1..(idx - 1) : i \in 1..idx
      BY <1>8
    <3>2. P(idx) \in S /\ \A i \in 1..(idx - 1) : P(i) \in S
      BY <1>3, <3>1
    <3> HIDE DEF S
    <3>3. s \in Seq(S) /\ Len(s) = idx - 1
      BY <1>8, <3>2
    <3> HIDE DEF s
    <3>4. Len(s) + 1 = idx
      BY <1>8, <3>3
    <3> DEFINE r == Append(s, P(idx))
    <3>5. /\ r \in Seq(S) /\ Len(r) = Len(s) + 1
          /\ r[Len(s) + 1] = P(idx) /\ \A i \in 1..Len(s) : r[i] = s[i]
      BY <3>2, <3>3
    <3> HIDE DEF r
    <3>6. r = [i \in 1..idx |-> r[i]]
      BY <3>4, <3>5
    <3>7. \A i \in 1..idx : r[i] = P(i)
      <4>1. \A i \in 1..(idx - 1) : s[i] = P(i)
        BY DEF s
      <4>2. QED BY <1>8, <3>3, <3>4, <3>5, <4>1
    <3>8. QED BY <3>6, <3>7 DEF r, s
  <2>3. spec[Field] = [i \in 1..(idx - 1) |-> P(i)]
    BY <1>3 DEF Kept, items
  <2>4. spec'[Field] = [i \in 1..idx |-> P(i)]
    BY <1>2, <1>4, <1>7, <2>2, <2>3
  <2>5. QED BY <2>1, <2>4
<1>10. /\ DOMAIN spec' = Range(Lists)
       /\ \A field \in Range(Lists) : field # Field => spec'[field] = spec[field]
  BY <1>4, <1>7
<1>11. \A j \in 1..4 : /\ j < list => ListDone(Lists[j])'
                       /\ j > list => spec'[Lists[j]] = <<>>
  <2>1. ASSUME NEW j \in 1..4, j # list
        PROVE  spec'[Lists[j]] = spec[Lists[j]]
    <3>1. Lists[j] \in Range(Lists) /\ Lists[j] # Field
      <4>1. \A k \in 1..4 : k = 1 \/ k = 2 \/ k = 3 \/ k = 4
        OBVIOUS
      <4>2. QED BY <1>2, <2>1, <4>1, FieldsAre
    <3>2. QED BY <1>10, <3>1
  <2>2. ASSUME NEW j \in 1..4, j < list PROVE ListDone(Lists[j])'
    <3>1. spec'[Lists[j]] = spec[Lists[j]] /\ ListDone(Lists[j])
      BY <1>2, <1>4, <2>1, <2>2
    <3>2. QED BY <1>5, <3>1 DEF ListDone, ListShape, Kept, Items
  <2>3. ASSUME NEW j \in 1..4, j > list PROVE spec'[Lists[j]] = <<>>
    BY <1>2, <1>4, <2>1, <2>3
  <2>4. QED BY <2>2, <2>3
<1>12. CASE idx < n /\ stage' = "keys" /\ idx' = idx + 1
  <2>1. idx + 1 \in 1..n /\ (idx + 1) - 1 = idx
    BY <1>6, <1>8, <1>12
  <2>2. ListsChecked'
    BY <1>5, <1>11, <1>1, <1>12 DEF ListsChecked, OfAPattern
  <2>3. PatternChecked'
    <3>1. (Field \in Keys(Root) /\ ListShape(Field))' /\ Items(Field)' = items
      BY <1>3, <1>5 DEF ListShape, items
    <3>2. idx' \in 1..Len(Items(Field)') /\ idx' - 1 = idx
      BY <1>12, <2>1, <3>1 DEF n
    <3>3. Kept(Field, idx - 1)'
      <4>1. /\ \A i \in 1..idx : Passes(Field', Items(Field)'[i])
            /\ spec'[Field'] = [i \in 1..idx |-> Parsed(Items(Field)'[i])]
        BY <1>5, <1>9, <3>1
      <4>2. QED BY <3>2, <4>1 DEF Kept
    <3>4. QED BY <1>12, <3>1, <3>2, <3>3 DEF PatternChecked, OfAPattern
  <2>4. QED BY <1>1, <1>2, <1>8, <1>10, <1>12, <2>2, <2>3, ListStep DEF InTop, OfAPattern
<1>13. CASE idx = n /\ stage' = "next" /\ idx' = idx
  <2>1. ListDone(Field)'
    <3>1. Field' \in Keys(Root') /\ ListShape(Field)' /\ Items(Field)' = items
      BY <1>3, <1>5 DEF ListShape, items
    <3>2. /\ \A i \in 1..n : Passes(Field', Items(Field)'[i])
          /\ spec'[Field'] = [i \in 1..n |-> Parsed(Items(Field)'[i])]
      BY <1>5, <1>9, <1>13, <3>1
    <3>3. Kept(Field, Len(Items(Field)))'
      BY <3>1, <3>2 DEF Kept, n
    <3>4. QED BY <3>1, <3>3 DEF ListDone
  <2>2. ListsChecked' /\ PatternChecked'
    BY <1>1, <1>5, <1>11, <1>13, <2>1 DEF ListsChecked, PatternChecked, OfAPattern
  <2>3. QED BY <1>1, <1>2, <1>8, <1>10, <1>13, <2>2, ListStep DEF InTop, OfAPattern
<1>14. QED BY <1>6, <1>12, <1>13 DEF Take, n

\* A list whose patterns are all taken is done; after the last the text is
\* accepted.
LEMMA NextListStep ==
  ASSUME ParserInv, NextList
  PROVE  ParserInv'
<1>1. stage = "next" /\ UNCHANGED <<doc, idx, path, id, spec, error>>
  BY DEF NextList
<1>2. list \in 1..4 /\ Field = Lists[list] /\ idx \in Nat /\ DOMAIN spec = Range(Lists)
  BY <1>1, InLists DEF InTop, ParserInv, ParserTypeOK
<1>3. /\ \A j \in 1..4 : (j < list => ListDone(Lists[j])) /\ (j > list => spec[Lists[j]] = <<>>)
      /\ ListDone(Lists[list])
  BY <1>1, <1>2 DEF ParserInv, ListsChecked
<1>4. \A field : ListDone(field)' <=> ListDone(field)
  BY <1>1, SameText DEF ListDone, ListShape, Kept, Items
<1>5. CASE list < 4 /\ list' = list + 1 /\ stage' = "list"
  <2>1. list' \in 1..4 /\ \A j \in 1..4 : (j < list' => j < list \/ j = list) /\ (j > list' => j > list)
    BY <1>2, <1>5
  <2>2. Field' = Lists[list'] /\ list' > list
    BY <1>2, <1>5 DEF Field
  <2>3. ListsChecked' /\ PatternChecked'
    BY <1>1, <1>3, <1>4, <1>5, <2>1, <2>2 DEF ListsChecked, PatternChecked, OfAPattern
  <2>4. QED BY <1>1, <1>2, <1>5, <2>1, <2>3, ListStep DEF InTop
<1>6. CASE list = 4 /\ stage' = "accepted" /\ UNCHANGED list
  <2>1. Field' = Field
    BY <1>6 DEF Field
  <2>2. ListsChecked' /\ PatternChecked'
    BY <1>1, <1>2, <1>3, <1>4, <1>6, <2>1 DEF ListsChecked, PatternChecked, OfAPattern
  <2>3. QED BY <1>1, <1>2, <1>6, <2>2, ListStep DEF InTop
<1>7. QED BY <1>5, <1>6, FieldsAre DEF NextList

\* Before the first check.
LEMMA ParserStarts ==
  ASSUME IsDocument(doc), ParserInit
  PROVE  ParserInv
<1>1. DOMAIN spec = Range(Lists) /\ \A field \in Range(Lists) : spec[field] = <<>>
  BY DEF ParserInit
<1>2. ParserTypeOK
  BY <1>1, FieldsAre DEF ParserInit, ParserTypeOK
<1>3. TopChecked /\ MetadataWalked /\ PatternChecked /\ BlameIsReal
  BY DEF ParserInit, TopChecked, MetadataWalked, PatternChecked, BlameIsReal, OfAPattern
<1>4. ListsChecked
  <2>1. list = 1 /\ Field = Lists[1] /\ \A j \in 1..4 : Lists[j] \in Range(Lists) /\ ~ (j < 1)
    BY FieldsAre DEF ParserInit, Field, Range
  <2>2. stage = "root"
    BY DEF ParserInit
  <2>3. spec[Field] = <<>> /\ \A j \in 1..4 : spec[Lists[j]] = <<>>
    BY <1>1, <2>1
  <2>4. QED BY <2>1, <2>2, <2>3 DEF ListsChecked, OfAPattern
<1>5. QED BY <1>2, <1>3, <1>4 DEF ParserInv

\* The invariant is inductive.
LEMMA ParserStep ==
  ASSUME ParserInv, ParserNext
  PROVE  ParserInv'
BY TopSteps, MetadataSteps, OpenListStep, PatternSteps, TakeStep, NextListStep DEF ParserNext

\* A step of the rest of the program leaves it.
LEMMA ParserStays ==
  ASSUME ParserInv, UNCHANGED parserVars
  PROVE  ParserInv'
<1>1. UNCHANGED <<doc, stage, list, idx, path, id, spec, error>>
  BY DEF parserVars
<1>2. /\ Root' = Root /\ Graph' = Graph /\ AtFault' = AtFault
      /\ \A key : FieldOK(key)' <=> FieldOK(key)
      /\ \A n : MetadataNodes(n)' = MetadataNodes(n)
  BY <1>1, SameText
<1>3. /\ Field' = Field /\ \A field : Items(field)' = Items(field)
      /\ \A field : ListShape(field)' <=> ListShape(field)
      /\ \A field, n : Kept(field, n)' <=> Kept(field, n)
      /\ \A field : ListDone(field)' <=> ListDone(field)
  BY <1>1, SameLists
<1>4. IsDocument(doc)' /\ ParserTypeOK' /\ TopChecked' /\ BlameIsReal'
  BY <1>1, <1>2 DEF ParserInv, ParserTypeOK, TopChecked, BlameIsReal
<1>5. MetadataWalked'
  BY <1>1, <1>2
  DEF ParserInv, MetadataWalked, WalkOK, TopNode, Frame, Kids, Good, NodeOK, Cyclic
<1>6. ListsChecked'
  BY <1>1, <1>3 DEF ParserInv, ListsChecked
<1>7. PatternChecked'
  <2>1. Node' = Node
    BY <1>1, <1>2, <1>3 DEF Node, Elements
  <2>2. QED BY <1>1, <1>2, <1>3, <2>1 DEF ParserInv, PatternChecked
<1>8. QED BY <1>4, <1>5, <1>6, <1>7 DEF ParserInv

\* The program runs the parser, or leaves it alone.
LEMMA CommandStep ==
  ASSUME Next
  PROVE  ParserNext \/ UNCHANGED parserVars
BY DEF Next, ResolveConfig, LoadDetectorSpecs, StartDiscovery, WalkDirectory, StartScan, RunScan,
       Emit, RulesList, RulesShow, ReadSpec, ParseSpec, RulesValidate

\* The text given to the parser is one the assumption speaks of, or there is
\* none.
LEMMA TextIsDocument ==
  ASSUME Init
  PROVE  IsDocument(doc)
<1>1. CASE doc \in Documents
  BY <1>1, DocumentsAssumption
<1>2. CASE doc = NoDocument
  <2>1. /\ Keys(doc.root) = {} /\ Children(doc.root) = {} /\ DOMAIN doc.graph = {}
        /\ doc.root.tag = "map" /\ doc.root.entries = <<>>
    BY <1>2 DEF NoDocument, Keys, Children
  <2>2. Opened({doc.root}) = {doc.root}
    BY <2>1 DEF Opened
  <2>3. IsNode(doc.root)
    <3> DEFINE S == STRING \X Children(doc.root)
    <3>1. <<>> \in Seq(S)
      OBVIOUS
    <3>2. QED BY <2>1, <3>1 DEF IsNode
  <2>4. \A key : Under({doc.root}, key) = {}
    BY <2>1 DEF Under
  <2>5. ListedNodes(doc) = {}
    BY <2>4 DEF ListedNodes
  <2>6. Under(ListedNodes(doc), "pattern") = {}
    BY <2>5 DEF Under
  <2>7. QED BY <2>1, <2>2, <2>3, <2>4, <2>6 DEF IsDocument
<1>3. QED BY <1>1, <1>2 DEF Init

\* The invariant of parse_spec holds in every state of every command: what the
\* checks behind it have shown of the text, of every node of the metadata that
\* is done and of every pattern taken, and that an error blames what is wrong.
THEOREM ParserInductive == Spec => []ParserInv
<1>1. Init => ParserInv
  BY TextIsDocument, ParserStarts DEF Init
<1>2. ParserInv /\ [Next]_vars => ParserInv'
  BY CommandStep, ParserStep, ParserStays DEF vars
<1>3. QED BY <1>1, <1>2, PTL DEF Spec

-----------------------------------------------------------------------------
(***************************************************************************)
(* What it implies.                                                        *)
(***************************************************************************)

\* What an accepted text has shown.
LEMMA AcceptedLists ==
  ASSUME ParserInv, stage = "accepted", NEW field \in Range(Lists)
  PROVE  IsDocument(doc) /\ IsMapping(Root) /\ ListDone(field)
<1>1. PICK j \in 1..4 : field = Lists[j]
  BY FieldsAre DEF Range
<1>2. list = 4 /\ ListDone(Lists[4]) /\ \A i \in 1..4 : i < 4 => ListDone(Lists[i])
  BY DEF ParserInv, ListsChecked, Field
<1>3. j < 4 \/ j = 4
  OBVIOUS
<1>4. QED BY <1>1, <1>2, <1>3 DEF ParserInv, TopChecked

\* The variables of the parser keep their types, whatever the text.
THEOREM ParserTypes == Spec => []ParserTypeOK
<1>1. ParserInv => ParserTypeOK
  BY DEF ParserInv
<1>2. QED BY <1>1, ParserInductive, PTL

\* Whatever is wrong with a text, and however many things are, the error that
\* parse_spec raises names one that is, and the detector if its id is fine.
THEOREM BlameHolds == Spec => []BlameIsReal
<1>1. ParserInv => BlameIsReal
  BY DEF ParserInv
<1>2. QED BY <1>1, ParserInductive, PTL

\* The specification that parse_spec returns holds the patterns of the text,
\* each in its list and in its place, however many there are.
THEOREM AllKept == Spec => []NothingLost
<1>1. ParserInv => NothingLost
  <2>1. SUFFICES ASSUME ParserInv, stage = "accepted", NEW field \in Range(Lists)
                 PROVE  spec[field] = IF field \in Keys(Root)
                                      THEN [i \in DOMAIN Child(Root, field).items |->
                                              Parsed(Child(Root, field).items[i])]
                                      ELSE <<>>
    BY DEF NothingLost
  <2>2. IsDocument(doc) /\ IsMapping(Root) /\ ListDone(field)
    BY <2>1, AcceptedLists
  <2>3. CASE field \in Keys(Root)
    <3>1. DOMAIN Items(field) = 1..Len(Items(field))
      BY <2>2, <2>3, ListNodes DEF ListDone, ListShape
    <3>2. QED BY <2>2, <2>3, <3>1 DEF ListDone, Kept, Items
  <2>4. CASE field \notin Keys(Root)
    BY <2>2, <2>4 DEF ListDone
  <2>5. QED BY <2>3, <2>4
<1>2. QED BY <1>1, ParserInductive, PTL

-----------------------------------------------------------------------------
(***************************************************************************)
(* The matcher.  Position by position, its three modes are the three forms *)
(* of the reference with the star replaced.                                *)
(***************************************************************************)
\* A prefix and a suffix, position by position.
LEMMA PrefixIs ==
  ASSUME NEW S, NEW s \in Seq(S), NEW t \in Seq(S)
  PROVE  IsPrefix(s, t) <=> Len(s) <= Len(t) /\ \A i \in 1..Len(s) : s[i] = t[i]
<1> DEFINE n == Len(s)
<1>1. n \in Nat /\ Len(t) \in Nat
  OBVIOUS
<1>2. CASE n <= Len(t)
  <2> DEFINE a == SubSeq(s, 1, n)
             b == SubSeq(t, 1, n)
  <2>1. a = [i \in 1..n |-> s[i]]
    <3> HIDE DEF n
    <3>1. n \in Nat /\ n <= Len(s)
      BY <1>1 DEF n
    <3>2. QED BY <3>1
  <2>2. b = [i \in 1..n |-> t[i]]
    <3> HIDE DEF n
    <3>1. QED BY <1>1, <1>2
  <2> HIDE DEF a, b
  <2>3. a = b <=> \A i \in 1..n : s[i] = t[i]
    BY <2>1, <2>2
  <2>4. QED BY <1>2, <2>3 DEF IsPrefix, a, b
<1>3. CASE ~ (n <= Len(t))
  BY <1>3 DEF IsPrefix
<1>4. QED BY <1>2, <1>3

LEMMA SuffixIs ==
  ASSUME NEW S, NEW s \in Seq(S), NEW t \in Seq(S)
  PROVE  IsSuffix(s, t) <=>
           Len(s) <= Len(t) /\ \A i \in 1..Len(s) : s[i] = t[(Len(t) - Len(s)) + i]
<1> DEFINE m == Len(s)
           n == Len(t)
           a == Reverse(s)
           b == Reverse(t)
<1>1. m \in Nat /\ n \in Nat
  OBVIOUS
<1>2. ASSUME NEW u \in Seq(S)
      PROVE  /\ Reverse(u) \in Seq(S) /\ Len(Reverse(u)) = Len(u)
             /\ \A i \in 1..Len(u) : Reverse(u)[i] = u[(Len(u) - i) + 1]
  <2> DEFINE k == Len(u)
  <2>1. k \in Nat /\ \A i \in 1..k : u[i] \in S
    OBVIOUS
  <2>2. \A i \in 1..k : (k - i) + 1 \in 1..k
    <3> HIDE DEF k
    <3>1. QED BY <2>1
  <2>3. \A i \in 1..k : u[(k - i) + 1] \in S
    BY <2>1, <2>2
  <2> HIDE DEF k
  <2> DEFINE r == [i \in 1..k |-> u[(k - i) + 1]]
  <2>4. r \in Seq(S) /\ Len(r) = k
    BY <2>1, <2>3
  <2>5. QED BY <2>4 DEF Reverse, k
<1>3. a \in Seq(S) /\ b \in Seq(S) /\ Len(a) = m /\ Len(b) = n
  BY <1>2
<1>4. (\A i \in 1..m : a[i] = s[(m - i) + 1]) /\ (\A i \in 1..n : b[i] = t[(n - i) + 1])
  BY <1>2
<1> HIDE DEF a, b, m, n
<1>5. IsPrefix(a, b) <=> m <= n /\ \A i \in 1..m : a[i] = b[i]
  <2>1. IsPrefix(a, b) <=> Len(a) <= Len(b) /\ \A i \in 1..Len(a) : a[i] = b[i]
    <3>1. \A x, y \in Seq(S) :
            IsPrefix(x, y) <=> Len(x) <= Len(y) /\ \A i \in 1..Len(x) : x[i] = y[i]
      BY PrefixIs, Zenon
    <3>2. QED BY <1>3, <3>1, Zenon
  <2>2. QED BY <1>3, <2>1
<1>6. ASSUME m <= n
      PROVE  (\A i \in 1..m : a[i] = b[i]) <=> \A i \in 1..m : s[i] = t[(n - m) + i]
  <2>1. ASSUME NEW i \in 1..m
        PROVE  /\ (m - i) + 1 \in 1..m /\ (m - ((m - i) + 1)) + 1 = i
               /\ i \in 1..n /\ (m - i) + 1 \in 1..n
               /\ (n - i) + 1 = (n - m) + ((m - i) + 1)
               /\ (n - ((m - i) + 1)) + 1 = (n - m) + i
    BY <1>1, <1>6
  <2>2. \A i \in 1..m : a[i] = b[i] <=> s[(m - i) + 1] = t[(n - m) + ((m - i) + 1)]
    BY <1>4, <2>1
  <2>3. QED BY <2>1, <2>2
<1>7. QED BY <1>5, <1>6 DEF IsSuffix, a, b, m, n

\* A star first, last or nowhere: what the code compares is what the wildcard
\* table says.
LEMMA FormsMatch ==
  ASSUME NEW p \in Seq(STRING) \ {<<>>}, IsPatternForm(p), NEW n \in Seq(STRING)
  PROVE  MatchDotted(p, n) <=> Denotes(p, n)
<1> DEFINE S == STRING
           stars == {i \in DOMAIN p : p[i] = Star}
           l == Len(p)
           f == Front(p)
           t == Tail(p)
<1>1. p \in Seq(S) /\ p # <<>> /\ n \in Seq(S)
  OBVIOUS
<1> HIDE DEF S
<1>2. l \in Nat \ {0} /\ DOMAIN p = 1..l /\ Len(n) \in Nat
  BY <1>1
<1>3. Last(p) = p[l] /\ Head(p) = p[1]
  BY <1>1 DEF Last
<1>4. f \in Seq(S) /\ Len(f) = l - 1 /\ \A i \in 1..(l - 1) : f[i] = p[i]
  BY <1>1, LastFrame
<1>5. t \in Seq(S) /\ Len(t) = l - 1 /\ \A i \in 1..(l - 1) : t[i] = p[i + 1]
  BY <1>1, <1>2
<1>6. \A q \in Literal : \A i \in 1..Len(q) : q[i] # Star
  BY IdentifiersAssumption DEF Literal
<1>7. 1 \in 1..l /\ l \in 1..l
  BY <1>2
<1>8. CASE p \in Literal
  <2>1. stars = {} /\ Last(p) # Star /\ Head(p) # Star
    BY <1>2, <1>3, <1>6, <1>7, <1>8
  <2> HIDE DEF stars, l
  <2>2. Denotes(p, n) <=> n = p
    BY <1>8, <2>1 DEF Denotes
  <2>3. MatchDotted(p, n) <=> p = n
    BY <2>1 DEF MatchDotted, stars, l
  <2>4. QED BY <2>2, <2>3
<1>9. CASE f \in Literal /\ Last(p) = Star
  <2>1. \A i \in 1..(l - 1) : p[i] # Star
    BY <1>4, <1>6, <1>9
  <2>2. stars = {l}
    <3> HIDE DEF l
    <3>1. \A i \in 1..l : i \in 1..(l - 1) \/ i = l
      BY <1>2
    <3>2. QED BY <1>2, <1>3, <1>7, <1>9, <2>1, <3>1
  <2>3. p \notin Literal
    BY <1>3, <1>6, <1>7, <1>9
  <2>4. ~ (Head(p) = Star /\ l > 1)
    <3>1. l > 1 => 1 \in 1..(l - 1)
      BY <1>2
    <3>2. QED BY <1>3, <2>1, <3>1
  <2> HIDE DEF stars, f
  <2>5. MatchDotted(p, n) <=> Len(n) = l /\ IsPrefix(f, n)
    <3>1. stars # {} /\ ~ (stars = {1} /\ l > 1)
      BY <1>2, <2>2
    <3>2. MatchDotted(p, n) <=> \/ stars = {} /\ p = n
                                \/ stars = {l} /\ Len(n) = l /\ IsPrefix(f, n)
                                \/ stars = {1} /\ l > 1 /\ IsStrictSuffix(t, n)
      BY DEF MatchDotted, stars, f
    <3>3. QED BY <2>2, <3>1, <3>2
  <2>6. IsPrefix(f, n) <=> l - 1 <= Len(n) /\ \A i \in 1..(l - 1) : f[i] = n[i]
    BY <1>1, <1>4, PrefixIs
  <2>7. Denotes(p, n) <=> \E w \in Range(n) : n = Append(f, w)
    BY <1>9, <2>3, <2>4 DEF Denotes, f
  <2>8. ASSUME NEW w \in S
        PROVE  n = Append(f, w) <=> Len(n) = l /\ n[l] = w /\ \A i \in 1..(l - 1) : f[i] = n[i]
    <3> DEFINE r == Append(f, w)
    <3> HIDE DEF l
    <3>1. /\ r \in Seq(S) /\ Len(r) = l /\ r[l] = w /\ \A i \in 1..(l - 1) : r[i] = f[i]
      <4>1. /\ r \in Seq(S) /\ Len(r) = Len(f) + 1
            /\ r[Len(f) + 1] = w /\ \A i \in 1..Len(f) : r[i] = f[i]
        BY <1>4
      <4>2. Len(f) + 1 = l
        BY <1>2, <1>4
      <4>3. QED BY <1>4, <4>1, <4>2
    <3> HIDE DEF r
    <3>2. \A i \in 1..l : i \in 1..(l - 1) \/ i = l
      BY <1>2
    <3>3. ASSUME Len(n) = l, n[l] = w, \A i \in 1..(l - 1) : f[i] = n[i] PROVE n = r
      <4>1. \A i \in 1..l : n[i] = r[i]
        BY <3>1, <3>2, <3>3
      <4>2. n = [i \in 1..l |-> n[i]] /\ r = [i \in 1..l |-> r[i]]
        BY <1>1, <3>1, <3>3
      <4>3. QED BY <4>1, <4>2
    <3>4. QED BY <3>1, <3>3 DEF r
  <2>9. ASSUME Len(n) = l PROVE n[l] \in Range(n)
    BY <1>1, <1>7, <2>9 DEF Range
  <2>10. Range(n) \subseteq S
    BY <1>1 DEF Range
  <2> HIDE DEF l
  <2>11. \A k \in Nat : k = l => l - 1 <= k
    BY <1>2
  <2>12. QED BY <1>2, <2>5, <2>6, <2>7, <2>8, <2>9, <2>10, <2>11
<1>10. CASE t \in Literal /\ Head(p) = Star /\ l > 1
  <2>1. \A i \in 2..l : p[i] # Star
    <3> HIDE DEF t, l
    <3>1. \A i \in 2..l : i - 1 \in 1..(l - 1) /\ (i - 1) + 1 = i
      BY <1>2
    <3>2. \A i \in 1..(l - 1) : p[i + 1] # Star
      BY <1>5, <1>6, <1>10
    <3>3. QED BY <3>1, <3>2
  <2>2. stars = {1}
    <3> HIDE DEF l
    <3>1. \A i \in 1..l : i \in 2..l \/ i = 1
      BY <1>2
    <3>2. QED BY <1>2, <1>3, <1>7, <1>10, <2>1, <3>1
  <2>3. p \notin Literal
    BY <1>3, <1>6, <1>7, <1>10
  <2>4. Last(p) # Star
    BY <1>2, <1>3, <1>10, <2>1
  <2> HIDE DEF stars, t, f
  <2>5. MatchDotted(p, n) <=> IsSuffix(t, n) /\ t # n
    <3>1. MatchDotted(p, n) <=> \/ stars = {} /\ p = n
                                \/ stars = {l} /\ Len(n) = l /\ IsPrefix(f, n)
                                \/ stars = {1} /\ l > 1 /\ IsStrictSuffix(t, n)
      BY DEF MatchDotted, stars, f, t
    <3>2. stars # {} /\ stars # {l}
      BY <1>2, <1>10, <2>2
    <3>3. QED BY <1>10, <2>2, <3>1, <3>2 DEF IsStrictSuffix
  <2>6. IsSuffix(t, n) <=>
          l - 1 <= Len(n) /\ \A i \in 1..(l - 1) : t[i] = n[(Len(n) - (l - 1)) + i]
    <3>1. IsSuffix(t, n) <=>
            Len(t) <= Len(n) /\ \A i \in 1..Len(t) : t[i] = n[(Len(n) - Len(t)) + i]
      BY <1>1, <1>5, SuffixIs
    <3>2. QED BY <1>5, <3>1
  <2>7. Denotes(p, n) <=> \E k \in 1..Len(n) : n = SubSeq(n, 1, k) \o t
    BY <1>10, <2>3, <2>4 DEF Denotes, t
  <2> DEFINE m == Len(n)
             c == l - 1
  <2>8. c \in Nat /\ m \in Nat /\ Len(t) = c
    BY <1>2, <1>5
  <2> HIDE DEF l
  <2>9. ASSUME NEW k \in 1..m
        PROVE  n = SubSeq(n, 1, k) \o t <=> k = m - c /\ \A i \in 1..c : t[i] = n[k + i]
    <3> DEFINE u == SubSeq(n, 1, k)
               r == u \o t
    <3> HIDE DEF c
    <3>1. u \in Seq(S) /\ Len(u) = k /\ \A i \in 1..k : u[i] = n[i]
      BY <1>1, <2>8
    <3> HIDE DEF u, m
    <3>2. /\ r \in Seq(S) /\ Len(r) = k + c
          /\ \A i \in 1..k : r[i] = n[i]
          /\ \A i \in 1..c : r[k + i] = t[i]
      <4>1. /\ r \in Seq(S) /\ Len(r) = Len(u) + Len(t)
            /\ \A i \in 1..Len(u) : r[i] = u[i]
            /\ \A i \in 1..Len(t) : r[Len(u) + i] = t[i]
        <5>1. /\ r \in Seq(S) /\ Len(r) = Len(u) + Len(t)
              /\ \A i \in 1..(Len(u) + Len(t)) :
                   r[i] = IF i <= Len(u) THEN u[i] ELSE t[i - Len(u)]
          BY <1>5, <3>1, ConcatProperties
        <5>2. /\ \A i \in 1..k : i \in 1..(k + c) /\ i <= k
              /\ \A i \in 1..c : k + i \in 1..(k + c) /\ ~ (k + i <= k) /\ (k + i) - k = i
          BY <2>8
        <5>3. Len(u) = k /\ Len(t) = c
          BY <2>8, <3>1
        <5> HIDE DEF r
        <5>4. QED BY <5>1, <5>2, <5>3
      <4>2. QED BY <2>8, <3>1, <4>1
    <3> HIDE DEF r
    <3>3. ASSUME k = m - c, \A i \in 1..c : t[i] = n[k + i] PROVE n = r
      <4>1. k + c = m
        BY <2>8, <3>3
      <4>2. \A i \in 1..m : i \in 1..k \/ (i - k \in 1..c /\ k + (i - k) = i)
        BY <2>8, <4>1
      <4>3. \A i \in 1..m : n[i] = r[i]
        <5>1. \A i \in 1..c : n[k + i] = r[k + i]
          BY <3>2, <3>3
        <5>2. TAKE i \in 1..m
        <5>3. CASE i \in 1..k
          BY <3>2, <5>3
        <5>4. CASE i - k \in 1..c /\ k + (i - k) = i
          BY <5>1, <5>4
        <5>5. QED BY <4>2, <5>3, <5>4
      <4>4. n = [i \in 1..m |-> n[i]] /\ r = [i \in 1..m |-> r[i]]
        BY <1>1, <3>2, <4>1 DEF m
      <4>5. QED BY <4>3, <4>4
    <3>4. ASSUME n = r PROVE k = m - c /\ \A i \in 1..c : t[i] = n[k + i]
      <4>1. m = k + c
        BY <3>2, <3>4 DEF m
      <4>2. QED BY <2>8, <3>2, <3>4, <4>1
    <3>5. QED BY <3>3, <3>4 DEF r, u
  <2>10. Denotes(p, n) <=> m - c \in 1..m /\ \A i \in 1..c : t[i] = n[(m - c) + i]
    BY <2>7, <2>9 DEF m
  <2>11. m - c \in 1..m <=> c < m
    <3> HIDE DEF c, m
    <3>1. c # 0
      BY <1>2, <1>10 DEF c
    <3>2. QED BY <2>8, <3>1
  <2>12. ASSUME IsSuffix(t, n) PROVE t # n <=> c < m
    <3>1. c <= m /\ \A i \in 1..c : t[i] = n[(m - c) + i]
      BY <2>6, <2>12
    <3>2. ASSUME c = m PROVE t = n
      <4> HIDE DEF c, m
      <4>1. \A i \in 1..c : (m - c) + i = i
        BY <2>8, <3>2
      <4>2. \A i \in 1..c : t[i] = n[i]
        BY <3>1, <4>1
      <4>3. t = [i \in 1..c |-> t[i]] /\ n = [i \in 1..c |-> n[i]]
        BY <1>1, <1>5, <2>8, <3>2 DEF m
      <4>4. QED BY <4>2, <4>3
    <3>3. t = n => c = m
      BY <2>8
    <3>4. QED BY <2>8, <3>1, <3>2, <3>3
  <2>13. c < m => c <= m
    BY <2>8
  <2>14. QED BY <2>5, <2>6, <2>10, <2>11, <2>12, <2>13
<1>11. CASE t \in Literal /\ Head(p) = Star /\ ~ (l > 1)
  <2>1. l = 1
    BY <1>2, <1>11
  <2>2. Len(f) = 0 /\ f = <<>>
    BY <1>4, <2>1
  <2>3. f \in Literal
    BY <2>2 DEF Literal
  <2>4. Last(p) = Star
    BY <1>3, <1>11, <2>1
  <2>5. QED BY <1>9, <2>3, <2>4
<1>12. QED BY <1>8, <1>9, <1>10, <1>11 DEF IsPatternForm

\* The value of a keyword as the parser builds it is a literal of its type.
LEMMA WhenLiteral ==
  ASSUME NEW n, PatternOK(n), NEW k \in DOMAIN Parsed(n).when
  PROVE  /\ k \in Identifiers
         /\ Parsed(n).when[k] = <<Parsed(n).when[k][1], Parsed(n).when[k][2]>>
         /\ Parsed(n).when[k] # NotLiteral
<1> DEFINE keyword == Child(Child(n, "when"), "keyword")
<1>1. "when" \in Keys(n)
  <2>1. "when" \notin Keys(n) => Parsed(n).when = NoWhen
    BY DEF Parsed
  <2>2. DOMAIN NoWhen = {}
    BY DEF NoWhen
  <2>3. QED BY <2>1, <2>2
<1>2. WhenOK(Child(n, "when"))
  BY <1>1 DEF PatternOK, Optional
<1>3. Parsed(n).when = [j \in Keys(keyword) |-> <<Child(keyword, j).tag, Child(keyword, j).v>>]
  BY <1>1 DEF Parsed
<1>4. k \in Keys(keyword)
  BY <1>3
<1>5. k \in Identifiers /\ IsTyped(Child(keyword, k))
  BY <1>2, <1>4 DEF WhenOK
<1>6. Parsed(n).when[k] = <<Child(keyword, k).tag, Child(keyword, k).v>>
  BY <1>3, <1>4
<1>7. Child(keyword, k).tag # "expression"
  BY <1>5 DEF IsTyped
<1> HIDE DEF keyword
<1>8. QED BY <1>5, <1>6, <1>7 DEF NotLiteral

\* A pattern as the parser builds it, of a node that is well formed, selects
\* every site that the reference says, and no other unless a keyword is the
\* twin of its value.
LEMMA PatternSelects ==
  ASSUME NEW n, PatternOK(n), OneLine(n), Written(Child(n, "pattern")), IsNode2(n),
         NEW site \in Sites
  PROVE  LET p == Parsed(n)
         IN  /\ Documented(p, site) => Matches(p, site)
             /\ (\A k \in DOMAIN p.when \cap DOMAIN site.kwargs :
                   ~ Twins(site.kwargs[k], p.when[k]))
                  => (Matches(p, site) => Documented(p, site))
<1> DEFINE p == Parsed(n)
           m == Child(n, "pattern")
           args == Child(n, "args")
<1>1. /\ IsMapping(n) /\ {"kind", "pattern"} \subseteq Keys(n)
      /\ m.tag = "str" /\ IsPatternForm(m.v)
      /\ "args" \in Keys(n) => ArgsOK(args)
  BY DEF PatternOK, Optional
<1>2. p.pattern = m.v /\ m.v \in Seq(STRING) \ {<<>>}
  BY <1>1 DEF Parsed, Segments, OneLine, IsText, Written
<1>3. site.name \in Seq(STRING) /\ site.args \in Nat
  BY SitesAssumption
<1>4. p.args = EveryArg \/ p.args \subseteq Nat
  <2>1. CASE "args" \in Keys(n)
    <3>1. IsNode1(args) /\ ArgsOK(args)
      BY <1>1, <2>1, ChildIn DEF IsNode2
    <3>2. \A i \in DOMAIN args.items : args.items[i] \in Children(args)
      BY <3>1, ItemIn DEF IsNode1, ArgsOK
    <3>3. \A item \in Range(args.items) : IsNode(item) /\ item.tag = "int" /\ item.v >= 0
      BY <3>1, <3>2 DEF IsNode1, ArgsOK, Range
    <3>4. \A item \in Range(args.items) : item.v \in Int /\ item.v >= 0
      BY <3>3 DEF IsNode
    <3>5. \A x \in Int : x >= 0 => x \in Nat
      OBVIOUS
    <3>6. p.args = {item.v : item \in Range(args.items)}
      BY <2>1 DEF Parsed
    <3> HIDE DEF p, args
    <3>7. QED BY <3>4, <3>5, <3>6
  <2>2. CASE "args" \notin Keys(n)
    BY <2>2 DEF Parsed
  <2>3. QED BY <2>1, <2>2
<1> DEFINE NoTwin == \A k \in DOMAIN p.when \cap DOMAIN site.kwargs :
                       ~ Twins(site.kwargs[k], p.when[k])
           Met == \A k \in DOMAIN p.when : /\ k \in DOMAIN site.kwargs
                                           /\ site.kwargs[k] # NotLiteral
                                           /\ site.kwargs[k] = p.when[k]
<1>4a. \A k \in DOMAIN p.when : p.when[k] = <<p.when[k][1], p.when[k][2]>>
  BY WhenLiteral
<1> HIDE DEF p
<1>5. NamesMatch(p, site) <=> site.name # Unresolved /\ Denotes(p.pattern, site.name)
  BY <1>1, <1>2, <1>3, FormsMatch DEF NamesMatch
<1>6. (p.args # EveryArg => ResolveArgIndices(p.args, site.args) # {})
        <=> (p.args = EveryArg \/ \E i \in p.args : i < site.args)
  <2>1. CASE p.args = EveryArg
    BY <2>1
  <2>2. CASE p.args # EveryArg
    <3>1. \A i \in Nat : i \in 0..(site.args - 1) <=> i < site.args
      BY <1>3
    <3>2. p.args \subseteq Nat
      BY <1>4, <2>2
    <3>3. ResolveArgIndices(p.args, site.args) = p.args \cap 0..(site.args - 1)
      BY <2>2 DEF ResolveArgIndices
    <3> HIDE DEF EveryArg
    <3>4. QED BY <2>2, <3>1, <3>2, <3>3
  <2>3. QED BY <2>1, <2>2
<1>7. /\ Met => (p.when # NoWhen => MatchWhen(p.when, site))
      /\ NoTwin => ((p.when # NoWhen => MatchWhen(p.when, site)) => Met)
  <2>1. DOMAIN NoWhen = {}
    BY DEF NoWhen
  <2>2. ASSUME NEW u, NEW v, u = <<u[1], u[2]>>, v = <<v[1], v[2]>>, ~ Twins(u, v), Equal(u, v)
        PROVE  u = v
    BY <2>2 DEF Twins, Equal
  <2>3. ASSUME NoTwin, NEW k \in DOMAIN p.when, k \in DOMAIN site.kwargs,
               Equal(site.kwargs[k], p.when[k])
        PROVE  site.kwargs[k] = p.when[k]
    <3>1. site.kwargs[k] = <<site.kwargs[k][1], site.kwargs[k][2]>>
      BY <2>3, SitesAssumption
    <3>2. ~ Twins(site.kwargs[k], p.when[k])
      BY <2>3
    <3>3. QED BY <1>4a, <2>2, <2>3, <3>1, <3>2
  <2>4. ASSUME Met
        PROVE  p.when # NoWhen => MatchWhen(p.when, site)
    BY <2>4 DEF MatchWhen, LiteralKeywords, Equal
  <2>5. ASSUME NoTwin, p.when # NoWhen => MatchWhen(p.when, site)
        PROVE  Met
    <3>1. CASE p.when = NoWhen
      BY <2>1, <3>1
    <3>2. CASE p.when # NoWhen
      <4>1. MatchWhen(p.when, site)
        BY <2>5, <3>2
      <4>2. QED BY <2>3, <2>5, <4>1 DEF MatchWhen, LiteralKeywords
    <3>3. QED BY <3>1, <3>2
  <2>6. QED BY <2>4, <2>5
<1> DEFINE Place == p.args = EveryArg \/ \E i \in p.args : i < site.args
           Named == site.name # Unresolved /\ Denotes(p.pattern, site.name)
<1>8. Documented(p, site) <=> /\ p.kind = site.kind
                              /\ Named
                              /\ site.kind = "call" => Place /\ Met
  BY Zenon DEF Documented
<1>9. Matches(p, site) <=> /\ p.kind = site.kind
                           /\ Named
                           /\ p.kind = "call" =>
                                /\ p.when # NoWhen => MatchWhen(p.when, site)
                                /\ Place
  <2>1. NamesMatch(p, site) <=> Named
    BY <1>5
  <2>2. (p.args # EveryArg => ResolveArgIndices(p.args, site.args) # {}) <=> Place
    BY <1>6
  <2> HIDE DEF Named, Place
  <2>3. QED BY <2>1, <2>2 DEF Matches, MatchCall
<1> HIDE DEF NoTwin, Met, Named, Place
<1>10. /\ Documented(p, site) => Matches(p, site)
       /\ NoTwin => (Matches(p, site) => Documented(p, site))
  BY <1>7, <1>8, <1>9
<1>11. QED BY <1>10 DEF NoTwin, p

-----------------------------------------------------------------------------
(***************************************************************************)
(* The language.  The regular expression of a pattern lets one newline     *)
(* follow it, which the reference has nothing of; no pattern of the text   *)
(* ends in one.                                                            *)
(***************************************************************************)
\* The text of a command does not change.
LEMMA LinesStay ==
  ASSUME OneLiners, [Next]_vars
  PROVE  OneLiners'
<1>1. doc' = doc
  <2>1. ParserNext => doc' = doc
    BY DEF ParserNext, CheckRoot, CheckId, CheckUnknown, CheckMissing, CheckName, CheckMessage,
           CheckCwe, CheckSeverity, CheckLanguages, StartMetadata, BuildChild, FinishMetadata,
           OpenList, CheckKeys, CheckKind, CheckPattern, CheckArgs, CheckWhen, CheckFlow, Take,
           NextList, Check
  <2>2. QED BY <2>1, CommandStep DEF vars, parserVars
<1>2. QED BY <1>1 DEF OneLiners

\* A text is accepted exactly if the reference calls it a detector: the checks
\* that it takes the parser through, in their order, leave out none of the
\* schema and ask for nothing more.
THEOREM AcceptsJustDetectors == Spec /\ OneLiners => []AcceptsExactly
<1>1. ParserInv /\ OneLiners => AcceptsExactly
  <2>1. SUFFICES ASSUME ParserInv, OneLiners PROVE AcceptsExactly
    OBVIOUS
  <2>2. ASSUME stage = "accepted" PROVE WellFormed
    <3>1. /\ IsMapping(Root) /\ FieldOK("id") /\ Keys(Root) \subseteq AllowedTop
          /\ Range(RequiredTop) \subseteq Keys(Root)
          /\ FieldOK("name") /\ FieldOK("message") /\ FieldOK("cwe") /\ FieldOK("severity")
          /\ FieldOK("languages") /\ ("metadata" \in Keys(Root) => FieldOK("metadata"))
      BY <2>1, <2>2 DEF ParserInv, TopChecked
    <3>2. \A field \in Range(Lists) : field \in Keys(Root) => FieldOK(field)
      BY <2>1, <2>2, AcceptedLists, ListFine
    <3>3. AllowedTop \subseteq {"id", "name", "message", "cwe", "severity", "languages", "metadata"}
                                 \cup Range(Lists)
      BY FieldsAre DEF AllowedTop, OptionalTop
    <3>4. \A key \in Keys(Root) \cup Range(RequiredTop) : key \in Keys(Root) /\ FieldOK(key)
      BY <3>1, <3>2, <3>3
    <3>5. QED BY <3>1, <3>4 DEF WellFormed, AtFault
  <2>3. ASSUME stage = "rejected" PROVE ~ WellFormed
    BY <2>1, <2>3 DEF ParserInv, BlameIsReal, WellFormed
  <2>4. QED BY <2>2, <2>3 DEF AcceptsExactly
<1>2. OneLiners /\ [Next]_vars => OneLiners'
  BY LinesStay
<1>3. QED BY <1>1, <1>2, ParserInductive, PTL DEF Spec

\* An accepted pattern is a well-formed one of the text.
LEMMA AcceptedNode ==
  ASSUME ParserInv, OneLiners, stage = "accepted", NEW p \in Accepted
  PROVE  \E n : /\ p = Parsed(n) /\ PatternOK(n) /\ OneLine(n)
                /\ Written(Child(n, "pattern")) /\ IsNode2(n)
<1>1. PICK field \in Range(Lists) : p \in Range(spec[field])
  BY DEF Accepted
<1>2. IsDocument(doc) /\ IsMapping(Root) /\ ListDone(field)
  BY AcceptedLists
<1>3. field \in Keys(Root)
  <2>1. Range(<<>>) = {}
    BY DEF Range
  <2>2. QED BY <1>1, <1>2, <2>1 DEF ListDone
<1>4. PICK i \in 1..Len(Items(field)) : p = Parsed(Items(field)[i])
  BY <1>1, <1>2, <1>3 DEF ListDone, Kept, Range
<1> DEFINE n == Items(field)[i]
<1>5. /\ n \in ListedNodes(doc) /\ OneLine(n) /\ Passes(field, n) /\ ElementOK(field, n)
  BY <1>2, <1>3, <1>4, ListNodes DEF ListDone, ListShape, Kept, OneLiners
<1>6. PatternOK(n)
  BY <1>5 DEF ElementOK, PropagatorOK, PlainPatternOK
<1>7. Written(Child(n, "pattern"))
  BY <1>2, <1>5, <1>6, PatternWritten DEF PatternOK
<1>8. IsNode2(n)
  <2>1. IsNode3(Child(Root, field))
    BY <1>2, <1>3, RootIsNode, ChildIn DEF IsNode4
  <2>2. i \in DOMAIN Items(field) /\ Child(Root, field).tag = "seq"
    BY <1>2, <1>3, <1>4, ListNodes DEF ListDone, ListShape
  <2>3. QED BY <2>1, <2>2, ItemIn DEF IsNode3, Items
<1> HIDE DEF n
<1>9. QED BY <1>4, <1>5, <1>6, <1>7, <1>8 DEF n

\* The parser and the matcher have one idea of the language: every pattern
\* that is accepted selects, of any sites, exactly those the wildcard table
\* and the constraints of the reference describe, types of literals included,
\* where no site gives a keyword the twin of its value.
THEOREM SelectsJustDocumented == Spec /\ OneLiners => [](NoTwins => SelectsAsDocumented)
<1>1. ParserInv /\ OneLiners => (NoTwins => SelectsAsDocumented)
  <2>1. SUFFICES ASSUME ParserInv, OneLiners, NoTwins, stage = "accepted", NEW p \in Accepted,
                        NEW site \in Sites
                 PROVE  Matches(p, site) <=> Documented(p, site)
    BY DEF SelectsAsDocumented
  <2>2. PICK n : /\ p = Parsed(n) /\ PatternOK(n) /\ OneLine(n)
                 /\ Written(Child(n, "pattern")) /\ IsNode2(n)
    BY <2>1, AcceptedNode
  <2>3. \A k \in DOMAIN p.when \cap DOMAIN site.kwargs : ~ Twins(site.kwargs[k], p.when[k])
    BY <2>1 DEF NoTwins
  <2>4. QED BY <2>2, <2>3, PatternSelects
<1>2. OneLiners /\ [Next]_vars => OneLiners'
  BY LinesStay
<1>3. QED BY <1>1, <1>2, ParserInductive, PTL DEF Spec

-----------------------------------------------------------------------------
(***************************************************************************)
(* No accepted pattern is dead: of all sites that a program can have, some *)
(* site is one that it selects.                                            *)
(***************************************************************************)
EverySite(literals) ==
  \A kind \in Kinds, name \in Literal \ {Unresolved}, args \in Nat, names \in SUBSET Identifiers :
    \A kwargs \in [names -> literals] :
      \E site \in Sites : /\ site.kind = kind /\ site.name = name
                          /\ kind = "call" => site.args = args /\ site.kwargs = kwargs

WhenAmong(literals) == \A p \in Accepted : \A k \in DOMAIN p.when : p.when[k] \in literals

\* A pattern stands for some name.
LEMMA FormDenotes ==
  ASSUME NEW p \in Seq(STRING) \ {<<>>}, IsPatternForm(p), NEW w \in Identifiers
  PROVE  \E name \in Literal \ {Unresolved} : Denotes(p, name)
<1>1. CASE p \in Literal
  BY <1>1 DEF Denotes, Unresolved
<1>2. CASE Front(p) \in Literal /\ Last(p) = Star
  <2> DEFINE f == Front(p)
             name == Append(f, w)
  <2>1. f \in Seq(Identifiers)
    BY <1>2 DEF Literal
  <2> HIDE DEF f
  <2>2. name \in Literal /\ name # <<>> /\ name[Len(f) + 1] = w /\ Len(f) + 1 \in DOMAIN name
    BY <2>1 DEF Literal
  <2>3. w \in Range(name)
    BY <2>2 DEF Range
  <2> HIDE DEF name
  <2>4. Denotes(p, name)
    BY <1>2, <2>3 DEF Denotes, name, f
  <2>5. QED BY <2>2, <2>4 DEF Unresolved
<1>3. CASE Tail(p) \in Literal /\ Head(p) = Star /\ Len(p) > 1
  <2> DEFINE t == Tail(p)
             name == <<w>> \o t
  <2>1. t \in Seq(Identifiers)
    BY <1>3 DEF Literal
  <2> HIDE DEF t
  <2>2. name \in Literal /\ Len(name) = 1 + Len(t) /\ Len(t) \in Nat /\ name[1] = w
    BY <2>1 DEF Literal
  <2>3. SubSeq(name, 1, 1) = <<w>> /\ 1 \in 1..Len(name) /\ name # <<>>
    <3>1. name \in Seq(Identifiers) /\ 1 \in 1..Len(name)
      BY <2>2 DEF Literal
    <3> HIDE DEF name
    <3>2. Len(SubSeq(name, 1, 1)) = 1 /\ SubSeq(name, 1, 1)[1] = name[1]
          /\ SubSeq(name, 1, 1) \in Seq(Identifiers)
      BY <3>1
    <3>3. SubSeq(name, 1, 1) = <<w>>
      <4> DEFINE q == SubSeq(name, 1, 1)
      <4>1. q \in Seq(Identifiers) /\ Len(q) = 1 /\ q[1] = w
        BY <2>2, <3>2
      <4> HIDE DEF q
      <4>2. q = <<w>>
        BY <4>1
      <4>3. QED BY <4>2 DEF q
    <3>4. QED BY <3>1, <3>3
  <2>4. name = SubSeq(name, 1, 1) \o t
    BY <2>3
  <2> HIDE DEF name
  <2>5. Denotes(p, name)
    BY <1>3, <2>3, <2>4 DEF Denotes, t
  <2>6. QED BY <2>2, <2>3, <2>5 DEF Unresolved
<1>4. CASE Tail(p) \in Literal /\ Head(p) = Star /\ ~ (Len(p) > 1)
  <2> DEFINE S == STRING
  <2>1. p \in Seq(S) /\ p # <<>>
    OBVIOUS
  <2> HIDE DEF S
  <2>2. Len(p) = 1
    <3> DEFINE n == Len(p)
    <3>1. n \in Nat /\ n # 0 /\ ~ (n > 1)
      BY <1>4, <2>1
    <3> HIDE DEF n
    <3>2. n = 1
      BY <3>1
    <3>3. QED BY <3>2 DEF n
  <2>3. Last(p) = Star /\ Front(p) = <<>>
    BY <1>4, <2>1, <2>2 DEF Last, Front
  <2>4. <<>> \in Literal
    BY DEF Literal
  <2>5. QED BY <1>2, <2>3, <2>4
<1>5. QED BY <1>1, <1>2, <1>3, <1>4 DEF IsPatternForm

\* Its constraints can be met.
LEMMA ConstraintsMet ==
  ASSUME NEW n, PatternOK(n), IsNode2(n)
  PROVE  /\ Parsed(n).kind \in Kinds
         /\ Parsed(n).args = EveryArg \/ \E i \in Parsed(n).args : i \in Nat
         /\ \A k \in DOMAIN Parsed(n).when : k \in Identifiers /\ Parsed(n).when[k] # NotLiteral
<1> DEFINE args == Child(n, "args")
<1>1. /\ IsMapping(n) /\ Child(n, "kind").v \in Kinds
      /\ "args" \in Keys(n) => ArgsOK(args)
  BY DEF PatternOK, Optional
<1>2. Parsed(n).args = EveryArg \/ \E i \in Parsed(n).args : i \in Nat
  <2>1. CASE "args" \in Keys(n)
    <3>1. IsNode1(args) /\ ArgsOK(args)
      BY <1>1, <2>1, ChildIn DEF IsNode2
    <3>2. /\ args.items \in Seq(Children(args)) /\ args.items # <<>>
          /\ \A i \in DOMAIN args.items : args.items[i] \in Children(args)
      BY <3>1, ItemIn DEF IsNode1, ArgsOK
    <3>3. 1 \in DOMAIN args.items
      <4> DEFINE S == Children(args)
                 q == args.items
      <4>1. q \in Seq(S) /\ q # <<>>
        BY <3>2
      <4> HIDE DEF S, q
      <4>2. 1 \in DOMAIN q
        BY <4>1
      <4>3. QED BY <4>2 DEF q
    <3> DEFINE item == args.items[1]
    <3>4. IsNode(item) /\ item \in Range(args.items)
      BY <3>1, <3>2, <3>3 DEF IsNode1, Range
    <3>5. item.v \in Int /\ item.v >= 0
      BY <3>1, <3>4 DEF IsNode, ArgsOK
    <3>6. Parsed(n).args = {c.v : c \in Range(args.items)}
      BY <2>1 DEF Parsed
    <3>7. item.v \in Parsed(n).args
      BY <3>4, <3>6
    <3> HIDE DEF item
    <3>8. QED BY <3>5, <3>7
  <2>2. CASE "args" \notin Keys(n)
    BY <2>2 DEF Parsed
  <2>3. QED BY <2>1, <2>2
<1>3. \A k \in DOMAIN Parsed(n).when : k \in Identifiers /\ Parsed(n).when[k] # NotLiteral
  BY WhenLiteral
<1>4. Parsed(n).kind \in Kinds
  BY <1>1 DEF Parsed
<1>5. QED BY <1>2, <1>3, <1>4

\* No silently dead rule: whatever a detector writes that the parser accepts,
\* each of its patterns selects some site of those that programs can have -
\* with the keywords it asks for, each given as the literal of the pattern.
THEOREM NoneDead ==
  ASSUME NEW literals, EverySite(literals), Identifiers # {}
  PROVE  Spec /\ OneLiners => [](WhenAmong(literals) => NoDeadPattern)
<1>1. ParserInv /\ OneLiners => (WhenAmong(literals) => NoDeadPattern)
  <2>1. SUFFICES ASSUME ParserInv, OneLiners, WhenAmong(literals), stage = "accepted",
                        NEW p \in Accepted
                 PROVE  \E site \in Sites : Matches(p, site)
    BY DEF NoDeadPattern
  <2>2. PICK n : /\ p = Parsed(n) /\ PatternOK(n) /\ OneLine(n)
                 /\ Written(Child(n, "pattern")) /\ IsNode2(n)
    BY <2>1, AcceptedNode
  <2>3. p.pattern \in Seq(STRING) \ {<<>>} /\ IsPatternForm(p.pattern)
    <3>1. Child(n, "pattern").tag = "str" /\ IsPatternForm(Child(n, "pattern").v)
      BY <2>2 DEF PatternOK
    <3>2. p.pattern = Child(n, "pattern").v
      BY <2>2, <3>1 DEF Parsed, Segments, OneLine, IsText
    <3>3. QED BY <2>2, <3>1, <3>2 DEF Written
  <2>4. PICK name \in Literal \ {Unresolved} : Denotes(p.pattern, name)
    BY <2>3, FormDenotes
  <2>5. /\ p.kind \in Kinds
        /\ p.args = EveryArg \/ \E i \in p.args : i \in Nat
        /\ \A k \in DOMAIN p.when : k \in Identifiers /\ p.when[k] # NotLiteral
    BY <2>2, ConstraintsMet
  <2>6. PICK count \in Nat : p.args = EveryArg \/ \E i \in p.args : i < count
    <3>1. CASE p.args = EveryArg
      BY <3>1
    <3>2. ASSUME NEW i \in p.args, i \in Nat
          PROVE  \E c \in Nat : \E j \in p.args : j < c
      <4>1. i + 1 \in Nat /\ i < i + 1
        BY <3>2
      <4>2. QED BY <4>1
    <3>3. QED BY <2>5, <3>1, <3>2
  <2> DEFINE names == DOMAIN p.when
             kwargs == [k \in names |-> p.when[k]]
  <2>7. names \in SUBSET Identifiers /\ kwargs \in [names -> literals]
    BY <2>1, <2>5 DEF WhenAmong
  <2>8. DOMAIN kwargs = names /\ \A k \in names : kwargs[k] = p.when[k]
    OBVIOUS
  <2> HIDE DEF names, kwargs
  <2>9. PICK site \in Sites : /\ site.kind = p.kind /\ site.name = name
                              /\ p.kind = "call" => site.args = count /\ site.kwargs = kwargs
    BY <2>5, <2>7 DEF EverySite
  <2>10. ASSUME site.kind = "call"
         PROVE  /\ p.args = EveryArg \/ \E i \in p.args : i < site.args
                /\ \A k \in DOMAIN p.when : /\ k \in DOMAIN site.kwargs
                                             /\ site.kwargs[k] # NotLiteral
                                             /\ site.kwargs[k] = p.when[k]
    BY <2>5, <2>6, <2>8, <2>9, <2>10 DEF names
  <2>11. Documented(p, site)
    BY <2>4, <2>9, <2>10 DEF Documented
  <2>12. QED BY <2>2, <2>11, PatternSelects
<1>2. OneLiners /\ [Next]_vars => OneLiners'
  BY LinesStay
<1>3. QED BY <1>1, <1>2, ParserInductive, PTL DEF Spec

=============================================================================
