-------------------------- MODULE DiscoveryProofs --------------------------
(***************************************************************************)
(* Theorems about Discovery: that the rules a walk applies as it goes are  *)
(* git's, and that it finds just what they leave.                          *)
(***************************************************************************)
EXTENDS Discovery, FiniteSetTheorems, SequenceTheorems, WellFoundedInduction, TLAPS

\* A set of natural numbers that is not empty has a least element.
LEMMA LeastOf ==
  ASSUME NEW S \in SUBSET Nat, S # {}
  PROVE  \E n \in S : \A m \in S : n <= m
<1>1. IsWellFoundedOn(OpToRel(<, Nat), Nat)
  BY NatLessThanWellFounded
<1>2. PICK n \in S : \A m \in S : ~ (<<m, n>> \in OpToRel(<, Nat))
  BY <1>1, WFMin, Zenon
<1>3. \A m \in S : ~ (m < n)
  BY <1>2 DEF OpToRel
<1>4. QED BY <1>3

(***************************************************************************)
(* Folds.  FoldLeft recurs over the sets of positions, taking the last one *)
(* away; a table of the steps shows that this recursion has a solution.    *)
(***************************************************************************)
\* A set of positions has a last one.
LEMMA LastPosition ==
  ASSUME NEW n \in Nat, NEW s \in SUBSET (1..n), s # {}
  PROVE  Max(s) \in s /\ \A i \in s : i <= Max(s)
<1> DEFINE gaps == {n - i : i \in s}
<1>1. \A i \in s : i \in 1..n /\ n - i \in Nat /\ n - i \in gaps
  OBVIOUS
<1>2. gaps \in SUBSET Nat /\ gaps # {}
  BY <1>1
<1>3. PICK g \in gaps : \A h \in gaps : g <= h
  BY <1>2, LeastOf
<1>4. PICK m \in s : g = n - m
  BY <1>3
<1>5. \A i \in s : m >= i
  <2> SUFFICES ASSUME NEW i \in s PROVE m >= i
    OBVIOUS
  <2>1. n - m <= n - i
    BY <1>1, <1>3, <1>4
  <2>2. QED BY <1>1, <2>1
<1>6. \E x \in s : \A i \in s : x >= i
  BY <1>5
<1>7. Max(s) \in s /\ \A i \in s : Max(s) >= i
  BY <1>6 DEF Max
<1>8. QED BY <1>1, <1>7

\* The steps of a fold over n positions, one function for each position.
Tables(n, Acc) == [1..n -> [Acc -> Acc]]

Tabled(it, n, base, table) ==
  \A s \in SUBSET (1..n) : it[s] = IF s = {} THEN base ELSE table[Max(s)][it[s \ {Max(s)}]]

\* By the least number of positions for which it had none.
LEMMA FoldTable ==
  ASSUME NEW n \in Nat, NEW Acc, NEW base \in Acc, NEW table \in Tables(n, Acc)
  PROVE  \E it \in [SUBSET (1..n) -> Acc] : Tabled(it, n, base, table)
<1> DEFINE Has(k) == \E it \in [SUBSET (1..k) -> Acc] : Tabled(it, k, base, table)
           missing == {k \in 0..n : ~ Has(k)}
<1>1. missing = {}
  <2> SUFFICES ASSUME missing # {} PROVE FALSE
    OBVIOUS
  <2>1. missing \in SUBSET Nat
    OBVIOUS
  <2>2. PICK k \in missing : \A m \in missing : k <= m
    BY <2>1, LeastOf
  <2>3. k \in 0..n /\ k \in Nat /\ ~ Has(k)
    <3> HIDE DEF Has
    <3>1. QED BY <2>2
  <2>4. CASE k = 0
    <3> DEFINE it == [s \in SUBSET (1..k) |-> base]
    <3>1. \A s \in SUBSET (1..k) : s = {}
      BY <2>4
    <3>2. it \in [SUBSET (1..k) -> Acc] /\ Tabled(it, k, base, table)
      BY <3>1 DEF Tabled
    <3>3. QED BY <2>3, <3>2
  <2>5. CASE k > 0
    <3>1. k - 1 \in 0..n /\ ~ (k <= k - 1) /\ k \in 1..n
      BY <2>3, <2>5
    <3>2. Has(k - 1)
      <4> HIDE DEF Has
      <4>1. k - 1 \notin missing
        BY <2>2, <3>1
      <4>2. QED BY <3>1, <4>1
    <3>3. PICK g \in [SUBSET (1..(k - 1)) -> Acc] : Tabled(g, k - 1, base, table)
      BY <3>2
    <3> DEFINE it == [s \in SUBSET (1..k) |-> IF k \in s THEN table[k][g[s \ {k}]] ELSE g[s]]
    <3>4. \A s \in SUBSET (1..k) : s \ {k} \in SUBSET (1..(k - 1)) /\ g[s \ {k}] \in Acc
      BY <2>3
    <3>5. \A s \in SUBSET (1..k) : k \notin s => s \in SUBSET (1..(k - 1)) /\ g[s] \in Acc
      BY <3>4
    <3>6. table[k] \in [Acc -> Acc]
      BY <3>1 DEF Tables
    <3>7. it \in [SUBSET (1..k) -> Acc]
      BY <3>4, <3>5, <3>6
    <3>8. ASSUME NEW s \in SUBSET (1..k)
          PROVE  it[s] = IF s = {} THEN base ELSE table[Max(s)][it[s \ {Max(s)}]]
      <4>1. CASE s = {}
        BY <3>3, <3>5, <4>1 DEF Tabled
      <4>2. CASE s # {} /\ k \in s
        <5>1. Max(s) \in s /\ \A i \in s : i <= Max(s)
          <6> HIDE DEF missing, it
          <6>1. QED BY <2>3, <4>2, LastPosition
        <5>2. Max(s) = k
          <6> HIDE DEF missing, it
          <6>1. Max(s) \in 1..k /\ k <= Max(s)
            BY <4>2, <5>1
          <6>2. QED BY <2>3, <6>1
        <5>3. s \ {k} \in SUBSET (1..k) /\ it[s \ {k}] = g[s \ {k}]
          BY <3>4
        <5>4. QED BY <4>2, <5>2, <5>3
      <4>3. CASE s # {} /\ k \notin s
        <5>1. s \in SUBSET (1..(k - 1)) /\ k - 1 \in Nat
          BY <3>1, <3>5, <4>3
        <5>2. Max(s) \in s
          BY <4>3, <5>1, LastPosition
        <5>3. s \ {Max(s)} \in SUBSET (1..k) /\ k \notin s \ {Max(s)}
          BY <4>3
        <5>4. it[s] = g[s] /\ it[s \ {Max(s)}] = g[s \ {Max(s)}]
          BY <4>3, <5>3
        <5>5. QED BY <3>3, <4>3, <5>1, <5>4 DEF Tabled
      <4>4. QED BY <4>1, <4>2, <4>3
    <3>9. Tabled(it, k, base, table)
      BY <3>8 DEF Tabled
    <3>10. QED BY <2>3, <3>7, <3>9
  <2>6. QED BY <2>3, <2>4, <2>5
<1>2. n \in 0..n
  OBVIOUS
<1>3. QED BY <1>1, <1>2

\* The positions up to k, and what is left of them without the last.
LEMMA FirstPositions ==
  ASSUME NEW n \in Nat, NEW k \in 1..n
  PROVE  1..k \in SUBSET (1..n) /\ 1..k # {} /\ Max(1..k) = k /\ (1..k) \ {k} = 1..(k - 1)
<1>1. 1..k \in SUBSET (1..n) /\ 1..k # {}
  OBVIOUS
<1>2. Max(1..k) \in 1..k /\ \A i \in 1..k : i <= Max(1..k)
  BY <1>1, LastPosition
<1>3. Max(1..k) = k
  BY <1>2
<1>4. (1..k) \ {k} = 1..(k - 1)
  OBVIOUS
<1>5. QED BY <1>1, <1>3, <1>4

\* The values of the fold one after the other.
LEMMA StepByStep ==
  ASSUME NEW n \in Nat, NEW base, NEW table, NEW it, Tabled(it, n, base, table)
  PROVE  it[1..0] = base /\ \A k \in 1..n : it[1..k] = table[k][it[1..(k - 1)]]
<1>1. it[1..0] = base
  BY DEF Tabled
<1>2. ASSUME NEW k \in 1..n PROVE it[1..k] = table[k][it[1..(k - 1)]]
  <2>1. 1..k \in SUBSET (1..n) /\ 1..k # {} /\ Max(1..k) = k /\ (1..k) \ {k} = 1..(k - 1)
    BY FirstPositions
  <2>2. QED BY <2>1 DEF Tabled
<1>3. QED BY <1>1, <1>2

\* A recursion over the numbers up to n has a solution.
LEMMA Recursion ==
  ASSUME NEW n \in Nat, NEW Acc, NEW base \in Acc, NEW table \in Tables(n, Acc)
  PROVE  \E h \in [0..n -> Acc] : h[0] = base /\ \A k \in 1..n : h[k] = table[k][h[k - 1]]
<1>1. PICK it \in [SUBSET (1..n) -> Acc] : Tabled(it, n, base, table)
  BY FoldTable
<1>2. it[1..0] = base /\ \A k \in 1..n : it[1..k] = table[k][it[1..(k - 1)]]
  BY <1>1, StepByStep
<1> DEFINE h == [k \in 0..n |-> it[1..k]]
<1>3. h \in [0..n -> Acc]
  <2>1. \A k \in 0..n : 1..k \in SUBSET (1..n)
    OBVIOUS
  <2>2. QED BY <2>1
<1>4. \A k \in 1..n : k \in 0..n /\ k - 1 \in 0..n
  OBVIOUS
<1>5. h[0] = base /\ \A k \in 1..n : h[k] = table[k][h[k - 1]]
  BY <1>2, <1>4
<1>6. QED BY <1>3, <1>5

-----------------------------------------------------------------------------
(***************************************************************************)
(* Globs.  Where there is no **, fnmatch and git differ in the tokens at   *)
(* which a star stops: none, or the slash.                                 *)
(***************************************************************************)
Text == Seq(STRING \cup {"/"})

\* Where a token can begin that what follows it can follow.
Before(name, token, stops, ends) ==
  IF token \in Stars
  THEN {i \in 1..(Len(name) + 1) :
          \E k \in ends : i <= k /\ \A t \in i..(k - 1) : name[t] \notin stops}
  ELSE {i \in DOMAIN name : name[i] = token /\ i + 1 \in ends}

IsRest(r, name, glob, stops) ==
  r = [j \in 1..(Len(glob) + 1) |->
        IF j > Len(glob) THEN {Len(name) + 1} ELSE Before(name, glob[j], stops, r[j + 1])]

RestOf(name, glob, stops) == CHOOSE r : IsRest(r, name, glob, stops)

Rest(name, glob, stops, j) == RestOf(name, glob, stops)[j]

Matched(name, glob, stops) == 1 \in Rest(name, glob, stops, 1)

\* The recursion runs from the end of the glob to its beginning.
LEMMA RestExists ==
  ASSUME NEW name \in Text, NEW glob \in Text, NEW stops
  PROVE  IsRest(RestOf(name, glob, stops), name, glob, stops)
<1> DEFINE n == Len(glob)
           Acc == SUBSET (1..(Len(name) + 1))
           move(j, a) == Before(name, glob[j], stops, a)
           table == [k \in 1..n |-> [a \in Acc |-> move(n + 1 - k, a)]]
<1>1. n \in Nat /\ Len(name) \in Nat /\ DOMAIN name = 1..Len(name)
  BY DEF Text
<1>2. {Len(name) + 1} \in Acc
  BY <1>1
<1>3. \A j, a : move(j, a) \in Acc
  BY <1>1 DEF Before
<1> HIDE DEF move, Acc, n
<1>4. table \in Tables(n, Acc)
  BY <1>3 DEF Tables
<1>5. \A k \in 1..n, a \in Acc : table[k][a] = move(n + 1 - k, a)
  OBVIOUS
<1> HIDE DEF table
<1>6. PICK h \in [0..n -> Acc] : h[0] = {Len(name) + 1} /\ \A k \in 1..n : h[k] = table[k][h[k - 1]]
  BY <1>1, <1>2, <1>4, Recursion
<1> DEFINE r == [j \in 1..(n + 1) |-> h[n + 1 - j]]
<1>7. ASSUME NEW j \in 1..(n + 1)
      PROVE  r[j] = IF j > n THEN {Len(name) + 1} ELSE move(j, r[j + 1])
  <2>1. CASE j = n + 1
    BY <1>1, <1>6, <2>1
  <2>2. CASE j # n + 1
    <3>1. j \in 1..n /\ n + 1 - j \in 1..n /\ n + 1 - j - 1 = n + 1 - (j + 1) /\ n + 1 - (n + 1 - j) = j
          /\ n + 1 - (j + 1) \in 0..n /\ j + 1 \in 1..(n + 1)
      BY <1>1, <2>2
    <3>2. h[n + 1 - (j + 1)] \in Acc
      BY <1>6, <3>1
    <3>3. h[n + 1 - j] = move(j, h[n + 1 - (j + 1)])
      <4> DEFINE k == n + 1 - j
      <4>1. k \in 1..n /\ k - 1 = n + 1 - (j + 1) /\ n + 1 - k = j
        BY <1>1, <3>1
      <4> HIDE DEF k
      <4>2. h[k] = table[k][h[k - 1]] /\ h[k - 1] \in Acc
        BY <1>6, <3>2, <4>1
      <4>3. h[k] = move(j, h[k - 1])
        BY <1>5, <4>1, <4>2
      <4>4. QED BY <4>1, <4>3 DEF k
    <3>4. QED BY <1>1, <3>1, <3>3
  <2>3. QED BY <2>1, <2>2
<1>8. r = [j \in 1..(n + 1) |-> IF j > n THEN {Len(name) + 1} ELSE move(j, r[j + 1])]
  BY <1>7
<1> HIDE DEF r
<1>9. IsRest(r, name, glob, stops)
  BY <1>8 DEF IsRest, move, n
<1>10. QED BY <1>9 DEF RestOf

\* Its steps: the end of the glob, a star, a token.
LEMMA RestEnd ==
  ASSUME NEW name \in Text, NEW glob \in Text, NEW stops
  PROVE  Rest(name, glob, stops, Len(glob) + 1) = {Len(name) + 1}
<1> DEFINE r == RestOf(name, glob, stops)
<1>1. IsRest(r, name, glob, stops)
  BY RestExists
<1>2. Len(glob) \in Nat
  BY DEF Text
<1> HIDE DEF r
<1>3. r[Len(glob) + 1] = {Len(name) + 1}
  BY <1>1, <1>2 DEF IsRest
<1>4. QED BY <1>3 DEF Rest, r

\* Before the end, it goes back by one token of the glob.
LEMMA RestStep ==
  ASSUME NEW name \in Text, NEW glob \in Text, NEW stops, NEW j \in 1..Len(glob)
  PROVE  Rest(name, glob, stops, j) = Before(name, glob[j], stops, Rest(name, glob, stops, j + 1))
<1>1. IsRest(RestOf(name, glob, stops), name, glob, stops)
  BY RestExists
<1>2. j \in 1..(Len(glob) + 1) /\ ~ (j > Len(glob))
  BY DEF Text
<1>3. QED BY <1>1, <1>2, Zenon DEF IsRest, Rest

\* fnmatch is the glob that stops at nothing.
LEMMA FnmatchIs ==
  ASSUME NEW name \in Text, NEW glob \in Text
  PROVE  Fnmatch(name, glob) <=> Matched(name, glob, {})
<1> DEFINE body(r) ==
      [j \in 1..(Len(glob) + 1) |->
        IF j > Len(glob) THEN {Len(name) + 1}
        ELSE IF glob[j] \in Stars
             THEN {i \in 1..(Len(name) + 1) : \E k \in r[j + 1] : i <= k}
             ELSE {i \in DOMAIN name : name[i] = glob[j] /\ i + 1 \in r[j + 1]}]
<1>1. \A r : r = body(r) <=> IsRest(r, name, glob, {})
  BY DEF IsRest, Before
<1>2. (CHOOSE r : r = body(r)) = RestOf(name, glob, {})
  <2> HIDE DEF body
  <2>1. QED BY <1>1, Zenon DEF RestOf
<1>3. Fnmatch(name, glob) <=> 1 \in (CHOOSE r : r = body(r))[1]
  BY DEF Fnmatch
<1>4. QED BY <1>2, <1>3 DEF Matched, Rest

\* Without **, git's is the one that stops at the slash.
LEMMA GitGlobIs ==
  ASSUME NEW name \in Text, NEW glob \in Text, "**" \notin Range(glob)
  PROVE  GitGlob(name, glob) <=> Matched(name, glob, {"/"})
<1> DEFINE whole(j) == glob[j] = "**" /\ (j = 1 \/ glob[j - 1] = "/")
           move(r, j) ==
             IF glob[j] \in Stars
             THEN {i \in 1..(Len(name) + 1) :
                     \E k \in r[j + 1] : i <= k /\ \A t \in i..(k - 1) : name[t] # "/"}
             ELSE {i \in DOMAIN name : name[i] = glob[j] /\ i + 1 \in r[j + 1]}
           body(r) ==
             [j \in 1..(Len(glob) + 1) |->
               IF j > Len(glob) THEN {Len(name) + 1}
               ELSE IF whole(j) /\ j = Len(glob) THEN DOMAIN name
               ELSE IF whole(j) /\ glob[j + 1] = "/"
                    THEN {i \in 1..(Len(name) + 1) :
                            \E k \in r[j + 2] : i = k \/ (i < k /\ name[k - 1] = "/")}
               ELSE move(r, j)]
<1>1. \A j \in 1..(Len(glob) + 1) : j > Len(glob) \/ ~ whole(j)
  BY DEF Range, Text
<1>2. \A r : body(r) = [j \in 1..(Len(glob) + 1) |->
                          IF j > Len(glob) THEN {Len(name) + 1} ELSE move(r, j)]
  <2> HIDE DEF whole, move
  <2>1. QED BY <1>1
<1>3. \A r : r = body(r) <=> IsRest(r, name, glob, {"/"})
  <2> DEFINE step(r, j) == Before(name, glob[j], {"/"}, r[j + 1])
  <2>1. \A r, j : move(r, j) = step(r, j)
    BY DEF Before
  <2>2. \A r : IsRest(r, name, glob, {"/"}) <=>
          r = [j \in 1..(Len(glob) + 1) |->
                 IF j > Len(glob) THEN {Len(name) + 1} ELSE step(r, j)]
    BY DEF IsRest
  <2> HIDE DEF body, move, step
  <2>3. QED BY <1>2, <2>1, <2>2
<1>4. (CHOOSE r : r = body(r)) = RestOf(name, glob, {"/"})
  <2> HIDE DEF body
  <2>1. QED BY <1>3, Zenon DEF RestOf
<1>5. GitGlob(name, glob) <=> 1 \in (CHOOSE r : r = body(r))[1]
  BY DEF GitGlob
<1>6. QED BY <1>4, <1>5 DEF Matched, Rest

\* A name is matched by both alike.
LEMMA AlikeOnNames ==
  ASSUME NEW name \in Text, NEW glob \in Text, "/" \notin Range(name)
  PROVE  Matched(name, glob, {}) <=> Matched(name, glob, {"/"})
<1> DEFINE n == Len(glob)
           r(j) == Rest(name, glob, {}, j)
           g(j) == Rest(name, glob, {"/"}, j)
           Same(j) == r(j) = g(j) /\ r(j) \subseteq 1..(Len(name) + 1)
           differ == {m \in 0..n : ~ Same(n + 1 - m)}
<1>1. DOMAIN name = 1..Len(name) /\ Len(name) \in Nat /\ n \in Nat
  BY DEF Text
<1>2. \A t \in 1..Len(name) : name[t] # "/"
  BY <1>1 DEF Range
<1>3. Same(n + 1)
  <2>1. {Len(name) + 1} \subseteq 1..(Len(name) + 1)
    BY <1>1
  <2>2. QED BY <2>1, RestEnd
<1>4. ASSUME NEW j \in 1..n, Same(j + 1) PROVE Same(j)
  <2>1. CASE glob[j] \in Stars
    <3>1. /\ r(j) = {i \in 1..(Len(name) + 1) :
                      \E k \in r(j + 1) : i <= k /\ \A t \in i..(k - 1) : name[t] \notin {}}
          /\ g(j) = {i \in 1..(Len(name) + 1) :
                      \E k \in g(j + 1) : i <= k /\ \A t \in i..(k - 1) : name[t] \notin {"/"}}
      BY <2>1, RestStep DEF Before
    <3> HIDE DEF r, g
    <3>2. ASSUME NEW k \in r(j + 1), NEW i \in 1..(Len(name) + 1), NEW t \in i..(k - 1)
          PROVE  name[t] # "/"
      <4>1. t \in 1..Len(name)
        BY <1>1, <1>4
      <4>2. QED BY <1>2, <4>1
    <3>3. QED BY <1>4, <3>1, <3>2
  <2>2. CASE glob[j] \notin Stars
    <3>1. /\ r(j) = {i \in DOMAIN name : name[i] = glob[j] /\ i + 1 \in r(j + 1)}
          /\ g(j) = {i \in DOMAIN name : name[i] = glob[j] /\ i + 1 \in g(j + 1)}
      BY <2>2, RestStep DEF Before
    <3> HIDE DEF r, g
    <3>2. QED BY <1>1, <1>4, <3>1
  <2>3. QED BY <2>1, <2>2
<1>5. differ = {}
  <2> HIDE DEF Same
  <2> SUFFICES ASSUME differ # {} PROVE FALSE
    OBVIOUS
  <2>1. differ \in SUBSET Nat
    BY <1>1
  <2>2. PICK m \in differ : \A d \in differ : m <= d
    BY <2>1, LeastOf
  <2>3. m \in 1..n /\ n + 1 - m \in 1..n /\ n + 1 - (m - 1) = (n + 1 - m) + 1
    BY <1>1, <1>3, <2>2
  <2>4. m - 1 \notin differ /\ m - 1 \in 0..n
    BY <2>2, <2>3
  <2>5. Same((n + 1 - m) + 1)
    BY <2>3, <2>4
  <2>6. Same(n + 1 - m)
    BY <1>4, <2>3, <2>5
  <2>7. QED BY <2>2, <2>6
<1>6. Same(1)
  <2> HIDE DEF Same
  <2>1. n \in 0..n /\ n + 1 - n = 1
    BY <1>1
  <2>2. QED BY <1>5, <2>1
<1>7. QED BY <1>6 DEF Matched

\* What matches ends as the glob does, if that is no star.
LEMMA SameEnd ==
  ASSUME NEW name \in Text, NEW glob \in Text, NEW stops, Matched(name, glob, stops),
         glob # <<>>, Last(glob) \notin Stars
  PROVE  name # <<>> /\ Last(name) = Last(glob)
<1> DEFINE n == Len(glob)
           r(j) == Rest(name, glob, stops, j)
           Ends == name # <<>> /\ Last(name) = Last(glob)
           open == {m \in Nat : m < n /\ r(n - m) # {}}
<1> SUFFICES ASSUME ~ Ends PROVE FALSE
  OBVIOUS
<1>1. /\ DOMAIN name = 1..Len(name) /\ Len(name) \in Nat /\ n \in Nat /\ n > 0
      /\ glob[n] \notin Stars
  BY DEF Text, Last
<1>2. r(n + 1) = {Len(name) + 1}
  BY RestEnd
<1>3. r(1) # {}
  BY DEF Matched
<1> HIDE DEF Ends
<1>4. open \in SUBSET Nat /\ open # {}
  <2>1. n - 1 \in open
    BY <1>1, <1>3
  <2>2. QED BY <2>1
<1>5. PICK m \in open : \A o \in open : m <= o
  BY <1>4, LeastOf
<1> DEFINE j == n - m
<1>6. m \in Nat /\ m < n /\ j \in 1..n /\ r(j) # {} /\ j = n - m
  BY <1>1, <1>5
<1> HIDE DEF j
<1>7. r(j) = Before(name, glob[j], stops, r(j + 1))
  BY <1>6, RestStep
<1>8. r(j + 1) # {}
  BY <1>6, <1>7 DEF Before
<1>9. m = 0
  <2> SUFFICES ASSUME m # 0 PROVE FALSE
    OBVIOUS
  <2>1. m - 1 \in Nat /\ m - 1 < n /\ n - (m - 1) = j + 1
    BY <1>1, <1>6
  <2>2. m - 1 \in open
    BY <1>8, <2>1
  <2>3. m <= m - 1
    BY <1>5, <2>2
  <2>4. QED BY <1>6, <2>3
<1>10. j = n
  BY <1>1, <1>6, <1>9
<1>11. PICK i \in DOMAIN name : name[i] = glob[n] /\ i + 1 \in r(n + 1)
  BY <1>1, <1>6, <1>7, <1>10 DEF Before
<1>12. i = Len(name)
  BY <1>1, <1>2, <1>11
<1>13. QED BY <1>1, <1>11, <1>12 DEF Ends, Last

\* The part before the first star matches token by token.
LEMMA LiteralPart ==
  ASSUME NEW name \in Text, NEW glob \in Text, NEW stops,
         NEW n \in 0..Len(glob), \A t \in 1..n : glob[t] \notin Stars
  PROVE  Matched(name, glob, stops) <=>
           /\ n <= Len(name) /\ \A t \in 1..n : name[t] = glob[t]
           /\ n + 1 \in Rest(name, glob, stops, n + 1)
<1> DEFINE r(j) == Rest(name, glob, stops, j)
           Upto(k) == /\ k <= Len(name) /\ \A t \in 1..k : name[t] = glob[t]
                      /\ k + 1 \in r(k + 1)
           wrong == {k \in 0..n : ~ (Matched(name, glob, stops) <=> Upto(k))}
<1>1. DOMAIN name = 1..Len(name) /\ Len(name) \in Nat /\ Len(glob) \in Nat
  BY DEF Text
<1>2. Matched(name, glob, stops) <=> Upto(0)
  BY <1>1 DEF Matched
<1>3. ASSUME NEW k \in 1..n PROVE Upto(k - 1) <=> Upto(k)
  <2>1. k \in 1..Len(glob) /\ glob[k] \notin Stars /\ (k - 1) + 1 = k
    BY <1>1, <1>3
  <2>2. r(k) = {i \in DOMAIN name : name[i] = glob[k] /\ i + 1 \in r(k + 1)}
    BY <2>1, RestStep DEF Before
  <2> HIDE DEF r
  <2>3. k \in r(k) <=> k <= Len(name) /\ name[k] = glob[k] /\ k + 1 \in r(k + 1)
    BY <1>1, <2>1, <2>2
  <2>4. QED BY <1>1, <2>1, <2>3
<1>4. wrong = {}
  <2> HIDE DEF Upto
  <2> SUFFICES ASSUME wrong # {} PROVE FALSE
    OBVIOUS
  <2>1. wrong \in SUBSET Nat
    OBVIOUS
  <2>2. PICK k \in wrong : \A m \in wrong : k <= m
    BY <2>1, LeastOf
  <2>3. k \in 1..n /\ k - 1 \in 0..n /\ ~ (k <= k - 1)
    BY <1>2, <2>2
  <2>4. k - 1 \notin wrong
    BY <2>2, <2>3
  <2>5. QED BY <1>3, <2>2, <2>3, <2>4
<1>5. n \in 0..n
  BY <1>1
<1>6. QED BY <1>4, <1>5

-----------------------------------------------------------------------------
(***************************************************************************)
(* Paths as text.                                                          *)
(***************************************************************************)
\* What as_posix has of the names so far, and the next one.
Joined(text, name) == IF text = <<>> THEN name ELSE text \o <<"/">> \o name

PosixFold(it, p) ==
  it = [s \in SUBSET (DOMAIN p) |->
         IF s = {} THEN <<>> ELSE Joined(it[s \ {Max(s)}], p[Max(s)])]

IsJoined(h, p, n) == h[0] = <<>> /\ \A k \in 1..n : h[k] = Joined(h[k - 1], p[k])

\* The text of a path comes about name by name.
LEMMA PosixSteps ==
  ASSUME NEW p \in Seq(Text)
  PROVE  \E h : IsJoined(h, p, Len(p)) /\ Posix(p) = h[Len(p)]
<1> DEFINE n == Len(p)
           iter == CHOOSE it : PosixFold(it, p)
           table == [k \in 1..n |-> [t \in Text |-> Joined(t, p[k])]]
<1>1. n \in Nat /\ DOMAIN p = 1..n /\ \A k \in 1..n : p[k] \in Text
  OBVIOUS
<1>2. Posix(p) = iter[1..n]
  BY <1>1 DEF Posix, FoldLeft, MapThenFoldSet, PosixFold, Joined
<1>3. \A t, u \in Text : Joined(t, u) \in Text
  <2> SUFFICES ASSUME NEW t \in Text, NEW u \in Text PROVE t \o <<"/">> \o u \in Text
    BY DEF Joined
  <2>1. "/" \in STRING \cup {"/"}
    OBVIOUS
  <2>2. <<"/">> \in Text
    BY <2>1 DEF Text
  <2>3. QED BY <2>2 DEF Text
<1>4. table \in Tables(n, Text) /\ <<>> \in Text
  BY <1>1, <1>3 DEF Tables, Text
<1>5. \A k \in 1..n, t \in Text : table[k][t] = Joined(t, p[k])
  OBVIOUS
<1> HIDE DEF iter, n, table
<1>6. PICK it \in [SUBSET (1..n) -> Text] : Tabled(it, n, <<>>, table)
  BY <1>1, <1>4, FoldTable
<1>7. PosixFold(it, p)
  <2>1. ASSUME NEW s \in SUBSET (1..n), s # {}
        PROVE  it[s] = Joined(it[s \ {Max(s)}], p[Max(s)])
    <3>1. Max(s) \in 1..n /\ s \ {Max(s)} \in SUBSET (1..n)
      BY <1>1, <2>1, LastPosition
    <3>2. it[s \ {Max(s)}] \in Text
      BY <3>1
    <3>3. it[s] = table[Max(s)][it[s \ {Max(s)}]]
      BY <1>6, <2>1 DEF Tabled
    <3>4. QED BY <1>5, <3>1, <3>2, <3>3
  <2>2. it[{}] = <<>>
    BY <1>6 DEF Tabled
  <2>3. QED BY <1>1, <2>1, <2>2 DEF PosixFold
<1>8. PosixFold(iter, p)
  BY <1>7 DEF iter
<1> DEFINE h == [k \in 0..n |-> iter[1..k]]
<1>9. h[0] = <<>>
  <2>1. iter[{}] = <<>>
    BY <1>8 DEF PosixFold
  <2>2. QED BY <1>1, <2>1
<1>10. ASSUME NEW k \in 1..n PROVE h[k] = Joined(h[k - 1], p[k])
  <2>1. 1..k \in SUBSET (1..n) /\ 1..k # {} /\ Max(1..k) = k /\ (1..k) \ {k} = 1..(k - 1)
    BY <1>1, FirstPositions
  <2>2. iter[1..k] = Joined(iter[1..(k - 1)], p[k])
    BY <1>1, <1>8, <2>1 DEF PosixFold
  <2>3. QED BY <1>1, <2>2
<1>11. Posix(p) = h[n]
  BY <1>1, <1>2
<1> HIDE DEF h
<1>12. QED BY <1>9, <1>10, <1>11 DEF n, IsJoined

\* In one way only.
LEMMA JoinedAlike ==
  ASSUME NEW p, NEW n \in Nat, NEW h, NEW g, IsJoined(h, p, n), IsJoined(g, p, n)
  PROVE  h[n] = g[n]
<1> DEFINE differ == {k \in 0..n : h[k] # g[k]}
<1>1. differ = {}
  <2> SUFFICES ASSUME differ # {} PROVE FALSE
    OBVIOUS
  <2>1. differ \in SUBSET Nat
    OBVIOUS
  <2>2. PICK k \in differ : \A m \in differ : k <= m
    BY <2>1, LeastOf
  <2>3. k # 0
    BY <2>2 DEF IsJoined
  <2>4. k \in 1..n /\ k - 1 \in 0..n /\ ~ (k <= k - 1)
    BY <2>3
  <2>5. h[k - 1] = g[k - 1]
    BY <2>2, <2>4
  <2>6. QED BY <2>2, <2>4, <2>5 DEF IsJoined
<1>2. n \in 0..n
  OBVIOUS
<1>3. QED BY <1>1, <1>2

\* The first k names of a path.
Upper(p, k) == SubSeq(p, 1, k)

\* They are a path of their own.
LEMMA UpperType ==
  ASSUME NEW S, NEW p \in Seq(S), NEW k \in 0..Len(p)
  PROVE  /\ Upper(p, k) \in Seq(S) /\ Len(Upper(p, k)) = k
         /\ \A i \in 1..k : Upper(p, k)[i] = p[i]
BY DEF Upper

\* The names of a path are some text without a slash.
IsPath(p) == p \in Seq(Text) /\ \A i \in DOMAIN p : p[i] # <<>> /\ "/" \notin Range(p[i])

\* Of a path with one name more, it has that name more.
LEMMA PosixNext ==
  ASSUME NEW p \in Seq(Text), NEW k \in 1..Len(p)
  PROVE  Posix(Upper(p, k)) = Joined(Posix(Upper(p, k - 1)), p[k])
<1>1. /\ k \in 0..Len(p) /\ k - 1 \in 0..Len(p) /\ k \in Nat /\ k - 1 \in Nat
      /\ k \in 1..k /\ \A i \in 1..(k - 1) : i \in 1..k
  OBVIOUS
<1>2. /\ Upper(p, k) \in Seq(Text) /\ Len(Upper(p, k)) = k
      /\ \A i \in 1..k : Upper(p, k)[i] = p[i]
      /\ Upper(p, k - 1) \in Seq(Text) /\ Len(Upper(p, k - 1)) = k - 1
      /\ \A i \in 1..(k - 1) : Upper(p, k - 1)[i] = p[i]
  BY <1>1, UpperType
<1>3. PICK h : IsJoined(h, Upper(p, k), k) /\ Posix(Upper(p, k)) = h[k]
  BY <1>2, PosixSteps
<1>4. PICK g : IsJoined(g, Upper(p, k - 1), k - 1) /\ Posix(Upper(p, k - 1)) = g[k - 1]
  BY <1>2, PosixSteps
<1>5. IsJoined(h, p, k - 1) /\ IsJoined(g, p, k - 1)
  BY <1>1, <1>2, <1>3, <1>4 DEF IsJoined
<1>6. h[k - 1] = g[k - 1]
  BY <1>1, <1>5, JoinedAlike
<1>7. h[k] = Joined(h[k - 1], p[k])
  BY <1>1, <1>2, <1>3 DEF IsJoined
<1>8. QED BY <1>3, <1>4, <1>6, <1>7

\* What a name adds to the text of the names before it: a slash, if there are
\* any, and no other.
LEMMA JoinedText ==
  ASSUME NEW t \in Text, NEW u \in Text, u # <<>>, "/" \notin Range(u)
  PROVE  /\ Joined(t, u) \in Text /\ Len(t) < Len(Joined(t, u))
         /\ \A i \in 1..Len(t) : Joined(t, u)[i] = t[i]
         /\ \A i \in (Len(t) + 1)..Len(Joined(t, u)) :
              Joined(t, u)[i] = "/" => t # <<>> /\ i = Len(t) + 1
         /\ Last(Joined(t, u)) = Last(u) /\ Last(Joined(t, u)) # "/"
<1> DEFINE j == Joined(t, u)
<1>1. /\ Len(t) \in Nat /\ Len(u) \in Nat /\ Len(u) > 0
      /\ \A i \in 1..Len(u) : u[i] # "/"
  BY DEF Text, Range
<1>2. CASE t = <<>>
  BY <1>1, <1>2 DEF Joined, Last
<1>3. CASE t # <<>>
  <2>1. "/" \in STRING \cup {"/"}
    OBVIOUS
  <2>2. <<"/">> \in Text /\ Len(<<"/">>) = 1 /\ <<"/">>[1] = "/"
    BY <2>1 DEF Text
  <2> DEFINE a == t \o <<"/">>
  <2>3. /\ a \in Text /\ Len(a) = Len(t) + 1 /\ a[Len(t) + 1] = "/"
        /\ \A i \in 1..Len(t) : a[i] = t[i]
    BY <1>1, <2>2 DEF Text
  <2>4. j = a \o u
    BY <1>3 DEF Joined
  <2> HIDE DEF a, j
  <2>5. /\ j \in Text /\ Len(j) = Len(a) + Len(u)
        /\ \A i \in 1..Len(a) : j[i] = a[i]
        /\ \A i \in 1..Len(u) : j[Len(a) + i] = u[i]
    <3> DEFINE T == STRING \cup {"/"}
    <3>1. a \in Seq(T) /\ u \in Seq(T)
      BY <2>3 DEF Text
    <3> HIDE DEF T
    <3>2. /\ a \o u \in Seq(T) /\ Len(a \o u) = Len(a) + Len(u)
          /\ \A i \in 1..Len(a) : (a \o u)[i] = a[i]
          /\ \A i \in 1..Len(u) : (a \o u)[Len(a) + i] = u[i]
      BY <3>1
    <3>3. QED BY <2>4, <3>2 DEF T, Text
  <2>6. \A i \in (Len(t) + 1)..Len(j) :
                i = Len(t) + 1 \/ (i - Len(a) \in 1..Len(u) /\ i = Len(a) + (i - Len(a)))
    BY <1>1, <2>3, <2>5
  <2>7. \A i \in (Len(t) + 1)..Len(j) : j[i] = "/" => i = Len(t) + 1
    <3>1. \A i \in (Len(t) + 1)..Len(j) :
                  i = Len(t) + 1 \/ (j[i] = u[i - Len(a)] /\ i - Len(a) \in 1..Len(u))
      BY <2>5, <2>6
    <3>2. QED BY <1>1, <3>1
  <2>8. Last(j) = Last(u) /\ Last(j) # "/"
    <3>1. j[Len(j)] = u[Len(u)]
      BY <1>1, <2>5
    <3>2. QED BY <1>1, <3>1 DEF Last
  <2>9. QED BY <1>1, <1>3, <2>3, <2>5, <2>7, <2>8 DEF j
<1>4. QED BY <1>2, <1>3

\* The text of the first k names.
TextOf(p, k) == Posix(Upper(p, k))

\* It is text, empty for no names only.
LEMMA PathText ==
  ASSUME NEW p, IsPath(p), NEW k \in 0..Len(p)
  PROVE  TextOf(p, k) \in Text /\ TextOf(p, 0) = <<>>
<1> DEFINE wrong == {i \in 0..Len(p) : TextOf(p, i) \notin Text}
<1>1. p \in Seq(Text) /\ \A i \in 1..Len(p) : p[i] \in Text /\ p[i] # <<>> /\ "/" \notin Range(p[i])
  BY DEF IsPath
<1>2. TextOf(p, 0) = <<>>
  <2>1. Upper(p, 0) \in Seq(Text) /\ Len(Upper(p, 0)) = 0
    BY <1>1, UpperType
  <2>2. PICK h : IsJoined(h, Upper(p, 0), 0) /\ Posix(Upper(p, 0)) = h[0]
    BY <2>1, PosixSteps
  <2>3. QED BY <2>2 DEF IsJoined, TextOf
<1>3. TextOf(p, 0) \in Text
  <2>1. <<>> \in Text
    BY DEF Text
  <2>2. QED BY <1>2, <2>1
<1>4. wrong = {}
  <2> SUFFICES ASSUME wrong # {} PROVE FALSE
    OBVIOUS
  <2>1. wrong \in SUBSET Nat
    OBVIOUS
  <2>2. PICK i \in wrong : \A m \in wrong : i <= m
    BY <2>1, LeastOf
  <2>3. i \in 1..Len(p) /\ i - 1 \in 0..Len(p) /\ ~ (i <= i - 1)
    BY <1>1, <1>3, <2>2
  <2>4. TextOf(p, i - 1) \in Text
    BY <2>2, <2>3
  <2>5. TextOf(p, i) = Joined(TextOf(p, i - 1), p[i])
    BY <1>1, <2>3, PosixNext DEF TextOf
  <2>6. QED BY <1>1, <2>2, <2>3, <2>4, <2>5, JoinedText
<1>5. QED BY <1>2, <1>4

\* And what the last of them adds to it.
LEMMA NextText ==
  ASSUME NEW p, IsPath(p), NEW k \in 1..Len(p)
  PROVE  /\ TextOf(p, k) \in Text /\ TextOf(p, k - 1) \in Text
         /\ Len(TextOf(p, k - 1)) < Len(TextOf(p, k))
         /\ \A i \in 1..Len(TextOf(p, k - 1)) : TextOf(p, k)[i] = TextOf(p, k - 1)[i]
         /\ \A i \in (Len(TextOf(p, k - 1)) + 1)..Len(TextOf(p, k)) :
              TextOf(p, k)[i] = "/" => k # 1 /\ i = Len(TextOf(p, k - 1)) + 1
         /\ Last(TextOf(p, k)) = Last(p[k]) /\ Last(TextOf(p, k)) # "/"
<1>1. p \in Seq(Text) /\ p[k] \in Text /\ p[k] # <<>> /\ "/" \notin Range(p[k])
  BY DEF IsPath
<1>2. k \in 0..Len(p) /\ k - 1 \in 0..Len(p)
  BY <1>1
<1>3. TextOf(p, k - 1) \in Text /\ TextOf(p, 0) = <<>> /\ TextOf(p, k) \in Text
  BY <1>2, PathText
<1>4. TextOf(p, k) = Joined(TextOf(p, k - 1), p[k])
  BY <1>1, PosixNext DEF TextOf
<1>5. k = 1 => TextOf(p, k - 1) = <<>>
  BY <1>3
<1> DEFINE t == TextOf(p, k - 1)
<1> HIDE DEF t
<1>6. t \in Text
  BY <1>3 DEF t
<1>7. /\ Len(t) < Len(Joined(t, p[k])) /\ \A i \in 1..Len(t) : Joined(t, p[k])[i] = t[i]
      /\ \A i \in (Len(t) + 1)..Len(Joined(t, p[k])) :
           Joined(t, p[k])[i] = "/" => t # <<>> /\ i = Len(t) + 1
      /\ Last(Joined(t, p[k])) = Last(p[k]) /\ Last(Joined(t, p[k])) # "/"
  BY <1>1, <1>6, JoinedText
<1>8. Joined(t, p[k]) = TextOf(p, k)
  BY <1>4 DEF t
<1>9. QED BY <1>3, <1>5, <1>7, <1>8 DEF t

\* The text of a directory begins the text of what is below it.
LEMMA UpperText ==
  ASSUME NEW p, IsPath(p), NEW n \in 0..Len(p), NEW k \in 0..n
  PROVE  /\ Len(TextOf(p, k)) <= Len(TextOf(p, n))
         /\ \A i \in 1..Len(TextOf(p, k)) : TextOf(p, n)[i] = TextOf(p, k)[i]
<1> DEFINE Begins(m) == /\ Len(TextOf(p, k)) <= Len(TextOf(p, m))
                        /\ \A i \in 1..Len(TextOf(p, k)) : TextOf(p, m)[i] = TextOf(p, k)[i]
           wrong == {m \in k..n : ~ Begins(m)}
<1>1. p \in Seq(Text) /\ Len(p) \in Nat
  BY DEF IsPath
<1>2. \A m \in 0..Len(p) : Len(TextOf(p, m)) \in Nat
  BY PathText DEF Text
<1>3. Begins(k)
  BY <1>1, <1>2
<1>4. ASSUME NEW m \in (k + 1)..n, Begins(m - 1) PROVE Begins(m)
  <2>1. m \in 1..Len(p) /\ m \in 0..Len(p) /\ m - 1 \in 0..Len(p) /\ k \in 0..Len(p)
    BY <1>1
  <2>2. /\ Len(TextOf(p, m - 1)) < Len(TextOf(p, m))
        /\ \A i \in 1..Len(TextOf(p, m - 1)) : TextOf(p, m)[i] = TextOf(p, m - 1)[i]
    BY <2>1, NextText
  <2>3. QED BY <1>2, <1>4, <2>1, <2>2
<1>5. wrong = {}
  <2> HIDE DEF Begins
  <2> SUFFICES ASSUME wrong # {} PROVE FALSE
    OBVIOUS
  <2>1. wrong \in SUBSET Nat
    BY <1>1
  <2>2. PICK m \in wrong : \A o \in wrong : m <= o
    BY <2>1, LeastOf
  <2>3. m \in (k + 1)..n /\ m - 1 \in k..n /\ ~ (m <= m - 1)
    BY <1>1, <1>3, <2>2
  <2>4. m - 1 \notin wrong
    BY <2>2, <2>3
  <2>5. QED BY <1>4, <2>2, <2>3, <2>4
<1>6. n \in k..n
  BY <1>1
<1>7. QED BY <1>5, <1>6

-----------------------------------------------------------------------------
(***************************************************************************)
(* The patterns of paths: text that may end in a star for a whole name.    *)
(***************************************************************************)
IsPathPattern(glob) ==
  /\ glob \in Text /\ glob # <<>> /\ "**" \notin Range(glob)
  /\ \A j \in DOMAIN glob :
       glob[j] = "*" => j = Len(glob) /\ (j = 1 \/ glob[j - 1] = "/")

\* The part before the star.
Fixed(glob) == IF Last(glob) = "*" THEN Len(glob) - 1 ELSE Len(glob)

\* What is matched has that part, and after it what the star stands for.
LEMMA FixedThenStar ==
  ASSUME NEW name \in Text, NEW glob, IsPathPattern(glob), NEW stops
  PROVE  Matched(name, glob, stops) <=>
           /\ Fixed(glob) <= Len(name) /\ \A t \in 1..Fixed(glob) : name[t] = glob[t]
           /\ IF Last(glob) = "*"
              THEN \A t \in (Fixed(glob) + 1)..Len(name) : name[t] \notin stops
              ELSE Len(name) = Fixed(glob)
<1> DEFINE n == Fixed(glob)
<1>1. /\ glob \in Text /\ Len(glob) \in Nat /\ Len(glob) > 0 /\ DOMAIN glob = 1..Len(glob)
      /\ Len(name) \in Nat /\ Last(glob) = glob[Len(glob)]
  BY DEF IsPathPattern, Text, Last
<1>2. \A t \in 1..Len(glob) : glob[t] # "**"
  BY <1>1 DEF IsPathPattern, Range
<1>3. n \in 0..Len(glob) /\ \A t \in 1..n : glob[t] \notin Stars
  BY <1>1, <1>2 DEF Fixed, IsPathPattern, Stars
<1>4. Matched(name, glob, stops) <=>
        /\ n <= Len(name) /\ \A t \in 1..n : name[t] = glob[t]
        /\ n + 1 \in Rest(name, glob, stops, n + 1)
  <2> HIDE DEF n
  <2>1. QED BY <1>1, <1>3, LiteralPart
<1>5. Rest(name, glob, stops, Len(glob) + 1) = {Len(name) + 1}
  BY <1>1, RestEnd
<1>6. CASE Last(glob) = "*"
  <2>1. n + 1 = Len(glob) /\ glob[Len(glob)] = "*" /\ Len(glob) \in 1..Len(glob)
    BY <1>1, <1>6 DEF Fixed
  <2>2. Rest(name, glob, stops, Len(glob))
          = Before(name, glob[Len(glob)], stops, Rest(name, glob, stops, Len(glob) + 1))
    BY <1>1, <2>1, RestStep
  <2>3. Rest(name, glob, stops, n + 1)
          = {i \in 1..(Len(name) + 1) :
               i <= Len(name) + 1 /\ \A t \in i..(Len(name) + 1 - 1) : name[t] \notin stops}
    BY <1>5, <2>1, <2>2 DEF Before, Stars
  <2> HIDE DEF n
  <2>4. n <= Len(name) =>
          (n + 1 \in Rest(name, glob, stops, n + 1) <=>
             \A t \in (n + 1)..Len(name) : name[t] \notin stops)
    BY <1>1, <1>3, <2>3
  <2>5. QED BY <1>4, <1>6, <2>4 DEF n
<1>7. CASE Last(glob) # "*"
  <2>1. n = Len(glob)
    BY <1>7 DEF Fixed
  <2>2. QED BY <1>1, <1>4, <1>5, <1>7, <2>1
<1>8. QED BY <1>6, <1>7

\* What git's star matches, fnmatch's does.
LEMMA GitThenFnmatch ==
  ASSUME NEW name \in Text, NEW glob, IsPathPattern(glob), Matched(name, glob, {"/"})
  PROVE  Matched(name, glob, {})
BY FixedThenStar

\* What fnmatch's star matches, git's matches in a directory above it, if not
\* itself: the first whose text is longer than the part before the star.
LEMMA FnmatchThenGit ==
  ASSUME NEW p, IsPath(p), NEW n \in 1..Len(p), NEW glob, IsPathPattern(glob),
         Matched(TextOf(p, n), glob, {})
  PROVE  \E k \in 1..n : Matched(TextOf(p, k), glob, {"/"})
<1> DEFINE m == Fixed(glob)
           t(k) == TextOf(p, k)
<1>1. /\ glob \in Text /\ Len(glob) \in Nat /\ Len(glob) > 0 /\ DOMAIN glob = 1..Len(glob)
      /\ Last(glob) = glob[Len(glob)] /\ Len(p) \in Nat
  BY DEF IsPathPattern, Text, Last, IsPath
<1>2. \A k \in 0..n : t(k) \in Text /\ Len(t(k)) \in Nat
  BY <1>1, PathText DEF Text
<1>3. m <= Len(t(n)) /\ \A i \in 1..m : t(n)[i] = glob[i]
  BY <1>2, FixedThenStar
<1>4. CASE Last(glob) # "*"
  <2>1. Matched(t(n), glob, {"/"})
    BY <1>2, <1>4, FixedThenStar
  <2>2. QED BY <1>1, <2>1
<1>5. CASE Last(glob) = "*"
  <2>1. m = Len(glob) - 1 /\ (m > 0 => glob[m] = "/")
    <3>1. Len(glob) \in DOMAIN glob /\ glob[Len(glob)] = "*"
      BY <1>1, <1>5
    <3>2. Len(glob) = 1 \/ glob[Len(glob) - 1] = "/"
      BY <3>1 DEF IsPathPattern
    <3>3. QED BY <1>1, <1>5, <3>2 DEF Fixed
  <2> HIDE DEF m
  <2>2. \A k \in 0..n : /\ Len(t(k)) <= Len(t(n))
                        /\ \A i \in 1..Len(t(k)) : t(n)[i] = t(k)[i]
    BY <1>1, UpperText
  <2>3. \A k \in 1..n : /\ Len(t(k - 1)) < Len(t(k)) /\ t(k)[Len(t(k))] # "/"
                        /\ \A i \in (Len(t(k - 1)) + 1)..Len(t(k)) :
                             t(k)[i] = "/" => k # 1 /\ i = Len(t(k - 1)) + 1
    BY <1>1, NextText DEF Last
  <2>4. ASSUME NEW k \in 1..n PROVE Len(t(k)) # m
    <3> SUFFICES ASSUME Len(t(k)) = m PROVE FALSE
      OBVIOUS
    <3>1. k \in 0..n /\ k - 1 \in 0..n /\ m > 0
      BY <1>1, <1>2, <2>1, <2>3
    <3>2. t(k)[m] = "/"
      <4>1. m \in 1..m
        BY <2>1, <3>1, <1>1
      <4>2. QED BY <1>3, <2>1, <2>2, <3>1, <4>1
    <3>3. QED BY <2>3, <3>2
  <2> DEFINE longer == {k \in 1..n : Len(t(k)) > m}
  <2>5. n \in longer
    <3>1. n \in 1..n /\ Len(t(n)) \in Nat /\ m \in Nat
      BY <1>1, <1>2, <2>1
    <3>2. Len(t(n)) # m
      BY <2>4, <3>1
    <3>3. QED BY <1>3, <3>1, <3>2
  <2>6. longer \in SUBSET Nat /\ longer # {}
    BY <2>5
  <2>7. PICK k \in longer : \A o \in longer : k <= o
    <3> HIDE DEF longer
    <3>1. QED BY <2>6, LeastOf
  <2>8. k \in 1..n /\ k \in 0..n /\ k - 1 \in 0..n /\ Len(t(k)) > m
    BY <1>1, <2>7
  <2>9. k = 1 \/ Len(t(k - 1)) < m
    <3> SUFFICES ASSUME k # 1 PROVE Len(t(k - 1)) < m
      OBVIOUS
    <3>1. k - 1 \in 1..n /\ ~ (k <= k - 1)
      BY <2>8
    <3>2. k - 1 \notin longer /\ Len(t(k - 1)) # m
      BY <2>4, <2>7, <3>1
    <3>3. QED BY <1>2, <2>1, <2>8, <3>1, <3>2, <1>1
  <2>10. \A i \in (m + 1)..Len(t(k)) : t(k)[i] \notin {"/"}
    <3> SUFFICES ASSUME NEW i \in (m + 1)..Len(t(k)) PROVE t(k)[i] # "/"
      OBVIOUS
    <3>1. CASE k = 1
      <4>1. Len(t(0)) = 0
        BY <1>1, PathText
      <4>2. k - 1 = 0 /\ i \in (Len(t(k - 1)) + 1)..Len(t(k))
        BY <1>1, <1>2, <2>1, <3>1, <4>1
      <4>3. QED BY <2>3, <2>8, <3>1, <4>2
    <3>2. CASE k # 1
      <4>1. Len(t(k - 1)) < m
        BY <2>9, <3>2
      <4>2. i \in (Len(t(k - 1)) + 1)..Len(t(k)) /\ i # Len(t(k - 1)) + 1
        BY <1>1, <1>2, <2>1, <2>8, <4>1
      <4>3. QED BY <2>3, <2>8, <4>2
    <3>3. QED BY <3>1, <3>2
  <2>11. m <= Len(t(k)) /\ \A i \in 1..m : t(k)[i] = glob[i]
    <3>1. \A i \in 1..m : i \in 1..Len(t(k))
      BY <1>1, <1>2, <2>1, <2>8
    <3>2. QED BY <1>1, <1>2, <1>3, <2>1, <2>2, <2>8, <3>1
  <2>12. Matched(t(k), glob, {"/"})
    BY <1>2, <1>5, <2>8, <2>10, <2>11, FixedThenStar DEF m
  <2>13. QED BY <2>8, <2>12
<1>6. QED BY <1>4, <1>5

-----------------------------------------------------------------------------
(***************************************************************************)
(* The rules.                                                              *)
(***************************************************************************)
\* _globstar_to_fnmatch as a recursion over the positions of the pattern.
Globstar(pattern, i) == i \in DOMAIN pattern /\ pattern[i] = "**"

Gone(pattern, i) ==
  /\ pattern[i] = "/"
  /\ \/ Globstar(pattern, i - 1)
     \/ Globstar(pattern, i + 1) /\ ~ (i + 2 \in DOMAIN pattern /\ pattern[i + 2] = "/")

Copied(pattern, text, i) ==
  IF Gone(pattern, i) THEN text
  ELSE Append(text, IF Globstar(pattern, i) THEN "*" ELSE pattern[i])

CopyFold(it, pattern) ==
  it = [s \in SUBSET (DOMAIN pattern) |->
         IF s = {} THEN <<>>
         ELSE Copied(pattern, it[s \ {Max(s)}], [i \in DOMAIN pattern |-> i][Max(s)])]

\* It changes no pattern without **.
LEMMA NothingToRewrite ==
  ASSUME NEW pattern \in Text, "**" \notin Range(pattern)
  PROVE  GlobstarToFnmatch(pattern) = pattern
<1> DEFINE n == Len(pattern)
           iter == CHOOSE it : CopyFold(it, pattern)
           table == [k \in 1..n |-> [t \in Text |-> Append(t, pattern[k])]]
<1>1. n \in Nat /\ DOMAIN pattern = 1..n /\ \A k \in 1..n : pattern[k] \in STRING \cup {"/"}
  BY DEF Text
<1>2. GlobstarToFnmatch(pattern) = iter[1..n]
  BY <1>1 DEF GlobstarToFnmatch, FoldLeft, MapThenFoldSet, CopyFold, Copied, Gone, Globstar
<1>3. \A i : ~ Globstar(pattern, i)
  BY DEF Globstar, Range
<1>4. \A k, t : Copied(pattern, t, k) = Append(t, pattern[k])
  BY <1>3 DEF Copied, Gone
<1>5. table \in Tables(n, Text) /\ <<>> \in Text
  BY <1>1 DEF Tables, Text
<1>6. \A k \in 1..n, t \in Text : table[k][t] = Append(t, pattern[k])
  OBVIOUS
<1> HIDE DEF iter, n, table
<1>7. PICK it \in [SUBSET (1..n) -> Text] : Tabled(it, n, <<>>, table)
  BY <1>1, <1>5, FoldTable
<1>8. CopyFold(it, pattern)
  <2>1. ASSUME NEW s \in SUBSET (1..n), s # {}
        PROVE  it[s] = Copied(pattern, it[s \ {Max(s)}], [i \in DOMAIN pattern |-> i][Max(s)])
    <3>1. Max(s) \in 1..n /\ s \ {Max(s)} \in SUBSET (1..n)
      BY <1>1, <2>1, LastPosition
    <3>2. it[s \ {Max(s)}] \in Text /\ [i \in DOMAIN pattern |-> i][Max(s)] = Max(s)
      BY <1>1, <3>1
    <3>3. it[s] = table[Max(s)][it[s \ {Max(s)}]]
      BY <1>7, <2>1 DEF Tabled
    <3>4. it[s] = Append(it[s \ {Max(s)}], pattern[Max(s)])
      BY <1>6, <3>1, <3>2, <3>3
    <3>5. Copied(pattern, it[s \ {Max(s)}], Max(s)) = Append(it[s \ {Max(s)}], pattern[Max(s)])
      BY <1>4
    <3>6. QED BY <3>2, <3>4, <3>5
  <2>2. it[{}] = <<>>
    BY <1>7 DEF Tabled
  <2>3. QED BY <1>1, <2>1, <2>2 DEF CopyFold
<1>9. CopyFold(iter, pattern)
  BY <1>8 DEF iter
<1> DEFINE wrong == {k \in 0..n : iter[1..k] # SubSeq(pattern, 1, k)}
<1>10. wrong = {}
  <2> SUFFICES ASSUME wrong # {} PROVE FALSE
    OBVIOUS
  <2>1. wrong \in SUBSET Nat
    OBVIOUS
  <2>2. PICK k \in wrong : \A m \in wrong : k <= m
    BY <2>1, LeastOf
  <2>3. k # 0
    <3>1. iter[{}] = <<>>
      BY <1>9 DEF CopyFold
    <3>2. 1..0 = {} /\ SubSeq(pattern, 1, 0) = <<>>
      BY DEF Text
    <3>3. iter[1..0] = SubSeq(pattern, 1, 0)
      BY <3>1, <3>2
    <3>4. QED BY <2>2, <3>3
  <2>4. k \in 1..n /\ k - 1 \in 0..n /\ ~ (k <= k - 1)
    BY <1>1, <2>2, <2>3
  <2>5. 1..k \in SUBSET (1..n) /\ 1..k # {} /\ Max(1..k) = k /\ (1..k) \ {k} = 1..(k - 1)
    BY <1>1, <2>4, FirstPositions
  <2>6. [i \in DOMAIN pattern |-> i][k] = k
    BY <1>1, <2>4
  <2>7. iter[1..k] = Append(iter[1..(k - 1)], pattern[k])
    <3>1. iter[1..k] = Copied(pattern, iter[1..(k - 1)], [i \in DOMAIN pattern |-> i][k])
      BY <1>1, <1>9, <2>5 DEF CopyFold
    <3>2. Copied(pattern, iter[1..(k - 1)], k) = Append(iter[1..(k - 1)], pattern[k])
      BY <1>4
    <3>3. QED BY <2>6, <3>1, <3>2
  <2>8. iter[1..(k - 1)] = SubSeq(pattern, 1, k - 1)
    BY <2>2, <2>4
  <2>9. Append(SubSeq(pattern, 1, k - 1), pattern[k]) = SubSeq(pattern, 1, k)
    BY <1>1, <2>4 DEF n, Text
  <2>10. QED BY <2>2, <2>7, <2>8, <2>9
<1>11. iter[1..n] = pattern
  <2>1. n \in 0..n /\ SubSeq(pattern, 1, n) = pattern
    BY <1>1 DEF n, Text
  <2>2. QED BY <1>10, <2>1
<1>12. QED BY <1>2, <1>11

\* _ignored as a recursion over the rules.
Applies(i, p, isDir) == (isDir \/ ~ rules[i].dirOnly) /\ RuleMatches(rules[i], p)

Decided(rule, decision, p, isDir) ==
  IF (isDir \/ ~ rule.dirOnly) /\ RuleMatches(rule, p) THEN ~ rule.negated ELSE decision

DecisionFold(it, p, isDir) ==
  it = [s \in SUBSET (DOMAIN rules) |->
         IF s = {} THEN FALSE ELSE Decided(rules[Max(s)], it[s \ {Max(s)}], p, isDir)]

\* The last rule that applies is the one that decides.
LEMMA LastDecides ==
  ASSUME NEW n \in Nat, DOMAIN rules = 1..n, \A i \in 1..n : rules[i].negated \in BOOLEAN,
         NEW p, NEW isDir
  PROVE  Ignored(p, isDir) <=>
           \E i \in 1..n : /\ Applies(i, p, isDir) /\ ~ rules[i].negated
                           /\ \A j \in (i + 1)..n : ~ Applies(j, p, isDir)
<1> DEFINE iter == CHOOSE it : DecisionFold(it, p, isDir)
           table == [k \in 1..n |-> [d \in BOOLEAN |-> Decided(rules[k], d, p, isDir)]]
           Deciding(k) == \E i \in 1..k : /\ Applies(i, p, isDir) /\ ~ rules[i].negated
                                          /\ \A j \in (i + 1)..k : ~ Applies(j, p, isDir)
<1>1. Ignored(p, isDir) = iter[1..n]
  BY DEF Ignored, FoldLeft, MapThenFoldSet, DecisionFold, Decided
<1>2. \A k \in 1..n, d \in BOOLEAN : Decided(rules[k], d, p, isDir) \in BOOLEAN
  BY DEF Decided
<1>3. table \in Tables(n, BOOLEAN)
  BY <1>2 DEF Tables
<1>4. \A k \in 1..n, d \in BOOLEAN : table[k][d] = Decided(rules[k], d, p, isDir)
  OBVIOUS
<1> HIDE DEF iter, table
<1>5. PICK it \in [SUBSET (1..n) -> BOOLEAN] : Tabled(it, n, FALSE, table)
  BY <1>3, FoldTable
<1>6. DecisionFold(it, p, isDir)
  <2>1. ASSUME NEW s \in SUBSET (1..n), s # {}
        PROVE  it[s] = Decided(rules[Max(s)], it[s \ {Max(s)}], p, isDir)
    <3>1. Max(s) \in 1..n /\ s \ {Max(s)} \in SUBSET (1..n)
      BY <2>1, LastPosition
    <3>2. it[s \ {Max(s)}] \in BOOLEAN
      BY <3>1
    <3>3. it[s] = table[Max(s)][it[s \ {Max(s)}]]
      BY <1>5, <2>1 DEF Tabled
    <3>4. QED BY <1>4, <3>1, <3>2, <3>3
  <2>2. it[{}] = FALSE
    BY <1>5 DEF Tabled
  <2>3. QED BY <2>1, <2>2 DEF DecisionFold
<1>7. DecisionFold(iter, p, isDir)
  BY <1>6 DEF iter
<1> DEFINE wrong == {k \in 0..n : ~ (iter[1..k] <=> Deciding(k))}
<1>8. iter[1..0] = FALSE
  BY <1>7 DEF DecisionFold
<1>9. ASSUME NEW k \in 1..n PROVE iter[1..k] = Decided(rules[k], iter[1..(k - 1)], p, isDir)
  <2>1. 1..k \in SUBSET (1..n) /\ 1..k # {} /\ Max(1..k) = k /\ (1..k) \ {k} = 1..(k - 1)
    BY FirstPositions
  <2>2. QED BY <1>7, <2>1 DEF DecisionFold
<1>10. ASSUME NEW k \in 1..n, iter[1..(k - 1)] <=> Deciding(k - 1) PROVE iter[1..k] <=> Deciding(k)
  <2>1. CASE Applies(k, p, isDir)
    <3>1. iter[1..k] = (~ rules[k].negated)
      BY <1>9, <2>1 DEF Decided, Applies
    <3>2. Deciding(k) <=> ~ rules[k].negated
      <4>1. ASSUME Deciding(k) PROVE ~ rules[k].negated
        <5>1. PICK i \in 1..k : /\ ~ rules[i].negated
                                /\ \A j \in (i + 1)..k : ~ Applies(j, p, isDir)
          BY <4>1
        <5>2. i = k
          BY <2>1, <5>1
        <5>3. QED BY <5>1, <5>2
      <4>2. ASSUME ~ rules[k].negated PROVE Deciding(k)
        <5>1. k \in 1..k /\ (k + 1)..k = {}
          OBVIOUS
        <5>2. QED BY <2>1, <4>2, <5>1
      <4>3. QED BY <4>1, <4>2
    <3>3. QED BY <3>1, <3>2
  <2>2. CASE ~ Applies(k, p, isDir)
    <3>1. iter[1..k] = iter[1..(k - 1)]
      BY <1>9, <2>2 DEF Decided, Applies
    <3>2. Deciding(k) <=> Deciding(k - 1)
      <4>1. ASSUME Deciding(k) PROVE Deciding(k - 1)
        <5>1. PICK i \in 1..k : /\ Applies(i, p, isDir) /\ ~ rules[i].negated
                                /\ \A j \in (i + 1)..k : ~ Applies(j, p, isDir)
          BY <4>1
        <5>2. i \in 1..(k - 1) /\ \A j \in (i + 1)..(k - 1) : j \in (i + 1)..k
          BY <2>2, <5>1
        <5>3. QED BY <5>1, <5>2
      <4>2. ASSUME Deciding(k - 1) PROVE Deciding(k)
        <5>1. PICK i \in 1..(k - 1) : /\ Applies(i, p, isDir) /\ ~ rules[i].negated
                                      /\ \A j \in (i + 1)..(k - 1) : ~ Applies(j, p, isDir)
          BY <4>2
        <5>2. i \in 1..k /\ \A j \in (i + 1)..k : j = k \/ j \in (i + 1)..(k - 1)
          OBVIOUS
        <5>3. QED BY <2>2, <5>1, <5>2
      <4>3. QED BY <4>1, <4>2
    <3>3. QED BY <1>10, <3>1, <3>2
  <2>3. QED BY <2>1, <2>2
<1>11. wrong = {}
  <2>1. ~ Deciding(0)
    OBVIOUS
  <2> HIDE DEF Deciding
  <2> SUFFICES ASSUME wrong # {} PROVE FALSE
    OBVIOUS
  <2>2. wrong \in SUBSET Nat
    OBVIOUS
  <2>3. PICK k \in wrong : \A m \in wrong : k <= m
    BY <2>2, LeastOf
  <2>4. k \in 1..n /\ k - 1 \in 0..n /\ ~ (k <= k - 1)
    BY <1>8, <2>1, <2>3
  <2>5. k - 1 \notin wrong
    BY <2>3, <2>4
  <2>6. QED BY <1>10, <2>3, <2>4, <2>5
<1>12. iter[1..n] <=> Deciding(n)
  <2>1. n \in 0..n
    OBVIOUS
  <2> HIDE DEF Deciding
  <2>2. QED BY <1>11, <2>1
<1>13. QED BY <1>1, <1>12

\* The rules of a .gitignore.
Rules ==
  [pattern : Seq(STRING) \ {<<>>}, negated : BOOLEAN, anchored : BOOLEAN, dirOnly : BOOLEAN]

\* A line of text has some text for its pattern.
LEMMA LineType ==
  ASSUME NEW line \in Seq(STRING), ParseLine(line).pattern # <<>>
  PROVE  ParseLine(line) \in Rules
<1> DEFINE negated == line # <<>> /\ Head(line) = "!"
           body == Strip(negated, line, Tail(line))
           dirOnly == body # <<>> /\ Last(body) = "/"
           name == Strip(dirOnly, body, Front(body))
           anchored == name # <<>> /\ Head(name) = "/"
           pattern == Strip(anchored, name, Tail(name))
<1>1. ParseLine(line) = [pattern |-> pattern, negated |-> negated, anchored |-> anchored,
                         dirOnly |-> dirOnly]
  BY DEF ParseLine
<1>2. body \in Seq(STRING)
  <2>1. line # <<>> => Tail(line) \in Seq(STRING)
    OBVIOUS
  <2>2. QED BY <2>1 DEF Strip
<1> HIDE DEF body
<1>3. name \in Seq(STRING)
  <2>1. body # <<>> => Front(body) \in Seq(STRING)
    BY <1>2 DEF Front
  <2>2. QED BY <1>2, <2>1 DEF Strip
<1> HIDE DEF name
<1>4. pattern \in Seq(STRING)
  <2>1. name # <<>> => Tail(name) \in Seq(STRING)
    BY <1>3
  <2>2. QED BY <1>3, <2>1 DEF Strip
<1>5. negated \in BOOLEAN /\ anchored \in BOOLEAN /\ dirOnly \in BOOLEAN
  OBVIOUS
<1> HIDE DEF negated, anchored, dirOnly, pattern
<1>6. pattern # <<>>
  BY <1>1
<1>7. QED BY <1>1, <1>4, <1>5, <1>6 DEF Rules

\* parse_gitignore as a recursion over the lines.
WithLine(rs, line) ==
  IF IsComment(line) \/ ParseLine(line).pattern = <<>> THEN rs ELSE Append(rs, ParseLine(line))

ParseFold(it, lines) ==
  it = [s \in SUBSET (DOMAIN lines) |->
         IF s = {} THEN <<>> ELSE WithLine(it[s \ {Max(s)}], lines[Max(s)])]

\* The lines of text have rules for their meaning.
LEMMA ParsedRules ==
  ASSUME NEW lines \in Seq(Seq(STRING))
  PROVE  ParseGitignore(lines) \in Seq(Rules)
<1> DEFINE n == Len(lines)
           iter == CHOOSE it : ParseFold(it, lines)
           table == [k \in 1..n |-> [rs \in Seq(Rules) |-> WithLine(rs, lines[k])]]
<1>1. n \in Nat /\ DOMAIN lines = 1..n /\ \A k \in 1..n : lines[k] \in Seq(STRING)
  OBVIOUS
<1>2. ParseGitignore(lines) = iter[1..n]
  BY <1>1 DEF ParseGitignore, FoldLeft, MapThenFoldSet, ParseFold, WithLine
<1>3. \A k \in 1..n, rs \in Seq(Rules) : WithLine(rs, lines[k]) \in Seq(Rules)
  BY <1>1, LineType DEF WithLine
<1>4. table \in Tables(n, Seq(Rules)) /\ <<>> \in Seq(Rules)
  BY <1>3 DEF Tables
<1>5. \A k \in 1..n, rs \in Seq(Rules) : table[k][rs] = WithLine(rs, lines[k])
  OBVIOUS
<1> HIDE DEF iter, n, table
<1>6. PICK it \in [SUBSET (1..n) -> Seq(Rules)] : Tabled(it, n, <<>>, table)
  BY <1>1, <1>4, FoldTable
<1>7. ParseFold(it, lines)
  <2>1. ASSUME NEW s \in SUBSET (1..n), s # {}
        PROVE  it[s] = WithLine(it[s \ {Max(s)}], lines[Max(s)])
    <3>1. Max(s) \in 1..n /\ s \ {Max(s)} \in SUBSET (1..n)
      BY <1>1, <2>1, LastPosition
    <3>2. it[s \ {Max(s)}] \in Seq(Rules)
      BY <3>1
    <3>3. it[s] = table[Max(s)][it[s \ {Max(s)}]]
      BY <1>6, <2>1 DEF Tabled
    <3>4. QED BY <1>5, <3>1, <3>2, <3>3
  <2>2. it[{}] = <<>>
    BY <1>6 DEF Tabled
  <2>3. QED BY <1>1, <2>1, <2>2 DEF ParseFold
<1>8. ParseFold(iter, lines)
  BY <1>7 DEF iter
<1> DEFINE wrong == {k \in 0..n : iter[1..k] \notin Seq(Rules)}
<1>9. wrong = {}
  <2> SUFFICES ASSUME wrong # {} PROVE FALSE
    OBVIOUS
  <2>1. wrong \in SUBSET Nat
    OBVIOUS
  <2>2. PICK k \in wrong : \A m \in wrong : k <= m
    BY <2>1, LeastOf
  <2>3. k # 0
    <3>1. iter[{}] = <<>> /\ 1..0 = {}
      BY <1>8 DEF ParseFold
    <3>2. iter[1..0] \in Seq(Rules)
      BY <1>4, <3>1
    <3>3. QED BY <2>2, <3>2
  <2>4. k \in 1..n /\ k - 1 \in 0..n /\ ~ (k <= k - 1)
    BY <1>1, <2>2, <2>3
  <2>5. 1..k \in SUBSET (1..n) /\ 1..k # {} /\ Max(1..k) = k /\ (1..k) \ {k} = 1..(k - 1)
    BY <1>1, <2>4, FirstPositions
  <2>6. iter[1..k] = WithLine(iter[1..(k - 1)], lines[k])
    BY <1>1, <1>8, <2>5 DEF ParseFold
  <2>7. iter[1..(k - 1)] \in Seq(Rules)
    BY <2>2, <2>4
  <2>8. QED BY <1>3, <2>2, <2>4, <2>6, <2>7
<1>10. n \in 0..n
  BY <1>1
<1>11. QED BY <1>2, <1>9, <1>10

-----------------------------------------------------------------------------
(***************************************************************************)
(* The rules as the walk applies them, and as git does.                    *)
(***************************************************************************)
\* A rule of the subset.
InSubset(rule) ==
  /\ rule \in Rules /\ "**" \notin Range(rule.pattern)
  /\ Slashed(rule) =>
       \A j \in DOMAIN rule.pattern :
         rule.pattern[j] = "*" =>
           j = Len(rule.pattern) /\ (j = 1 \/ rule.pattern[j - 1] = "/")

\* Text has any strings for its tokens.
LEMMA StringsAreText ==
  ASSUME NEW s \in Seq(STRING)
  PROVE  s \in Text
<1> DEFINE S == STRING
           T == STRING \cup {"/"}
<1>1. S \subseteq T
  OBVIOUS
<1> HIDE DEF S, T
<1>2. \A t : t \in Seq(S) => t \in Seq(T)
  BY <1>1
<1>3. QED BY <1>2 DEF S, T, Text

\* And so has the pattern of a rule; of one for paths, a star is a last name.
LEMMA PatternIsText ==
  ASSUME NEW rule, InSubset(rule)
  PROVE  /\ rule.pattern \in Text /\ rule.pattern # <<>> /\ "**" \notin Range(rule.pattern)
         /\ Slashed(rule) => IsPathPattern(rule.pattern)
<1>1. rule.pattern \in Seq(STRING) /\ rule.pattern # <<>>
  BY DEF InSubset, Rules
<1>2. rule.pattern \in Text
  BY <1>1, StringsAreText
<1>3. QED BY <1>1, <1>2 DEF InSubset, IsPathPattern

\* A path is the whole of itself, and ends in its last name.
LEMMA WholePath ==
  ASSUME NEW p, IsPath(p), p # <<>>, NEW k \in 1..Len(p)
  PROVE  /\ Len(p) \in Nat \ {0} /\ Upper(p, Len(p)) = p
         /\ IsPath(Upper(p, k)) /\ Upper(p, k) # <<>> /\ Len(Upper(p, k)) = k
         /\ Last(Upper(p, k)) = p[k] /\ p[k] \in Text /\ "/" \notin Range(p[k])
<1>1. p \in Seq(Text) /\ Len(p) \in Nat /\ Len(p) # 0
  BY DEF IsPath
<1>2. k \in 0..Len(p)
  BY <1>1
<1>3. /\ Upper(p, k) \in Seq(Text) /\ Len(Upper(p, k)) = k
      /\ \A i \in 1..k : Upper(p, k)[i] = p[i]
  BY <1>1, <1>2, UpperType
<1>4. Upper(p, Len(p)) = p
  BY <1>1 DEF Upper
<1>5. IsPath(Upper(p, k))
  <2>1. DOMAIN Upper(p, k) = 1..k /\ \A i \in 1..k : i \in DOMAIN p
    BY <1>1, <1>3
  <2>2. QED BY <1>3, <2>1 DEF IsPath
<1>6. Upper(p, k) # <<>> /\ Last(Upper(p, k)) = p[k]
  BY <1>3 DEF Last
<1>7. QED BY <1>1, <1>3, <1>4, <1>5, <1>6 DEF IsPath

\* What the matchers of the code and of git come to on the upper part of a path.
LEMMA RuleIs ==
  ASSUME NEW rule, InSubset(rule), NEW p, IsPath(p), p # <<>>, NEW k \in 1..Len(p), NEW isDir
  PROVE  /\ RuleMatches(rule, Upper(p, k)) <=>
              IF Slashed(rule) THEN \E n \in 1..k : Matched(TextOf(p, n), rule.pattern, {})
              ELSE Matched(p[k], rule.pattern, {})
         /\ GitRuleMatches(rule, Upper(p, k), isDir) <=>
              /\ rule.dirOnly => isDir
              /\ Matched(IF Slashed(rule) THEN TextOf(p, k) ELSE p[k], rule.pattern, {"/"})
<1>1. rule.pattern \in Text /\ "**" \notin Range(rule.pattern)
  BY PatternIsText
<1>2. /\ Len(p) \in Nat \ {0} /\ Last(Upper(p, k)) = p[k] /\ p[k] \in Text
      /\ Len(Upper(p, k)) = k
  BY WholePath
<1>3. ASSUME NEW n \in 1..k PROVE SubSeq(Upper(p, k), 1, n) = Upper(p, n)
  BY <1>2 DEF Upper, IsPath
<1>4. \A n \in 1..k : TextOf(p, n) \in Text
  BY <1>2, PathText
<1>5. GlobstarToFnmatch(rule.pattern) = rule.pattern
  BY <1>1, NothingToRewrite
<1>6. MatchPath(rule.pattern, Upper(p, k)) <=>
        \E n \in 1..k : Matched(TextOf(p, n), rule.pattern, {})
  <2>1. MatchPath(rule.pattern, Upper(p, k)) <=>
          \E n \in 1..k : Fnmatch(TextOf(p, n), rule.pattern)
    BY <1>2, <1>3, <1>5 DEF MatchPath, TextOf
  <2>2. \A n \in 1..k : Fnmatch(TextOf(p, n), rule.pattern) <=> Matched(TextOf(p, n), rule.pattern, {})
    BY <1>1, <1>4, FnmatchIs
  <2>3. QED BY <2>1, <2>2
<1>7. Fnmatch(p[k], rule.pattern) <=> Matched(p[k], rule.pattern, {})
  BY <1>1, <1>2, FnmatchIs
<1>8. /\ GitGlob(TextOf(p, k), rule.pattern) <=> Matched(TextOf(p, k), rule.pattern, {"/"})
      /\ GitGlob(p[k], rule.pattern) <=> Matched(p[k], rule.pattern, {"/"})
  <2>1. TextOf(p, k) \in Text
    BY <1>2, <1>4
  <2>2. QED BY <1>1, <1>2, <2>1, GitGlobIs
<1>9. QED BY <1>2, <1>6, <1>7, <1>8 DEF RuleMatches, GitRuleMatches, Slashed, TextOf

\* Where git's rule matches, the walk's does; and where the walk's does, git's
\* matches too, or it has matched a directory above.
LEMMA RuleAlike ==
  ASSUME NEW rule, InSubset(rule), NEW p, IsPath(p), p # <<>>, NEW isDir \in BOOLEAN
  PROVE  /\ GitRuleMatches(rule, p, isDir) =>
              (isDir \/ ~ rule.dirOnly) /\ RuleMatches(rule, p)
         /\ (isDir \/ ~ rule.dirOnly) /\ RuleMatches(rule, p) =>
              \/ GitRuleMatches(rule, p, isDir)
              \/ \E k \in 1..(Len(p) - 1) : GitRuleMatches(rule, Upper(p, k), TRUE)
<1>1. rule.pattern \in Text /\ (Slashed(rule) => IsPathPattern(rule.pattern))
  BY PatternIsText
<1>2. Len(p) \in Nat \ {0} /\ Len(p) \in 1..Len(p) /\ Upper(p, Len(p)) = p
  <2>1. Len(p) \in Nat /\ Len(p) # 0
    BY DEF IsPath
  <2>2. QED BY <2>1, WholePath
<1> DEFINE n == Len(p)
           name == p[n]
<1>3. name \in Text /\ "/" \notin Range(name)
  BY <1>2, WholePath
<1>4. Matched(name, rule.pattern, {}) <=> Matched(name, rule.pattern, {"/"})
  BY <1>1, <1>3, AlikeOnNames
<1>5. \A k \in 1..n : TextOf(p, k) \in Text
  BY <1>2, PathText
<1>6. /\ RuleMatches(rule, p) <=>
           IF Slashed(rule) THEN \E k \in 1..n : Matched(TextOf(p, k), rule.pattern, {})
           ELSE Matched(name, rule.pattern, {})
      /\ GitRuleMatches(rule, p, isDir) <=>
           /\ rule.dirOnly => isDir
           /\ Matched(IF Slashed(rule) THEN TextOf(p, n) ELSE name, rule.pattern, {"/"})
  BY <1>2, RuleIs
<1>7. ASSUME GitRuleMatches(rule, p, isDir) PROVE (isDir \/ ~ rule.dirOnly) /\ RuleMatches(rule, p)
  <2>1. CASE Slashed(rule)
    <3>1. Matched(TextOf(p, n), rule.pattern, {})
      BY <1>1, <1>2, <1>5, <1>6, <1>7, <2>1, GitThenFnmatch
    <3>2. QED BY <1>2, <1>6, <1>7, <2>1, <3>1
  <2>2. CASE ~ Slashed(rule)
    BY <1>4, <1>6, <1>7, <2>2
  <2>3. QED BY <2>1, <2>2
<1>8. ASSUME isDir \/ ~ rule.dirOnly, RuleMatches(rule, p)
      PROVE  \/ GitRuleMatches(rule, p, isDir)
             \/ \E k \in 1..(n - 1) : GitRuleMatches(rule, Upper(p, k), TRUE)
  <2>1. CASE Slashed(rule)
    <3>1. PICK m \in 1..n : Matched(TextOf(p, m), rule.pattern, {})
      BY <1>6, <1>8, <2>1
    <3>2. PICK k \in 1..m : Matched(TextOf(p, k), rule.pattern, {"/"})
      BY <1>1, <2>1, <3>1, FnmatchThenGit
    <3>3. CASE k = n
      BY <1>6, <1>8, <2>1, <3>2, <3>3
    <3>4. CASE k # n
      <4>1. k \in 1..n /\ k \in 1..(n - 1)
        BY <1>2, <3>4
      <4>2. GitRuleMatches(rule, Upper(p, k), TRUE)
        BY <2>1, <3>2, <4>1, RuleIs
      <4>3. QED BY <4>1, <4>2
    <3>5. QED BY <3>3, <3>4
  <2>2. CASE ~ Slashed(rule)
    BY <1>4, <1>6, <1>8, <2>2
  <2>3. QED BY <2>1, <2>2
<1>9. QED BY <1>7, <1>8

\* What is matched by a pattern for Python files is named like one.
LEMMA MatchedIsPython ==
  ASSUME NEW rule, InSubset(rule), Last(rule.pattern) = ".py", NEW p, IsPath(p), p # <<>>,
         NEW k \in 1..Len(p), NEW isDir, GitRuleMatches(rule, Upper(p, k), isDir)
  PROVE  Last(p[k]) = ".py"
<1>1. rule.pattern \in Text /\ rule.pattern # <<>> /\ Last(rule.pattern) \notin Stars
  BY PatternIsText DEF Stars
<1>2. Len(p) \in Nat \ {0} /\ p[k] \in Text /\ k \in 0..Len(p)
  BY WholePath
<1>3. TextOf(p, k) \in Text /\ Last(TextOf(p, k)) = Last(p[k])
  BY <1>2, PathText, NextText
<1>4. Matched(IF Slashed(rule) THEN TextOf(p, k) ELSE p[k], rule.pattern, {"/"})
  BY RuleIs
<1>5. CASE Slashed(rule)
  BY <1>1, <1>3, <1>4, <1>5, SameEnd
<1>6. CASE ~ Slashed(rule)
  BY <1>1, <1>2, <1>4, <1>6, SameEnd
<1>7. QED BY <1>5, <1>6

\* The rules are those of the subset, and the path one the walk comes to: the
\* names above its last are those of directories, none of which git ignores.
WalkedTo(p) ==
  /\ IsPath(p) /\ p # <<>>
  /\ \A k \in 1..(Len(p) - 1) :
       /\ \E e \in DOMAIN Tree : e # <<>> /\ IsDir(e) /\ Last(e) = p[k]
       /\ ~ GitIgnores(rules, Upper(p, k), TRUE)

\* On a path the walk comes to, the rules of .gitignore as the code reads them
\* (fnmatch, over the path and the directories above it) agree with git's, for
\* all rules of the subset: a rule that the walk applies and git does not has
\* named a directory above, which a later rule must have taken back; but that
\* one takes back Python files, and no directory has the name of one.
THEOREM RulesAgree ==
  ASSUME rules \in Seq(Rules), Supported(rules), NEW p, WalkedTo(p), NEW isDir \in BOOLEAN
  PROVE  Ignored(p, isDir) <=> GitIgnores(rules, p, isDir)
<1> DEFINE n == Len(rules)
           walks(i) == Applies(i, p, isDir)
           gits(i) == GitRuleMatches(rules[i], p, isDir)
<1>1. /\ n \in Nat /\ DOMAIN rules = 1..n
      /\ \A i \in 1..n : rules[i] \in Rules /\ rules[i].negated \in BOOLEAN
  <2>1. n \in Nat /\ DOMAIN rules = 1..n /\ \A i \in 1..n : rules[i] \in Rules
    OBVIOUS
  <2>2. \A r \in Rules : r.negated \in BOOLEAN
    BY DEF Rules
  <2>3. QED BY <2>1, <2>2
<1>2. \A i \in 1..n : InSubset(rules[i])
  BY <1>1 DEF Supported, InSubset
<1>3. \A i \in 1..n : rules[i].negated => Last(rules[i].pattern) = ".py"
  BY <1>1 DEF Supported
<1>4. \A i, j \in 1..n : i < j /\ ~ rules[i].negated /\ rules[j].negated => NoDirectoryIsPython
  BY <1>1 DEF Supported
<1>5. IsPath(p) /\ p # <<>> /\ Len(p) \in Nat
  BY DEF WalkedTo, IsPath
<1>6. \A i \in 1..n : gits(i) => walks(i)
  BY <1>2, <1>5, RuleAlike DEF Applies
<1>7. ASSUME NEW i \in 1..n, walks(i), ~ gits(i)
      PROVE  \E k \in 1..(Len(p) - 1) : GitRuleMatches(rules[i], Upper(p, k), TRUE)
  BY <1>2, <1>5, <1>7, RuleAlike DEF Applies
<1>8. ASSUME NEW j \in 1..n, rules[j].negated, NEW k \in 1..(Len(p) - 1),
             GitRuleMatches(rules[j], Upper(p, k), TRUE)
      PROVE  ~ NoDirectoryIsPython
  <2>1. PICK e \in DOMAIN Tree : e # <<>> /\ IsDir(e) /\ Last(e) = p[k]
    BY DEF WalkedTo
  <2>2. k \in 1..Len(p)
    BY <1>5
  <2>3. Last(p[k]) = ".py"
    BY <1>2, <1>3, <1>5, <1>8, <2>2, MatchedIsPython
  <2>4. QED BY <2>1, <2>3 DEF NoDirectoryIsPython
<1>9. ASSUME NEW i \in 1..n, ~ rules[i].negated, walks(i) PROVE gits(i)
  <2> SUFFICES ASSUME ~ gits(i) PROVE FALSE
    OBVIOUS
  <2>1. PICK k \in 1..(Len(p) - 1) : GitRuleMatches(rules[i], Upper(p, k), TRUE)
    BY <1>7, <1>9
  <2> DEFINE matches(j) == GitRuleMatches(rules[j], Upper(p, k), TRUE)
             last == {d \in 0..n : n - d \in 1..n /\ matches(n - d)}
  <2>2. last \in SUBSET Nat /\ last # {}
    <3>1. n - i \in 0..n /\ n - (n - i) = i
      BY <1>1
    <3> HIDE DEF matches
    <3>2. matches(i)
      BY <2>1 DEF matches
    <3>3. n - i \in last
      BY <3>1, <3>2
    <3>4. last \in SUBSET Nat
      BY <1>1
    <3> HIDE DEF last
    <3>5. QED BY <3>3, <3>4
  <2>3. PICK d \in last : \A o \in last : d <= o
    <3> HIDE DEF last
    <3>1. QED BY <2>2, LeastOf
  <2> DEFINE j == n - d
  <2> HIDE DEF matches
  <2>4. j \in 1..n /\ matches(j) /\ d \in 0..n /\ j = n - d
    BY <2>3
  <2>5. ASSUME NEW m \in (j + 1)..n PROVE ~ matches(m)
    <3> SUFFICES ASSUME matches(m) PROVE FALSE
      OBVIOUS
    <3>1. n - m \in 0..n /\ n - (n - m) = m /\ m \in 1..n /\ ~ (d <= n - m)
      BY <1>1, <2>4
    <3>2. n - m \in last
      BY <3>1
    <3>3. QED BY <2>3, <3>1, <3>2
  <2>6. i <= j
    <3>1. i \in 1..n /\ matches(i)
      BY <2>1 DEF matches
    <3> HIDE DEF j
    <3>2. ~ (i \in (j + 1)..n)
      BY <2>5, <3>1
    <3>3. QED BY <1>1, <2>4, <3>1, <3>2
  <2> HIDE DEF j, last
  <2>7. ~ GitIgnores(rules, Upper(p, k), TRUE)
    BY DEF WalkedTo
  <2>8. rules[j].negated
    BY <1>1, <2>4, <2>5, <2>7 DEF GitIgnores, matches
  <2>9. i # j
    BY <1>9, <2>8
  <2>10. NoDirectoryIsPython
    BY <1>1, <1>4, <1>9, <2>4, <2>6, <2>8, <2>9
  <2>11. QED BY <1>8, <2>4, <2>8, <2>10 DEF matches
<1>10. ASSUME NEW i \in 1..n, ~ rules[i].negated, NEW j \in (i + 1)..n, walks(j) PROVE gits(j)
  <2>1. j \in 1..n /\ i < j
    BY <1>1
  <2>2. CASE ~ rules[j].negated
    BY <1>9, <1>10, <2>1, <2>2
  <2>3. CASE rules[j].negated
    <3> SUFFICES ASSUME ~ gits(j) PROVE FALSE
      OBVIOUS
    <3>1. PICK k \in 1..(Len(p) - 1) : GitRuleMatches(rules[j], Upper(p, k), TRUE)
      BY <1>7, <1>10, <2>1
    <3>2. NoDirectoryIsPython
      BY <1>4, <1>10, <2>1, <2>3
    <3>3. QED BY <1>8, <2>1, <2>3, <3>1, <3>2
  <2>4. QED BY <2>2, <2>3
<1>11. Ignored(p, isDir) <=>
         \E i \in 1..n : walks(i) /\ ~ rules[i].negated /\ \A j \in (i + 1)..n : ~ walks(j)
  BY <1>1, LastDecides
<1>12. GitIgnores(rules, p, isDir) <=>
         \E i \in 1..n : gits(i) /\ ~ rules[i].negated /\ \A j \in (i + 1)..n : ~ gits(j)
  BY <1>1 DEF GitIgnores
<1> HIDE DEF walks, gits
<1>13. \A i \in 1..n : \A j \in (i + 1)..n : j \in 1..n
  BY <1>1
<1>14. QED BY <1>6, <1>9, <1>10, <1>11, <1>12, <1>13

-----------------------------------------------------------------------------
(***************************************************************************)
(* What can be reached.  The steps of Reachable are as many as they need   *)
(* be: a path without a link is no longer than there are entries.          *)
(***************************************************************************)
\* The root, as it is reached, and what a step adds.
Start == [path |-> <<>>, at |-> place.root, links |-> 0]

Listable(d) == Tree[d.at].kind = "dir" /\ Tree[d.at].readable

Inside(d) == {Reached(d, e) : e \in {x \in EntriesOf(d.at) : Reached(d, x).links <= MaxLinks}}

OneStep(reached) == reached \cup UNION {Inside(d) : d \in {r \in reached : Listable(r)}}

\* The steps that Reachable makes, one set for each number of them.
Entries == Cardinality(DOMAIN Tree)

Enough == (MaxLinks + 1) * Entries

IsReach(h, n) == h[0] = {Start} /\ \A k \in 1..n : h[k] = OneStep(h[k - 1])

\* Where a path can lead.
Spots == [path : Seq(Text), at : DOMAIN Tree, links : Nat]

\* The entries of the tree are named, and finitely many.
LEMMA TreeType ==
  ASSUME IsPlace(place)
  PROVE  /\ IsFiniteSet(DOMAIN Tree) /\ place.root \in DOMAIN Tree
         /\ \A e \in DOMAIN Tree :
              /\ e \in Seq(Text) /\ \A i \in DOMAIN e : e[i] # <<>> /\ "/" \notin Range(e[i])
              /\ Tree[e].kind = "link" => Tree[e].to \in DOMAIN Tree /\ Tree[Tree[e].to].kind = "dir"
         /\ Entries \in Nat \ {0} /\ Enough \in Nat \ {0}
<1>1. /\ IsFiniteSet(DOMAIN Tree) /\ place.root \in DOMAIN Tree
      /\ \A e \in DOMAIN Tree :
           /\ e \in Seq(Seq(STRING)) /\ \A i \in DOMAIN e : IsName(e[i])
           /\ Tree[e].kind = "link" => Tree[e].to \in DOMAIN Tree /\ Tree[Tree[e].to].kind = "dir"
  BY DEF IsPlace, Tree
<1>2. ASSUME NEW e \in DOMAIN Tree PROVE e \in Seq(Text)
  <2>1. e \in Seq(Seq(STRING)) /\ \A i \in DOMAIN e : e[i] \in Text
    BY <1>1, StringsAreText
  <2>2. QED BY <2>1
<1>3. Entries \in Nat \ {0}
  <2>1. Cardinality(DOMAIN Tree) \in Nat
    BY <1>1, FS_CardinalityType
  <2>2. Cardinality(DOMAIN Tree) # 0
    BY <1>1, FS_EmptySet
  <2>3. QED BY <2>1, <2>2 DEF Entries
<1>4. Enough \in Nat \ {0}
  <2>1. MaxLinks + 1 \in Nat \ {0}
    BY MaxLinksAssumption
  <2>2. \A a, b \in Nat \ {0} : a * b \in Nat \ {0}
    OBVIOUS
  <2>3. QED BY <1>3, <2>1, <2>2 DEF Enough
<1>5. QED BY <1>1, <1>2, <1>3, <1>4 DEF IsName

\* One step further along a path.
LEMMA ReachedType ==
  ASSUME IsPlace(place), NEW d \in Spots, NEW e \in EntriesOf(d.at)
  PROVE  /\ e \in DOMAIN Tree /\ e # <<>> /\ Len(e) = Len(d.at) + 1 /\ Len(d.at) \in Nat
         /\ Reached(d, e) \in Spots
         /\ Last(e) \in Text /\ Last(e) # <<>> /\ "/" \notin Range(Last(e))
         /\ Reached(d, e).path = Append(d.path, Last(e)) /\ d.path \in Seq(Text)
<1>1. d.at \in DOMAIN Tree /\ d.path \in Seq(Text) /\ d.links \in Nat
  BY DEF Spots
<1>2. e \in DOMAIN Tree /\ Len(e) = Len(d.at) + 1
  BY DEF EntriesOf
<1>3. e \in Seq(Text) /\ d.at \in Seq(Text)
  BY <1>1, <1>2, TreeType
<1>4. Len(e) \in DOMAIN e /\ Len(d.at) \in Nat /\ e # <<>>
  BY <1>2, <1>3
<1>5. Last(e) \in Text /\ Last(e) # <<>> /\ "/" \notin Range(Last(e))
  BY <1>2, <1>3, <1>4, TreeType DEF Last
<1>6. Append(d.path, Last(e)) \in Seq(Text)
  BY <1>1, <1>5
<1>7. (IF Tree[e].kind = "link" THEN Tree[e].to ELSE e) \in DOMAIN Tree
  BY <1>2, TreeType
<1>8. d.links + (IF Tree[e].kind = "link" THEN 1 ELSE 0) \in Nat
  BY <1>1
<1>9. Reached(d, e) \in Spots /\ Reached(d, e).path = Append(d.path, Last(e))
  BY <1>6, <1>7, <1>8 DEF Reached, Spots
<1>10. QED BY <1>1, <1>2, <1>4, <1>5, <1>9

\* The recursion has its solution.
LEMMA ReachSteps ==
  ASSUME IsPlace(place)
  PROVE  \E h : IsReach(h, Enough) /\ Reachable = h[Enough] /\ \A k \in 0..Enough : h[k] \in SUBSET Spots
<1> DEFINE n == Enough
           Acc == SUBSET Spots
           body(u) == [k \in 0..n |-> IF k = 0 THEN {Start} ELSE OneStep(u[k - 1])]
           table == [k \in 1..n |-> [r \in Acc |-> OneStep(r)]]
           upTo == CHOOSE u : u = body(u)
<1>1. n \in Nat
  BY TreeType
<1>2. Reachable = upTo[n]
  BY DEF Reachable, Enough, Entries, Start, OneStep, Inside, Listable
<1>3. {Start} \in Acc
  BY TreeType DEF Start, Spots
<1>4. \A r \in Acc : OneStep(r) \in Acc
  BY ReachedType DEF OneStep, Inside
<1>5. table \in Tables(n, Acc)
  BY <1>4 DEF Tables
<1>6. \A k \in 1..n, r \in Acc : table[k][r] = OneStep(r)
  OBVIOUS
<1> HIDE DEF n, Acc, table
<1>7. PICK h \in [0..n -> Acc] : h[0] = {Start} /\ \A k \in 1..n : h[k] = table[k][h[k - 1]]
  BY <1>1, <1>3, <1>5, Recursion
<1>8. \A k \in 1..n : h[k] = OneStep(h[k - 1])
  <2> SUFFICES ASSUME NEW k \in 1..n PROVE h[k] = OneStep(h[k - 1])
    OBVIOUS
  <2>1. h[k - 1] \in Acc
    BY <1>1
  <2>2. QED BY <1>6, <1>7, <2>1
<1>9. h = body(h)
  <2>1. h = [k \in 0..n |-> h[k]]
    OBVIOUS
  <2>2. \A k \in 0..n : h[k] = IF k = 0 THEN {Start} ELSE OneStep(h[k - 1])
    BY <1>1, <1>7, <1>8
  <2>3. QED BY <2>1, <2>2
<1>10. upTo = body(upTo)
  <2> HIDE DEF body
  <2>1. QED BY <1>9
<1> DEFINE wrong == {k \in 0..n : upTo[k] # h[k]}
<1>11. wrong = {}
  <2>1. upTo[0] = {Start} /\ \A k \in 1..n : upTo[k] = OneStep(upTo[k - 1])
    <3> HIDE DEF upTo
    <3>1. \A k \in 0..n : upTo[k] = IF k = 0 THEN {Start} ELSE OneStep(upTo[k - 1])
      BY <1>10
    <3>2. QED BY <1>1, <3>1
  <2> HIDE DEF upTo
  <2> SUFFICES ASSUME wrong # {} PROVE FALSE
    OBVIOUS
  <2>2. wrong \in SUBSET Nat
    OBVIOUS
  <2>3. PICK k \in wrong : \A m \in wrong : k <= m
    BY <2>2, LeastOf
  <2>4. k \in 1..n /\ k - 1 \in 0..n /\ ~ (k <= k - 1)
    <3>1. k \in 0..n /\ upTo[k] # h[k]
      BY <2>3
    <3>2. k # 0
      BY <1>7, <2>1, <3>1
    <3>3. QED BY <1>1, <3>1, <3>2
  <2>5. upTo[k - 1] = h[k - 1]
    BY <2>3, <2>4
  <2>6. QED BY <1>8, <2>1, <2>3, <2>4, <2>5
<1>12. Reachable = h[n]
  <2>1. n \in 0..n
    BY <1>1
  <2> HIDE DEF upTo
  <2>2. QED BY <1>2, <1>11, <2>1
<1>13. QED BY <1>7, <1>8, <1>12 DEF IsReach, Acc, n

\* The entries nearer to the root of the tree.
Nearer(at) == {e \in DOMAIN Tree : Len(e) < Len(at)}

\* A path is no longer than the entries its links pass by and those it leads
\* past.
LEMMA PathBound ==
  ASSUME IsPlace(place), NEW d \in Spots, d.links <= MaxLinks,
         Len(d.path) <= d.links * Entries + Cardinality(Nearer(d.at))
  PROVE  /\ Len(d.path) < Enough
         /\ \A e \in EntriesOf(d.at) :
              Len(Reached(d, e).path)
                <= Reached(d, e).links * Entries + Cardinality(Nearer(Reached(d, e).at))
<1>1. /\ d.at \in DOMAIN Tree /\ d.path \in Seq(Text) /\ d.links \in Nat
      /\ IsFiniteSet(DOMAIN Tree) /\ Entries \in Nat
      /\ \A e \in DOMAIN Tree : e \in Seq(Text)
  BY TreeType DEF Spots
<1>2. \A at : IsFiniteSet(Nearer(at)) /\ Cardinality(Nearer(at)) \in Nat
  <2> TAKE at
  <2>1. IsFiniteSet(Nearer(at))
    BY <1>1, FS_Subset DEF Nearer
  <2>2. QED BY <2>1, FS_CardinalityType
<1>3. Cardinality(Nearer(d.at)) + 1 <= Entries
  <2>1. Nearer(d.at) \in SUBSET (DOMAIN Tree \ {d.at})
    BY <1>1 DEF Nearer
  <2>2. Cardinality(DOMAIN Tree \ {d.at}) = Entries - 1 /\ IsFiniteSet(DOMAIN Tree \ {d.at})
    BY <1>1, FS_RemoveElement DEF Entries
  <2>3. Cardinality(Nearer(d.at)) <= Entries - 1
    BY <2>1, <2>2, FS_Subset
  <2>4. QED BY <1>1, <1>2, <2>3
<1>4. Len(d.path) < Enough
  <2>1. d.links * Entries <= MaxLinks * Entries
    BY <1>1, MaxLinksAssumption
  <2>2. MaxLinks * Entries + Entries = Enough
    BY <1>1, MaxLinksAssumption DEF Enough
  <2>3. d.links * Entries \in Nat /\ MaxLinks * Entries \in Nat /\ Len(d.path) \in Nat
    BY <1>1, MaxLinksAssumption
  <2>4. QED BY <1>1, <1>2, <1>3, <2>1, <2>2, <2>3
<1>5. ASSUME NEW e \in EntriesOf(d.at)
      PROVE  Len(Reached(d, e).path)
               <= Reached(d, e).links * Entries + Cardinality(Nearer(Reached(d, e).at))
  <2>1. /\ e \in DOMAIN Tree /\ Len(e) = Len(d.at) + 1 /\ Len(d.at) \in Nat
        /\ Reached(d, e).path = Append(d.path, Last(e)) /\ Reached(d, e).at \in DOMAIN Tree
    BY ReachedType DEF Spots
  <2>2. Len(Reached(d, e).path) = Len(d.path) + 1 /\ Len(d.path) \in Nat
    BY <1>1, <2>1, ReachedType
  <2>3. CASE Tree[e].kind = "link"
    <3>1. Reached(d, e).links = d.links + 1
      BY <2>3 DEF Reached
    <3>2. (d.links + 1) * Entries = d.links * Entries + Entries /\ d.links * Entries \in Nat
      BY <1>1
    <3>3. QED BY <1>1, <1>2, <1>3, <2>2, <3>1, <3>2
  <2>4. CASE Tree[e].kind # "link"
    <3>1. Reached(d, e).links = d.links /\ Reached(d, e).at = e /\ d.links * Entries \in Nat
      BY <1>1, <2>4 DEF Reached
    <3>2. Nearer(d.at) \cup {d.at} \in SUBSET Nearer(e)
      <4>1. \A x \in DOMAIN Tree : Len(x) \in Nat
        BY <1>1
      <4>2. QED BY <1>1, <2>1, <4>1 DEF Nearer
    <3>3. d.at \notin Nearer(d.at)
      BY <2>1 DEF Nearer
    <3>4. Cardinality(Nearer(d.at) \cup {d.at}) = Cardinality(Nearer(d.at)) + 1
      BY <1>2, <3>3, FS_AddElement
    <3>5. Cardinality(Nearer(d.at) \cup {d.at}) <= Cardinality(Nearer(e))
      BY <1>2, <3>2, FS_Subset
    <3>6. QED BY <1>1, <1>2, <2>2, <3>1, <3>4, <3>5
  <2>5. QED BY <2>3, <2>4
<1>6. QED BY <1>4, <1>5

\* What is reached in k steps is reached as soon as its path is long.
LEMMA ReachedInTime ==
  ASSUME IsPlace(place), NEW h, IsReach(h, Enough), \A k \in 0..Enough : h[k] \in SUBSET Spots,
         NEW k \in 0..Enough, NEW x \in h[k]
  PROVE  /\ x.links <= MaxLinks /\ Len(x.path) \in 0..k /\ x \in h[Len(x.path)]
         /\ Len(x.path) <= x.links * Entries + Cardinality(Nearer(x.at))
<1> DEFINE n == Enough
           Fine(y, m) == /\ y.links <= MaxLinks /\ Len(y.path) \in 0..m /\ y \in h[Len(y.path)]
                         /\ Len(y.path) <= y.links * Entries + Cardinality(Nearer(y.at))
           wrong == {m \in 0..n : ~ \A y \in h[m] : Fine(y, m)}
<1>1. n \in Nat /\ Entries \in Nat /\ place.root \in DOMAIN Tree /\ IsFiniteSet(DOMAIN Tree)
  BY TreeType
<1>2. h[0] = {Start} /\ \A m \in 1..n : h[m] = OneStep(h[m - 1])
  BY DEF IsReach
<1>3. \A y \in h[0] : Fine(y, 0)
  <2>1. Cardinality(Nearer(place.root)) \in Nat
    <3>1. IsFiniteSet(Nearer(place.root))
      BY <1>1, FS_Subset DEF Nearer
    <3>2. QED BY <3>1, FS_CardinalityType
  <2>2. Start.links = 0 /\ Len(Start.path) = 0 /\ Start.at = place.root /\ 0 * Entries = 0
    BY <1>1 DEF Start
  <2>3. QED BY <1>2, <2>1, <2>2, MaxLinksAssumption
<1>4. ASSUME NEW m \in 1..n, \A y \in h[m - 1] : Fine(y, m - 1), NEW y \in h[m]
      PROVE  Fine(y, m)
  <2>1. m - 1 \in 0..n
    BY <1>1
  <2>2. CASE y \in h[m - 1]
    <3>1. Fine(y, m - 1)
      BY <1>4, <2>2
    <3>2. QED BY <1>1, <3>1
  <2>3. CASE y \notin h[m - 1]
    <3>1. PICK d \in h[m - 1] : Listable(d) /\ y \in Inside(d)
      BY <1>2, <2>3 DEF OneStep
    <3>2. PICK e \in EntriesOf(d.at) : y = Reached(d, e) /\ Reached(d, e).links <= MaxLinks
      BY <3>1 DEF Inside
    <3>3. Fine(d, m - 1) /\ d \in Spots
      BY <1>4, <2>1
    <3>4. Len(y.path) = Len(d.path) + 1 /\ Len(d.path) \in Nat
      BY <3>2, <3>3, ReachedType
    <3>5. Len(y.path) <= y.links * Entries + Cardinality(Nearer(y.at))
      BY <3>2, <3>3, PathBound
    <3>6. Len(y.path) \in 1..m /\ Len(y.path) \in 1..n /\ Len(y.path) - 1 = Len(d.path)
      BY <1>1, <3>3, <3>4
    <3>7. y \in h[Len(y.path)]
      <4>1. d \in h[Len(y.path) - 1]
        BY <3>3, <3>6
      <4>2. h[Len(y.path)] = OneStep(h[Len(y.path) - 1])
        BY <1>2, <3>6
      <4>3. QED BY <3>1, <4>1, <4>2 DEF OneStep
    <3>8. QED BY <3>2, <3>5, <3>6, <3>7
  <2>4. QED BY <2>2, <2>3
<1>5. wrong = {}
  <2> HIDE DEF Fine
  <2> SUFFICES ASSUME wrong # {} PROVE FALSE
    OBVIOUS
  <2>1. wrong \in SUBSET Nat
    OBVIOUS
  <2>2. PICK m \in wrong : \A o \in wrong : m <= o
    BY <2>1, LeastOf
  <2>3. m \in 1..n /\ m - 1 \in 0..n /\ ~ (m <= m - 1)
    <3>1. m \in 0..n /\ m # 0
      BY <1>3, <2>2
    <3>2. QED BY <1>1, <3>1
  <2>4. m - 1 \notin wrong
    BY <2>2, <2>3
  <2>5. QED BY <1>4, <2>2, <2>3, <2>4
<1>6. QED BY <1>5

\* The root can be reached, and what is in a directory that can be.
LEMMA ReachableIs ==
  ASSUME IsPlace(place)
  PROVE  /\ Start \in Reachable /\ Reachable \in SUBSET Spots
         /\ \A x \in Reachable : x.links <= MaxLinks
         /\ \A d \in Reachable : Listable(d) =>
              \A e \in EntriesOf(d.at) : Reached(d, e).links <= MaxLinks => Reached(d, e) \in Reachable
<1> DEFINE n == Enough
<1>1. PICK h : IsReach(h, n) /\ Reachable = h[n] /\ \A k \in 0..n : h[k] \in SUBSET Spots
  BY ReachSteps
<1>2. n \in Nat \ {0} /\ n \in 0..n
  BY TreeType
<1>3. h[0] = {Start} /\ \A m \in 1..n : h[m] = OneStep(h[m - 1])
  BY <1>1 DEF IsReach
<1>4. ASSUME NEW m \in 0..n PROVE h[m] \subseteq h[n]
  <2> DEFINE wrong == {k \in m..n : ~ (h[m] \subseteq h[k])}
  <2>1. wrong = {}
    <3> SUFFICES ASSUME wrong # {} PROVE FALSE
      OBVIOUS
    <3>1. wrong \in SUBSET Nat
      OBVIOUS
    <3>2. PICK k \in wrong : \A o \in wrong : k <= o
      BY <3>1, LeastOf
    <3>3. k \in 1..n /\ k - 1 \in m..n /\ ~ (k <= k - 1)
      <4>1. k \in m..n /\ k # m
        BY <3>2
      <4>2. QED BY <1>2, <4>1
    <3>4. h[m] \subseteq h[k - 1] /\ h[k - 1] \subseteq h[k]
      BY <1>3, <3>2, <3>3 DEF OneStep
    <3>5. QED BY <3>2, <3>4
  <2>2. n \in m..n
    BY <1>2
  <2>3. QED BY <2>1, <2>2
<1>5. Start \in Reachable
  <2>1. 0 \in 0..n
    BY <1>2
  <2>2. QED BY <1>1, <1>3, <1>4, <2>1
<1>6. \A x \in Reachable : x.links <= MaxLinks
  BY <1>1, <1>2, ReachedInTime
<1>7. ASSUME NEW d \in Reachable, Listable(d), NEW e \in EntriesOf(d.at),
             Reached(d, e).links <= MaxLinks
      PROVE  Reached(d, e) \in Reachable
  <2>1. /\ d \in Spots /\ d.links <= MaxLinks /\ d \in h[Len(d.path)]
        /\ Len(d.path) <= d.links * Entries + Cardinality(Nearer(d.at))
    BY <1>1, <1>2, ReachedInTime
  <2>2. Len(d.path) < n /\ Len(d.path) \in Nat
    BY <2>1, PathBound DEF Spots
  <2> DEFINE m == Len(d.path) + 1
  <2>3. m \in 1..n /\ m \in 0..n /\ m - 1 = Len(d.path)
    BY <1>2, <2>2
  <2> HIDE DEF m
  <2>4. d \in h[m - 1]
    BY <2>1, <2>3
  <2>5. Reached(d, e) \in Inside(d)
    BY <1>7 DEF Inside
  <2>6. Reached(d, e) \in h[m]
    BY <1>3, <1>7, <2>3, <2>4, <2>5 DEF OneStep
  <2>7. QED BY <1>1, <1>4, <2>3, <2>6
<1>8. QED BY <1>1, <1>2, <1>5, <1>6, <1>7

\* And nothing else.
LEMMA ReachableLeast ==
  ASSUME IsPlace(place), NEW S, Start \in S,
         \A d \in S \cap Reachable : Listable(d) =>
           \A e \in EntriesOf(d.at) : Reached(d, e).links <= MaxLinks => Reached(d, e) \in S
  PROVE  Reachable \subseteq S
<1> DEFINE n == Enough
<1>1. PICK h : IsReach(h, n) /\ Reachable = h[n] /\ \A k \in 0..n : h[k] \in SUBSET Spots
  BY ReachSteps
<1>2. n \in Nat /\ n \in 0..n
  BY TreeType
<1>3. h[0] = {Start} /\ \A m \in 1..n : h[m] = OneStep(h[m - 1])
  BY <1>1 DEF IsReach
<1> DEFINE wrong == {k \in 0..n : ~ (h[k] \subseteq S \cap Reachable)}
<1>4. wrong = {}
  <2> SUFFICES ASSUME wrong # {} PROVE FALSE
    OBVIOUS
  <2>1. wrong \in SUBSET Nat
    OBVIOUS
  <2>2. PICK k \in wrong : \A o \in wrong : k <= o
    BY <2>1, LeastOf
  <2>3. k \in 1..n /\ k - 1 \in 0..n /\ ~ (k <= k - 1)
    <3>1. k \in 0..n /\ k # 0
      BY <1>3, <2>2, ReachableIs
    <3>2. QED BY <1>2, <3>1
  <2>4. h[k - 1] \subseteq S \cap Reachable
    BY <2>2, <2>3
  <2>5. h[k] = OneStep(h[k - 1])
    BY <1>3, <2>3
  <2>6. h[k] \subseteq S \cap Reachable
    <3> SUFFICES ASSUME NEW x \in h[k], x \notin h[k - 1] PROVE x \in S \cap Reachable
      BY <2>4
    <3>1. PICK d \in h[k - 1] : Listable(d) /\ x \in Inside(d)
      BY <2>5 DEF OneStep
    <3>2. PICK e \in EntriesOf(d.at) : x = Reached(d, e) /\ Reached(d, e).links <= MaxLinks
      BY <3>1 DEF Inside
    <3>3. d \in S \cap Reachable
      BY <2>4
    <3>4. QED BY <3>1, <3>2, <3>3, ReachableIs
  <2>7. QED BY <2>2, <2>6
<1>5. QED BY <1>1, <1>2, <1>4

\* The names on the way to a place are those of directories; so is the last
\* one, if it is a directory.
IsDirName(name) == \E e \in DOMAIN Tree : e # <<>> /\ IsDir(e) /\ Last(e) = name

Named(x) ==
  /\ IsPath(x.path)
  /\ \A k \in 1..(Len(x.path) - 1) : IsDirName(x.path[k])
  /\ Tree[x.at].kind = "dir" /\ x.path # <<>> => IsDirName(x.path[Len(x.path)])

\* A place is entered by a name: by that of the entry, which is a directory if
\* it leads to one.
LEMMA NameOnTheWay ==
  ASSUME IsPlace(place), NEW d \in Spots, Tree[d.at].kind = "dir", Named(d),
         NEW e \in EntriesOf(d.at)
  PROVE  /\ Named(Reached(d, e)) /\ Reached(d, e).path # <<>>
         /\ Len(Reached(d, e).path) = Len(d.path) + 1 /\ Len(d.path) \in Nat
         /\ Upper(Reached(d, e).path, Len(d.path)) = d.path
         /\ Last(Reached(d, e).path) = Last(e)
         /\ Tree[Reached(d, e).at].kind = "dir" <=> IsDir(e)
<1> DEFINE x == Reached(d, e)
<1>1. /\ e \in DOMAIN Tree /\ e # <<>> /\ x \in Spots
      /\ Last(e) \in Text /\ Last(e) # <<>> /\ "/" \notin Range(Last(e))
      /\ x.path = Append(d.path, Last(e)) /\ d.path \in Seq(Text)
  BY ReachedType
<1>2. Tree[x.at].kind = "dir" <=> IsDir(e)
  <2>1. CASE Tree[e].kind = "link"
    <3>1. x.at = Tree[e].to /\ Tree[Tree[e].to].kind = "dir"
      BY <1>1, <2>1, TreeType DEF Reached
    <3>2. QED BY <2>1, <3>1 DEF IsDir
  <2>2. CASE Tree[e].kind # "link"
    BY <2>2 DEF Reached, IsDir
  <2>3. QED BY <2>1, <2>2
<1> HIDE DEF x
<1>3. /\ x.path \in Seq(Text) /\ Len(x.path) = Len(d.path) + 1 /\ Len(d.path) \in Nat
      /\ x.path[Len(d.path) + 1] = Last(e) /\ \A k \in 1..Len(d.path) : x.path[k] = d.path[k]
      /\ x.path # <<>>
  BY <1>1
<1>4. Upper(x.path, Len(d.path)) = d.path
  BY <1>1, <1>3 DEF Upper
<1>5. IsPath(x.path)
  <2>1. DOMAIN x.path = 1..(Len(d.path) + 1)
        /\ \A k \in 1..(Len(d.path) + 1) : k = Len(d.path) + 1 \/ k \in 1..Len(d.path)
    BY <1>3
  <2>2. \A k \in 1..Len(d.path) : d.path[k] # <<>> /\ "/" \notin Range(d.path[k])
    BY <1>1 DEF Named, IsPath
  <2>3. \A k \in 1..(Len(d.path) + 1) : x.path[k] # <<>> /\ "/" \notin Range(x.path[k])
    BY <1>1, <1>3, <2>1, <2>2
  <2>4. QED BY <1>3, <2>1, <2>3 DEF IsPath
<1>6. \A k \in 1..Len(d.path) : IsDirName(x.path[k])
  <2> SUFFICES ASSUME NEW k \in 1..Len(d.path) PROVE IsDirName(d.path[k])
    BY <1>3
  <2>1. k \in 1..(Len(d.path) - 1) \/ (k = Len(d.path) /\ d.path # <<>>)
    BY <1>3
  <2>2. QED BY <2>1 DEF Named
<1>7. Tree[x.at].kind = "dir" => IsDirName(x.path[Len(x.path)])
  BY <1>1, <1>2, <1>3 DEF IsDirName
<1>8. Named(x)
  BY <1>3, <1>5, <1>6, <1>7 DEF Named
<1>9. QED BY <1>2, <1>3, <1>4, <1>8 DEF x, Last

\* Every place that can be reached is named.
LEMMA AllNamed ==
  ASSUME IsPlace(place)
  PROVE  \A x \in Reachable : Named(x)
<1> DEFINE S == {x \in Reachable : Named(x)}
<1>1. Start \in S
  <2>1. <<>> \in Seq(Text) /\ Start.path = <<>>
    BY DEF Start
  <2>2. Named(Start)
    BY <2>1 DEF Named, IsPath
  <2>3. QED BY <2>2, ReachableIs
<1>2. ASSUME NEW d \in S \cap Reachable, Listable(d), NEW e \in EntriesOf(d.at),
             Reached(d, e).links <= MaxLinks
      PROVE  Reached(d, e) \in S
  <2>1. d \in Spots /\ Tree[d.at].kind = "dir" /\ Named(d) /\ Reached(d, e) \in Reachable
    BY <1>2, ReachableIs DEF Listable
  <2>2. QED BY <2>1, NameOnTheWay
<1> HIDE DEF S
<1>3. Reachable \subseteq S
  BY <1>1, <1>2, ReachableLeast
<1>4. QED BY <1>3 DEF S

-----------------------------------------------------------------------------
(***************************************************************************)
(* The walk.                                                               *)
(***************************************************************************)
\* A name more leaves the names before it.
LEMMA NextUpper ==
  ASSUME NEW p \in Seq(Text), NEW name \in Text, NEW n \in 1..Len(p)
  PROVE  Upper(Append(p, name), n) = Upper(p, n)
<1> DEFINE q == Append(p, name)
<1>1. /\ q \in Seq(Text) /\ Len(q) = Len(p) + 1 /\ Len(p) \in Nat
      /\ n \in 0..Len(p) /\ n \in 0..Len(q) /\ \A i \in 1..n : q[i] = p[i]
  OBVIOUS
<1> HIDE DEF q
<1>2. /\ Upper(q, n) \in Seq(Text) /\ Len(Upper(q, n)) = n
      /\ \A i \in 1..n : Upper(q, n)[i] = q[i]
      /\ Upper(p, n) \in Seq(Text) /\ Len(Upper(p, n)) = n
      /\ \A i \in 1..n : Upper(p, n)[i] = p[i]
  BY <1>1, UpperType
<1>3. Upper(q, n) = Upper(p, n)
  BY <1>1, <1>2
<1>4. QED BY <1>3 DEF q

\* Nothing leaves out the directory p, or one above it.
Open(p) ==
  \A n \in 1..Len(p) :
    /\ Last(Upper(p, n)) \notin DefaultExcludeDirs
    /\ ~ ExcludedByGlobs(Upper(p, n), globs) /\ ~ GitIgnores(rules, Upper(p, n), TRUE)

\* The directories to be listed, and the files to be found.
ToList == {d \in Reachable : Tree[d.at].kind = "dir" /\ Open(d.path)}

ToFind ==
  {x \in Reachable :
     /\ Tree[x.at].kind = "file" /\ IsPython(Last(x.at))
     /\ \A n \in 1..Len(x.path) :
          LET above == SubSeq(x.path, 1, n)
          IN  /\ n < Len(x.path) => Last(above) \notin DefaultExcludeDirs
              /\ ~ ExcludedByGlobs(above, globs)
              /\ ~ GitIgnores(rules, above, n < Len(x.path))}

Spot(x) == [path |-> x.path, at |-> x.at]

\* What the walk keeps of the entries of a directory.
Keeps(d, e, isDir) ==
  LET p == Append(d.path, Last(e))
  IN  ~ ExcludedByGlobs(p, globs) /\ ~ Ignored(p, isDir)

\* The rules in force are rules of the subset.
InForce == IsPlace(place) /\ rules \in Seq(Rules) /\ Supported(rules)

\* Of a directory that is to be listed the walk keeps just the directories
\* that are, and the files that are to be found.
LEMMA KeptAlike ==
  ASSUME InForce, NEW d \in ToList, Listable(d), NEW e \in EntriesOf(d.at),
         Reached(d, e).links <= MaxLinks
  PROVE  /\ IsDir(e) =>
              (Last(e) \notin DefaultExcludeDirs /\ Keeps(d, e, TRUE) <=> Reached(d, e) \in ToList)
         /\ Tree[e].kind = "file" =>
              (IsPython(Last(e)) /\ Keeps(d, e, FALSE) <=> Reached(d, e) \in ToFind)
<1> DEFINE x == Reached(d, e)
           m == Len(d.path)
<1>1. d \in Reachable /\ Tree[d.at].kind = "dir" /\ Open(d.path)
  BY DEF ToList
<1>2. d \in Spots /\ Named(d) /\ x \in Reachable
  BY <1>1, ReachableIs, AllNamed DEF InForce
<1>3. /\ Named(x) /\ x.path # <<>> /\ Len(x.path) = m + 1 /\ m \in Nat
      /\ Upper(x.path, m) = d.path /\ Last(x.path) = Last(e)
      /\ Tree[x.at].kind = "dir" <=> IsDir(e)
  BY <1>1, <1>2, NameOnTheWay DEF InForce
<1>4. x.path = Append(d.path, Last(e))
  BY DEF Reached
<1> HIDE DEF x
<1>5. IsPath(x.path) /\ x.path \in Seq(Text)
  BY <1>3 DEF Named, IsPath
<1>6. Upper(x.path, m + 1) = x.path
  BY <1>3, <1>5 DEF Upper
<1>7. \A n \in 1..m : Upper(x.path, n) = Upper(d.path, n)
  BY <1>2, <1>4, NextUpper, ReachedType DEF Spots, InForce
<1>8. \A n \in 1..m :
        /\ Last(Upper(x.path, n)) \notin DefaultExcludeDirs
        /\ ~ ExcludedByGlobs(Upper(x.path, n), globs) /\ ~ GitIgnores(rules, Upper(x.path, n), TRUE)
  BY <1>1, <1>7 DEF Open
<1>9. WalkedTo(x.path)
  <2>1. m = Len(x.path) - 1
    BY <1>3
  <2>2. \A k \in 1..m : IsDirName(x.path[k])
    BY <1>3, <2>1 DEF Named
  <2>3. QED BY <1>3, <1>5, <1>8, <2>1, <2>2 DEF WalkedTo, IsDirName
<1>10. \A isDir \in BOOLEAN :
         Keeps(d, e, isDir) <=> ~ ExcludedByGlobs(x.path, globs) /\ ~ GitIgnores(rules, x.path, isDir)
  BY <1>4, <1>9, RulesAgree DEF Keeps, InForce
<1>11. 1..(m + 1) = (1..m) \cup {m + 1}
  BY <1>3
<1>12. ASSUME IsDir(e)
       PROVE  Last(e) \notin DefaultExcludeDirs /\ Keeps(d, e, TRUE) <=> x \in ToList
  <2>1. x \in ToList <=> Open(x.path)
    BY <1>2, <1>3, <1>12 DEF ToList
  <2>2. Open(x.path) <=>
          /\ Last(x.path) \notin DefaultExcludeDirs
          /\ ~ ExcludedByGlobs(x.path, globs) /\ ~ GitIgnores(rules, x.path, TRUE)
    BY <1>3, <1>6, <1>8, <1>11 DEF Open
  <2>3. QED BY <1>3, <1>10, <2>1, <2>2
<1>13. ASSUME Tree[e].kind = "file"
       PROVE  IsPython(Last(e)) /\ Keeps(d, e, FALSE) <=> x \in ToFind
  <2>1. x.at = e
    BY <1>13 DEF x, Reached
  <2>2. \A n \in 1..m : n < m + 1 /\ (n < m + 1) = TRUE
    BY <1>3
  <2>3. ~ (m + 1 < m + 1) /\ (m + 1 < m + 1) = FALSE
    BY <1>3
  <2> DEFINE fine(n) == /\ n < m + 1 => Last(Upper(x.path, n)) \notin DefaultExcludeDirs
                        /\ ~ ExcludedByGlobs(Upper(x.path, n), globs)
                        /\ ~ GitIgnores(rules, Upper(x.path, n), n < m + 1)
  <2>4. x \in ToFind <=> IsPython(Last(e)) /\ \A n \in 1..(m + 1) : fine(n)
    BY <1>2, <1>3, <1>13, <2>1 DEF ToFind, Upper
  <2>5. \A n \in 1..m : fine(n)
    BY <1>8, <2>2
  <2>6. fine(m + 1) <=> ~ ExcludedByGlobs(x.path, globs) /\ ~ GitIgnores(rules, x.path, FALSE)
    BY <1>6, <2>3
  <2> HIDE DEF fine
  <2>7. x \in ToFind <=> IsPython(Last(e)) /\ fine(m + 1)
    BY <1>11, <2>4, <2>5
  <2>8. QED BY <1>10, <2>6, <2>7
<1>14. QED BY <1>12, <1>13 DEF x

\* The walk has listed the directories seen: what it keeps of them is found,
\* or seen, or still to be listed.
Sought(seen) ==
  /\ seen \subseteq ToList /\ todo \subseteq ToList /\ Start \in seen \cup todo
  /\ found \subseteq Expected(rules, globs)
  /\ \A d \in seen : Listable(d) =>
       \A e \in EntriesOf(d.at) : Reached(d, e).links <= MaxLinks =>
         /\ Reached(d, e) \in ToList => Reached(d, e) \in seen \cup todo
         /\ Reached(d, e) \in ToFind => Spot(Reached(d, e)) \in found

\* What is expected is where the files to be found are.
LEMMA ExpectedIs == Expected(rules, globs) = {Spot(x) : x \in ToFind}
BY DEF Expected, ToFind, Spot

\* Listing one more directory keeps it so.
LEMMA WalkKeeps ==
  ASSUME InForce, NEW seen, Sought(seen), NEW d \in todo, Walk(d)
  PROVE  Sought(seen \cup {d})'
<1>1. UNCHANGED <<place, rules, globs>>
  BY DEF Walk
<1>2. /\ Reachable' = Reachable /\ Tree' = Tree
      /\ \A x : Listable(x)' = Listable(x) /\ EntriesOf(x)' = EntriesOf(x)
      /\ \A x, e : Reached(x, e)' = Reached(x, e)
      /\ Start' = Start
  BY <1>1 DEF Reachable, Tree, EntriesOf, Reached, Listable, Start
<1>3. ToList' = ToList /\ ToFind' = ToFind /\ Expected(rules, globs)' = Expected(rules, globs)
  BY <1>1, <1>2 DEF ToList, ToFind, Open, Expected, GitIgnores
<1> DEFINE entries == IF Tree[d.at].readable THEN EntriesOf(d.at) ELSE {}
           dirs == {e \in entries : IsDir(e) /\ Reached(d, e).links <= MaxLinks
                                      /\ Last(e) \notin DefaultExcludeDirs /\ Keeps(d, e, TRUE)}
           files == {e \in entries : Tree[e].kind = "file" /\ IsPython(Last(e)) /\ Keeps(d, e, FALSE)}
<1>4. /\ todo' = (todo \ {d}) \cup {Reached(d, e) : e \in dirs}
      /\ found' = found \cup {[path |-> Append(d.path, Last(e)), at |-> e] : e \in files}
  BY DEF Walk, Keeps
<1>5. d \in ToList /\ Tree[d.at].kind = "dir" /\ d \in Reachable /\ d \in Spots /\ d.links <= MaxLinks
  BY ReachableIs DEF Sought, ToList, InForce
<1>6. Listable(d) => entries = EntriesOf(d.at)
  BY DEF Listable
<1>7. ~ Listable(d) => entries = {}
  <2>1. CASE Tree[d.at].readable
    BY <1>5, <2>1 DEF Listable
  <2>2. CASE ~ Tree[d.at].readable
    BY <2>2
  <2>3. QED BY <2>1, <2>2
<1> HIDE DEF entries
<1>8. ASSUME NEW e \in dirs PROVE Reached(d, e) \in ToList
  BY <1>5, <1>6, <1>7, KeptAlike
<1>9. ASSUME NEW e \in files
      PROVE  /\ Reached(d, e) \in ToFind /\ Reached(d, e).links <= MaxLinks
             /\ Spot(Reached(d, e)) = [path |-> Append(d.path, Last(e)), at |-> e]
  <2>1. Reached(d, e).links <= MaxLinks
    <3>1. Reached(d, e).links = d.links /\ d.links \in Nat
      BY <1>5 DEF Reached, Spots
    <3>2. QED BY <1>5, <3>1
  <2>2. Spot(Reached(d, e)) = [path |-> Append(d.path, Last(e)), at |-> e]
    BY DEF Reached, Spot
  <2>3. QED BY <1>5, <1>6, <1>7, <2>1, <2>2, KeptAlike
<1>10. found' \subseteq Expected(rules, globs)
  <2>1. {[path |-> Append(d.path, Last(e)), at |-> e] : e \in files} \subseteq {Spot(x) : x \in ToFind}
    <3> SUFFICES ASSUME NEW e \in files
                 PROVE  [path |-> Append(d.path, Last(e)), at |-> e] \in {Spot(x) : x \in ToFind}
      OBVIOUS
    <3> HIDE DEF files
    <3>1. QED BY <1>9
  <2>2. QED BY <1>4, <2>1, ExpectedIs DEF Sought
<1>11. todo' \subseteq ToList
  BY <1>4, <1>8 DEF Sought
<1>12. Start \in seen \cup {d} \cup todo' /\ seen \cup {d} \subseteq ToList
  BY <1>4, <1>5 DEF Sought
<1>13. ASSUME NEW c \in seen \cup {d}, Listable(c), NEW e \in EntriesOf(c.at),
              Reached(c, e).links <= MaxLinks
       PROVE  /\ Reached(c, e) \in ToList => Reached(c, e) \in seen \cup {d} \cup todo'
              /\ Reached(c, e) \in ToFind => Spot(Reached(c, e)) \in found'
  <2>1. CASE c \in seen
    BY <1>4, <1>13, <2>1 DEF Sought
  <2>2. CASE c = d
    <3>1. e \in entries
      BY <1>6, <1>13, <2>2
    <3>2. d \in Spots /\ Named(d)
      BY <1>5, AllNamed DEF InForce
    <3>3. Tree[Reached(d, e).at].kind = "dir" <=> IsDir(e)
      BY <1>5, <1>13, <2>2, <3>2, NameOnTheWay DEF InForce
    <3>4. ASSUME Reached(d, e) \in ToList PROVE Reached(d, e) \in todo'
      <4>1. IsDir(e)
        BY <3>3, <3>4 DEF ToList
      <4>2. e \in dirs
        BY <1>5, <1>13, <2>2, <3>1, <3>4, <4>1, KeptAlike
      <4>3. QED BY <1>4, <4>2
    <3>5. ASSUME Reached(d, e) \in ToFind PROVE Spot(Reached(d, e)) \in found'
      <4>1. Tree[Reached(d, e).at].kind = "file"
        BY <3>5 DEF ToFind
      <4>2. Reached(d, e).at = e /\ Tree[e].kind = "file"
        BY <3>3, <4>1 DEF Reached, IsDir
      <4>3. e \in files
        BY <1>5, <1>13, <2>2, <3>1, <3>5, <4>2, KeptAlike
      <4>4. Spot(Reached(d, e)) = [path |-> Append(d.path, Last(e)), at |-> e]
        BY <4>2 DEF Reached, Spot
      <4>5. QED BY <1>4, <4>3, <4>4
    <3>6. QED BY <2>2, <3>4, <3>5
  <2>3. QED BY <2>1, <2>2
<1> HIDE DEF dirs, files
<1>14. QED BY <1>2, <1>3, <1>10, <1>11, <1>12, <1>13 DEF Sought

\* What is to be listed or found is in a directory that is to be listed.
LEMMA OpenAbove ==
  ASSUME InForce, NEW d \in Reachable, Listable(d), NEW e \in EntriesOf(d.at),
         Reached(d, e) \in ToList \cup ToFind
  PROVE  d \in ToList
<1> DEFINE x == Reached(d, e)
           m == Len(d.path)
<1>1. d \in Spots /\ Named(d) /\ Tree[d.at].kind = "dir"
  BY ReachableIs, AllNamed DEF InForce, Listable
<1>2. Len(x.path) = m + 1 /\ m \in Nat
  BY <1>1, NameOnTheWay DEF InForce
<1>3. \A n \in 1..m : Upper(x.path, n) = Upper(d.path, n)
  BY <1>1, NextUpper, ReachedType DEF InForce
<1>4. \A n \in 1..m : n \in 1..(m + 1) /\ n < m + 1 /\ (n < m + 1) = TRUE
  BY <1>2
<1> HIDE DEF x, m
<1>5. CASE x \in ToList
  <2>1. Open(x.path)
    BY <1>5 DEF ToList
  <2>2. Open(d.path)
    BY <1>2, <1>3, <1>4, <2>1 DEF Open, m
  <2>3. QED BY <1>1, <2>2 DEF ToList
<1>6. CASE x \in ToFind
  <2>1. \A n \in 1..m : /\ Last(Upper(x.path, n)) \notin DefaultExcludeDirs
                        /\ ~ ExcludedByGlobs(Upper(x.path, n), globs)
                        /\ ~ GitIgnores(rules, Upper(x.path, n), TRUE)
    <3> SUFFICES ASSUME NEW n \in 1..m
                 PROVE  /\ Last(Upper(x.path, n)) \notin DefaultExcludeDirs
                        /\ ~ ExcludedByGlobs(Upper(x.path, n), globs)
                        /\ ~ GitIgnores(rules, Upper(x.path, n), TRUE)
      OBVIOUS
    <3>1. /\ n < m + 1 => Last(Upper(x.path, n)) \notin DefaultExcludeDirs
          /\ ~ ExcludedByGlobs(Upper(x.path, n), globs)
          /\ ~ GitIgnores(rules, Upper(x.path, n), n < m + 1)
      BY <1>2, <1>4, <1>6 DEF ToFind, Upper
    <3>2. QED BY <1>4, <3>1
  <2>2. Open(d.path)
    BY <1>3, <2>1 DEF Open, m
  <2>3. QED BY <1>1, <2>2 DEF ToList
<1>7. QED BY <1>5, <1>6 DEF x

\* When nothing is left to be listed, everything is found.
LEMMA WalkEnds ==
  ASSUME InForce, Tree[place.root].kind = "dir", NEW seen, Sought(seen), todo = {}
  PROVE  found = Expected(rules, globs)
<1> DEFINE Done(x) == (x \in ToList => x \in seen) /\ (x \in ToFind => Spot(x) \in found)
           S == {x \in Reachable : Done(x)}
<1>1. Start \in S
  <2>1. Start \in Reachable /\ Start \in seen /\ Tree[Start.at].kind = "dir"
    BY ReachableIs DEF Sought, InForce, Start
  <2>2. QED BY <2>1 DEF ToFind
<1>2. ASSUME NEW d \in S \cap Reachable, Listable(d), NEW e \in EntriesOf(d.at),
             Reached(d, e).links <= MaxLinks
      PROVE  Reached(d, e) \in S
  <2>1. Reached(d, e) \in Reachable
    BY <1>2, ReachableIs DEF InForce
  <2>2. ASSUME Reached(d, e) \in ToList \cup ToFind PROVE Done(Reached(d, e))
    <3>1. d \in ToList
      BY <1>2, <2>2, OpenAbove
    <3>2. d \in seen
      BY <1>2, <3>1
    <3>3. QED BY <1>2, <3>2 DEF Sought
  <2>3. QED BY <2>1, <2>2
<1>3. Reachable \subseteq S
  <2> HIDE DEF S
  <2>1. QED BY <1>1, <1>2, ReachableLeast DEF InForce
<1>4. ToFind \subseteq Reachable
  BY DEF ToFind
<1>5. {Spot(x) : x \in ToFind} \subseteq found
  BY <1>3, <1>4
<1>6. QED BY <1>5, ExpectedIs DEF Sought

\* The walk begins with the root.
LEMMA WalkStarts ==
  IsPlace(place) /\ Tree[place.root].kind = "dir" /\ todo = {Start} /\ found = {} => Sought({})
<1> SUFFICES ASSUME IsPlace(place), Tree[place.root].kind = "dir", todo = {Start}, found = {}
             PROVE  Sought({})
  OBVIOUS
<1>1. Start \in Reachable /\ Tree[Start.at].kind = "dir" /\ Start.path = <<>>
  BY ReachableIs DEF Start
<1>2. Open(<<>>)
  BY DEF Open
<1>3. Start \in ToList
  BY <1>1, <1>2 DEF ToList
<1>4. QED BY <1>3 DEF Sought

\* A file that is scanned by itself is all there is to be found, whatever the
\* rules.
LEMMA FileAlone ==
  ASSUME IsPlace(place), Tree[place.root].kind = "file", NEW rs, NEW excludes
  PROVE  Expected(rs, excludes) =
           IF IsPython(Last(place.root)) THEN {[path |-> <<>>, at |-> place.root]} ELSE {}
<1>1. Start.path = <<>> /\ Start.at = place.root
  BY DEF Start
<1>2. Reachable = {Start}
  <2> DEFINE S == {Start}
  <2>1. \A d \in S \cap Reachable : ~ Listable(d)
    BY <1>1 DEF Listable
  <2> HIDE DEF S
  <2>2. Reachable \subseteq S
    <3>1. Start \in S
      BY DEF S
    <3>2. QED BY <2>1, <3>1, ReachableLeast
  <2>3. QED BY <2>2, ReachableIs DEF S
<1> DEFINE left(x) ==
      /\ Tree[x.at].kind = "file" /\ IsPython(Last(x.at))
      /\ \A n \in 1..Len(x.path) :
           LET above == SubSeq(x.path, 1, n)
           IN  /\ n < Len(x.path) => Last(above) \notin DefaultExcludeDirs
               /\ ~ ExcludedByGlobs(above, excludes)
               /\ ~ GitIgnores(rs, above, n < Len(x.path))
<1>3. Expected(rs, excludes) = {Spot(x) : x \in {y \in Reachable : left(y)}}
  BY DEF Expected, Spot
<1>4. left(Start) <=> IsPython(Last(place.root))
  BY <1>1
<1> HIDE DEF left
<1>5. Spot(Start) = [path |-> <<>>, at |-> place.root]
  BY <1>1 DEF Spot
<1>6. QED BY <1>2, <1>3, <1>4, <1>5

=============================================================================
