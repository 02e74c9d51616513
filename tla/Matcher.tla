------------------------------ MODULE Matcher ------------------------------
(***************************************************************************)
(* Whether a pattern of a detector selects a site of the program: the      *)
(* pure matcher of engine/matcher.py.                                      *)
(*                                                                         *)
(* A dotted name is the sequence of its segments.  A pattern is a record   *)
(* of its kind, its segments, the argument positions it is restricted to   *)
(* (EveryArg: not restricted) and the keywords it requires (a function     *)
(* from names to literals; NoWhen: none).  A site is a record of its kind, *)
(* its canonical name (Unresolved: the frontend found none), how many      *)
(* positional arguments it writes and its keyword arguments, a function    *)
(* from names to literals or NotLiteral.  A literal is a pair of a type    *)
(* and a value.                                                            *)
(***************************************************************************)
EXTENDS Integers, Sequences, SequencesExt

Star == "*"

Kinds == {"call", "attribute", "parameter", "import"}

EveryArg == {-1}
NoWhen == <<>>
Unresolved == <<>>
NotLiteral == <<"expression", 0>>

(***************************************************************************)
(* The three modes: no star, one that ends the pattern and stands for one  *)
(* segment, one that starts a longer pattern and stands for one or more.   *)
(* Any other placement matches nothing.                                    *)
(***************************************************************************)
MatchDotted(p, n) ==
  LET stars == {i \in DOMAIN p : p[i] = Star}
  IN  \/ stars = {} /\ p = n
      \/ /\ stars = {Len(p)}
         /\ Len(n) = Len(p) /\ IsPrefix(Front(p), n)
      \/ /\ stars = {1} /\ Len(p) > 1
         /\ IsStrictSuffix(Tail(p), n)

ResolveArgIndices(args, count) ==
  IF args = EveryArg THEN 0..(count - 1) ELSE args \cap 0..(count - 1)

\* Python's equality of literals, which goes by the value among numbers and
\* flags: True == 1 == 1.0.
Numeric == {"bool", "int", "float", "complex"}

Equal(u, v) == u = v \/ ({u[1], v[1]} \subseteq Numeric /\ u[2] = v[2])

LiteralKeywords(call) == {k \in DOMAIN call.kwargs : call.kwargs[k] # NotLiteral}

\* Mutant: a keyword the call does not pass is no obstacle.
MatchWhenPassed(when, call) ==
  \A k \in DOMAIN when \cap LiteralKeywords(call) : Equal(call.kwargs[k], when[k])

MatchWhen(when, call) ==
  \A k \in DOMAIN when : k \in LiteralKeywords(call) /\ Equal(call.kwargs[k], when[k])

NamesMatch(pattern, node) == node.name # Unresolved /\ MatchDotted(pattern.pattern, node.name)

MatchCall(pattern, call) ==
  /\ NamesMatch(pattern, call)
  /\ pattern.when # NoWhen => MatchWhen(pattern.when, call)
  /\ pattern.args # EveryArg => ResolveArgIndices(pattern.args, call.args) # {}

\* The sites a pattern selects; the positions to check there are those of
\* ResolveArgIndices.
Matches(pattern, node) ==
  /\ pattern.kind = node.kind
  /\ IF pattern.kind = "call" THEN MatchCall(pattern, node) ELSE NamesMatch(pattern, node)

=============================================================================
