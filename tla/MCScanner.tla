------------------------------ MODULE MCScanner ------------------------------
(***************************************************************************)
(* Small files: two detectors, up to two functions, two sources that start *)
(* at one place.                                                           *)
(***************************************************************************)
EXTENDS Scanner, TLC

MCRank == ("medium" :> 1) @@ ("high" :> 2)

\* Fingerprints are digests: their order has nothing to do with that of the
\* witnesses.
MCFingerprint ==
  [k \in {"medium", "high"} \X ({7} \X {8, 9}) \X ({1, 2} \X {2, 3, 4}) \X {1, 2} |->
     1000 * Rank[k[1]] + 500 * (k[2][2] - 8) + 100 * k[3][1] + 10 * k[3][2] + (2 - k[4])]

Sink == <<7, 8>>

Report(d, s, w) == [det |-> d, file |-> 0, sink |-> Sink, source |-> s, witness |-> w]

Fn(r) == [raises |-> FALSE, reports |-> r]
Raising == [raises |-> TRUE, reports |-> {}]

Functions ==
  {Fn({}), Raising, Fn({Report("high", <<1, 2>>, 1)}), Fn({Report("high", <<1, 2>>, 2)}),
   Fn({Report("medium", <<1, 2>>, 1)}),
   Fn({Report("high", <<1, 2>>, 2), Report("high", <<1, 4>>, 1), Report("medium", <<2, 3>>, 2)})}

Files ==
  {[parse |-> p, functions |-> <<>>] : p \in {"none", "raises"}}
    \cup {[parse |-> "ok", functions |-> <<a, b>>] : a \in Functions, b \in Functions}

=============================================================================
