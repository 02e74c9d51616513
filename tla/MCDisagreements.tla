-------------------------- MODULE MCDisagreements --------------------------
(***************************************************************************)
(* Functions on which the engine does not do what its reference says.      *)
(***************************************************************************)
EXTENDS MCDataflow

OneBlock(stmts) == Function((0 :> {}), (0 :> stmts))

(***************************************************************************)
(* A sanitizer of detector d1 applied to a value on its way to a sink of   *)
(* d2: x = input(); y = quote(x); execute(y).                              *)
(***************************************************************************)
ForeignSanitizer ==
  {OneBlock(<<Let(X, Value(Input(1))),
              Let(Y, [Invoke(external, 2, Var(X)) EXCEPT !.call.sanitizes = {d1}]),
              Eval([Invoke(external, 3, Var(Y)) EXCEPT
                      !.call.sinks = {[spec |-> d2, args |-> {1}]}])>>)}

(***************************************************************************)
(* Two attributes below the cap share the path they are collapsed onto:    *)
(* x.a.a.a = input(); x.a.a.b = "c"; system(x.a.a.a).                      *)
(***************************************************************************)
Deep(s) == [base |-> x, steps |-> <<a, a, s>>]

CollapsedPath ==
  {OneBlock(<<Let(Deep(a), Value(Input(1))), Let(Deep(b), Value(Const)),
              Eval(SinkCall(3, Var(Deep(a))))>>)}

(***************************************************************************)
(* An augmented assignment to an object one of whose members is tainted:   *)
(* x.a = input(); x |= y; system(x.a).                                     *)
(***************************************************************************)
AugmentedObject ==
  {OneBlock(<<Let(Xa, Value(Input(1))), Aug(X, Value(Var(Y))), Eval(SinkCall(3, Var(Xa)))>>)}

(***************************************************************************)
(* A constant written to some element of a tainted container, which the    *)
(* reference keeps tainted: x = input(); x[y] = "c"; system(x).            *)
(***************************************************************************)
DynamicWrite ==
  {OneBlock(<<Let(X, Value(Input(1))), [Let(X, Value(Const)) EXCEPT !.dynamic = {1}],
              Eval(SinkCall(3, Var(X)))>>)}

(***************************************************************************)
(* The converse.  Code behind an if whose branches both return:            *)
(* if y: return else: return; x = input(); system(x).                      *)
(***************************************************************************)
DeadCode ==
  {Function((0 :> {1, 2}) @@ (1 :> {}) @@ (2 :> {}) @@ (3 :> {}),
            (0 :> <<>>) @@ (1 :> <<>>) @@ (2 :> <<>>)
            @@ (3 :> <<Let(X, Value(Input(1))), Eval(SinkCall(3, Var(X)))>>))}

\* x.a.a.a = input(); system(x.a.a.b).
CollapsedSibling ==
  {OneBlock(<<Let(Deep(a), Value(Input(1))), Eval(SinkCall(3, Var(Deep(b))))>>)}

\* A str method that every detector has as a sanitizer, in a function to
\* summarize: return y.strip().
SanitizingMethod ==
  {Summarized((0 :> {}), (0 :> <<Returning([Sanitize(3, Const) EXCEPT !.call.strMethod = TRUE,
                                                                      !.call.receiver = Var(Y)])>>))}

(***************************************************************************)
(* A parameter that a loop moves through N variables, from the last        *)
(* assignment of its body to the first: each round carries it one variable *)
(* on.  The loop has four blocks.                                          *)
(***************************************************************************)
CONSTANT N

V(i) == [base |-> i, steps |-> <<>>]

LongLoop ==
  {[Function(WhileSucc,
             (0 :> <<>>) @@ (1 :> <<>>)
             @@ (2 :> [i \in 1..N |-> Let(V(i - 1), Value(Var(V(i))))])
             @@ (3 :> <<[Eval(Value(Var(V(0)))) EXCEPT !.returns = TRUE]>>))
    EXCEPT !.kind = "summary",
           !.entryEnv = [EmptyEnv EXCEPT ![V(N)] =
                           {[spec |-> m1, chain |-> <<<<PropagatorRole, 5>>>>]}]]}

LongBase == 0..N
NoStep == {}
TwoSteps == {a, b}
=============================================================================
