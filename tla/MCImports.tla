------------------------------ MODULE MCImports ------------------------------
(***************************************************************************)
(* Small programs for Imports.  Calls and scopes are numbered apart.       *)
(***************************************************************************)
EXTENDS Imports

CONSTANT none

ImportAs(p, x) == [op |-> "import", path |-> p, as |-> x]
From(p, n, x) == [op |-> "from", path |-> p, level |-> 0, name |-> n, as |-> x]
FromHere(p, n, x) == [op |-> "from", path |-> p, level |-> 1, name |-> n, as |-> x]
Star(p) == [op |-> "star", path |-> p]

Path(p) == [op |-> "path", path |-> p, args |-> <<>>]
Attr(e) == [op |-> "attr", args |-> <<e>>]
Of(op, es) == [op |-> op, args |-> es]
Call(i, fun, es) == [op |-> "call", id |-> i, args |-> <<fun>> \o es]
Lambda(i, ps, e) == [op |-> "lambda", id |-> i, params |-> ps, args |-> <<e>>]
Comp(i, t, elt, iter, conds) == [op |-> "comp", id |-> i, target |-> t, args |-> <<elt, iter>> \o conds]

Eval(e) == [op |-> "eval", args |-> <<e>>]
Let(x, es) == [op |-> "assign", local |-> x, args |-> es]
Store(es) == [op |-> "store", args |-> es]
Flow(op, t, b, h, e, f) ==
  [op |-> op, args |-> t, body |-> b, handlers |-> h, orelse |-> e, finalbody |-> f]
If(t, b, e) == Flow("if", t, b, <<>>, e, <<>>)
While(t, b, e) == Flow("loop", t, b, <<>>, e, <<>>)
TryExcept(b, h, e, f) == Flow("try", <<>>, b, <<h>>, e, f)
Match(e, cases) == Flow("match", <<e>>, <<>>, cases, <<>>, <<>>)
Raising(e) == [op |-> "raise", args |-> <<e>>]
Class(b) == [op |-> "class", body |-> b]

Def(i, n, ps, b) == [op |-> "def", id |-> i, name |-> n, params |-> ps, args |-> <<>>, body |-> b]
Module(b) == [op |-> "module", id |-> 0, params |-> {}, body |-> b]

(***************************************************************************)
(* Import styles.  What may bind the name "o", and what "os", once in a    *)
(* scope.                                                                  *)
(***************************************************************************)
BindsO ==
  {ImportAs(<<"os">>, "o"), ImportAs(<<"os", "path">>, "o"), From(<<"os">>, "o", none),
   From(<<"os">>, "system", "o"), FromHere(<<"db">>, "o", none), FromHere(<<>>, "conn", "o")}
BindsOs == {ImportAs(<<"os">>, none), ImportAs(<<"os", "path">>, none), Let("v", <<>>)}

\* A binder and another one, at every place of a block.
Placed(i, j) ==
  {<<i, j>>, <<If(<<>>, <<i>>, <<j>>)>>, <<If(<<>>, <<i>>, <<>>), j>>, <<While(<<>>, <<i>>, <<j>>)>>,
   <<TryExcept(<<i>>, <<j>>, <<>>, <<>>)>>, <<TryExcept(<<j>>, <<>>, <<i>>, <<>>)>>,
   <<TryExcept(<<>>, <<i>>, <<>>, <<j>>)>>,
   <<If(<<>>, <<While(<<>>, <<TryExcept(<<i, j>>, <<>>, <<>>, <<>>)>>, <<>>)>>, <<>>)>>}

Use(i, p) == Call(i, Path(p), <<>>)
Ref(i, p) == Eval(Use(i, p))
Refs == {<<"o">>, <<"o", "x">>, <<"os", "path", "x">>, <<"v", "x">>, <<"input">>}

\* The module binds its names once; a function uses them, binds one of them
\* anew, or has a class body that uses them; a function inside it as well.
OnceBound ==
  {Module(Append(b, Ref(1, p))) : b \in UNION {Placed(i, j) : i \in BindsO, j \in BindsOs}, p \in Refs}
  \cup
  {Module(<<Star(<<"lib">>), i, j,
            Def(1, "f", {"v"}, <<k, Ref(1, p), Def(2, "g", {}, <<Class(<<Ref(2, p)>>), Ref(3, p)>>)>>)>>) :
     i \in BindsO, j \in BindsOs, k \in BindsO \cup {Let("v", <<>>)}, p \in Refs}

(***************************************************************************)
(* Expressions: the call o.x() at every place of one or two others, in     *)
(* every statement that evaluates them.                                    *)
(***************************************************************************)
Target == Call(1, Path(<<"o", "x">>), <<>>)

Around(e, n) ==
  {Call(n, Path(<<"f">>), <<e>>), Call(n, Attr(e), <<>>), Of("group", <<Path(<<"v">>), e>>),
   Of("walrus", <<e>>), Lambda(n, {"p"}, e), Attr(e),
   Comp(n, "y", e, Use(n + 1, <<"v">>), <<>>), Comp(n, "y", Use(n + 1, <<"y", "x">>), e, <<>>),
   Comp(n, "y", Use(n + 1, <<"o", "x">>), e, <<Use(n + 2, <<"y">>)>>),
   Comp(n, "y", Path(<<"y">>), Path(<<"v">>), <<e, Use(n + 1, <<"o">>)>>)}

Expressions == UNION {Around(e, 20) \cup {e} : e \in Around(Target, 10) \cup {Target}}

\* An expression evaluated by every kind of statement.
Evaluated(e) ==
  {<<Eval(e)>>, <<Let("w", <<e>>)>>, <<Store(<<e, Path(<<"v">>)>>)>>, <<If(<<e>>, <<Raising(Path(<<"v">>))>>, <<>>)>>,
   <<While(<<e>>, <<Ref(2, <<"w">>)>>, <<>>)>>, <<Class(<<Let("v", <<>>), Eval(e)>>)>>}

InExpressions ==
  {Module(<<ImportAs(<<"os">>, "o"), Let("v", <<>>)>> \o s) : s \in UNION {Evaluated(e) : e \in Expressions}}

(***************************************************************************)
(* Scopes: functions, lambdas, comprehensions and methods, three deep,     *)
(* with local imports.                                                     *)
(***************************************************************************)
Inner ==
  {<<Def(5, name, {"p"}, <<Ref(5, <<"o", "x">>)>>)>> : name \in {"f", "h"}}
  \cup {<<Let("k", <<Lambda(5, {"p"}, Comp(6, "y", Use(5, <<"o", "x">>), Path(<<"p">>), <<>>))>>)>>,
        <<Match(Path(<<"v">>), <<<<Def(5, "h", {"p"}, <<Ref(5, <<"o", "x">>)>>)>>, <<Let("h", <<>>)>>>>)>>,
        <<Class(<<Def(5, "h", {"self"}, <<Ref(5, <<"self", "x">>)>>)>>)>>,
        <<If(<<>>, <<Def(5, "h", {}, <<ImportAs(<<"sys">>, "o"), Ref(5, <<"o">>)>>)>>, <<>>)>>,
        <<Eval(Comp(5, "y", Comp(6, "z", Use(5, <<"z">>), Path(<<"y">>), <<Use(6, <<"o">>)>>), Use(7, <<"o">>), <<>>))>>}

Local == {<<>>, <<ImportAs(<<"sys">>, "o")>>}

Nesting ==
  {Module(<<ImportAs(<<"os">>, "o"), Def(1, "f", {}, a \o i),
            Def(2, "g", {}, b \o <<Ref(2, <<"o">>),
              Def(3, "h", {}, <<Ref(3, <<"o">>), Def(4, "h", {}, <<Ref(4, <<"o">>)>>)>>)>>)>>) :
     a \in Local, b \in Local, i \in Inner}

Ordinary == OnceBound \cup InExpressions \cup Nesting

-----------------------------------------------------------------------------
(***************************************************************************)
(* Programs whose calls are not seen as they run.                          *)
(***************************************************************************)
In(e) == {Module(<<ImportAs(<<"os">>, "o"), Let("v", <<>>)>> \o e)}

\* [o.x() for o in v]
ShadowingTarget == In(<<Eval(Comp(10, "o", Target, Path(<<"v">>), <<>>))>>)

\* try: import lxml as e; except ImportError: import other as e; e.parse()
FallbackImport ==
  {Module(<<TryExcept(<<ImportAs(<<"lxml">>, "e")>>, <<ImportAs(<<"other">>, "e")>>, <<>>, <<>>),
            Ref(1, <<"e", "parse">>)>>)}

\* from .db import conn; def f(conn): conn.execute()
ShadowingParameter ==
  {Module(<<FromHere(<<"db">>, "conn", none),
            Def(1, "f", {"conn"}, <<Ref(1, <<"conn", "execute">>)>>)>>)}

\* if o.x() != 0: the test is a comparison.
ComparedCall == In(<<If(<<Of("opaque", <<Target>>)>>, <<>>, <<>>)>>)

\* o.x()(v): the callee is a call.
CalledCall == In(<<Eval(Call(2, Target, <<Path(<<"v">>)>>))>>)

\* v[o.x()] = 1
CallInTarget == In(<<Store(<<Of("const", <<>>), Path(<<"v">>), Target>>)>>)

\* raise v(o.x())
RaisedCall == In(<<Raising(Call(2, Path(<<"v">>), <<Target>>))>>)

\* match v: case _: o.x()
MatchedCall == In(<<Match(Path(<<"v">>), <<<<Eval(Target)>>>>)>>)

\* def f(p=o.x()): ...
CallInDefault == In(<<[Def(1, "f", {"p"}, <<>>) EXCEPT !.args = <<Target>>]>>)

\* def f(p=lambda: v): ...: the lambda is taken for f's own, though made outside.
LambdaInDefault == In(<<[Def(1, "f", {"p"}, <<>>) EXCEPT !.args = <<Lambda(2, {}, Target)>>]>>)

\* def run(): ...; class C: def run(self): ...
MethodHomonym == In(<<Def(1, "run", {}, <<>>), Class(<<Def(2, "run", {"self"}, <<>>)>>)>>)

\* Two lambdas of one scope.
TwoLambdas == In(<<Eval(Of("group", <<Lambda(1, {}, Target), Lambda(2, {}, Path(<<"v">>))>>))>>)

=============================================================================
