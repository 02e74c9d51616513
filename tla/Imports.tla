------------------------------- MODULE Imports -------------------------------
(***************************************************************************)
(* The calls a file makes when it runs, and what the names in them denote, *)
(* against the functions it is lowered to (Lowering).                      *)
(*                                                                         *)
(* The module runs statement by statement; when a scope is done, one of    *)
(* the functions and lambdas it has created is called.  A name is looked   *)
(* up as Python does.                                                      *)
(***************************************************************************)
EXTENDS Lowering

VARIABLES
  chain,  \* the scopes that run, each defined in the one before
  env,    \* what the names of each of them are bound to
  inner,  \* the namespace of the class body under way, if any
  todo,   \* the statements left in the innermost scope
  born,   \* the functions and lambdas it has created so far
  made    \* the calls of the statement just run

runVars == <<chain, env, inner, todo, born, made>>
vars == <<lowerVars, runVars>>

-----------------------------------------------------------------------------
(***************************************************************************)
(* Names.  A name is local to the innermost scope that binds it anywhere   *)
(* in its body; a class body has a namespace of its own, which shadows the *)
(* scope around it while the body runs, but not for the scopes inside it.  *)
(***************************************************************************)
Value == [kind |-> "value"]
Unbound == [kind |-> "unbound"]
Builtin == [kind |-> "builtin"]
Relative == [kind |-> "relative"]
Library(path) == [kind |-> "library", path |-> path]

IsBinding(s) == s.op \in {"import", "from", "assign", "def"}

\* The name a statement binds and what to.
Binding(s) ==
  CASE s.op = "import" /\ s.as = None -> [name |-> s.path[1], to |-> Library(<<s.path[1]>>)]
    [] s.op = "import" /\ s.as # None -> [name |-> s.as, to |-> Library(s.path)]
    [] s.op = "from" -> [name |-> IF s.as = None THEN s.name ELSE s.as,
                         to   |-> IF s.level = 0 THEN Library(Append(s.path, s.name)) ELSE Relative]
    [] s.op = "assign" -> [name |-> s.local, to |-> Value]
    [] s.op = "def"    -> [name |-> s.name, to |-> Value]

RECURSIVE LocalsOf(_)
LocalsOf(body) ==
  LET stmts == Range(body)
  IN  {Binding(s).name : s \in {t \in stmts : IsBinding(t)}}
      \cup UNION {LocalsOf(ControlFlowBodies(s)) :
                   s \in {t \in stmts : IsFlow(t) \/ t.op = "match"}}

Locals(scope) == scope.params \cup (IF HasBody(scope) THEN LocalsOf(scope.body) ELSE {})

\* What a name means where the program stands, hidden names being those of
\* the comprehensions around.
Meaning(name, inClass, hidden) ==
  LET owners == {k \in DOMAIN chain : name \in Locals(chain[k])}
  IN  IF name \in hidden THEN Value
      ELSE IF inClass /\ inner.on /\ name \in DOMAIN inner.names THEN inner.names[name]
      ELSE IF owners = {} THEN Builtin
      ELSE LET k == Max(owners)
           IN  IF name \in DOMAIN env[k] THEN env[k][name] ELSE Unbound

\* The dotted path by which a library knows what the callee denotes; one of
\* the program's own values keeps its own name.
RunPath(path, means) ==
  CASE means.kind \in {"value", "builtin", "unbound"} -> path
    [] means.kind = "relative" -> None
    [] means.kind = "library"  -> means.path \o Tail(path)

(***************************************************************************)
(* Evaluating an expression: the calls it can make.  A lambda makes none   *)
(* before it is called; a comprehension evaluates its iterable outside,    *)
(* the rest in a scope of its own.                                         *)
(***************************************************************************)
RECURSIVE Calls(_, _, _)
Calls(e, inClass, hidden) ==
  CASE e.op = "lambda" -> {}
    [] e.op = "comp" ->
         Calls(e.args[2], inClass, hidden)
         \cup UNION {Calls(e.args[i], FALSE, hidden \cup {e.target}) : i \in DOMAIN e.args \ {2}}
    [] e.op = "call" ->
         LET fun == e.args[1]
             means == IF fun.op = "path" THEN Meaning(Head(fun.path), inClass, hidden) ELSE Value
         IN  {[id |-> e.id, means |-> means,
               path |-> IF fun.op = "path" THEN RunPath(fun.path, means) ELSE None]}
             \cup UNION {Calls(e.args[i], inClass, hidden) : i \in DOMAIN e.args}
    [] OTHER -> UNION {Calls(e.args[i], inClass, hidden) : i \in DOMAIN e.args}

\* The lambdas that evaluating expressions creates, those in comprehensions
\* excepted.
RECURSIVE Lambdas(_)
Lambdas(exprs) ==
  {e \in Range(exprs) : e.op = "lambda"}
  \cup UNION {Lambdas(e.args) : e \in {d \in Range(exprs) : d.op \notin {"lambda", "comp"}}}

\* A call of a name without a value ends the program.
Evaluate(exprs) ==
  LET calls == UNION {Calls(exprs[i], TRUE, {}) : i \in DOMAIN exprs}
  IN  /\ \A c \in calls : c.means # Unbound
      /\ made' = calls

Update(f, name, v) == [n \in DOMAIN f \cup {name} |-> IF n = name THEN v ELSE f[n]]

Assign(name, v) ==
  IF inner.on THEN /\ inner' = [inner EXCEPT !.names = Update(@, name, v)]
                   /\ UNCHANGED env
              ELSE /\ env' = [env EXCEPT ![Len(chain)] = Update(@, name, v)]
                   /\ UNCHANGED inner

-----------------------------------------------------------------------------
NotInClass == [on |-> FALSE, names |-> <<>>]
EndOfClass == [op |-> "endclass"]

Init ==
  /\ LowerInit
  /\ chain = <<prog>>
  /\ env = <<[n \in prog.params |-> Value]>>
  /\ inner = NotInClass
  /\ todo = prog.body
  /\ born = {}
  /\ made = {}

Lower == LowerNext /\ UNCHANGED runVars

Stmt == Head(todo)
Rest == Tail(todo)
Running(ops) == Lowered /\ todo # <<>> /\ Stmt.op \in ops

Import ==
  /\ Running({"import", "from"})
  /\ Assign(Binding(Stmt).name, Binding(Stmt).to)
  /\ todo' = Rest /\ made' = {}
  /\ UNCHANGED <<lowerVars, chain, born>>

\* What a star import binds is not used.
ImportStar ==
  /\ Running({"star"})
  /\ todo' = Rest /\ made' = {}
  /\ UNCHANGED <<lowerVars, chain, env, inner, born>>

EvaluateOnly ==
  /\ Running({"eval", "store"})
  /\ Evaluate(Stmt.args) /\ born' = born \cup Lambdas(Stmt.args)
  /\ todo' = Rest
  /\ UNCHANGED <<lowerVars, chain, env, inner>>

AssignValue ==
  /\ Running({"assign"})
  /\ Evaluate(Stmt.args) /\ born' = born \cup Lambdas(Stmt.args)
  /\ Assign(Stmt.local, Value)
  /\ todo' = Rest
  /\ UNCHANGED <<lowerVars, chain>>

\* The defaults are evaluated where the function is defined.
Define ==
  /\ Running({"def"})
  /\ Evaluate(Stmt.args) /\ born' = born \cup {Stmt} \cup Lambdas(Stmt.args)
  /\ Assign(Stmt.name, Value)
  /\ todo' = Rest
  /\ UNCHANGED <<lowerVars, chain>>

Branch ==
  /\ Running({"if", "match"})
  /\ Evaluate(Stmt.args) /\ born' = born \cup Lambdas(Stmt.args)
  /\ \E taken \in {Stmt.body, Stmt.orelse} \cup Range(Stmt.handlers) : todo' = taken \o Rest
  /\ UNCHANGED <<lowerVars, chain, env, inner>>

Loop ==
  /\ Running({"loop"})
  /\ Evaluate(Stmt.args) /\ born' = born \cup Lambdas(Stmt.args)
  /\ \/ todo' = Stmt.body \o todo
     \/ todo' = Stmt.orelse \o Rest
  /\ UNCHANGED <<lowerVars, chain, env, inner>>

\* Nothing catches what is raised: the program ends.
Raise ==
  /\ Running({"raise"})
  /\ Evaluate(Stmt.args)
  /\ todo' = <<>> /\ born' = {}
  /\ UNCHANGED <<lowerVars, chain, env, inner>>

\* The body runs to its end, or up to a statement that raises.
Try ==
  /\ Running({"try"})
  /\ \/ todo' = Stmt.body \o Stmt.orelse \o Stmt.finalbody \o Rest
     \/ \E n \in 0..Len(Stmt.body), i \in DOMAIN Stmt.handlers :
          todo' = SubSeq(Stmt.body, 1, n) \o Stmt.handlers[i] \o Stmt.finalbody \o Rest
  /\ made' = {}
  /\ UNCHANGED <<lowerVars, chain, env, inner, born>>

EnterClass ==
  /\ Running({"class"}) /\ ~ inner.on
  /\ inner' = [on |-> TRUE, names |-> <<>>]
  /\ todo' = Stmt.body \o <<EndOfClass>> \o Rest
  /\ made' = {}
  /\ UNCHANGED <<lowerVars, chain, env, born>>

LeaveClass ==
  /\ Running({"endclass"})
  /\ inner' = NotInClass
  /\ todo' = Rest /\ made' = {}
  /\ UNCHANGED <<lowerVars, chain, env, born>>

CallNested ==
  /\ Lowered /\ todo = <<>>
  /\ \E callee \in born :
       /\ chain' = Append(chain, callee)
       /\ env' = Append(env, [n \in callee.params |-> Value])
       /\ todo' = IF HasBody(callee) THEN callee.body ELSE <<[op |-> "eval", args |-> callee.args]>>
  /\ born' = {} /\ made' = {}
  /\ UNCHANGED <<lowerVars, inner>>

Next ==
  \/ Lower
  \/ Import \/ ImportStar \/ EvaluateOnly \/ AssignValue \/ Define
  \/ Branch \/ Loop \/ Try \/ Raise
  \/ EnterClass \/ LeaveClass \/ CallNested

Spec == Init /\ [][Next]_vars

-----------------------------------------------------------------------------
(***************************************************************************)
(* Properties.                                                             *)
(***************************************************************************)
Seen == UNION {functions[i].calls : i \in DOMAIN functions}

\* The function of a scope that runs.
IndexOf(scope) == CHOOSE i \in DOMAIN scopes : scopes[i].node.id = scope.id

\* Every call the program makes is in a block of some function, where the
\* engine finds it: expressions are lowered with all their operands, tests,
\* iterables and class bodies are emitted "so calls inside them are visible"
\* (docs/ir-reference.md).
NoCallLost == \A c \in made : \E s \in Seen : s.id = c.id

\* A callee is resolved to what it denotes when the program runs: every
\* import style canonicalizes to the same dotted path, wherever control
\* flow binds it, inner scopes shadow outer ones, and a name rooted in a
\* variable is not rewritten (docs/ir-reference.md).
ResolvedAsRun == \A c \in made : \A s \in Seen : s.id = c.id => s.path = c.path

\* The function that runs when the code of a function is evaluated: a
\* comprehension runs within the one around it.
RECURSIVE Host(_)
Host(i) == IF scopes[i].node.op = "comp" THEN Host(scopes[i].parent) ELSE i

\* The function of a scope is the child of the function of the scope around
\* it ("nested scopes are linked by parent_index", docs/ir-reference.md), and
\* the calls a scope makes are in its own function, with what taints them.
ScopesNested ==
  Lowered =>
    /\ \A k \in DOMAIN chain :
         functions[IndexOf(chain[k])].parent = IF k = 1 THEN 0 ELSE IndexOf(chain[k - 1])
    /\ \A c \in made, i \in DOMAIN functions :
         (\E s \in functions[i].calls : s.id = c.id) => Host(i) = IndexOf(Last(chain))

\* What compute_summaries keeps under the qualname of a function, the last
\* one created with it, is that function: the summary by which its callers
\* are analysed is its own.
QualnameDenotes ==
  Lowered =>
    \A k \in DOMAIN chain :
      LET i == IndexOf(chain[k])
      IN  \A j \in DOMAIN functions : functions[j].qual = functions[i].qual => j <= i

=============================================================================
