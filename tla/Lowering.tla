------------------------------ MODULE Lowering ------------------------------
(***************************************************************************)
(* From the syntax tree of a file to its functions: the scopes that        *)
(* _Lowerer of frontends/python_frontend.py collects, their import tables  *)
(* (frontends/resolver.py), and the expressions it lowers, as far as the   *)
(* calls go that the engine finds in them.                                 *)
(*                                                                         *)
(* Statements:                                                             *)
(*   import   path, as              import a.b, import a.b as x            *)
(*   from     path, level, name, as from a.b import c, from .b import c    *)
(*   star     path                  from a.b import *                      *)
(*   eval     args                  an expression, or a return of it       *)
(*   assign   local, args           local = value                          *)
(*   store    args                  value, then the target's parts:        *)
(*                                  a.b = value, a[i] = value              *)
(*   if, loop, try, match           with all of args (the test, the value  *)
(*                                  matched), body, handlers (of a match   *)
(*                                  its cases), orelse, finalbody          *)
(*   raise    args                  the last of its body                   *)
(*   class    body                                                         *)
(*   def      id, name, params, body; args: the defaults                   *)
(* Expressions, each with its operands args:                               *)
(*   path     path                  x.y.z, of which x is a name            *)
(*   attr                           the attribute of any other expression  *)
(*   call     id                    args: what is called, the arguments    *)
(*   group                          and, or, +, a conditional, an f-string,*)
(*                                  a container, a starred, a subscript    *)
(*   opaque                         a comparison, not, await, yield, ...   *)
(*   walrus                         (x := value)                           *)
(*   lambda   id, params            args: the body                         *)
(*   comp     id, target            args: element, iterable, conditions    *)
(* A dotted path is a sequence of identifiers.  Other statements that end  *)
(* a block (CFGBuilder) are left out, so every statement is in some block. *)
(***************************************************************************)
EXTENDS Naturals, Sequences, SequencesExt

CONSTANTS
  Programs,  \* the programs considered
  None       \* no alias; no path

VARIABLES
  prog,      \* the program, a module
  agenda,    \* the nodes still to be walked for scopes, with the scope each is in
  scopes,    \* the scopes found: node, parent and import table, the module first
  functions  \* their functions, as far as they are lowered

lowerVars == <<prog, agenda, scopes, functions>>

-----------------------------------------------------------------------------
(***************************************************************************)
(* The import table of a body.                                             *)
(***************************************************************************)
Entry(local, kind, canonical) == [local |-> local, kind |-> kind, canonical |-> canonical]

\* import a.b.c binds a, import a.b.c as d the whole path.
EntryFromImport(s) ==
  IF s.as = None THEN Entry(Head(s.path), "module", <<Head(s.path)>>)
                 ELSE Entry(s.as, "module", s.path)

\* The canonical path of a relative import keeps its leading dots.
EntryFromImportFrom(s) ==
  Entry(IF s.as = None THEN s.name ELSE s.as,
        IF s.level > 0 THEN "relative" ELSE "name",
        Append(s.path, s.name))

\* A match is not one of them, for the import table and for the blocks.
IsFlow(s) == s.op \in {"if", "loop", "try"}

\* The statements nested in a control-flow statement, in source order.
ControlFlowBodies(s) == s.body \o FlattenSeq(s.handlers) \o s.orelse \o s.finalbody

RECURSIVE CollectImports(_)
CollectImports(body) ==
  IF body = <<>> THEN <<>>
  ELSE LET s == Head(body)
       IN  (CASE s.op = "import" -> <<EntryFromImport(s)>>
              [] s.op = "from"   -> <<EntryFromImportFrom(s)>>
              [] s.op = "star"   -> <<Entry("*", "star", s.path)>>
              [] IsFlow(s)       -> CollectImports(ControlFlowBodies(s))
              [] OTHER           -> <<>>)
           \o CollectImports(Tail(body))

\* The last entry for the name wins.
Matching(table, local) == {i \in DOMAIN table : table[i].local = local}

CanonicalDotted(path, table) ==
  LET found == Matching(table, Head(path))
      entry == table[Max(found)]
  IN  IF found = {} THEN path
      ELSE IF entry.kind \in {"star", "relative"} THEN None
      ELSE entry.canonical \o Tail(path)

-----------------------------------------------------------------------------
(***************************************************************************)
(* Expressions.  A callee that is no dotted path has none.                 *)
(***************************************************************************)
CalleePath(fun, table) == IF fun.op = "path" THEN CanonicalDotted(fun.path, table) ELSE None

RECURSIVE LowerExpr(_, _)
LowerExpr(e, table) ==
  LET Lowered(es) == [i \in DOMAIN es |-> LowerExpr(es[i], table)]
  IN  CASE e.op = "opaque" -> [op |-> "unknown", args |-> <<>>]
        [] e.op = "lambda" -> [op |-> "lambda", args |-> <<>>]
        [] e.op = "walrus" -> LowerExpr(e.args[1], table)
        [] e.op = "comp"   -> [op |-> "comp", args |-> Lowered(SubSeq(e.args, 1, 2))]
        [] e.op = "call"   ->
             [op |-> "call", id |-> e.id, path |-> CalleePath(e.args[1], table),
              receiver |-> IF e.args[1].op = "attr" THEN Lowered(e.args[1].args) ELSE <<>>,
              args |-> Lowered(Tail(e.args))]
        [] OTHER           -> [op |-> e.op, args |-> Lowered(e.args)]

\* Mutant: the receiver of a method is not looked into.
RECURSIVE IterCallsNoReceiver(_)
IterCallsNoReceiver(ir) ==
  (IF ir.op = "call" THEN {[id |-> ir.id, path |-> ir.path]} ELSE {})
  \cup UNION {IterCallsNoReceiver(ir.args[i]) : i \in DOMAIN ir.args}

\* _iter_calls_in_expr: the calls the engine finds in an expression.  Of a
\* callee it looks at the receiver only.
RECURSIVE IterCalls(_)
IterCalls(ir) ==
  LET within == IF ir.op = "call" THEN ir.receiver \o ir.args ELSE ir.args
  IN  (IF ir.op = "call" THEN {[id |-> ir.id, path |-> ir.path]} ELSE {})
      \cup UNION {IterCalls(within[i]) : i \in DOMAIN within}

CallsIn(exprs, table) == UNION {IterCalls(LowerExpr(exprs[i], table)) : i \in DOMAIN exprs}

(***************************************************************************)
(* The calls in the blocks of a body.  A class body belongs to the scope   *)
(* around it; a function definition leaves nothing behind, nor does what   *)
(* is raised, and a match is opaque.                                       *)
(***************************************************************************)
RECURSIVE CallsInBody(_, _)
CallsInBody(body, table) ==
  IF body = <<>> THEN {}
  ELSE LET s == Head(body)
       IN  (CASE s.op \in {"eval", "assign"} -> CallsIn(s.args, table)
              [] s.op = "store" -> CallsIn(SubSeq(s.args, 1, 1), table)
              [] s.op = "class" -> CallsInBody(s.body, table)
              [] IsFlow(s)      -> CallsIn(s.args, table) \cup CallsInBody(ControlFlowBodies(s), table)
              [] OTHER          -> {})
           \cup CallsInBody(Tail(body), table)

-----------------------------------------------------------------------------
(***************************************************************************)
(* Scopes.                                                                 *)
(***************************************************************************)
IsScope(node) == node.op \in {"def", "lambda", "comp"}

HasBody(node) == node.op \in {"module", "def"}

\* The children of a node of the tree, in the order of the walk.
Children(node) ==
  CASE IsFlow(node) \/ node.op = "match" -> node.args \o ControlFlowBodies(node)
    [] node.op = "def"        -> node.args \o node.body
    [] node.op \in {"module", "class"} -> node.body
    [] node.op \in {"import", "from", "star"} -> <<>>
    [] OTHER                  -> node.args

Within(parent, nodes) == [i \in DOMAIN nodes |-> [node |-> nodes[i], parent |-> parent]]

\* Mutant: the entries of the scope itself first, then those of its parents.
ScopeTableParentLast(node, parent) ==
  (IF HasBody(node) THEN CollectImports(node.body) ELSE <<>>) \o parent

\* _build_scope_table: what the parents bind, then what the scope binds.
ScopeTable(node, parent) ==
  parent \o (IF HasBody(node) THEN CollectImports(node.body) ELSE <<>>)

LowerInit ==
  /\ prog \in Programs
  /\ agenda = Within(1, Children(prog))
  /\ scopes = <<[node |-> prog, parent |-> 0, table |-> ScopeTable(prog, <<>>)]>>
  /\ functions = <<>>

\* Mutant: what is inside a scope is taken for its parent's.
CollectScopeFlat ==
  /\ agenda # <<>> /\ IsScope(Head(agenda).node)
  /\ LET at == Head(agenda)
     IN  /\ scopes' = Append(scopes, [node |-> at.node, parent |-> at.parent,
                                      table |-> ScopeTable(at.node, scopes[at.parent].table)])
         /\ agenda' = Within(at.parent, Children(at.node)) \o Tail(agenda)
  /\ UNCHANGED <<prog, functions>>

\* _collect_scopes: a scope takes the next index before anything inside it.
CollectScope ==
  /\ agenda # <<>> /\ IsScope(Head(agenda).node)
  /\ LET at == Head(agenda)
     IN  /\ scopes' = Append(scopes, [node |-> at.node, parent |-> at.parent,
                                      table |-> ScopeTable(at.node, scopes[at.parent].table)])
         /\ agenda' = Within(Len(scopes) + 1, Children(at.node)) \o Tail(agenda)
  /\ UNCHANGED <<prog, functions>>

CollectOther ==
  /\ agenda # <<>> /\ ~ IsScope(Head(agenda).node)
  /\ agenda' = Within(Head(agenda).parent, Children(Head(agenda).node)) \o Tail(agenda)
  /\ UNCHANGED <<prog, scopes, functions>>

ScopeName(node) ==
  IF node.op = "def" THEN node.name ELSE IF node.op = "lambda" THEN "<lambda>" ELSE "<listcomp>"

\* Mutant: the qualname is the name.
QualnameShort(scope) ==
  IF scope.parent = 0 THEN <<>> ELSE <<ScopeName(scope.node)>>

\* The names from the module down; the module itself has the empty one.
Qualname(scope) ==
  IF scope.parent = 0 THEN <<>> ELSE Append(functions[scope.parent].qual, ScopeName(scope.node))

\* The scopes are lowered in the order of their indices, each with its table.
LowerScope ==
  /\ agenda = <<>> /\ Len(functions) < Len(scopes)
  /\ LET scope == scopes[Len(functions) + 1]
     IN  functions' = Append(functions,
           [qual   |-> Qualname(scope),
            parent |-> scope.parent,
            calls  |-> IF HasBody(scope.node) THEN CallsInBody(scope.node.body, scope.table)
                       ELSE CallsIn(scope.node.args, scope.table)])
  /\ UNCHANGED <<prog, agenda, scopes>>

LowerNext == CollectScope \/ CollectOther \/ LowerScope

Lowered == agenda = <<>> /\ Len(functions) = Len(scopes)

=============================================================================
