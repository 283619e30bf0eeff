------------------------------ MODULE Coregen ------------------------------
(***************************************************************************)
(* src/coregen.c, src/env.c and core_destroy of src/core.c: a module's     *)
(* tree becomes a graph of core expressions, whose variables point at the  *)
(* expressions of the names they are bound to; and what a client then does *)
(* with the graph.                                                         *)
(*                                                                         *)
(* The functions call each other and themselves.  A task is a call or an   *)
(* iteration of a loop that is still to come; mem.todo is the stack of     *)
(* tasks, the next one last, and a step does one of them.  The operators   *)
(* named for functions of the code say what their task does to the memory. *)
(* The hash map of a scope is its abstract map (KVMap), and the order in   *)
(* which env_destroy finds its keys does not matter.                       *)
(*                                                                         *)
(* Expressions and scopes are numbered in the order they are allocated.    *)
(* `at' is where in the tree an expression comes from, as the indexes of   *)
(* the children on the way: it is not in the code and only properties read *)
(* it.  A failure raises SIGINT in the TRY of the caller, which ends the   *)
(* compiler.                                                               *)
(***************************************************************************)
EXTENDS Ast, Integers, Sequences, SequencesExt

CONSTANTS
  Programs,     \* the trees coregen is run on
  NodesOf(_),   \* the nodes of a program
  Intrinsics,   \* the names intrinsics_load defines, in its order
  Arena         \* whether the client is main (schc.c) or tests/core.c

ASSUME IntrinsicsAssumption ==
  Intrinsics \in Seq(ToSet(Intrinsics)) /\ IsInjective(Intrinsics)

Nodes == UNION {NodesOf(p) : p \in Programs}

\* the names there are, and the NULL of what has none
Texts == {NULL} \cup ToSet(Intrinsics) \cup UNION {ToSet(n.names) : n \in Nodes}

\* what the structs of ast.h hold, as far as coregen counts on it
ASSUME ProgramsAssumption ==
  /\ \A p \in Programs : p \in NodesOf(p) /\ {n.kids : n \in NodesOf(p)} \subseteq Seq(NodesOf(p))
  /\ {n.names : n \in Nodes} \subseteq Seq(Texts)
  /\ \A n \in Nodes :
       /\ n.rule \in {"MODULE", "LET", "NEG", "VAL_DECL", "FN_DECL"} => Len(n.kids) >= 1
       /\ n.rule = "OP_APPL" => Len(n.kids) >= 2
       /\ n.rule \in {"VAL_DECL", "FN_DECL"} => Len(n.names) >= 1

VARIABLES
  ast,      \* the tree
  mem,      \* the expressions and scopes, what was freed, and what is to be done
  phase     \* how far the client has come

vars == <<ast, mem, phase>>

Intrinsic == 1   \* intrinsics_env
Global == 2      \* env

-----------------------------------------------------------------------------
(* Memory *)

Expr(form, name, at) ==
  [form |-> form, name |-> name, kids |-> <<>>, target |-> 0, args |-> 0, at |-> at]
Scope(upper) == [upper |-> upper, dict |-> <<>>]

New(m, o) == [m EXCEPT !.exprs = Append(@, o)]
Newest(m) == Len(m.exprs)

Fail(m) == [m EXCEPT !.failed = TRUE]

\* FREE, which gives nothing back in an arena; a second time is seen in `frees'
Free(m, object) == [m EXCEPT !.frees = Append(@, object)]

\* these tasks come next, the first one first
Push(m, tasks) == [m EXCEPT !.todo = @ \o Reverse(tasks)]

-----------------------------------------------------------------------------
(* env.c *)

NewScope(m, upper) == [m EXCEPT !.scopes = Append(@, Scope(upper))]
NewestScope(m) == Len(m.scopes)

\* mutant: the scopes above are not searched
GetExprInnermost(m, e, name) ==
  IF name \in DOMAIN m.scopes[e].dict THEN m.scopes[e].dict[name] ELSE 0

\* env_get_expr: the innermost scope that has the name; 0 is NULL
GetExpr(m, e, name) ==
  LET get[s \in 0..Len(m.scopes)] ==
        IF s = 0 THEN 0
        ELSE IF name \in DOMAIN m.scopes[s].dict THEN m.scopes[s].dict[name]
        ELSE get[m.scopes[s].upper]
  IN get[e]

\* env_put_expr: the expression is copied; one that was there is lost
PutExpr(m, e, name, o) ==
  LET d == m.scopes[e].dict
      x == Newest(m) + 1
  IN [New(m, o) EXCEPT
        !.scopes[e].dict = [n \in DOMAIN d \cup {name} |-> IF n = name THEN x ELSE d[n]]]

\* env_destroy begins with the expressions of the scope
EnvDestroy(e, dict) == [fn |-> "env", e |-> e, left |-> DOMAIN dict]

DestroyExpr(x) == [fn |-> "core", x |-> x, next |-> 1]

\* an expression of the scope is destroyed; then its table, and the scope above
EnvDestroyStep(m, t) ==
  LET sc == m.scopes[t.e]
      name == CHOOSE n \in t.left : TRUE
      later == Push(m, <<[t EXCEPT !.left = @ \ {name}]>>)
      freed == Free([m EXCEPT !.scopes[t.e] = Scope(0)], <<"scope", t.e>>)
  IN IF t.left # {} THEN Push(later, <<DestroyExpr(sc.dict[name])>>)
     ELSE IF sc.upper # 0 THEN Push(freed, <<EnvDestroy(sc.upper, freed.scopes[sc.upper].dict)>>)
     ELSE freed

\* mutant: upper_scope is left as it is
DestroyWithUpper(m, e) == Push(m, <<EnvDestroy(e, m.scopes[e].dict)>>)

\* the scope alone: upper_scope is set to NULL before env_destroy
DestroyAlone(m, e) ==
  Push([m EXCEPT !.scopes[e].upper = 0], <<EnvDestroy(e, m.scopes[e].dict)>>)

\* mutant: the scope of a lambda's parameters is forgotten
CoreDestroyKeepsArgs(m, t) ==
  LET o == m.exprs[t.x]
  IN IF t.next \in DOMAIN o.kids
     THEN Push(Push(m, <<[t EXCEPT !.next = @ + 1]>>), <<DestroyExpr(o.kids[t.next])>>)
     ELSE Free(m, <<"expr", t.x>>)

\* core_destroy and the FREE of its caller; an indirection is not followed
CoreDestroy(m, t) ==
  LET o == m.exprs[t.x]
      later == Push(m, <<[t EXCEPT !.next = @ + 1]>>)
  IN IF t.next \in DOMAIN o.kids THEN Push(later, <<DestroyExpr(o.kids[t.next])>>)
     ELSE IF o.form = "LAMBDA" /\ t.next = Len(o.kids) + 1 THEN DestroyAlone(later, o.args)
     ELSE Free(m, <<"expr", t.x>>)

-----------------------------------------------------------------------------
(* coregen.c *)

IsBinding(d) == d.rule \in {"VAL_DECL", "FN_DECL"}

\* coregen_populate_env: an expression for the name, its form not yet set
PopulateEnv(m, t) ==
  IF IsBinding(t.node)
  THEN PutExpr(m, t.e, t.node.names[1], Expr("UNSET", t.node.names[1], t.at))
  ELSE m

\* a parameter is a placeholder
PutParam(m, t) == PutExpr(m, t.e, t.name, Expr("PLACEHOLDER", t.name, t.at))

\* the tasks of the two loops over the declarations
Declare(decls, e, at) ==
  [i \in DOMAIN decls |-> [fn |-> "populate", node |-> decls[i], e |-> e, at |-> Append(at, i)]]
  \o [i \in DOMAIN decls |-> [fn |-> "generate", node |-> decls[i], e |-> e, at |-> Append(at, i)]]

\* coregen_from_ast into an expression there is, and into a new child of x
Gen(x, node, e, at) == [fn |-> "gen", x |-> x, node |-> node, e |-> e, at |-> at]
Child(x, node, e, at) == [fn |-> "child", x |-> x, node |-> node, e |-> e, at |-> at]

\* one child after the other (an IF allocates its three before it generates the first)
Children(x, node, e, at) == [i \in DOMAIN node.kids |-> Child(x, node.kids[i], e, Append(at, i))]

\* the memory of an expression is used anew
Become(m, x, f, name, target, args) ==
  [m EXCEPT !.exprs[x] = [@ EXCEPT !.form = f, !.name = name, !.kids = <<>>, !.target = target, !.args = args]]

\* a new expression below x
NewChild(m, x, o) ==
  [New(m, o) EXCEPT !.exprs[x].kids = Append(@, Newest(m) + 1)]

\* mutant: the scope around the function
BodyScopeOuter(args, e) == e

\* the scope of a function's body
BodyScope(args, e) == args

\* the parameters are in a scope of their own
GenLambda(m, x, decl, e, at) ==
  LET a == NewestScope(m) + 1
      params == [i \in 1..(Len(decl.names) - 1) |->
                   [fn |-> "param", e |-> a, name |-> decl.names[i + 1], at |-> at \o <<0, i + 1>>]]
  IN Push(Become(NewScope(m, e), x, "LAMBDA", decl.names[1], 0, a),
          Append(params, Child(x, decl.kids[1], BodyScope(a, e), Append(at, 1))))

\* mutant: the NULL of env_get_expr is not looked at
NeverMissing(target) == FALSE

Missing(target) == target = 0

\* coregen_generate_env: into the expression that has the name
GenerateEnv(m, t) ==
  LET x == GetExpr(m, t.e, t.node.names[1])
  IN IF ~IsBinding(t.node) THEN m
     ELSE IF Missing(x) THEN Fail(m)
     ELSE IF t.node.rule = "FN_DECL" THEN GenLambda(m, x, t.node, t.e, t.at)
     ELSE Push(m, <<Gen(x, t.node.kids[1], t.e, Append(t.at, 1))>>)

\* mutant: the scope is destroyed before the body is generated
GenLetEarly(m, x, node, e, at) ==
  LET l == NewestScope(m) + 1
  IN Push(NewScope(m, e),
          Declare(Front(node.kids), l, at)
          \o <<[fn |-> "endlet", e |-> l], Gen(x, Last(node.kids), l, Append(at, Len(node.kids)))>>)

\* the scope is destroyed when the body has been generated
GenLet(m, x, node, e, at) ==
  LET l == NewestScope(m) + 1
  IN Push(NewScope(m, e),
          Declare(Front(node.kids), l, at)
          \o <<Gen(x, Last(node.kids), l, Append(at, Len(node.kids))), [fn |-> "endlet", e |-> l]>>)

\* mutant: the operator's own expression becomes the child
ChildShared(m, x, target, at) == [m EXCEPT !.exprs[x].kids = Append(@, target)]

\* a new expression below x that points at target
IndirChild(m, x, target, at) == NewChild(m, x, [Expr("INDIR", NULL, at) EXCEPT !.target = target])

\* op applied to its left operand, and the result to its right one
GenOpAppl(m, x, node, op, e, at) ==
  LET m1 == NewChild(Become(m, x, "APPL", NULL, 0, 0), x, Expr("APPL", NULL, Append(at, 0)))
      fn == Newest(m1)
  IN Push(IndirChild(m1, fn, op, Append(at, 0)),
          <<Child(fn, node.kids[1], e, Append(at, 1)), Child(x, node.kids[2], e, Append(at, 2))>>)

\* an intrinsic applied to the operand
GenNeg(m, x, node, e, at) ==
  Push(NewChild(Become(m, x, "APPL", NULL, 0, 0), x, Expr("INTRINSIC", NULL, Append(at, 0))),
       <<Child(x, node.kids[1], e, Append(at, 1))>>)

\* coregen_from_ast: the form and the name of x are set anew
FromAst(m, x, node, e, at) ==
  LET is(form) == Become(m, x, form, NULL, 0, 0)
      target == GetExpr(m, e, node.names[1])
  IN CASE node.rule = "CON" -> is("CONSTRUCTOR")
       [] node.rule = "INT" -> is("LITERAL")
       [] node.rule = "VAR" -> IF Missing(target) THEN Fail(m) ELSE Become(m, x, "INDIR", NULL, target, 0)
       [] node.rule = "FN_APPL" -> Push(is("APPL"), Children(x, node, e, at))
       [] node.rule = "IF" -> Push(is("COND"), Children(x, node, e, at))
       [] node.rule = "OP_APPL" -> IF Missing(target) THEN Fail(m) ELSE GenOpAppl(m, x, node, target, e, at)
       [] node.rule = "LET" -> GenLet(is("NO_FORM"), x, node, e, at)
       [] node.rule = "NEG" -> GenNeg(m, x, node, e, at)
       [] node.rule = "DO" -> is("NO_FORM")
       [] OTHER -> Fail(m)

\* a new expression below x, generated from node
FromAstChild(m, t) ==
  FromAst(NewChild(m, t.x, Expr("UNSET", NULL, t.at)), Newest(m) + 1, t.node, t.e, t.at)

\* the next task is taken and done
Pop(m) == [m EXCEPT !.todo = Front(@)]

Step(m) ==
  LET t == Last(m.todo)
  IN CASE t.fn = "populate" -> PopulateEnv(Pop(m), t)
       [] t.fn = "param" -> PutParam(Pop(m), t)
       [] t.fn = "generate" -> GenerateEnv(Pop(m), t)
       [] t.fn = "gen" -> FromAst(Pop(m), t.x, t.node, t.e, t.at)
       [] t.fn = "child" -> FromAstChild(Pop(m), t)
       [] t.fn = "endlet" -> DestroyAlone(Pop(m), t.e)
       [] t.fn = "env" -> EnvDestroyStep(Pop(m), t)
       [] t.fn = "core" -> CoreDestroy(Pop(m), t)

\* coregen_from_module_ast
FromModuleAst(m, root) ==
  IF root.rule = "MODULE" THEN Push(m, Declare(Last(root.kids).kids, Global, <<>>)) ELSE Fail(m)

-----------------------------------------------------------------------------
(* The clients: main of schc.c gives the tree back before it prints and     *)
(* works in arenas, the test of tests/core.c gives it back last             *)

\* the client itself is the first task: it has env
Client == [fn |-> "client", e |-> Global]

\* env and intrinsics_env, with the intrinsics loaded
Loaded ==
  LET dict == [n \in ToSet(Intrinsics) |-> CHOOSE i \in DOMAIN Intrinsics : Intrinsics[i] = n]
  IN [exprs |-> [i \in DOMAIN Intrinsics |-> Expr("INTRINSIC", Intrinsics[i], <<0, i>>)],
      scopes |-> <<[upper |-> 0, dict |-> dict], Scope(Intrinsic)>>,
      frees |-> <<>>, todo |-> <<Client>>, failed |-> FALSE]

\* whether something is to be done before the client goes on
Busy(m) == Len(m.todo) > 1

Init == ast \in Programs /\ mem = Loaded /\ phase = "ready"

\* coregen_from_module_ast is called, or one of its tasks is done
Coregen ==
  /\ phase \in {"ready", "generating"}
  /\ mem' = IF phase = "ready" THEN FromModuleAst(mem, ast) ELSE Step(mem)
  /\ phase' = IF mem'.failed THEN "error" ELSE IF Busy(mem') THEN "generating" ELSE "generated"
  /\ UNCHANGED ast

\* ast_destroy gives back every text of the tree
AstDestroy ==
  /\ phase = (IF Arena THEN "generated" ELSE "destroyed")
  /\ phase' = IF Arena THEN "printing" ELSE "done"
  /\ UNCHANGED <<ast, mem>>

\* core_print of every name in env changes nothing
CorePrint ==
  /\ phase = (IF Arena THEN "printing" ELSE "generated")
  /\ phase' = "printed"
  /\ UNCHANGED <<ast, mem>>

\* env_destroy is called with env, or one of its tasks is done
Destroy ==
  /\ phase \in {"printed", "destroying"}
  /\ mem' = IF phase = "printed" THEN [mem EXCEPT !.todo = <<EnvDestroy(Global, mem.scopes[Global].dict)>>]
            ELSE Step(mem)
  /\ phase' = IF mem'.todo # <<>> THEN "destroying" ELSE IF Arena THEN "done" ELSE "destroyed"
  /\ UNCHANGED ast

Next == Coregen \/ AstDestroy \/ CorePrint \/ Destroy

Spec == Init /\ [][Next]_vars

-----------------------------------------------------------------------------
(* Properties *)

Phases == {"ready", "generating", "error", "generated", "printing", "printed",
           "destroying", "destroyed", "done"}

Objects(m) == ({"expr"} \X DOMAIN m.exprs) \cup ({"scope"} \X DOMAIN m.scopes)

InOnePiece(m) ==
  /\ \A x \in DOMAIN m.exprs :
       LET o == m.exprs[x]
       IN /\ ToSet(o.kids) \subseteq DOMAIN m.exprs
          /\ o.target \in DOMAIN m.exprs \cup {0} /\ (o.form = "INDIR" <=> o.target # 0)
          /\ o.args \in DOMAIN m.scopes \cup {0} /\ (o.form = "LAMBDA" <=> o.args # 0)
  /\ \A e \in DOMAIN m.scopes :
       /\ m.scopes[e].upper \in 0..(e - 1)
       /\ \A n \in DOMAIN m.scopes[e].dict : m.scopes[e].dict[n] \in DOMAIN m.exprs
  /\ ToSet(m.frees) \subseteq Objects(m)
  /\ \A d \in DOMAIN m.todo :
       /\ m.todo[d].fn \in {"gen", "child", "core"} => m.todo[d].x \in DOMAIN m.exprs
       /\ m.todo[d].fn # "core" => m.todo[d].e \in DOMAIN m.scopes

\* The graph is in one piece: children, targets, scopes, what is freed and what is
\* to be done refer to expressions and scopes that exist; scopes only refer to older
\* ones.
TypeOK == phase \in Phases /\ InOnePiece(mem)

\* No expression and no table of a scope is freed twice, by the end of a let, by
\* core_destroy or by env_destroy: every object has one owner, and an indirection
\* owns nothing.
FreedOnce == IsInjective(mem.frees)

\* What is being destroyed, or will be by a caller, has not been given back:
\* core_destroy and env_destroy, which call each other, read nothing that one of them
\* has freed, and env is there as long as the client has it.
DestroysLive ==
  \A d \in DOMAIN mem.todo :
    LET t == mem.todo[d]
    IN /\ t.fn = "core" => <<"expr", t.x>> \notin ToSet(mem.frees)
       /\ t.fn \in {"client", "endlet", "env"} => <<"scope", t.e>> \notin ToSet(mem.frees)

\* e and the scopes above it
Chain(m, e) ==
  LET up[s \in 0..Len(m.scopes)] == IF s = 0 THEN {} ELSE {s} \cup up[m.scopes[s].upper]
  IN up[e]

\* coregen never goes on with what has been given back: the expression that a call
\* writes, and every scope that env_get_expr may search for it, though a let destroys
\* its scope, with the lambdas whose scopes hang below it, while its callers go on.
GeneratesLive ==
  \A d \in DOMAIN mem.todo :
    LET t == mem.todo[d]
    IN /\ t.fn \in {"gen", "child"} => <<"expr", t.x>> \notin ToSet(mem.frees)
       /\ t.fn \in {"populate", "param", "generate", "gen", "child"} =>
            \A e \in Chain(mem, t.e) : <<"scope", e>> \notin ToSet(mem.frees)

\* no two declarations bind the same name
BindOnce(decls) ==
  \A i, j \in DOMAIN decls :
    IsBinding(decls[i]) /\ IsBinding(decls[j]) /\ decls[i].names[1] = decls[j].names[1] => i = j

\* no scope of the program binds a name twice
NoDuplicates ==
  \A n \in NodesOf(ast) :
    /\ n.rule = "MODULE" => BindOnce(Last(n.kids).kids)
    /\ n.rule = "LET" => BindOnce(Front(n.kids))
    /\ n.rule = "FN_DECL" => IsInjective(Tail(n.names))

\* When env has been destroyed, every expression and every table has been freed,
\* those of lets and of parameters too.  (A name bound twice in a scope loses its
\* first expression: env.c:83-86 copies the second over it.)
AllFreed == phase = "destroyed" /\ NoDuplicates => ToSet(mem.frees) = Objects(mem)

=============================================================================
