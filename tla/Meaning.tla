------------------------------ MODULE Meaning ------------------------------
(***************************************************************************)
(* What a program means under lexical scoping, defined on its tree, and    *)
(* the properties that compare the graph of coregen with it.  An           *)
(* environment maps a name to where it is bound; in a scope the last       *)
(* binding of a name counts.                                               *)
(***************************************************************************)
EXTENDS Coregen

Extend(env, names, places) ==
  LET last(n) == CHOOSE i \in DOMAIN names : names[i] = n /\ \A j \in DOMAIN names : names[j] = n => j <= i
  IN [n \in DOMAIN env \cup ToSet(names) |-> IF n \in ToSet(names) THEN places[last(n)] ELSE env[n]]

\* a name that no program has stands for what binds none
Bound(decls) == [i \in DOMAIN decls |-> IF IsBinding(decls[i]) THEN decls[i].names[1] ELSE NULL]
Bind(env, decls, at) == Extend(env, Bound(decls), [i \in DOMAIN decls |-> Append(at, i)])

Outermost == Extend(<<>>, Intrinsics, [i \in DOMAIN Intrinsics |-> <<0, i>>])
Decls == Last(ast.kids).kids
Top == Bind(Outermost, Decls, <<>>)

\* the environment in which the children of n stand
Inner(n, env, at) ==
  IF n.rule = "LET" THEN Bind(env, Front(n.kids), at)
  ELSE IF n.rule = "FN_DECL"
  THEN Extend(env, Tail(n.names), [i \in DOMAIN Tail(n.names) |-> at \o <<0, i + 1>>])
  ELSE env

RECURSIVE Visited(_, _, _), Meaning(_, _, _), ReadBack(_, _)

\* every node below n that coregen has to read, in its environment
Visited(n, env, at) ==
  IF n.rule \in {"DO", "HAS_TYPE_DECL"} THEN {}
  ELSE {[node |-> n, env |-> env, at |-> at]}
       \cup UNION {Visited(n.kids[i], Inner(n, env, at), Append(at, i)) : i \in DOMAIN n.kids}

AllVisited == UNION {Visited(Decls[i], Top, <<i>>) : i \in DOMAIN Decls}

\* what n stands for: forms, and where the names in it are bound
Meaning(n, env, at) ==
  LET kid(i) == Meaning(n.kids[i], Inner(n, env, at), Append(at, i))
      to(name) == <<"INDIR", env[name]>>
  IN CASE n.rule = "VAR" -> to(n.names[1])
       [] n.rule = "INT" -> <<"LITERAL">>
       [] n.rule = "CON" -> <<"CONSTRUCTOR">>
       [] n.rule = "DO" -> <<"NO_FORM">>
       [] n.rule = "FN_APPL" -> <<"APPL", kid(1), kid(2)>>
       [] n.rule = "OP_APPL" -> <<"APPL", <<"APPL", to(n.names[1]), kid(1)>>, kid(2)>>
       [] n.rule = "NEG" -> <<"APPL", <<"INTRINSIC">>, kid(1)>>
       [] n.rule = "IF" -> <<"COND", kid(1), kid(2), kid(3)>>
       [] n.rule = "LET" -> kid(Len(n.kids))
       [] n.rule = "VAL_DECL" -> kid(1)
       [] n.rule = "FN_DECL" -> <<"LAMBDA", kid(1)>>

\* the graph as an expression of the same kind
ReadBack(m, x) ==
  LET o == m.exprs[x]
  IN IF o.form = "INDIR" THEN <<"INDIR", m.exprs[o.target].at>>
     ELSE <<o.form>> \o [i \in DOMAIN o.kids |-> ReadBack(m, o.kids[i])]

\* the expression of a binding is the first that comes from its place
ExprAt(m, at) == CHOOSE x \in DOMAIN m.exprs : m.exprs[x].at = at /\ \A y \in 1..(x - 1) : m.exprs[y].at # at

-----------------------------------------------------------------------------
(* Properties *)

\* Every binding becomes the expression that the program means: the same forms in
\* the same places, and every variable and operator points at the binding that
\* lexical scoping gives it, through let, where, parameters and shadowed names,
\* and also when the binding comes later in the source than its use
\* (coregen.c:33-34 makes all names of a scope known before any body).
GraphMeansProgram ==
  phase = "generated" =>
    \A t \in AllVisited :
      IsBinding(t.node) /\ t.env[t.node.names[1]] = t.at =>
        ReadBack(mem, ExprAt(mem, t.at)) = Meaning(t.node, t.env, t.at)

\* coregen fails exactly when the program has a variable or an operator that no
\* binding in scope defines, or a literal that is not an integer.
FailIffUnbound ==
  phase \in {"generated", "error"} =>
    (mem.failed <=>
       \/ ast.rule # "MODULE"
       \/ \E t \in AllVisited :
            \/ t.node.rule \in {"VAR", "OP_APPL"} /\ t.node.names[1] \notin DOMAIN t.env
            \/ t.node.rule = "STR")

-----------------------------------------------------------------------------
(* Claims of the repository that the code does not keep *)

RECURSIVE Reach(_, _, _)

\* what core_print reads when it starts from the expressions of todo
Reach(m, seen, todo) ==
  IF todo = {} THEN seen
  ELSE LET next(x) == ToSet(m.exprs[x].kids) \cup ({m.exprs[x].target} \ {0})
           now == seen \cup todo
       IN Reach(m, now, UNION {next(x) : x \in todo} \ now)

Printed == Reach(mem, {}, Range(mem.scopes[Global].dict))

\* core_print reads no expression that has been freed, when the module is
\* generated and printed with the default allocator as in tests/core.c:65-78.
PrintReadsLive == phase = "generated" => \A x \in Printed : <<"expr", x>> \notin ToSet(mem.frees)

\* The names core_print reads still exist: those of the intrinsics are constants
\* of the program, the others are texts of the tree.
NamesLive == phase = "printing" => \A x \in Printed : mem.exprs[x].name \in ToSet(Intrinsics) \cup {NULL}

=============================================================================
