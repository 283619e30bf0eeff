---------------------------- MODULE MCCorePrint ----------------------------
(***************************************************************************)
(* Graphs of core expressions for TLC: all small ones, and those that      *)
(* coregen makes of small programs; and what printing them should give.    *)
(***************************************************************************)
EXTENDS CorePrint, Trees

-----------------------------------------------------------------------------
(* All graphs of n expressions in which, as coregen makes them, an          *)
(* expression is numbered after the one that owns it, only indirections     *)
(* share, and functions and parameters have names                           *)

Arity == ("LITERAL" :> 0) @@ ("PLACEHOLDER" :> 0) @@ ("INDIR" :> 1) @@ ("LAMBDA" :> 1)
         @@ ("APPL" :> 2) @@ ("COND" :> 3)

\* expression x of n
Shapes(x, n) ==
  UNION {{[form |-> f, kids |-> k] :
            k \in [1..Arity[f] -> IF f = "INDIR" THEN 1..n ELSE (x + 1)..n]} : f \in DOMAIN Arity}

Owns(s) == IF s.form = "INDIR" THEN <<>> ELSE s.kids

OwnedOnce(shapes) ==
  LET owned == FlattenSeq([x \in DOMAIN shapes |-> Owns(shapes[x])]) IN IsInjective(owned)

FourShapes ==
  {shapes \in {<<s1, s2, s3, s4>> : s1 \in Shapes(1, 4), s2 \in Shapes(2, 4),
                                    s3 \in Shapes(3, 4), s4 \in Shapes(4, 4)} : OwnedOnce(shapes)}

NameOf(form, x) == IF form \in {"LAMBDA", "PLACEHOLDER"} THEN <<"f", "g", "h", "i">>[x] ELSE NULL

AnyGraphs ==
  {[form |-> [x \in 1..4 |-> s[x].form], kids |-> [x \in 1..4 |-> s[x].kids],
    name |-> [x \in 1..4 |-> NameOf(s[x].form, x)], root |-> 1, tree |-> NoBody, key |-> NULL] :
     s \in FourShapes}

-----------------------------------------------------------------------------
(* The graphs of programs: what main prints of them, before anything is     *)
(* given back                                                               *)

NoNodes(tree) == {}

C == INSTANCE Meaning WITH
  NodesOf <- NoNodes, Programs <- {}, Intrinsics <- <<"+", "show">>, Arena <- TRUE,
  ast <- graph.tree, mem <- <<>>, phase <- "printing"

Small == {Val(n, e) : n \in {"a", "b"}, e \in {V("a"), V("b"), One, Op(V("a"), V("b"))}}
         \cup {Fn(n, p, e) : n \in {"a", "b"}, p \in {"a", "b"}, e \in {V("a"), V("b"), Op(V("b"), V("a"))}}

Lets == {Val("a", Let(<<d>>, e)) : d \in Small, e \in {V("a"), V("b")}}
        \cup {Fn("a", "b", If(V("b"), Let(<<d>>, Apply(V("a"), V("b"))), Unit)) : d \in Small}
        \cup {Fn("a", "b", Apply(V("show"), e)) : e \in {V("a"), Do(<<>>)}}

Tree(decls) == ModuleOf(<<>>, <<>>, decls)
Trees2 == {Tree(<<d1, d2>>) : d1 \in Small, d2 \in Small \cup Lets}

RECURSIVE Generated(_)

\* the memory when coregen returns
Generated(m) == IF m.failed \/ ~C!Busy(m) THEN m ELSE Generated(C!Step(m))

\* one graph for every name of the module
GraphsOf(tree) ==
  UNION {LET roots == m.scopes[C!Global].dict
             kids(o) == IF o.form = "INDIR" THEN <<o.target>> ELSE o.kids
             graphOf(n) == [form |-> [x \in DOMAIN m.exprs |-> m.exprs[x].form],
                            kids |-> [x \in DOMAIN m.exprs |-> kids(m.exprs[x])],
                            name |-> [x \in DOMAIN m.exprs |-> m.exprs[x].name],
                            root |-> roots[n], tree |-> tree, key |-> n]
         IN IF m.failed THEN {} ELSE {graphOf(n) : n \in DOMAIN roots} :
         m \in {Generated(C!FromModuleAst(C!Loaded, tree))}}

MCGraphs ==
  AnyGraphs \cup UNION {GraphsOf(tree) : tree \in Trees2}

-----------------------------------------------------------------------------
(* What should be printed *)

RECURSIVE Unfold(_, _, _)

\* the graph as a tree, cut where the way from the root meets itself
Unfold(g, x, way) ==
  IF x \in way THEN Named(g, x, "<loop>")
  ELSE LET kids == [i \in DOMAIN g.kids[x] |-> Unfold(g, g.kids[x][i], way \cup {x})]
       IN Named(g, x, ":=") \o Opening(g, x) \o FlattenSeq(kids) \o Closing(g, x)

\* When core_print returns, it has printed the unfolding of the graph: every
\* expression on every way from the root, in order, cut at the cycles and nowhere
\* else, although one vector serves all ways.
PrintsUnfolding == Done => out = Unfold(graph, graph.root, {})

RECURSIVE Shown(_, _), ShownAt(_, _)

\* what a meaning shows, below the bindings of way
Shown(meaning, way) ==
  IF meaning[1] = "INDIR" THEN ShownAt(meaning[2], way)
  ELSE LET kids == [i \in DOMAIN Tail(meaning) |-> Shown(meaning[i + 1], way)]
           closing == IF kids = <<>> THEN <<>> ELSE <<"}">>
       IN <<meaning[1]>> \o FlattenSeq(kids) \o closing

\* what the binding at a place of the program shows: only functions have a name
ShownAt(place, way) ==
  LET bindings == {t \in C!AllVisited : t.at = place /\ C!IsBinding(t.node)}
      lambda(n) == n.rule = "FN_DECL"
      mark(n) == IF place \in way THEN "<loop>" ELSE ":="
      name(n) == IF lambda(n) THEN <<n.names[1], mark(n)>> ELSE <<>>
      body(t) == IF place \in way THEN <<>> ELSE Shown(C!Meaning(t.node, t.env, t.at), way \cup {place})
      \* a parameter or an intrinsic
      other == IF Len(place) = 2 THEN <<<<"+", "show">>[place[2]], ":=", "INTRINSIC">>
               ELSE LET fn == CHOOSE t \in C!AllVisited : t.at = SubSeq(place, 1, Len(place) - 2)
                    IN <<fn.node.names[Last(place)], ":=", "PLACEHOLDER">>
  IN IF bindings = {} THEN other
     ELSE LET t == CHOOSE b \in bindings : TRUE IN name(t.node) \o body(t)

\* Of a program, core_print shows what its names mean under lexical scoping, and marks
\* a recursive function where it is used in its own body.
PrintsProgram ==
  Done /\ graph.tree # NoBody => out = ShownAt(C!Top[graph.key], {})

=============================================================================
