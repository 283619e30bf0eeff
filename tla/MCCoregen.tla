----------------------------- MODULE MCCoregen -----------------------------
(***************************************************************************)
(* Programs of coregen for TLC: trees that parser_parse builds.            *)
(***************************************************************************)
EXTENDS Meaning, Trees

Names == {"a", "b"}

\* a, b and the intrinsic show may be bound or not, and c never is
Leaf == {V("a"), V("b"), V("show"), One}
Flat == Leaf \cup {V("c"), Unit, Str, Do(<<V("c")>>)}
        \cup {Op(x, y) : x, y \in Leaf} \cup {Apply(x, y) : x, y \in Leaf}
        \cup {If(V("a"), x, y) : x, y \in Leaf}
        \cup {Node("OP_APPL", <<"?">>, <<V("a"), One>>), Node("NEG", <<>>, <<V("b")>>)}

DeclsOf(names, exprs) ==
  {Val(n, e) : n \in names, e \in exprs} \cup {Fn(n, p, e) : n \in names, p \in Names, e \in exprs}
Small == DeclsOf(Names, {V("a"), V("b"), One})
First == {Val("b", V("a")), Val("b", One), Val("a", V("b")), Fn("b", "a", V("b")), Fn("a", "b", V("a"))}

\* lets of one binding and of two, a function in a function, a let in a let
Lets == {Let(<<d>>, e) : d \in Small, e \in Leaf \cup {Op(V("a"), V("b"))}}
        \cup {Let(<<d1, d2>>, V("a")) : d1, d2 \in Small}
        \cup {Let(<<Fn("b", "a", Let(<<d>>, e))>>, V("b")) : d \in Small, e \in {V("a"), V("b")}}

HasTypeDecl == Node("HAS_TYPE_DECL", <<"a">>, <<Node("CON", <<"Int">>, <<>>)>>)
Module(decls) == ModuleOf(<<>>, <<>>, decls)

\* a second parameter of the same name, a bound show, a type, a failed parse
Others == {Module(<<Node("FN_DECL", <<"a", "b", p>>, <<e>>)>>) : p \in Names, e \in Leaf}
          \cup {Module(<<HasTypeDecl, Val("show", V(x)), Val("a", V("show"))>>) : x \in {"a", "show"}}
          \cup {Unset}

MCPrograms == {Module(<<d1, d2>>) : d1 \in First, d2 \in DeclsOf({"a"}, Flat \cup Lets)} \cup Others
MCClaims == {Module(<<d>>) : d \in DeclsOf({"a"}, Leaf \cup Lets)}

RECURSIVE MCNodesOf(_)
MCNodesOf(n) == {n} \cup UNION {MCNodesOf(n.kids[i]) : i \in DOMAIN n.kids}

MCIntrinsics == <<"+", "show">>

=============================================================================
