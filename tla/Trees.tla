------------------------------- MODULE Trees -------------------------------
(***************************************************************************)
(* Trees as the instances for TLC write them.                              *)
(***************************************************************************)
EXTENDS Ast, Sequences

V(x) == Node("VAR", <<x>>, <<>>)
Val(x, e) == Node("VAL_DECL", <<x>>, <<e>>)
Fn(f, x, e) == Node("FN_DECL", <<f, x>>, <<e>>)
Let(binds, e) == Node("LET", <<>>, Append(binds, e))
Apply(f, x) == Node("FN_APPL", <<>>, <<f, x>>)
Op(l, r) == Node("OP_APPL", <<"+">>, <<l, r>>)
If(c, t, e) == Node("IF", <<>>, <<c, t, e>>)
Do(steps) == Node("DO", <<>>, steps)
Unit == Node("CON", <<"()">>, <<>>)
One == Node("INT", <<"1">>, <<>>)
Str == Node("STR", <<"s">>, <<>>)

ModuleOf(names, exports, decls) ==
  Node("MODULE", names, Append(exports, Node("BODY", <<>>, decls)))

=============================================================================
