-------------------------------- MODULE Ast --------------------------------
(***************************************************************************)
(* src/ast.h: the tree that the parser builds and coregen reads.  A node   *)
(* is its rule, the texts it owns and its children, in the order of the    *)
(* struct; an ast_let_t has its bindings first and its body last.          *)
(***************************************************************************)
CONSTANT NULL   \* the NULL pointer

Node(rule, names, kids) == [rule |-> rule, names |-> names, kids |-> kids]

\* memory whose rule was never set, and a body that is NULL
Unset == Node("UNSET", <<>>, <<>>)
NoBody == Node("NULL", <<>>, <<>>)

=============================================================================
