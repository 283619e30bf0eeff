------------------------------- MODULE Parser -------------------------------
(***************************************************************************)
(* src/parser.c: the recursive-descent, layout-sensitive parser.  Each     *)
(* rule is an operator from the parser's state to the rule's return code,  *)
(* the state it leaves and the node it builds.  The actions are the calls  *)
(* of a client: parser_parse, parser_destroy, and ast_print and ast_destroy*)
(* of src/ast.c.                                                           *)
(*                                                                         *)
(* A token is what yylex leaves behind: its kind, its text, and the column *)
(* yycolumn - strlen(yytext) at which it starts; the parser reads nothing  *)
(* else, so a token need not be followed by one on the same line.  A node  *)
(* that a rule returned without setting `rule' is Unset (the code leaves   *)
(* such memory as it was).  A failing allocation raises SIGINT, which ends *)
(* the compiler.                                                           *)
(*                                                                         *)
(* Every copy of a text is told apart: i is the copy that accept makes of  *)
(* token i, 0 the one parser_parse makes of the first token, and -i the    *)
(* "()" that con copies for token i.                                       *)
(***************************************************************************)
EXTENDS Ast, Integers, Sequences, SequencesExt

CONSTANT
  Inputs     \* the token sequences the lexer may deliver

VARIABLES
  input,     \* the tokens of the source file
  parser,    \* parser_t: position of the lookahead, ptext, flags, indent stack;
             \* and the copies that have been freed
  phase,     \* how far the client has come
  root,      \* the tree parser_parse has filled in
  shown      \* the texts ast_print has written, NULL before

vars == <<input, parser, phase, root, shown>>

EndOfFile == [tok |-> "EOF", text |-> NULL, col |-> 0]
Look(s) == IF s.pos <= Len(input) THEN input[s.pos] ELSE EndOfFile

-----------------------------------------------------------------------------
(* Return codes: "ok" is a token, "none" is 0, "err" is -1 *)

Result(res, s, node) == [res |-> res, s |-> s, node |-> node]

Soft(r) == IF r.res = "err" THEN [r EXCEPT !.res = "none"] ELSE r
Hard(r) == IF r.res = "none" THEN [r EXCEPT !.res = "err"] ELSE r

\* TRYP: anything but a token returns from the rule, leaving node as it is
Try(r, node, next) == IF r.res = "ok" THEN next ELSE [r EXCEPT !.node = node]
Then(r, next) == Try(r, Unset, next)

\* a || b: only a 0 lets b run, and what is not 0 counts as success, -1 too
Or(r, next) == IF r.res = "none" THEN next ELSE [r EXCEPT !.res = "ok"]
NoMatch(s) == Result("none", s, Unset)

\* TRYP(res, maybe(r)): the rule goes on without what r would have parsed
Maybe(r, node, with, without) == IF r.res = "none" THEN without ELSE Try(r, node, with)

-----------------------------------------------------------------------------
(* Tokens and indentation *)

OpenIndent(s) == [s EXCEPT !.flags = @ \cup {"NEW"}]
ContinueIndent(s) == [s EXCEPT !.flags = @ \cup {"CONT"}]

\* no_indent and open_free_indent: no column is too far left
FreeIndent(s) == [s EXCEPT !.indents = Append(@, -1)]

\* flags &= !FLAG clears every flag; stack_pop on an empty stack does nothing
CloseIndent(s) == [s EXCEPT !.indents = IF @ = <<>> THEN @ ELSE Front(@), !.flags = {}]

\* FREE of a text
Free(s, text) == [s EXCEPT !.freed = Append(@, text)]
FreeUntaken(s) == IF s.ptext = NULL THEN s ELSE Free(s, s.ptext)

\* a token may start a new block, or it lies right of the current one, or it is
\* in its column and begins the next element
Opens(s) == "NEW" \in s.flags
Aligned(s) == s.indents # <<>> /\ Look(s).col = Last(s.indents)
Right(s) == s.indents = <<>> \/ Look(s).col > Last(s.indents)

\* the copy becomes ptext, and the lookahead moves on
Take(s, copy) ==
  [FreeUntaken(s) EXCEPT
     !.pos = @ + 1, !.ptext = copy,
     !.flags = IF Opens(s) \/ Aligned(s) THEN {} ELSE @,
     !.indents = IF Opens(s) THEN Append(@, Look(s).col) ELSE @]

\* mutant: the text is copied after yylex has read the next token
AcceptLate(s, tok) ==
  IF Look(s).tok = tok /\ (Opens(s) \/ Right(s) \/ (Aligned(s) /\ "CONT" \in s.flags))
  THEN Result("ok", Take(s, s.pos + 1), Unset)
  ELSE Result("err", s, Unset)

Accept(s, tok) ==
  IF Look(s).tok = tok /\ (Opens(s) \/ Right(s) \/ (Aligned(s) /\ "CONT" \in s.flags))
  THEN Result("ok", Take(s, s.pos), Unset)
  ELSE Result("err", s, Unset)

GetText(s) == [s EXCEPT !.ptext = NULL]

OperatorTokens == {"OP", "-", ":", "=", "\\", "|", "@", "..", "::", "<-", "->", "=>"}

Operator(s) == IF Look(s).tok \in OperatorTokens THEN Soft(Accept(s, Look(s).tok))
               ELSE Result("none", s, Unset)

-----------------------------------------------------------------------------
(* Blocks *)

\* Rule: the rules by the name of their function in C, for the calls from one
\* rule to another
RECURSIVE Rule(_, _), Braced(_, _, _), Lines(_, _, _), Vars(_, _), Arguments(_, _)
RECURSIVE ExportList(_, _)

Element(kind, s) == Rule(kind, s)

\* { element ; ... ; element }
Braced(kind, s, nodes) ==
  LET e == Element(kind, s)
      more == Append(nodes, e.node)
      semicolon == Soft(Accept(e.s, ";"))
      brace == Accept(semicolon.s, "}")
  IN Then(e, Maybe(semicolon, Unset,
                   Braced(kind, semicolon.s, more),
                   Then(brace, Result("ok", CloseIndent(brace.s), more))))

\* mutant: continue_indent is not called
LinesNotContinued(kind, s, nodes) ==
  LET e == Element(kind, s)
  IN IF e.res = "ok" THEN Lines(kind, e.s, Append(nodes, e.node))
     ELSE Result("ok", CloseIndent(e.s), nodes)

\* elements in the column of the first, until one cannot be parsed
Lines(kind, s, nodes) ==
  LET e == Element(kind, s)
  IN IF e.res = "ok" THEN Lines(kind, ContinueIndent(e.s), Append(nodes, e.node))
     ELSE Result("ok", CloseIndent(e.s), nodes)

\* the node of the result is the vector of elements
Identable(kind, s) ==
  LET brace == Soft(Accept(s, "{"))
  IN Maybe(brace, Unset, Braced(kind, FreeIndent(brace.s), <<>>),
                         Lines(kind, OpenIndent(brace.s), <<>>))

-----------------------------------------------------------------------------
(* Expressions *)

\* a token of kind tok, whose text becomes the node's
Leaf(s, tok, rule) ==
  LET a == Soft(Accept(s, tok))
  IN Then(a, Result("ok", GetText(a.s), Node(rule, <<a.s.ptext>>, <<>>)))

Var(s) == Leaf(s, "VARID", "VAR")

\* mutant: the node gets the text of the token, which is not taken
UnitConUntaken(s) == Node("CON", <<s.ptext>>, <<>>)

\* a copy of "()"; the text of the token is not taken
UnitCon(s) == Node("CON", <<-s.ptext>>, <<>>)

Con(s) ==
  LET unit == Soft(Accept(s, "()"))
  IN Maybe(unit, Unset, Result("ok", unit.s, UnitCon(unit.s)), Leaf(unit.s, "CONID", "CON"))

\* the node has the number, and its text is freed
Number(s) ==
  LET a == Soft(Accept(s, "NUMBER"))
  IN Then(a, Result("ok", GetText(Free(a.s, a.s.ptext)), Node("INT", <<a.s.ptext>>, <<>>)))

Lit(s) ==
  LET number == Number(s)
  IN Or(number, Leaf(number.s, "STRING", "STR"))

AExpression(s) ==
  LET open == Soft(Accept(s, "("))
      e == Rule("expression", FreeIndent(open.s))
      close == Accept(e.s, ")")
      var == Rule("var", open.s)
      con == Rule("con", var.s)
  IN Maybe(open, Unset,
           Then(e, Try(close, e.node, Result("ok", CloseIndent(close.s), e.node))),
           Or(var, Or(con, Rule("lit", con.s))))

Arguments(s, fn) ==
  LET a == Rule("aexpression", s)
  IN Maybe(a, fn, Arguments(a.s, Node("FN_APPL", <<>>, <<fn, a.node>>)), Result("ok", a.s, fn))

\* mutant: the first aexpression may be missing too
FExpressionOptional(s) ==
  LET f == Soft(Rule("aexpression", s))
  IN Maybe(f, Unset, Arguments(f.s, f.node), Arguments(f.s, Unset))

FExpression(s) ==
  LET f == Soft(Rule("aexpression", s))
  IN Then(f, Arguments(f.s, f.node))

LetExp(s) ==
  LET a == Soft(Accept(s, "let"))
      binds == Then(a, Rule("bindings", a.s))
      b == Then(binds, Accept(binds.s, "in"))
      body == Then(b, Rule("expression", b.s))
  IN Then(body, Result("ok", body.s, Node("LET", <<>>, Append(binds.node, body.node))))

IfExp(s) ==
  LET a == Soft(Accept(s, "if"))
      cond == Then(a, Rule("expression", a.s))
      b == Then(cond, Accept(cond.s, "then"))
      yes == Then(b, Rule("expression", b.s))
      c == Then(yes, Accept(yes.s, "else"))
      no == Then(c, Rule("expression", c.s))
  IN Then(no, Result("ok", no.s, Node("IF", <<>>, <<cond.node, yes.node, no.node>>)))

DoExp(s) ==
  LET a == Soft(Accept(s, "do"))
      steps == Then(a, Rule("do_steps", a.s))
  IN Then(steps, Result("ok", steps.s, Node("DO", <<>>, steps.node)))

DoLetExp(s) ==
  LET a == Soft(Accept(s, "let"))
      binds == Then(a, Rule("bindings", a.s))
  IN Then(binds, Result("ok", binds.s, Node("LET", <<>>, Append(binds.node, NoBody))))

DoStep(s) ==
  LET let == Rule("do_let_exp", s)
      e == Or(let, Rule("expression", let.s))
  IN Or(e, NoMatch(e.s))

\* let, if, do or application: an operand of an operator
Operand(s) ==
  LET let == Rule("let_exp", s)
      if == Rule("if_exp", let.s)
      do == Rule("do_exp", if.s)
      appl == Rule("fexpression", do.s)
  IN Or(let, Or(if, Or(do, Or(appl, NoMatch(appl.s)))))

\* a failing right operand leaves the operand's rule over the fields of op_appl
Expression(s) ==
  LET lhs == Rule("operand", s)
      op == Operator(lhs.s)
      rhs == Rule("expression", GetText(op.s))
      fields == Node(lhs.node.rule, <<op.s.ptext>>, <<lhs.node, rhs.node>>)
  IN Then(lhs, Maybe(op, lhs.node,
                     Try(rhs, fields, Result("ok", rhs.s, [fields EXCEPT !.rule = "OP_APPL"])),
                     Result("ok", op.s, lhs.node)))

-----------------------------------------------------------------------------
(* Declarations *)

Vars(s, names) ==
  LET a == Soft(Accept(GetText(s), "VARID"))
      more == Append(names, s.ptext)
  IN Maybe(a, Unset, Vars(a.s, more), Result("ok", a.s, more))

Where(body, binds) == Node("LET", <<>>, Append(binds, body))

Function(s, name) ==
  LET a == Soft(Accept(s, "VARID"))
      vs == Then(a, Vars(a.s, <<name>>))
      b == Then(vs, Accept(vs.s, "="))
      e == Then(b, Rule("expression", b.s))
      w == Soft(Accept(e.s, "where"))
      binds == Rule("bindings", w.s)
      decl(body) == Node("FN_DECL", vs.node, <<body>>)
  IN Then(e, Maybe(w, Unset,
                   Then(binds, Result("ok", binds.s, decl(Where(e.node, binds.node)))),
                   Result("ok", w.s, decl(e.node))))

\* unlike function, value opens and closes an indent around the bindings
Value(s, name) ==
  LET a == Soft(Accept(s, "="))
      e == Then(a, Rule("expression", a.s))
      w == Soft(Accept(e.s, "where"))
      binds == Rule("bindings", OpenIndent(w.s))
      decl(body) == Node("VAL_DECL", <<name>>, <<body>>)
  IN Then(e, Maybe(w, Unset,
                   Then(binds, Result("ok", CloseIndent(binds.s), decl(Where(e.node, binds.node)))),
                   Result("ok", w.s, decl(e.node))))

HasType(s, name) ==
  LET a == Soft(Accept(s, "::"))
      e == Then(a, Rule("expression", a.s))
  IN Then(e, Result("ok", e.s, Node("HAS_TYPE_DECL", <<name>>, <<e.node>>)))

Declaration(s) ==
  LET a == Soft(Accept(s, "VARID"))
      name == a.s.ptext
      fn == Function(GetText(a.s), name)
      val == Value(fn.s, name)
      has == HasType(val.s, name)
  IN Then(a, Hard(Or(fn, Or(val, Or(has, NoMatch(has.s))))))

-----------------------------------------------------------------------------
(* Modules *)

Export(s) ==
  LET a == Accept(s, "VARID")
  IN Then(a, Result("ok", GetText(a.s), Node("EXPORT", <<a.s.ptext>>, <<>>)))

\* the list after an export, up to its ")"
ExportList(s, nodes) ==
  LET comma == Soft(Accept(s, ","))
      e == Export(comma.s)
      close == Accept(comma.s, ")")
  IN Maybe(comma, Unset, Then(e, ExportList(e.s, Append(nodes, e.node))),
                         Then(close, Result("ok", close.s, nodes)))

Exports(s) ==
  LET open == Soft(Accept(s, "("))
      e == Then(open, Export(open.s))
  IN Then(e, ExportList(e.s, <<e.node>>))

Body(s) ==
  LET b == Identable("declaration", s)
  IN Then(b, Result("ok", b.s, Node("BODY", <<>>, b.node)))

\* mutant: body is parsed into the node of the module
ModuleBodyInPlace(s, names, exports) == Rule("body", s)

ModuleBody(s, names, exports) ==
  LET b == Rule("body", s)
  IN Then(b, Result("ok", b.s, Node("MODULE", names, Append(exports, b.node))))

Module(s) ==
  LET a == Soft(Accept(s, "module"))
      name == Accept(a.s, "CONID")
      ex == Exports(GetText(name.s))
      w == Accept(ex.s, "where")
      exports == IF ex.res = "ok" THEN ex.node ELSE <<>>
      header == Maybe(ex, Unset, w, w)
  IN Maybe(a, Unset,
           Then(name, Then(header, ModuleBody(header.s, <<name.s.ptext>>, exports))),
           ModuleBody(a.s, <<>>, <<>>))

Rule(name, s) ==
  CASE name = "expression" -> Expression(s)
    [] name = "operand" -> Operand(s)
    [] name = "fexpression" -> FExpression(s)
    [] name = "aexpression" -> AExpression(s)
    [] name = "var" -> Var(s)
    [] name = "con" -> Con(s)
    [] name = "lit" -> Lit(s)
    [] name = "let_exp" -> LetExp(s)
    [] name = "if_exp" -> IfExp(s)
    [] name = "do_exp" -> DoExp(s)
    [] name = "do_let_exp" -> DoLetExp(s)
    [] name = "do_step" -> DoStep(s)
    [] name = "do_steps" -> Identable("do_step", s)
    [] name = "bindings" -> Identable("declaration", s)
    [] name = "declaration" -> Declaration(s)
    [] name = "body" -> Body(s)
    [] name = "module" -> Module(s)

-----------------------------------------------------------------------------
(* ast.c *)

RECURSIVE Texts(_), Shown(_)

\* mutant: the texts of parameters are forgotten
OwnTextsOne(n) == IF n.rule = "INT" \/ n.names = <<>> THEN <<>> ELSE <<n.names[1]>>

\* the texts a node owns; a number has none
OwnTexts(n) == IF n.rule = "INT" THEN <<>> ELSE n.names

\* ast_destroy: the texts of the tree.  No text is read on the way, so that their order
\* does not matter.
Texts(n) == FlattenSeq([i \in DOMAIN n.kids |-> Texts(n.kids[i])]) \o OwnTexts(n)

\* mutant: the last element of a vector is not printed
ShownKidsFront(n) == IF n.rule \in {"BODY", "DO"} /\ n.kids # <<>> THEN Front(n.kids) ELSE n.kids

ShownKids(n) == n.kids

\* ast_print: names, numbers and operators before the children
Shown(n) == n.names \o FlattenSeq([i \in DOMAIN ShownKids(n) |-> Shown(ShownKids(n)[i])])

-----------------------------------------------------------------------------
(* The calls of the clients: main of schc.c destroys the parser before it   *)
(* prints the tree, tests/core.c afterwards                                 *)

\* after parser_init
Init ==
  /\ input \in Inputs
  /\ parser = [pos |-> 1, ptext |-> NULL, flags |-> {}, indents |-> <<>>, freed |-> <<>>]
  /\ phase = "ready" /\ root = Unset /\ shown = NULL

\* 0 counts as success: only -1 is an error
ParserParse ==
  /\ phase = "ready"
  /\ \E r \in {Rule("module", [parser EXCEPT !.ptext = 0])} :
       /\ parser' = r.s /\ root' = r.node
       /\ phase' = IF r.res = "err" THEN "error" ELSE "parsed"
  /\ UNCHANGED <<input, shown>>

\* parser_parse has set the allocator to NULL: freeing a text through it crashes
ParserDestroy ==
  /\ phase = "parsed"
  /\ phase' = IF parser.ptext = NULL THEN "destroyed" ELSE "crashed"
  /\ UNCHANGED <<input, parser, root, shown>>

AstPrint ==
  /\ phase \in {"parsed", "destroyed"} /\ shown = NULL
  /\ shown' = Shown(root)
  /\ UNCHANGED <<input, parser, phase, root>>

AstDestroy ==
  /\ phase = "destroyed" /\ shown # NULL
  /\ parser' = [parser EXCEPT !.freed = @ \o Texts(root)]
  /\ phase' = "done"
  /\ UNCHANGED <<input, root, shown>>

Next == ParserParse \/ ParserDestroy \/ AstPrint \/ AstDestroy

Spec == Init /\ [][Next]_vars

-----------------------------------------------------------------------------
(* Properties *)

\* The parser is in one piece between the calls: positions and flags in range,
\* only columns and -1 on the stack, a finished tree after a call.
TypeOK ==
  /\ phase \in {"ready", "parsed", "error", "destroyed", "crashed", "done"}
  /\ parser.pos \in 1..(Len(input) + 1) /\ parser.flags \subseteq {"NEW", "CONT"}
  /\ \A i \in DOMAIN parser.indents :
       parser.indents[i] \in {-1} \cup {input[j].col : j \in DOMAIN input}
  /\ phase \in {"parsed", "destroyed", "crashed", "done"} => root.rule \in {"MODULE", "UNSET"}

RECURSIVE Mentions(_)

\* the texts of a tree and the kind of token each comes from, in source order
Mentions(n) ==
  LET kid(i) == Mentions(n.kids[i])
      all == FlattenSeq([i \in DOMAIN n.kids |-> kid(i)])
      own(toks) == [i \in DOMAIN n.names |-> <<toks, n.names[i]>>]
  IN CASE n.rule = "OP_APPL" -> kid(1) \o own(OperatorTokens) \o kid(2)
       [] n.rule = "INT" -> own({"NUMBER"})
       [] n.rule = "STR" -> own({"STRING"})
       [] n.rule = "CON" -> IF n.names[1] < 0 THEN <<>> ELSE own({"CONID"})
       [] n.rule = "MODULE" -> own({"CONID"}) \o all
       [] OTHER -> own({"VARID"}) \o all

\* Also on tokens that are no program, the tree is made of them: every name in it is the text
\* of a token of the right kind, no token is used twice, and they stand in the
\* order of the source (the bindings of a where come before its body in the
\* tree and are left to the round trip).
TreeFollowsSource ==
  phase = "parsed" /\ shown = NULL =>
    LET ms == Mentions(root)
    IN /\ \A i \in DOMAIN ms : ms[i][2] \in 1..(parser.pos - 1) /\ input[ms[i][2]].tok \in ms[i][1]
       /\ \A i, j \in DOMAIN ms : i # j => ms[i][2] # ms[j][2]
       /\ (\A t \in ToSet(input) : t.tok # "where") =>
            \A i, j \in DOMAIN ms : i < j => ms[i][2] < ms[j][2]

\* Also on tokens that are no program, every copy of a text has one owner: it is in
\* one place of the tree, or it is ptext, or it has been freed, once; and con, number and the
\* next accept (parser.c:152-155) agree on who gives a text back.
TextsOwned ==
  LET tree == IF phase = "done" THEN <<>> ELSE Texts(root)
      ptext == IF parser.ptext = NULL THEN <<>> ELSE <<parser.ptext>>
  IN IsInjective(tree \o ptext \o parser.freed)

-----------------------------------------------------------------------------
(* Claims of the repository that the code does not keep *)

\* A token that no rule takes is an error: "Parse error(...): %s unexpected"
\* (schc.c:50-52).
UnexpectedTokenIsError == phase = "parsed" => parser.pos > Len(input)

\* What parser_parse does not reject is a tree: schc.c:50 tests for -1 only, and
\* prints and compiles the root of every other source (schc.c:62, 78).
AcceptedRootIsSet == phase = "parsed" => root.rule # "UNSET"

\* parser_destroy can be called after parser_parse, as tests/core.c:63 does.
DestroyIsSafe == phase # "crashed"

=============================================================================
