------------------------------ MODULE MCParser ------------------------------
(***************************************************************************)
(* Inputs of the parser for TLC.  Programs are written from trees, in      *)
(* several styles, and the small ones go through the lexer; soups are short*)
(* sequences of tokens without texts, all that follow a head.              *)
(***************************************************************************)
EXTENDS Parser, Lexer, Trees

-----------------------------------------------------------------------------
(* The reference: how a tree is written down *)

\* braces: whether blocks are written with braces; jitter: how far right of its
\* block a continued line starts; where: whether the bindings of a function are
\* written after its body.  A block inside another starts two columns further.
Styles == [braces : BOOLEAN, jitter : {1, 3}, where : BOOLEAN]

IsAtom(e) == e.rule \in {"VAR", "CON", "INT", "STR"}

RECURSIVE Write(_, _, _), WriteBlock(_, _, _), WriteDecl(_, _, _), WriteArg(_, _, _)

Word(tok, b, st) == <<Token(tok, tok, b + st.jitter)>>
Name(tok, text, b, st) == <<Token(tok, text, b + st.jitter)>>

\* between parentheses no column is too far left
WriteArg(e, b, st) ==
  IF IsAtom(e) THEN Write(e, b, st)
  ELSE Word("(", b, st) \o Write(e, -1, st) \o Word(")", -1, st)

WriteFn(e, b, st) == IF e.rule = "FN_APPL" THEN Write(e, b, st) ELSE WriteArg(e, b, st)

\* a step that begins with let has no in
WriteElement(e, b, st) ==
  IF e.rule \in {"VAL_DECL", "FN_DECL", "HAS_TYPE_DECL"} THEN WriteDecl(e, b, st)
  ELSE IF e.rule # "LET" THEN Write(e, b, st)
  ELSE IF Last(e.kids) = NoBody THEN Word("let", b, st) \o WriteBlock(Front(e.kids), b, st)
  ELSE WriteArg(e, b, st)

\* the first token of an element of a layout block is in the column of the block
InColumn(toks, col) == [toks EXCEPT ![1].col = col]

WriteBlock(elems, b, st) ==
  IF st.braces
  THEN Word("{", b, st)
       \o FlattenSeq([i \in DOMAIN elems |->
                        WriteElement(elems[i], -1, st)
                        \o Word(IF i = Len(elems) THEN "}" ELSE ";", -1, st)])
  ELSE FlattenSeq([i \in DOMAIN elems |-> InColumn(WriteElement(elems[i], b + 2, st), b + 2)])

Write(e, b, st) ==
  CASE e.rule = "VAR" -> Name("VARID", e.names[1], b, st)
    [] e.rule = "CON" -> Name(IF e.names[1] = "()" THEN "()" ELSE "CONID", e.names[1], b, st)
    [] e.rule = "INT" -> Name("NUMBER", e.names[1], b, st)
    [] e.rule = "STR" -> Name("STRING", e.names[1], b, st)
    [] e.rule = "FN_APPL" -> WriteFn(e.kids[1], b, st) \o WriteArg(e.kids[2], b, st)
    [] e.rule = "OP_APPL" -> WriteFn(e.kids[1], b, st) \o Name("OP", e.names[1], b, st)
                             \o Write(e.kids[2], b, st)
    [] e.rule = "IF" -> Word("if", b, st) \o Write(e.kids[1], b, st)
                        \o Word("then", b, st) \o Write(e.kids[2], b, st)
                        \o Word("else", b, st) \o Write(e.kids[3], b, st)
    [] e.rule = "LET" -> Word("let", b, st) \o WriteBlock(Front(e.kids), b, st)
                         \o Word("in", b, st) \o Write(Last(e.kids), b, st)
    [] e.rule = "DO" -> Word("do", b, st) \o WriteBlock(e.kids, b, st)
    [] OTHER -> <<>>

\* where starts left of the blocks of the body, so that none of them takes it
WriteDecl(d, b, st) ==
  LET names == FlattenSeq([i \in DOMAIN d.names |-> Name("VARID", d.names[i], b, st)])
      body == d.kids[1]
  IN IF d.rule = "HAS_TYPE_DECL" THEN names \o Word("::", b, st) \o Write(body, b, st)
     ELSE IF st.where /\ d.rule = "FN_DECL" /\ body.rule = "LET"
     THEN names \o Word("=", b, st) \o Write(Last(body.kids), b, st)
          \o <<Token("where", "where", b + 1)>> \o WriteBlock(Front(body.kids), b, st)
     ELSE names \o Word("=", b, st) \o Write(body, b, st)

WriteExports(m, st) ==
  IF Len(m.kids) = 1 THEN <<>>
  ELSE Word("(", 0, st)
       \o FlattenSeq([i \in 1..(Len(m.kids) - 1) |->
                        Name("VARID", m.kids[i].names[1], 0, st)
                        \o Word(IF i = Len(m.kids) - 1 THEN ")" ELSE ",", 0, st)])

WriteModule(m, st) ==
  IF m.rule # "MODULE" THEN <<>>
  ELSE (IF m.names = <<>> THEN <<>>
        ELSE Word("module", 0, st) \o Name("CONID", m.names[1], 0, st)
             \o WriteExports(m, st) \o Word("where", 0, st))
       \o WriteBlock(Last(m.kids).kids, -2, st)

-----------------------------------------------------------------------------
(* Programs *)

\* one expression of every form
Small ==
  {V("a"), Unit, Apply(V("a"), V("b")), Op(V("a"), Node("INT", <<"1">>, <<>>)),
   If(V("a"), V("b"), Node("CON", <<"C">>, <<>>)),
   Let(<<Val("p", V("a")), Fn("q", "r", Unit)>>, V("p")),
   Do(<<Let(<<Val("p", V("a"))>>, NoBody), Node("STR", <<"s">>, <<>>)>>)}

\* every form over these
Nested ==
  Small \cup {Apply(x, y) : x, y \in Small} \cup {Op(x, y) : x, y \in Small}
        \cup {If(x, y, z) : x, y, z \in Small}
        \cup {Let(<<Val("y", x), Fn("g", "z", y)>>, V("y")) : x, y \in Small}
        \cup {Let(<<Fn("g", "z", Let(<<Val("h", x)>>, y))>>, V("g")) : x, y \in Small}
        \cup {Do(<<x, y>>) : x, y \in Small}

Exported(x) == Node("EXPORT", <<x>>, <<>>)

\* the last declaration shows that the block goes on after the first
ProgramsOf(exprs) ==
  {ModuleOf(<<>>, <<>>, <<d, Val("z", V("a"))>>) :
     d \in {Val("m", e) : e \in exprs} \cup {Fn("m", "x", e) : e \in exprs}
           \cup {Node("HAS_TYPE_DECL", <<"m">>, <<e>>) : e \in Small}}
  \cup {ModuleOf(<<"M">>, ex, <<Val("m", e)>>) :
          ex \in {<<>>, <<Exported("m")>>, <<Exported("m"), Exported("n")>>}, e \in Small}

\* what stands between two tokens on different lines
LineEnd(comments) ==
  IF comments
  THEN <<Lexeme("{-", "{-", 2), Lexeme("NEWLINE", "", 1), Lexeme("-}", "-}", 2),
         Lexeme("LINE_COMMENT", "--", 2), Lexeme("NEWLINE", "", 1)>>
  ELSE <<Lexeme("NEWLINE", "", 1)>>

End(t) == t.col + Len(t.text)

\* the source in which the tokens stand in their columns: on the same line if they fit;
\* a comment stands between every fourth token and the next if they do not
Source(toks, comments) ==
  FlattenSeq([i \in DOMAIN toks |->
    LET t == toks[i]
        fits == i > 1 /\ t.col > End(toks[i - 1])
        blank(n) == <<Lexeme("BLANK", "", n)>>
    IN (IF fits THEN blank(t.col - End(toks[i - 1])) ELSE LineEnd(comments /\ i % 4 = 1) \o blank(t.col))
       \o <<Lexeme(t.tok, t.text, Len(t.text))>>])

\* the small programs go through the lexer
Programs ==
  {Tokens(Source(WriteModule(p, st), comments)) :
     p \in ProgramsOf(Small), st \in Styles, comments \in BOOLEAN}
  \cup {WriteModule(p, st) : p \in ProgramsOf(Nested), st \in Styles}

-----------------------------------------------------------------------------
(* Soups *)

Soup(head, kinds, cols, n) ==
  {[i \in DOMAIN head |-> Token(head[i], NULL, i - 1)] \o [i \in DOMAIN w |-> Token(w[i][1], NULL, w[i][2])] :
     w \in UNION {[1..k -> kinds \X cols] : k \in 0..n}}

LayoutSoups ==
  Soup(<<"VARID", "=">>, {"VARID", "=", "let", "do"}, {0, 2}, 4)
  \cup Soup(<<"VARID", "=">>, {"VARID", "=", "let", "in", "do"}, {0, 2, 4}, 3)
BraceSoups == Soup(<<"VARID">>, {"VARID", "=", "where", "{", "}", ";", "(", ")"}, {2}, 4)
              \cup {<<>>}
BodySoups == Soup(<<"{">>, {"VARID", "=", ";", "}"}, {2}, 5)
Terms == {"()", "CONID", "NUMBER", "STRING", "OP", "(", ")"}
TermSoups ==
  Soup(<<"VARID", "=">>, Terms, {2}, 3) \cup Soup(<<"VARID", "=", "(">>, Terms, {2}, 3)
  \cup Soup(<<"VARID", "=", "if">>, {"()", "then", "else"}, {2}, 5)
HeadSoups == Soup(<<"module">>, {"CONID", "(", ")", ",", "VARID", "where"}, {2}, 4)

Soups == LayoutSoups \cup BraceSoups \cup BodySoups \cup TermSoups \cup HeadSoups

MCInputs == Programs \cup Soups

-----------------------------------------------------------------------------
(* Properties *)

Written == input # <<>> /\ \A i \in DOMAIN input : input[i].text # NULL

Contexts == [pos : {1}, ptext : {NULL}, flags : SUBSET {"NEW", "CONT"}, indents : {<<>>, <<0>>, <<2>>},
             freed : {<<>>}]

\* An element that is accepted has taken at least one token, whatever the
\* indentation it starts in: the loop of identable over the lines of a block
\* (parser.c:253-263) has no other way to end.
ElementsConsume ==
  ~Written /\ phase \in {"parsed", "error"} /\ shown = NULL =>
    \A s \in Contexts :
      \A e \in {Element(kind, s) : kind \in {"declaration", "do_step"}} :
        e.res = "ok" => e.s.pos > s.pos

RECURSIVE Spelled(_)

\* a tree with the texts themselves in the place of their copies
Spelled(n) ==
  [n EXCEPT !.names = [i \in DOMAIN @ |-> IF @[i] < 0 THEN "()" ELSE input[@[i]].text],
            !.kids = [i \in DOMAIN @ |-> Spelled(@[i])]]

\* A program is parsed into the tree it was written from, whatever its layout and
\* its comments: the tree written down again is the input.  Nothing is left over
\* and every block has been closed.
RoundTrip ==
  Written =>
    /\ phase # "error"
    /\ phase = "parsed" /\ shown = NULL =>
         /\ input \in {WriteModule(Spelled(root), st) : st \in Styles}
         /\ parser.pos = Len(input) + 1 /\ parser.indents = <<>>

\* ast_print shows every name, number, text and operator of a program once, in
\* declarations, parameters, exports and nested blocks alike.
PrintShowsProgram ==
  Written /\ shown # NULL =>
    /\ IsInjective(shown)
    /\ {IF t < 0 THEN -t ELSE t : t \in ToSet(shown)} =
         {i \in DOMAIN input : input[i].tok \in {"VARID", "CONID", "()", "NUMBER", "STRING", "OP"}}

\* When the tree of a program has been destroyed, every copy of a text has been
\* freed: the one made before the first token, the one of every token and those
\* of con.
AllTextsFreed ==
  Written /\ phase = "done" =>
    ToSet(parser.freed) = (0..Len(input)) \cup {-i : i \in {j \in DOMAIN input : input[j].tok = "()"}}

=============================================================================
