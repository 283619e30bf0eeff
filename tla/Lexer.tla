------------------------------- MODULE Lexer -------------------------------
(***************************************************************************)
(* src/gen_lexer.l: what yylex delivers for a source.  Flex cuts the source*)
(* into lexemes, the longest text some rule matches; a lexeme has the kind *)
(* of its rule, its text and its length.  The parser sees of a token its   *)
(* kind, its text and the column yycolumn - strlen(yytext) where it starts.*)
(***************************************************************************)
EXTENDS Integers, Sequences

Lexeme(kind, text, len) == [kind |-> kind, text |-> text, len |-> len]
Token(tok, text, col) == [tok |-> tok, text |-> text, col |-> col]

\* mutant: yycolumn goes on over the lines
NewlineKept(yycolumn) == yycolumn

\* yycolumn behind a newline
Newline(yycolumn) == 0

Silent == {"BLANK", "NEWLINE", "LINE_COMMENT", "{-"}

RECURSIVE Scan(_, _, _, _)

\* The tokens from the i-th lexeme on.  YY_USER_ACTION comes before the action of the
\* rule; in the start condition BLOCK_COMMENT only "-}" has an action.
Scan(source, i, before, comment) ==
  LET x == source[i]
      yycolumn == before + x.len
      token == IF comment \/ x.kind \in Silent THEN <<>>
               ELSE <<Token(x.kind, x.text, yycolumn - x.len)>>
      after == IF ~comment /\ x.kind = "NEWLINE" THEN Newline(yycolumn) ELSE yycolumn
  IN IF i > Len(source) THEN <<>>
     ELSE token \o Scan(source, i + 1, after, IF comment THEN x.kind # "-}" ELSE x.kind = "{-")

Tokens(source) == Scan(source, 1, 0, FALSE)

=============================================================================
