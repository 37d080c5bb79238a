------------------------------- MODULE Lexer -------------------------------
(***************************************************************************)
(* The lexer (src/src/lexer/lexer.c).  A source text is a sequence of      *)
(* characters, except that a run of letters (a word) is one element: the   *)
(* lexer never looks inside a word, it only compares it with the keywords. *)
(* The state of a lexer is lx = [src, pos, depth], where pos is the index  *)
(* of the next element and depth the number of open parentheses and        *)
(* brackets (continuation_depth).  NextToken returns the token read and    *)
(* the new state.  A token has a type t and a value v; the type of an      *)
(* operator or a keyword is its text.                                      *)
(***************************************************************************)
EXTENDS Integers, Sequences

RECURSIVE NextToken(_), Skipped(_, _), RunEnd(_, _, _), CommentEnd(_, _, _), Spelling(_, _, _)

\* "huge" stands for digits whose value does not fit 64 bits.
Digits == {"0", "1", "7", "huge"}
HexDigits == Digits \cup {"x7", "fe"}
Registers == {"rax", "mov"}
TypeNames == {"int32", "string"}

\* The keywords of the language that the parser tells apart.
Keywords == {"import", "import_str", "extern", "export", "var", "function", "fn",
             "struct", "enum", "trait", "impl", "where", "method", "return", "if", "else",
             "while", "for", "switch", "match", "case", "default", "break", "continue",
             "defer", "errdefer", "asm", "this", "new"}

Words == Keywords \cup Registers \cup TypeNames
           \cup {"a", "b", "c", "f", "g", "p", "x", "b0", "A", "T", "m", "from", "as", "sizeof", "n", "t"}

\* The operators and separators, the longer ones first: the lexer takes the
\* longest operator that the text starts with.
Operators ==
  << <<<<"<", "<", "=">>, "<<=">>, <<<<">", ">", "=">>, ">>=">>,
     <<<<"=", "=">>, "==">>, <<<<"!", "=">>, "!=">>, <<<<"<", "=">>, "<=">>, <<<<"<", "<">>, "<<">>,
     <<<<">", "=">>, ">=">>, <<<<">", ">">>, ">>">>, <<<<"+", "=">>, "+=">>, <<<<"*", "=">>, "*=">>,
     <<<<"&", "&">>, "&&">>, <<<<"&", "=">>, "&=">>, <<<<"|", "|">>, "||">>, <<<<"|", "=">>, "|=">>,
     <<<<"^", "=">>, "^=">>, <<<<"/", "=">>, "/=">>, <<<<"%", "=">>, "%=">>, <<<<"-", ">">>, "->">>,
     <<<<"-", "=">>, "-=">>,
     <<<<":">>, ":">>, <<<<";">>, ";">>, <<<<",">>, ",">>, <<<<"=">>, "=">>, <<<<"!">>, "!">>,
     <<<<"<">>, "<">>, <<<<">">>, ">">>, <<<<"(">>, "(">>, <<<<")">>, ")">>, <<<<"{">>, "{">>,
     <<<<"}">>, "}">>, <<<<"[">>, "[">>, <<<<"]">>, "]">>, <<<<"+">>, "+">>, <<<<"*">>, "*">>,
     <<<<"&">>, "&">>, <<<<"|">>, "|">>, <<<<"^">>, "^">>, <<<<"~">>, "~">>, <<<<"/">>, "/">>,
     <<<<"%">>, "%">>, <<<<".">>, ".">>, <<<<"-">>, "-">> >>

EOF == [t |-> "eof", v |-> <<>>]
ErrorToken == [t |-> "error", v |-> <<>>]

\* The element at p, or "end" behind the last one.
At(lx, p) == IF p <= Len(lx.src) THEN lx.src[p] ELSE "end"

StartsWith(lx, s) == \A i \in DOMAIN s : At(lx, lx.pos + i - 1) = s[i]

\* The first position from p on whose element is not in set.
RunEnd(lx, p, set) == IF At(lx, p) \in set THEN RunEnd(lx, p + 1, set) ELSE p

\* Behind a block comment, whose comments nest; -1 if it does not end.
CommentEnd(lx, p, depth) ==
  IF depth = 0 THEN p
  ELSE IF p > Len(lx.src) THEN -1
  ELSE IF At(lx, p) = "/" /\ At(lx, p + 1) = "*" THEN CommentEnd(lx, p + 2, depth + 1)
  ELSE IF At(lx, p) = "*" /\ At(lx, p + 1) = "/" THEN CommentEnd(lx, p + 2, depth - 1)
  ELSE CommentEnd(lx, p + 1, depth)

\* White space is skipped; a newline only inside parentheses or brackets.
Skipped(lx, p) ==
  IF At(lx, p) = " " \/ (At(lx, p) = "\n" /\ lx.depth > 0) THEN Skipped(lx, p + 1) ELSE p

Token(t, v, lx, p) == [tok |-> [t |-> t, v |-> v], lx |-> [lx EXCEPT !.pos = p]]
LexError(lx, p) == [tok |-> ErrorToken, lx |-> [lx EXCEPT !.pos = p]]

Escapes == {"n", "t", "r", "\\", "0"}

\* 'c' or an escape, as a number token.
CharLiteral(lx) ==
  LET p == lx.pos + 1
      escaped == At(lx, p) = "\\"
      q == IF escaped THEN p + 1 ELSE p
      known == IF escaped THEN At(lx, q) \in Escapes \cup {"'"} ELSE At(lx, q) # "\n"
  IN  IF At(lx, q) = "end" \/ ~known THEN LexError(lx, q)
      ELSE IF At(lx, q + 1) # "'" THEN LexError(lx, q + 1)
      ELSE Token("num", <<"char", escaped, At(lx, q)>>, lx, q + 2)

\* A hexadecimal, a binary or a decimal number (digits and dots).
Number(lx) ==
  LET p == lx.pos
      prefixed == At(lx, p) = "0" /\ At(lx, p + 1) \in {"x", "b"}
      digits == IF ~prefixed THEN Digits \cup {"."}
                ELSE IF At(lx, p + 1) = "x" THEN HexDigits ELSE {"0", "1"}
      q == RunEnd(lx, IF prefixed THEN p + 2 ELSE p, digits)
  IN  IF prefixed /\ q = p + 2 THEN LexError(lx, q)
      ELSE Token("num", SubSeq(lx.src, p, q - 1), lx, q)

\* A run of letters and digits: a keyword or an identifier.
Word(lx) ==
  LET q == RunEnd(lx, lx.pos, Words \cup Digits)
      w == SubSeq(lx.src, lx.pos, q - 1)
  IN  Token(IF Len(w) > 1 THEN "id"
            ELSE IF w[1] \in Keywords THEN w[1]
            ELSE IF w[1] \in Registers THEN "reg"
            ELSE IF w[1] \in TypeNames THEN "type" ELSE "id", w, lx, q)

\* The value of a string from p to its closing quote at q.
Spelling(lx, p, v) ==
  IF At(lx, p) \in {"\"", "end"} THEN [v |-> v, q |-> p]
  ELSE IF At(lx, p) = "\\" /\ p < Len(lx.src)
  THEN Spelling(lx, p + 2, IF At(lx, p + 1) \in Escapes \cup {"\""}
                           THEN Append(v, <<"esc", At(lx, p + 1)>>)
                           ELSE v \o << <<"chr", "\\">>, <<"chr", At(lx, p + 1)>> >>)
  ELSE Spelling(lx, p + 1, Append(v, <<"chr", At(lx, p)>>))

StringLiteral(lx) ==
  LET r == Spelling(lx, lx.pos + 1, <<>>)
  IN  IF At(lx, r.q) = "end" THEN LexError(lx, r.q)
      ELSE Token("str", r.v, lx, r.q + 1)

\* Opening parentheses and brackets are counted, closing ones uncounted.
WithDepth(r) ==
  [r EXCEPT !.lx.depth = IF r.tok.t \in {"(", "["} THEN @ + 1
                         ELSE IF r.tok.t \in {")", "]"} /\ @ > 0 THEN @ - 1 ELSE @]

Operator(lx) ==
  LET i == CHOOSE i \in DOMAIN Operators :
             /\ StartsWith(lx, Operators[i][1])
             /\ \A j \in 1..(i - 1) : ~StartsWith(lx, Operators[j][1])
  IN  WithDepth(Token(Operators[i][2], Operators[i][1], lx, lx.pos + Len(Operators[i][1])))

\* The token at lx.pos, where no white space is left to skip.
Scan(lx) ==
  LET ch == At(lx, lx.pos)
  IN  CASE ch = "end" -> [tok |-> EOF, lx |-> lx]
        [] ch = "\n" -> Token("nl", <<>>, lx, lx.pos + 1)
        [] StartsWith(lx, <<"/", "/">>) ->
             NextToken([lx EXCEPT !.pos = RunEnd(lx, lx.pos + 2,
                                            {lx.src[i] : i \in 1..Len(lx.src)} \ {"\n"})])
        [] StartsWith(lx, <<"/", "*">>) ->
             LET q == CommentEnd(lx, lx.pos + 2, 1)
             IN  IF q = -1 THEN LexError(lx, Len(lx.src) + 1) ELSE NextToken([lx EXCEPT !.pos = q])
        [] ch = "'" -> CharLiteral(lx)
        [] ch \in Digits -> Number(lx)
        [] ch \in Words -> Word(lx)
        [] ch = "\"" -> StringLiteral(lx)
        [] OTHER -> IF \E i \in DOMAIN Operators : StartsWith(lx, Operators[i][1])
                    THEN Operator(lx) ELSE LexError(lx, lx.pos + 1)

NextToken(lx) == Scan([lx EXCEPT !.pos = Skipped(lx, lx.pos)])
=============================================================================
