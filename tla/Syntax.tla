------------------------------- MODULE Syntax -------------------------------
(***************************************************************************)
(* The source text of a syntax tree, as docs/expressions.md,               *)
(* docs/control-flow.md and docs/declarations.md write the language: what  *)
(* the parser is checked against.  Expressions get parentheses only where  *)
(* the documented precedence needs them.                                   *)
(***************************************************************************)
EXTENDS Parser

RECURSIVE Text(_), Joined(_, _), Stmt(_, _), Stmts(_, _), Decls(_, _)

\* docs/expressions.md, lines 7 to 21, weakest first.
Level(op) ==
  CASE op = "||" -> 1 [] op = "&&" -> 2 [] op = "|" -> 3 [] op = "^" -> 4 [] op = "&" -> 5
    [] op \in {"==", "!="} -> 6 [] op \in {"<", "<=", ">", ">="} -> 7
    [] op \in {"<<", ">>"} -> 8 [] op \in {"+", "-"} -> 9 [] op \in {"*", "/", "%"} -> 10
UnaryLevel == 11
PostfixLevel == 12

\* The type of new extends as far as it can, so new is printed in parentheses
\* as an operand.
LevelOf(e) == IF e[1] = "bin" THEN Level(e[2])
              ELSE IF e[1] = "new" THEN 0
              ELSE IF e[1] \in {"un", "cast"} THEN UnaryLevel ELSE PostfixLevel

\* The characters of an operator or a word, and a blank.
CharsIn(table, t) == LET is == {i \in DOMAIN table : table[i][2] = t}
                     IN  IF is = {} THEN <<t, " ">> ELSE table[CHOOSE i \in is : TRUE][1] \o <<" ">>
Chars(t) == CharsIn(Operators, t)

Joined(seq, sep) == IF seq = <<>> THEN <<>>
                    ELSE IF Len(seq) = 1 THEN seq[1] ELSE seq[1] \o sep \o Joined(Tail(seq), sep)

Paren(text) == <<"(">> \o text \o <<")", " ">>
Commas(texts) == Joined(texts, <<",">>)
Each(seq, F(_)) == [i \in DOMAIN seq |-> F(seq[i])]
Flat(seq) == Joined(Each(seq, Chars), <<>>)

AtLeast(e, level) == IF LevelOf(e) < level THEN Paren(Text(e)) ELSE Text(e)

ArmText(arm) ==
  (IF arm[1] = <<"default">> THEN <<"default">> ELSE <<"case", " ">> \o arm[1])
    \o (IF arm[2] = Null THEN <<>> ELSE Paren(arm[2])) \o <<":">>

Text(e) ==
  CASE e[1] = "id" -> e[2] \o <<" ">>
    [] e[1] \in {"num", "float"} -> e[2] \o <<" ">>
    [] e[1] = "str" -> <<"\"">> \o Each(e[2], LAMBDA c : c[2]) \o <<"\"">>
    [] e[1] = "import_str" -> <<"import_str", "\"">> \o Each(e[2], LAMBDA c : c[2]) \o <<"\"">>
    [] e[1] = "new" -> <<"new", " ">> \o Flat(e[2])
    [] e[1] = "un" -> Chars(e[2]) \o AtLeast(e[3], UnaryLevel)
    [] e[1] = "cast" -> Paren(Flat(e[2])) \o AtLeast(e[3], UnaryLevel)
    [] e[1] = "bin" -> AtLeast(e[3], Level(e[2])) \o Chars(e[2]) \o AtLeast(e[4], Level(e[2]) + 1)
    [] e[1] = "mem" -> AtLeast(e[2], PostfixLevel) \o <<".">> \o e[3] \o <<" ">>
    [] e[1] = "idx" -> AtLeast(e[2], PostfixLevel) \o <<"[">> \o Text(e[3]) \o <<"]">>
    [] e[1] = "call" -> e[2] \o <<" ">>
         \o (IF e[3] = <<>> THEN <<>> ELSE <<"<">> \o Commas(Each(e[3], Flat)) \o <<">">>)
         \o Paren(Commas(Each(e[4], Text)))
    [] e[1] = "mcall" -> AtLeast(e[2], PostfixLevel) \o <<".">> \o e[3] \o Paren(Commas(Each(e[4], Text)))
    [] e[1] = "match_expr" -> <<"match">> \o Paren(Text(e[2])) \o <<"{">>
         \o Commas(Each(e[3], LAMBDA arm : ArmText(arm) \o Text(arm[3]))) \o <<"}">>

Opt(x, text) == IF x = Null THEN <<>> ELSE text
BlockText(b, end) == <<"{">> \o Stmts(IF b[1] = "block" THEN b[2] ELSE <<b>>, end) \o <<"}">>
Bare(st) == CASE st[1] = "assign" -> st[2] \o <<"=">> \o Text(st[3])
              [] st[1] = "fassign" -> Text(st[2]) \o <<"=">> \o Text(st[3])
              [] OTHER -> Text(st)

Stmts(seq, end) == Joined([i \in DOMAIN seq |-> Stmt(seq[i], end)], <<>>)

\* A statement with its end, which is ";" or a newline.
Stmt(st, end) ==
  CASE st[1] = "var" -> <<"var", " ">> \o st[2] \o Opt(st[3], <<":">> \o Flat(st[3]))
         \o Opt(st[4], <<"=">> \o Text(st[4])) \o end
    [] st[1] = "return" -> <<"return", " ">> \o Opt(st[2], Text(st[2])) \o end
    [] st[1] = "if" -> <<"if">> \o Paren(Text(st[2])) \o BlockText(st[3], end)
         \o Joined(Each(st[4][1], LAMBDA c : <<"else", " ", "if">> \o Paren(Text(c[1])) \o BlockText(c[2], end)), <<>>)
         \o Opt(st[4][2], <<"else", " ">> \o BlockText(st[4][2], end)) \o <<"\n">>
    [] st[1] = "while" -> <<"while">> \o Paren(Text(st[2])) \o BlockText(st[3], end) \o <<"\n">>
    [] st[1] = "label" -> st[2] \o <<":">> \o Stmt(st[3], end)
    [] st[1] = "for" -> <<"for">>
         \o Paren((IF st[2] = Null THEN <<";">> ELSE IF st[2][1] = "var" THEN Stmt(st[2], <<";">>)
                   ELSE Bare(st[2]) \o <<";">>) \o Opt(st[3], Text(st[3])) \o <<";">> \o Opt(st[4], Bare(st[4])))
         \o BlockText(st[5], end) \o <<"\n">>
    [] st[1] = "switch" -> <<"switch">> \o Paren(Text(st[2])) \o <<"{", "\n">>
         \o Joined(Each(st[3], LAMBDA c : (IF c[1] = Null THEN <<"default", ":">>
                                           ELSE <<"case", " ">> \o Text(c[1]) \o <<":">>) \o Stmts(c[2], end)), <<>>)
         \o <<"}", "\n">>
    [] st[1] = "match" -> <<"match">> \o Paren(Text(st[2])) \o <<"{", "\n">>
         \o Joined(Each(st[3], LAMBDA arm : ArmText(arm) \o BlockText(arm[3], end)), <<"\n">>) \o <<"}", "\n">>
    [] st[1] \in {"break", "continue"} -> <<st[1], " ">> \o st[2] \o end
    [] st[1] \in {"defer", "errdefer"} -> <<st[1], " ">>
         \o (IF st[2][1] = "block" THEN BlockText(st[2], end) ELSE Bare(st[2])) \o end
    [] st[1] = "asm" -> <<"asm", "{">> \o Joined(Each(st[2], LAMBDA w : <<w>>), <<" ">>) \o <<"}", "\n">>
    [] st[1] = "block" -> BlockText(st, end) \o <<"\n">>
    [] OTHER -> Bare(st) \o end

BoundText(p) == p[1] \o (IF p[2] = <<>> THEN <<>> ELSE <<":">> \o Joined(Each(p[2], Flat), <<"+">>))
Angle(texts) == IF texts = <<>> THEN <<>> ELSE <<"<">> \o Commas(texts) \o <<">">>
Typed(p) == p[1] \o <<":">> \o Flat(p[2])
Braced(text) == <<"{", "\n">> \o text \o <<"}", "\n">>
Quoted(v) == <<"\"">> \o Each(v, LAMBDA c : c[2]) \o <<"\"">>

Decls(seq, end) == Joined([i \in DOMAIN seq |->
  LET d == seq[i] IN
  CASE d[1] = "function" -> <<"function", " ">> \o d[2] \o Angle(Each(d[3], BoundText))
         \o Paren(Commas(Each(d[4], Typed))) \o Opt(d[5], <<"-", ">">> \o Flat(d[5]))
         \o Opt(d[6], <<"=">> \o Quoted(d[6]))
         \o (IF d[7] = Null THEN end ELSE BlockText(d[7], end) \o <<"\n">>)
    [] d[1] = "method" -> <<"method", " ">> \o d[2] \o Paren(Commas(Each(d[3], Typed)))
         \o Opt(d[4], <<"-", ">">> \o Flat(d[4])) \o BlockText(d[5], end) \o <<"\n">>
    [] d[1] = "struct" -> <<"struct", " ">> \o d[2] \o Angle(Each(d[3], BoundText))
         \o Braced(Joined(Each(d[4][1], LAMBDA p : Typed(p) \o end), <<>>) \o Decls(d[4][2], end))
    [] d[1] = "enum" -> <<"enum", " ">> \o d[2] \o Angle(d[3])
         \o Braced(Commas(Each(d[4], LAMBDA v : v[1] \o Opt(v[2], Paren(Flat(v[2])))
                                                 \o Opt(v[3], <<"=">> \o Text(v[3])))))
    [] d[1] = "trait" -> <<"trait", " ">> \o d[2] \o Braced(Decls(d[3], end))
    [] d[1] = "impl" -> <<"impl", " ">> \o Flat(d[2]) \o <<"for", " ">> \o Flat(d[3]) \o Braced(Decls(d[4], end))
    [] d[1] = "import" -> <<"import", " ">>
         \o (IF d[4] = <<>> THEN Quoted(d[2]) \o Opt(d[3], <<"as", " ">> \o d[3])
             ELSE <<"{">> \o Commas(d[4]) \o <<"}", "from">> \o Quoted(d[2])) \o end
    [] d[1] = "extern_var" -> <<"extern", " ", "var", " ">> \o d[2] \o <<":">> \o Flat(d[3])
         \o Opt(d[4], <<"=">> \o Quoted(d[4])) \o end
    [] d[1] \in {"extern", "export"} -> <<d[1], " ">> \o Decls(<<d[2]>>, end)
    [] OTHER -> Stmt(d, end)], <<>>)
=============================================================================
