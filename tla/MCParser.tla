------------------------------ MODULE MCParser ------------------------------
(***************************************************************************)
(* Instances of the parser: programs printed from trees, short texts over  *)
(* a small alphabet, and declarations with one token lost or doubled.      *)
(***************************************************************************)
EXTENDS Syntax, FiniteSets

CONSTANT MaxText   \* the length of the arbitrary texts

MCParseFunction(s) == LET d == Declaration(s) IN d

VARIABLE want      \* what the text is a case of: [kind, decls]

(***************************************************************************)
(* Trees                                                                   *)
(***************************************************************************)
Id(n) == <<"id", <<n>>>>
One == <<"num", <<"1">>, 10>>
E1 == <<"bin", "+", Id("a"), One>>
IntType == <<"int32">>
Leaf == {Id("a"), One}
Bins == BinaryOperators \ {"."}

\* One operator over leaves, one operator over another on either side, and
\* every postfix form over and under unary and binary ones.
Small == {<<"bin", op, Id("a"), Id("b")>> : op \in Bins}
           \cup {<<"un", op, Id("a")>> : op \in UnaryOperators}
           \cup {<<"cast", IntType, Id("a")>>, <<"cast", <<"T", "*">>, Id("p")>>,
                 <<"mem", Id("a"), <<"m">>>>, <<"idx", Id("a"), One>>,
                 <<"call", <<"f">>, <<>>, <<Id("a")>>>>, <<"call", <<"f">>, <<>>, <<Id("a"), One>>>>,
                 <<"call", <<"f">>, <<IntType, <<"T", "<", "int32", ">">>>>, <<Id("a")>>>>,
                 <<"mcall", Id("a"), <<"m">>, <<>>>>, <<"call", <<"sizeof">>, <<>>, << <<"id", <<"int32">>>> >> >>,
                 <<"new", <<"T">>>>, <<"float", <<"1", ".", "0">>>>, <<"num", <<"0", "x", "fe">>, 16>>,
                 <<"str", << <<"chr", "a">>, <<"chr", "(">> >> >>}
Over(E) ==
  UNION {{<<"bin", op, e, Id("b")>>, <<"bin", op, Id("a"), e>>} : <<op, e>> \in Bins \X E}
    \cup {<<"un", op, e>> : <<op, e>> \in UnaryOperators \X E}
    \cup UNION {{<<"cast", IntType, e>>, <<"mem", e, <<"m">>>>, <<"idx", e, One>>, <<"idx", Id("a"), e>>,
                 <<"call", <<"f">>, <<>>, <<e, Id("b")>>>>, <<"mcall", e, <<"m">>, <<One>>>>} : e \in E}

\* Comparisons that start like a generic call: a < e, a < b with > e behind it,
\* and f(a < b, e), with and without a comparison in e.
Less == <<"bin", "<", Id("a"), Id("b")>>
Indexed == {<<"idx", Id("a"), Id("b")>>, <<"idx", <<"mem", Id("a"), <<"m">>>>, Id("b")>>,
            <<"idx", Id("a"), E1>>, <<"idx", Id("a"), <<"bin", "+", One, One>>>>}
LikeGeneric ==
  {<<"bin", op, Id("a"), e>> : op \in {"<", ">"}, e \in Indexed}
    \cup {<<"bin", "<", Id("a"), <<"bin", "*", Id("p"), e>>>> : e \in Indexed}
    \cup {<<"bin", op, Less, e>> : op \in {"<", ">", ">>"}, e \in Small \cup Indexed}
    \cup {<<"call", <<"f">>, <<>>, <<Less, e>>>> : e \in Small \cup Indexed}
    \cup {<<"call", <<"f">>, <<>>, <<Less, <<"bin", ">", Id("c"), e>>>>>> : e \in Small}

Expressions == Leaf \cup Small \cup Over(Small) \cup LikeGeneric
Simple == {<<"assign", <<"a">>, E1>>, <<"fassign", <<"idx", Id("a"), One>>, Id("b")>>,
           <<"call", <<"f">>, <<>>, <<>>>>, <<"return", Id("a")>>, <<"return", Null>>,
           <<"var", <<"x">>, IntType, Null>>, <<"var", <<"x">>, <<"int32", "[", "7", "]">>, Null>>,
           <<"var", <<"x">>, Null, E1>>, <<"break", Null>>, <<"continue", <<"A">>>>,
           <<"var", <<"x">>, <<"fn", "(", "int32", ",", "T", ")", "->", "T">>, Id("a")>>,
           <<"assign", <<"a">>, <<"match_expr", Id("a"), << <<<<"A">>, <<"x">>, Id("x")>>, <<<<"default">>, Null, One>> >> >> >>,
           <<"asm", <<"mov", "rax">>>>, <<"defer", <<"call", <<"f">>, <<>>, <<>>>> >>}
Blk(st) == <<"block", <<st>>>>
Nested == UNION {{<<"if", Id("a"), Blk(st), <<<<>>, Null>>>>,
                  <<"if", Id("a"), Blk(One), << << <<Id("b"), Blk(st)>> >>, Blk(st)>>>>,
                  <<"while", Id("a"), Blk(st)>>, <<"label", <<"A">>, <<"while", Id("a"), Blk(st)>>>>,
                  <<"for", <<"var", <<"x">>, IntType, One>>, E1, <<"assign", <<"x">>, E1>>, Blk(st)>>,
                  <<"for", Null, Null, Null, Blk(st)>>,
                  <<"switch", Id("a"), << <<One, <<st, One>>>>, <<Null, <<st>>>> >> >>,
                  <<"match", Id("a"), << <<<<"A">>, <<"x">>, Blk(st)>>, <<<<"T">>, Null, Blk(One)>>,
                                         <<<<"default">>, Null, Blk(st)>> >> >>,
                  <<"errdefer", Blk(st)>>, Blk(st)} : st \in Simple}
Statements == Simple \cup Nested

Fun(name, body) == <<"function", <<name>>, <<>>, << <<<<"a">>, IntType>> >>, IntType, Null, body>>
Declarations ==
  {Fun("f", Blk(<<"return", Id("a")>>)), Fun("f", Null),
   <<"function", <<"f">>, << <<<<"T">>, <<<<"A">>, <<"m", ".", "A">>>>>>, <<<<"A">>, <<>>>> >>, <<>>, Null, Null, Blk(One)>>,
   <<"extern", <<"function", <<"f">>, <<>>, <<>>, Null, << <<"chr", "f">> >>, Null>>>>,
   <<"export", Fun("f", Blk(<<"return", One>>))>>, <<"extern_var", <<"x">>, IntType, Null>>,
   <<"export", <<"extern_var", <<"x">>, IntType, << <<"chr", "x">> >> >> >>,
   <<"var", <<"x">>, IntType, One>>, <<"export", <<"var", <<"x">>, IntType, One>>>>,
   <<"struct", <<"A">>, << <<<<"T">>, <<>>>> >>, << << <<<<"a">>, <<"T", "*">>>>, <<<<"b">>, IntType>> >>,
       << <<"method", <<"m">>, << <<<<"a">>, IntType>> >>, IntType, Blk(<<"return", Id("this")>>)>> >> >> >>,
   <<"export", <<"struct", <<"A">>, <<>>, << << <<<<"a">>, IntType>> >>, <<>> >> >> >>,
   <<"enum", <<"A">>, << <<"T">> >>, << <<<<"a">>, <<"T">>, Null>>, <<<<"b">>, Null, One>> >> >>,
   <<"enum", <<"A">>, <<>>, << <<<<"a">>, IntType, Null>>, <<<<"b">>, Null, One>> >> >>, <<"export", <<"enum", <<"A">>, <<>>, <<>>>>>>,
   <<"trait", <<"A">>, <<Fun("f", Null)>>>>, <<"export", <<"trait", <<"A">>, <<Fun("f", Null)>>>>>>,
   <<"impl", <<"m", ".", "A">>, IntType, <<Fun("f", Blk(<<"return", One>>))>>>>,
   <<"import", << <<"chr", "a">> >>, Null, <<>>>>, <<"import", << <<"chr", "a">> >>, <<"x">>, <<>>>>,
   <<"import", << <<"chr", "a">> >>, Null, << <<"a">>, <<"b">> >> >>}

(***************************************************************************)
(* Texts                                                                   *)
(***************************************************************************)
EndTexts == {<<";">>, <<"\n">>}

\* A program and the text it is printed as.
Printed ==
  {[kind |-> "printed", decls |-> <<<<"assign", <<"x">>, e>>>>, end |-> <<"\n">>] : e \in Expressions}
    \cup {[kind |-> "printed", decls |-> <<Fun("f", Blk(st))>>, end |-> e] : st \in Statements, e \in EndTexts}
    \cup {[kind |-> "printed", decls |-> <<d>>, end |-> e] : d \in Declarations, e \in EndTexts}

\* Texts over a small alphabet, alone, as an argument, an index and the body of a function.
Alphabet == {<<"a", " ">>, <<"(", "-", "a", ")">>, <<"(">>, <<")">>, <<"-">>, <<",">>, <<"<">>, <<"[">>, <<"]">>,
             <<"return", " ">>, <<"if", " ">>, <<"else", " ">>, <<"{">>, <<"}">>, <<"\n">>}
Texts == UNION {[1..n -> Alphabet] : n \in 1..MaxText}

Frames == {<<<<>>, <<";">>>>, <<<<"f", "(">>, <<")", ";">>>>, <<<<"a", "[">>, <<"]", ";">>>>,
           <<<<"function", " ", "f", "(", ")", "{">>, <<"}", "\n">>>>}

\* One element of the first declaration lost or doubled (but no quote, which
\* would make the rest a string, and no brace where the good declaration would
\* then belong inside), a good one behind it.
Good == {Fun("g", Blk(<<"return", Id("a")>>)), <<"var", <<"x">>, IntType, One>>,
         <<"struct", <<"A">>, <<>>, << << <<<<"a">>, IntType>> >>, <<>> >> >>}
BracesMatter(d, g) == g[1] = "var" \/ d[1] \notin {"function", "struct", "enum"}
Without(text, i) == [j \in 1..(Len(text) - 1) |-> text[IF j < i THEN j ELSE j + 1]]
Doubled(text, i) == [j \in 1..(Len(text) + 1) |-> text[IF j <= i THEN j ELSE j - 1]]
Damaged(text, whole) ==
  UNION {{Without(text, i), Doubled(text, i)} : i \in {i \in DOMAIN text : text[i] \notin whole}}

Start(text, w) ==
  /\ source = text
  /\ want = w
  /\ ps = Create(text)
  /\ program = <<>>
  /\ crashed = FALSE

Init ==
  \/ \E w \in Printed : Start(Decls(w.decls, w.end), w)
  \/ \E t \in Texts, f \in Frames :
       Start(f[1] \o Joined(t, <<>>) \o f[2], [kind |-> "text", decls |-> <<>>, end |-> <<";">>])
  \/ \E op \in Bins :
       Start(<<"x", "=", "(", "a", ")">> \o Chars(op) \o <<"b", ";">>,
             [kind |-> "text", decls |-> <<>>, end |-> <<";">>])
  \/ \E d \in Declarations, g \in Good, e \in EndTexts :
       \E t \in Damaged(Decls(<<d>>, e), {"\""} \cup (IF BracesMatter(d, g) THEN {"{", "}"} ELSE {})) :
         Start(t \o <<"\n">> \o Decls(<<g>>, e), [kind |-> "broken", decls |-> <<g>>, end |-> e])

Spec == Init /\ [][Next /\ UNCHANGED want]_<<vars, want>>

(***************************************************************************)
(* Properties                                                              *)
(***************************************************************************)
RECURSIVE TokenTypes(_)
TokenTypes(lx) ==
  LET next == NextToken(lx)
  IN  IF next.tok.t = "eof" THEN <<>> ELSE <<next.tok.t>> \o TokenTypes(next.lx)

\* From behind the '<' at i to before k the tokens are a list of types.
TypesBetween(t, i, k, types) ==
  /\ t[i] = "<" /\ t[i - 1] \in IdentifierLike /\ k > i + 1 /\ t[i + 1] \in TypeWords
  /\ \A j \in i + 1 .. k - 1 : t[j] \in types
  /\ \A j \in i + 1 .. k - 2 : t[j] = "*" => t[j + 1] \notin TypeWords

\* The '<' at k has its '>'.
Closed(t, k) ==
  LET count(m, c) == Cardinality({j \in k .. m : t[j] = c})
  IN  \E m \in k + 2 .. Len(t) :
        /\ TypesBetween(t, k, m, TypeWords \cup {".", "*", ",", "<", ">"})
        /\ t[m] = ">" /\ count(m, "<") = count(m, ">")

\* A name, '<' and names of types, and then a '[' with anything but a number and
\* ']' behind it, or a second '<' without its '>': the try for type arguments
\* (parser.c:1739) fails inside a type.
GuessFails(t) ==
  \E i, k \in 2 .. Len(t) - 2 :
    /\ TypesBetween(t, i, k, TypeWords \cup {".", "*", ","})
    /\ \/ t[k] = "[" /\ ~(t[k + 1] = "num" /\ t[k + 2] = "]")
       \/ t[k] = "<" /\ t[k - 1] \in TypeWords /\ ~Closed(t, k)

\* A comparison a < b > (e), or a < b, c > (e) in an argument list, is written like
\* a generic call and is read as one.
ReadAsGenericCall(e) ==
  LET last == IF e[1] = "call" THEN e[4][Len(e[4])] ELSE e
      chain == IF e[1] = "call" THEN e[4][1] ELSE e[3]
  IN  /\ e[1] = "bin" \/ (e[1] = "call" /\ Len(e[4]) = 2)
      /\ last[1] = "bin" /\ last[2] = ">" /\ chain = Less
      /\ AtLeast(last[4], Level(">") + 1)[1] = "("

\* Every program, printed as the documentation writes the language with only
\* the parentheses that the documented precedence needs, gives back its tree
\* (the whole of parser.c, forwards), but for comparisons that are written like
\* a generic call.  And it is accepted, unless the try for type arguments fails
\* inside a type: the parser takes back its own error but the reporter keeps its
\* copy, so that i < arr[j] gives its tree and refuses the program (main.c:2633).
\* Every generic enum, and nothing else that is printed, ends the process: its
\* cleanup reads the array of type parameters it has given away (parser.c:3036).
ParsesWhatIsPrinted ==
  /\ want.kind = "printed" /\ (AtEnd \/ crashed) => (crashed <=> want.decls[1][1] = "enum" /\ want.decls[1][3] # <<>>)
  /\ want.kind = "printed" /\ AtEnd =>
       LET misread == want.decls[1][1] = "assign" /\ ReadAsGenericCall(want.decls[1][3])
           guessFails == GuessFails(TokenTypes([src |-> source, pos |-> 1, depth |-> 0]))
       IN  /\ program = want.decls <=> ~misread
           /\ ~misread => (Accepted <=> ~guessFails)

Layout == {" ", "\n", ";", "(", ")", "{", "}", ","}
Content(text) == SelectSeq(text, LAMBDA c : c \notin Layout)

\* Nothing of an accepted text is dropped: printing its tree gives back its
\* words and operators in order.  Texts with a call through an expression are
\* left out: parser_parse_postfix_expression destroys the call it has built.
NothingDropped == want.kind = "text" /\ Accepted /\ ~ps.dropped => Content(Decls(program, <<";">>)) = Content(source)

\* The tree and the text say the same, in both directions.
TreesMatchTexts == ParsesWhatIsPrinted /\ NothingDropped

\* An error in one declaration does not hide the function, variable or struct
\* that starts on the next line.
LaterDeclarationsFound == want.kind = "broken" /\ AtEnd => program # <<>> /\ program[Len(program)] = want.decls[1]

Unread(s) == (Len(s.lx.src) + 1 - s.lx.pos) + Cardinality({x \in {"cur", "peek"} : s[x].t # "eof"})

\* Every turn of the program loop reads on, also after an error and its
\* recovery, so parsing ends on every text.
ReadsOn == [][crashed' \/ Unread(ps') < Unread(ps)]_<<vars, want>>
=============================================================================
