------------------------------- MODULE Parser -------------------------------
(***************************************************************************)
(* The recursive-descent parser (src/src/parser/parser.c) on top of the    *)
(* lexer.  A parser state s holds the lexer, the current and the next      *)
(* token, the error flags of struct Parser, whether the error reporter has *)
(* been told of an error and whether it is detached; freed and dropped     *)
(* record a call through an expression (see Call), null a generic enum     *)
(* (see EnumDeclaration).  Two more fields stand for the control flow of   *)
(* C: s.v is the value the last function returned (Null for NULL), and     *)
(* s.go is FALSE once the function at work has decided to return NULL,     *)
(* which turns its remaining steps into no-ops until Return hands control  *)
(* back to its caller.                                                     *)
(*                                                                         *)
(* Nodes are tuples that start with their kind, types are the sequence of  *)
(* their tokens' texts, names are token values.  Parse(n, s) is the parse  *)
(* function of nonterminal n.                                              *)
(***************************************************************************)
EXTENDS Lexer

RECURSIVE Parse(_, _), BinaryExpression(_, _), BinaryLoop(_, _, _), PostfixLoop(_, _), Args(_, _), TypeList(_, _, _),
          Stars(_), Dotted(_), Bounds(_, _), WhereLoop(_, _), TypeParams(_, _), Params(_, _),
          Names(_, _), Methods(_, _, _), EnumParams(_, _), Variants(_, _), Members(_, _, _),
          AsmText(_, _), ElseIfs(_, _), Cases(_, _, _), CaseBody(_, _), Arms(_, _, _, _),
          BlockLoop(_, _), GenericArgs(_, _), Separators(_, _), Synchronize(_)

Null == <<>>

(***************************************************************************)
(* Tokens, errors and returns                                              *)
(***************************************************************************)
Report(s) == [s EXCEPT !.err = TRUE, !.had = TRUE, !.reported = @ \/ ~s.muted]

SetError(s) == IF s.go THEN Report(s) ELSE s

ReportLexical(s) == IF s.cur.t = "error" THEN Report(s) ELSE s
Shifted(s, read) == ReportLexical([s EXCEPT !.cur = s.peek, !.peek = read.tok, !.lx = read.lx])

\* parser_advance, which reports a lexical error when it becomes current.
Advance(s) == IF ~s.go \/ s.cur.t = "eof" THEN s ELSE Shifted(s, NextToken(s.lx))

\* parser_create: two tokens are read ahead.
Created(c, p) ==
  LET s == [lx |-> p.lx, cur |-> c.tok, peek |-> p.tok, err |-> FALSE, had |-> FALSE,
            reported |-> FALSE, muted |-> FALSE, freed |-> FALSE, dropped |-> FALSE, null |-> FALSE, go |-> TRUE, v |-> Null]
  IN  IF "error" \in {c.tok.t, p.tok.t} THEN Report(s) ELSE s
CreatedAfter(c) == Created(c, NextToken(c.lx))
Create(src) == CreatedAfter(NextToken([src |-> src, pos |-> 1, depth |-> 0]))

Stop(s) == [s EXCEPT !.go = FALSE, !.v = Null]
Fail(s) == Stop(SetError(s))
Return(s, node) == [s EXCEPT !.v = IF s.go THEN node ELSE Null, !.go = TRUE]
With(s, value) == [s EXCEPT !.v = value]

\* The caller returns NULL when its callee did.
Need(s) == IF s.go /\ s.v = Null THEN Stop(s) ELSE s
\* ... and reports an error of its own if the callee has not.
NeedElse(s) == IF s.go /\ s.v = Null THEN (IF s.err THEN Stop(s) ELSE Fail(s)) ELSE s

Is(s, t) == s.cur.t = t
IsIn(s, set) == s.cur.t \in set
Ends == {";", "nl"}

Expect(s, t) == IF ~s.go THEN s ELSE IF Is(s, t) THEN Advance(s) ELSE Fail(s)

IdentifierLike == {"id", "reg"}
TypeWords == IdentifierLike \cup {"type"}

\* A token of one of the types, as the value.
Take(s, types) == IF ~s.go THEN s ELSE IF IsIn(s, types) THEN With(Advance(s), s.cur.v) ELSE Fail(s)

\* parser_expect_statement_end where its result is ignored, and where it is not.
StatementEnd(s) == IF ~s.go \/ IsIn(s, Ends) THEN Advance(s) ELSE SetError(s)
ExpectEnd(s) == IF ~s.go \/ IsIn(s, Ends) THEN Advance(s) ELSE Fail(s)

Separators(s, set) == IF s.go /\ IsIn(s, set) THEN Separators(Advance(s), set) ELSE s

SyncTokens == {"function", "var", "struct", "return", "if", "while", "for", "switch", "match",
               "break", "continue", "}"}

\* Mutant: only the end of a statement stops recovery.
SynchronizeToEnd(s) == IF Is(s, "eof") THEN s ELSE IF IsIn(s, Ends) THEN Advance(s) ELSE Synchronize(Advance(s))

Synchronize(s) ==
  IF Is(s, "eof") THEN s
  ELSE IF IsIn(s, Ends) THEN Advance(s)
  ELSE IF IsIn(s, SyncTokens) THEN s
  ELSE Synchronize(Advance(s))

RecoverFromError(s) == [Synchronize(s) EXCEPT !.err = FALSE]

(***************************************************************************)
(* Types and type parameters                                               *)
(***************************************************************************)
\* fn(types) -> type
FnType(s) ==
  LET p == TypeList(With(Expect(Advance(s), "("), <<"fn", "(">>), ")", TRUE)
      r == NeedElse(Parse("type", Expect(p, "->")))
  IN  With(r, p.v \o <<"->">> \o r.v)

TypeAnnotation(s) ==
  LET base == IF Is(s, "fn") THEN FnType(s)
              ELSE IF IsIn(s, TypeWords) THEN With(Advance(s), s.cur.v)
              ELSE Stop(s)
      dots == Dotted(base)
      args == IF Is(dots, "<") THEN TypeList(With(Advance(dots), Append(dots.v, "<")), ">", TRUE)
              ELSE dots
      ptr  == Stars(args)
      open == Advance(ptr)
      size == Take(open, {"num"})
      arr  == Expect(size, "]")
  IN  IF ptr.go /\ Is(ptr, "[") THEN Return(arr, ptr.v \o <<"[">> \o size.v \o <<"]">>)
      ELSE Return(ptr, ptr.v)

\* Types up to the closing token, added to the text in s.v.
TypeList(s, close, first) ==
  IF ~s.go THEN s
  ELSE IF IsIn(s, {close, "eof"}) \/ s.err THEN With(Expect(s, close), Append(s.v, close))
  ELSE LET c == IF first THEN s ELSE Expect(s, ",")
           t == NeedElse(Parse("type", c))
       IN  TypeList(With(t, (IF first THEN s.v ELSE Append(s.v, ",")) \o t.v), close, FALSE)

\* .name after a name or a type
Dotted(s) ==
  IF s.go /\ Is(s, ".")
  THEN LET t == Take(Advance(s), TypeWords) IN Dotted(With(t, s.v \o <<".">> \o t.v))
  ELSE s

Stars(s) == IF s.go /\ Is(s, "*") THEN Stars(With(Advance(s), Append(s.v, "*"))) ELSE s

QualifiedName(s) == Dotted(Take(s, TypeWords))

\* A trait bound list, added to the bounds in acc.
Bounds(s, acc) ==
  LET q == QualifiedName(s)
      all == Append(acc, q.v)
  IN  IF ~q.go THEN q ELSE IF Is(q, "+") THEN Bounds(Advance(q), all) ELSE With(q, all)

\* <T: A + B, U>; a comma may stand before the '>'.
TypeParams(s, acc) ==
  IF ~s.go THEN s
  ELSE IF IsIn(s, {">", "eof"}) THEN With(Expect(s, ">"), acc)
  ELSE LET n == Take(s, IdentifierLike)
           b == IF Is(n, ":") THEN Bounds(Advance(n), <<>>) ELSE With(n, <<>>)
           all == Append(acc, <<n.v, b.v>>)
       IN  IF ~n.go \/ ~b.go THEN Stop(b)
           ELSE IF Is(b, ",") THEN TypeParams(Advance(b), all)
           ELSE IF Is(b, ">") THEN TypeParams(b, all) ELSE Fail(b)

TypeParamList(s) == IF s.go /\ Is(s, "<") THEN TypeParams(Advance(s), <<>>) ELSE With(s, <<>>)

\* where T: A + B, ... adds to the bounds of the parameters in acc.
WhereLoop(s, acc) ==
  LET n == Take(s, IdentifierLike)
      named == {i \in DOMAIN acc : acc[i][1] = n.v}
      i == CHOOSE i \in named : \A j \in named : i <= j
      c == IF n.go /\ named = {} THEN Fail(n) ELSE Expect(n, ":")
      b == IF c.go THEN Bounds(c, acc[i][2]) ELSE c
      all == [acc EXCEPT ![i][2] = b.v]
  IN  IF ~b.go THEN b ELSE IF Is(b, ",") THEN WhereLoop(Advance(b), all) ELSE With(b, all)

WhereClause(s, params) ==
  IF s.go /\ Is(s, "where") THEN WhereLoop(Advance(s), params) ELSE With(s, params)

(***************************************************************************)
(* Expressions                                                             *)
(***************************************************************************)
\* Mutant: the bitwise operators bind tighter than the comparisons.
PrecedenceBitwise(t) == IF t \in {"&", "^", "|"} THEN 9 ELSE IF t = "." THEN 13 ELSE
  CASE t \in {"*", "/", "%"} -> 11 [] t \in {"+", "-"} -> 10 [] t \in {"<<", ">>"} -> 9
    [] t \in {"<", "<=", ">", ">="} -> 8 [] t \in {"==", "!="} -> 7 [] t = "&&" -> 3
    [] t = "||" -> 2 [] OTHER -> 0

Precedence(t) ==
  CASE t = "." -> 13
    [] t \in {"*", "/", "%"} -> 11
    [] t \in {"+", "-"} -> 10
    [] t \in {"<<", ">>"} -> 9
    [] t \in {"<", "<=", ">", ">="} -> 8
    [] t \in {"==", "!="} -> 7
    [] t = "&" -> 6
    [] t = "^" -> 5
    [] t = "|" -> 4
    [] t = "&&" -> 3
    [] t = "||" -> 2
    [] OTHER -> 0

BinaryOperators == {"*", "/", "%", "+", "-", "<<", ">>", "<", "<=", ">", ">=", "==", "!=",
                    "&", "^", "|", "&&", "||", "."}
UnaryOperators == {"-", "+", "*", "&", "~", "!"}

\* An integer literal's base, and whether its value fits 64 bits.
Radix(v) == IF Len(v) > 1 /\ v[1] = "0" /\ v[2] = "x" THEN 16
            ELSE IF Len(v) > 1 /\ v[1] = "0" /\ v[2] = "b" THEN 2 ELSE 10
Fits(v) == \A i \in DOMAIN v : v[i] # "huge"
IsFloat(v) == \E i \in DOMAIN v : v[i] = "."

NumberLiteral(s) ==
  IF IsFloat(s.cur.v) THEN Return(Advance(s), <<"float", s.cur.v>>)
  ELSE IF Fits(s.cur.v) THEN Return(Advance(s), <<"num", s.cur.v, Radix(s.cur.v)>>)
  ELSE Return(Fail(s), Null)

PrimaryExpression(s) ==
  LET next == Advance(s)
      inner == Parse("expr", next)
      close == IF Is(inner, ")") THEN Advance(inner) ELSE Fail(inner)
  IN  CASE IsIn(s, IdentifierLike) -> Return(next, <<"id", s.cur.v>>)
        [] Is(s, "num") -> NumberLiteral(s)
        [] Is(s, "str") -> Return(next, <<"str", s.cur.v>>)
        [] Is(s, "import_str") -> LET p == Take(next, {"str"}) IN Return(p, <<"import_str", p.v>>)
        [] Is(s, "(") -> Return(close, inner.v)
        [] Is(s, "match") -> Parse("match_expr", s)
        [] Is(s, "this") -> Return(next, <<"id", <<"this">>>>)
        [] Is(s, "new") ->
             LET t == IF IsIn(next, TypeWords \cup {"fn"}) THEN Need(Parse("type", next))
                      ELSE Fail(next)
             IN  Return(t, <<"new", t.v>>)
        [] OTHER -> Return(Fail(s), Null)

\* parser_restore_state: all but what the reporter has been told.
Restore(s, saved) == [saved EXCEPT !.reported = s.reported]

\* (type) operand, tried with the reporter detached: s.v is Null if the
\* parenthesis is not a cast, with the state restored.
CastExpression(s) ==
  LET t == Parse("type", Advance([s EXCEPT !.muted = TRUE]))
      typed == t.v # Null /\ ~t.err /\ Is(t, ")")
      past == Advance([t EXCEPT !.muted = FALSE])
      grouping == \/ IsIn(past, {")", ",", ";", "eof"})
                  \/ IsIn(past, BinaryOperators \ UnaryOperators)
      operand == Need(Parse("unary", [past EXCEPT !.err = FALSE]))
  IN  IF s.peek.t \notin TypeWords \cup {"fn"} THEN With(s, Null)
      ELSE IF ~typed THEN With(Restore(t, s), Null)
      ELSE IF grouping THEN With(Restore(past, s), Null)
      ELSE Return(operand, <<"cast", t.v, operand.v>>)

UnaryExpression(s) ==
  LET cast == IF Is(s, "(") THEN CastExpression(s) ELSE With(s, Null)
      operand == Need(Parse("unary", Advance(cast)))
  IN  IF cast.v # Null THEN cast
      ELSE IF IsIn(cast, UnaryOperators) THEN Return(operand, <<"un", cast.cur.t, operand.v>>)
      ELSE Parse("postfix", cast)

\* <types> before a call, tried with the reporter attached: s.v holds the
\* types, or Null with the state restored.
GenericArgs(s, acc) ==
  LET t == Parse("type", IF acc = <<>> THEN s ELSE Advance(s))
  IN  IF IsIn(s, {">", "eof"}) THEN With(s, acc)
      ELSE IF acc # <<>> /\ ~Is(s, ",") THEN Stop(s)
      ELSE IF t.v = Null \/ t.err THEN Stop(t)
      ELSE GenericArgs(t, Append(acc, t.v))

GenericCallArgs(s) ==
  LET t == GenericArgs(Advance(s), <<>>)
      past == Advance(t)
  IN  IF t.go /\ Is(t, ">") /\ Is(past, "(")
      THEN [past EXCEPT !.v = <<"types", t.v>>, !.err = FALSE]
      ELSE With(Restore(past, s), Null)

\* Arguments up to ')'; an argument that fails ends the list.
Args(s, acc) ==
  LET a == Parse("expr", s)
      all == Append(acc, a.v)
  IN  IF a.v = Null THEN With(a, acc)
      ELSE IF Is(a, ",") THEN Args(Advance(a), all)
      ELSE IF Is(a, ")") THEN With(a, all)
      ELSE With(SetError(a), all)

ArgumentList(s) ==
  LET a == IF Is(s, ")") THEN With(s, <<>>) ELSE Args(s, <<>>)
  IN  With(Expect(a, ")"), a.v)

\* sizeof takes one type.
SizeofArgument(s) ==
  LET t == IF Is(s, ")") THEN Fail(s) ELSE NeedElse(Parse("type", s))
      one == IF t.go /\ Is(t, ",") THEN Fail(t) ELSE t
  IN  With(Expect(one, ")"), << <<"id", t.v>> >>)

\* A call of e: a method call on a member, a call of a name, or a call through
\* an expression, whose node is destroyed again and whose arguments, if there
\* are any, are freed twice.
Call(s, e) ==
  LET a == IF e = <<"id", <<"sizeof">>>> THEN SizeofArgument(Advance(s)) ELSE ArgumentList(Advance(s))
  IN  IF ~a.go THEN a
      ELSE CASE e[1] = "mem" -> PostfixLoop(a, <<"mcall", e[2], e[3], a.v>>)
             [] e[1] = "id" -> PostfixLoop(a, <<"call", e[2], <<>>, a.v>>)
             [] OTHER -> Stop([a EXCEPT !.freed = @ \/ a.v # <<>>, !.dropped = TRUE])

GenericCall(s, e, types) ==
  LET a == ArgumentList(Advance(s))
  IN  IF a.go THEN PostfixLoop(a, <<"call", e[2], types, a.v>>) ELSE a

MemberAccess(s, object) ==
  LET m == Take(Advance(s), {"id"})
  IN  IF m.go THEN PostfixLoop(m, <<"mem", object, m.v>>) ELSE m

ArrayIndex(s, e) ==
  LET i == Need(Parse("expr", Advance(s)))
      c == Expect(i, "]")
  IN  IF c.go THEN PostfixLoop(c, <<"idx", e, i.v>>) ELSE c

PostfixLoop(s, e) ==
  LET g == IF e[1] = "id" /\ Is(s, "<") THEN GenericCallArgs(s) ELSE With(s, Null)
  IN  CASE g.v # Null -> GenericCall(g, e, g.v[2])
        [] g.v = Null /\ Is(g, "(") -> Call(g, e)
        [] g.v = Null /\ Is(g, ".") -> MemberAccess(g, e)
        [] g.v = Null /\ Is(g, "->") -> MemberAccess(g, <<"un", "*", e>>)
        [] g.v = Null /\ Is(g, "[") -> ArrayIndex(g, e)
        [] OTHER -> With(g, e)

PostfixExpression(s) ==
  LET p == Need(PrimaryExpression(s))
      r == IF p.go THEN PostfixLoop(p, p.v) ELSE p
  IN  Return(r, r.v)

BinaryLoop(s, left, min) ==
  LET op == s.cur.t
      right == Need(BinaryExpression(Advance(s), Precedence(op) + 1))
  IN  IF op \notin BinaryOperators \/ Precedence(op) < min THEN With(s, left)
      ELSE IF ~right.go THEN right
      ELSE BinaryLoop(right, <<"bin", op, left, right.v>>, min)

BinaryExpression(s, min) ==
  LET l == Need(Parse("unary", s))
      r == IF l.go THEN BinaryLoop(l, l.v, min) ELSE l
  IN  Return(r, r.v)

Expression(s) == BinaryExpression(s, 0)

(***************************************************************************)
(* Statements                                                              *)
(***************************************************************************)
CompoundOp == [op \in {"+=", "-=", "*=", "/=", "%=", "&=", "|=", "^=", "<<=", ">>="} |->
  CASE op = "+=" -> "+" [] op = "-=" -> "-" [] op = "*=" -> "*" [] op = "/=" -> "/"
    [] op = "%=" -> "%" [] op = "&=" -> "&" [] op = "|=" -> "|" [] op = "^=" -> "^"
    [] op = "<<=" -> "<<" [] op = ">>=" -> ">>"]

AssignmentTokens == DOMAIN CompoundOp \cup {"="}

AssignmentTarget(e) == e[1] \in {"id", "mem", "idx"} \/ (e[1] = "un" /\ e[2] = "*")

\* target = value, and target op= value as target = target op value.
AssignmentFrom(s, target) ==
  LET value == IF AssignmentTarget(target) THEN Need(Parse("expr", Advance(s))) ELSE Fail(s)
      whole == IF Is(s, "=") THEN value.v ELSE <<"bin", CompoundOp[s.cur.t], target, value.v>>
  IN  Return(value, IF target[1] = "id" THEN <<"assign", target[2], whole>>
                    ELSE <<"fassign", target, whole>>)

\* An expression or an assignment, as a statement or a part of for.
ExpressionStatement(s) ==
  LET e == Need(Parse("expr", s))
  IN  IF e.go /\ IsIn(e, AssignmentTokens) THEN AssignmentFrom(e, e.v) ELSE Return(e, e.v)

\* The tokens that start a statement of their own.
StatementWords == {"extern", "var", "return", "if", "while", "for", "switch", "match", "break",
                   "continue", "defer", "errdefer", "asm", "{"}

\* A branch or a loop body: a block or one statement.
Body(s) == Need(IF Is(s, "{") THEN Parse("block", s) ELSE Parse("stmt", s))

VarDeclaration(s) ==
  LET n == Take(Expect(s, "var"), IdentifierLike)
      t == IF n.go /\ Is(n, ":") THEN NeedElse(Parse("type", Advance(n))) ELSE With(n, Null)
      i == IF t.go /\ Is(t, "=") THEN Need(Parse("expr", Advance(t))) ELSE With(t, Null)
      b == IF i.go /\ t.v = Null /\ i.v = Null THEN Fail(i) ELSE i
  IN  Return(StatementEnd(b), <<"var", n.v, t.v, i.v>>)

DeferStatement(s, kind) ==
  LET k == Expect(s, kind)
      b == IF IsIn(k, Ends) THEN Fail(k) ELSE NeedElse(Parse("stmt", k))
  IN  Return(StatementEnd(b), <<kind, b.v>>)

\* The value may fail to parse: the statement is returned all the same.
ReturnStatement(s) ==
  LET k == Advance(s)
      e == IF IsIn(k, Ends) THEN With(k, Null) ELSE Parse("expr", k)
  IN  Return(e, <<"return", e.v>>)

Condition(s) == Need(Parse("expr", Expect(s, "(")))

\* else if chains and the last else, in s.v = <<else ifs, else>>.
ElseIfs(s, acc) ==
  LET n == Separators(s, {"nl"})
      c == Condition(Advance(Advance(n)))
      b == Body(Expect(c, ")"))
      e == Body(Advance(n))
  IN  IF ~Is(n, "else") THEN With(n, <<acc, Null>>)
      ELSE IF n.peek.t # "if" THEN With(e, <<acc, e.v>>)
      ELSE IF b.go THEN ElseIfs(b, Append(acc, <<c.v, b.v>>)) ELSE b

IfStatement(s) ==
  LET c == Condition(Expect(s, "if"))
      b == Body(Expect(c, ")"))
      e == IF b.go THEN ElseIfs(b, <<>>) ELSE b
  IN  Return(e, <<"if", c.v, b.v, e.v>>)

WhileStatement(s) ==
  LET c == Condition(Expect(s, "while"))
      b == Body(Expect(c, ")"))
  IN  Return(b, <<"while", c.v, b.v>>)

BreakOrContinue(s, kind) ==
  LET k == Expect(s, kind)
      l == IF Is(k, "id") THEN With(Advance(k), k.cur.v) ELSE With(k, Null)
  IN  Return(StatementEnd(l), <<kind, l.v>>)

\* A var initializer has eaten its own ';'.
ForStatement(s) ==
  LET k == Expect(Expect(s, "for"), "(")
      i == IF ~k.go \/ Is(k, ";") THEN With(k, Null)
           ELSE IF Is(k, "var") THEN Parse("var", k) ELSE Parse("assignment", k)
      j == IF i.err THEN Stop(i)
           ELSE IF Is(i, ";") THEN Advance(i)
           ELSE IF i.v = Null \/ i.v[1] # "var" THEN Fail(i) ELSE i
      c == IF Is(j, ";") THEN With(j, Null) ELSE Need(Parse("expr", j))
      d == Expect(c, ";")
      n == IF Is(d, ")") THEN With(d, Null) ELSE Need(Parse("assignment", d))
      b == Body(Expect(n, ")"))
  IN  Return(b, <<"for", i.v, c.v, n.v, b.v>>)

CaseBody(s, acc) ==
  IF IsIn(s, {"eof", "case", "default", "}"}) THEN With(s, acc)
  ELSE IF IsIn(s, Ends) THEN CaseBody(Advance(s), acc)
  ELSE LET r == Need(Parse("stmt", s)) IN IF r.go THEN CaseBody(r, Append(acc, r.v)) ELSE r

\* The cases; an error ends the list, and the '}' is looked for there.
Cases(s, acc, seen) ==
  LET n == Separators(s, Ends)
      e == Parse("expr", Advance(n))
      head == IF Is(n, "case") THEN (IF e.v = Null THEN Fail(e) ELSE e)
              ELSE IF Is(n, "default") /\ ~seen THEN With(Advance(n), Null) ELSE Fail(n)
      c == Expect(head, ":")
      b == CaseBody(c, <<>>)
  IN  IF IsIn(s, {"}", "eof"}) \/ Is(n, "}") THEN With(n, acc)
      ELSE IF ~c.go THEN [c EXCEPT !.go = TRUE, !.v = acc]
      ELSE IF ~b.go THEN b
      ELSE Cases(b, Append(acc, <<head.v, b.v>>), seen \/ Is(n, "default"))

SwitchStatement(s) ==
  LET e == Condition(Expect(s, "switch"))
      o == Expect(Expect(e, ")"), "{")
      c == IF o.go THEN Cases(o, <<>>, FALSE) ELSE o
  IN  Return(Expect(c, "}"), <<"switch", e.v, c.v>>)

\* One binding in parentheses after the variant's name.
Binding(s) ==
  IF s.go /\ Is(s, "(") THEN LET b == Take(Advance(s), IdentifierLike) IN With(Expect(b, ")"), b.v)
  ELSE With(s, Null)

\* The arms of a match statement (blocks) or expression (values).
Arms(s, acc, seen, expr) ==
  LET n == Separators(s, Ends)
      v == IF Is(n, "default") THEN (IF seen THEN Fail(n) ELSE With(Advance(n), <<"default">>))
           ELSE Take(Expect(n, "case"), IdentifierLike)
      p == IF Is(n, "default") THEN With(v, Null) ELSE Binding(v)
      c == Expect(p, ":")
      b == NeedElse(IF expr THEN Parse("expr", c) ELSE Parse("block", c))
      sep == IF expr /\ Is(b, ",") THEN Advance(b) ELSE b
  IN  IF IsIn(s, {"}", "eof"}) \/ s.err \/ Is(n, "}") THEN With(IF s.err THEN s ELSE n, acc)
      ELSE IF ~b.go THEN b
      ELSE Arms(Separators(sep, Ends), Append(acc, <<v.v, p.v, b.v>>), seen \/ Is(n, "default"), expr)

Match(s, expr) ==
  LET e == Condition(Expect(s, "match"))
      o == Expect(Expect(e, ")"), "{")
      a == IF o.go THEN Arms(o, <<>>, FALSE, expr) ELSE o
      c == IF a.err THEN Stop(a) ELSE Expect(a, "}")
  IN  Return(c, <<IF expr THEN "match_expr" ELSE "match", e.v, a.v>>)

AsmText(s, acc) ==
  IF IsIn(s, {"}", "eof"}) \/ s.err THEN With(s, acc) ELSE AsmText(Advance(s), acc \o s.cur.v)

InlineAsm(s) ==
  LET o == Expect(Expect(s, "asm"), "{")
      a == IF o.go THEN AsmText(o, <<>>) ELSE o
  IN  Return(Expect(a, "}"), <<"asm", a.v>>)

\* Statements up to '}' or to an error, whose '}' is looked for in place.
BlockLoop(s, acc) ==
  LET r == Parse("stmt", s)
      more == IF r.v # Null /\ r.v[1] # "defer" /\ IsIn(r, Ends) THEN Advance(r) ELSE r
  IN  IF IsIn(s, {"}", "eof"}) \/ s.err THEN With(s, acc)
      ELSE IF IsIn(s, Ends) THEN BlockLoop(Advance(s), acc)
      ELSE IF r.v = Null THEN With(IF r.err THEN r ELSE SetError(r), acc)
      ELSE BlockLoop(more, Append(acc, r.v))

Block(s) ==
  LET o == Expect(s, "{")
      b == IF o.go THEN BlockLoop(o, <<>>) ELSE o
  IN  Return(Expect(b, "}"), <<"block", b.v>>)

\* IDENT ':' before while or for is a label; the token behind ':' is looked at
\* without reading it.
LabelledLoop(s) == Is(s, "id") /\ s.peek.t = ":" /\ NextToken(s.lx).tok.t \in {"while", "for"}

Loop(s) == LET l == Need(Parse("stmt", Advance(Advance(s)))) IN Return(l, <<"label", s.cur.v, l.v>>)

Statement(s) ==
  CASE LabelledLoop(s) -> Loop(s)
    [] Is(s, "extern") -> Parse("decl", s)
    [] Is(s, "var") -> Parse("var", s)
    [] Is(s, "return") -> ReturnStatement(s)
    [] Is(s, "if") -> IfStatement(s)
    [] Is(s, "while") -> WhileStatement(s)
    [] Is(s, "for") -> ForStatement(s)
    [] Is(s, "switch") -> SwitchStatement(s)
    [] Is(s, "match") -> Match(s, FALSE)
    [] IsIn(s, {"break", "continue"}) -> BreakOrContinue(s, s.cur.t)
    [] IsIn(s, {"defer", "errdefer"}) -> DeferStatement(s, s.cur.t)
    [] Is(s, "asm") -> InlineAsm(s)
    [] Is(s, "{") -> Parse("block", s)
    [] ~LabelledLoop(s) /\ s.cur.t \notin StatementWords -> ExpressionStatement(s)

(***************************************************************************)
(* Declarations                                                            *)
(***************************************************************************)
Names(s, acc) ==
  LET n == Take(s, IdentifierLike)
      all == Append(acc, n.v)
  IN  IF IsIn(s, {"}", "eof"}) THEN With(s, acc)
      ELSE IF ~n.go THEN n ELSE IF Is(n, ",") THEN Names(Advance(n), all) ELSE With(n, all)

\* import { a, b } from "m", import "m" as x and import "m".
ImportDeclaration(s) ==
  LET k == Advance(s)
      l == Names(Advance(k), <<>>)
      b == Expect(l, "}")
      f == IF b.go /\ (b.cur.t \notin IdentifierLike \/ b.cur.v # <<"from">>) THEN Fail(b) ELSE Advance(b)
      q == Take(f, {"str"})
      m == Take(k, {"str"})
      a == IF m.go /\ IsIn(m, IdentifierLike) /\ m.cur.v = <<"as">>
           THEN Take(Advance(m), IdentifierLike) ELSE With(m, Null)
  IN  IF Is(k, "{") THEN Return(ExpectEnd(q), <<"import", q.v, Null, l.v>>)
      ELSE Return(ExpectEnd(a), <<"import", m.v, a.v, <<>>>>)

\* = "name" after an extern variable or a function
LinkName(s) == IF s.go /\ Is(s, "=") THEN Take(Advance(s), {"str"}) ELSE With(s, Null)

ExternVar(s) ==
  LET n == Take(Expect(s, "var"), IdentifierLike)
      t == NeedElse(Parse("type", Expect(n, ":")))
      l == LinkName(t)
  IN  Return(ExpectEnd(l), <<"extern_var", n.v, t.v, l.v>>)

\* A trailing comma is an error here.
Params(s, acc) ==
  LET n == Take(s, IdentifierLike)
      t == NeedElse(Parse("type", Expect(n, ":")))
      all == Append(acc, <<n.v, t.v>>)
  IN  IF ~t.go THEN t
      ELSE IF Is(t, ",") THEN Params(Advance(t), all)
      ELSE IF Is(t, ")") THEN With(t, all) ELSE Fail(t)

ParameterList(s) ==
  LET p == IF ~s.go THEN s ELSE IF Is(s, ")") THEN With(s, <<>>) ELSE Params(s, <<>>)
  IN  With(Expect(p, ")"), p.v)

ReturnType(s) ==
  IF s.go /\ IsIn(s, {"->", ":"}) THEN NeedElse(Parse("type", Advance(s))) ELSE With(s, Null)

\* A block, or the end of a declaration without one.
FunctionBody(s) ==
  IF ~s.go THEN s
  ELSE IF Is(s, "{") THEN Need(Parse("block", s))
  ELSE IF IsIn(s, Ends) THEN With(Advance(s), Null) ELSE Fail(s)

FunctionDeclaration(s) ==
  LET n == Take(Advance(s), IdentifierLike)
      g == TypeParamList(n)
      p == ParameterList(Expect(g, "("))
      r == ReturnType(p)
      w == WhereClause(r, g.v)
      l == LinkName(w)
      b == FunctionBody(l)
  IN  Return(b, <<"function", n.v, w.v, p.v, r.v, l.v, b.v>>)

HasBody(f) == f[7] # Null

\* Signatures of a trait (no bodies) or functions of an impl (with bodies).
Methods(s, acc, bodies) ==
  LET f == IF IsIn(s, {"function", "fn"}) THEN Need(Parse("function", s)) ELSE Fail(s)
      m == IF f.go /\ HasBody(f.v) # bodies THEN Fail(f) ELSE f
  IN  IF IsIn(s, {"}", "eof"}) \/ s.err THEN With(s, acc)
      ELSE IF IsIn(s, Ends) THEN Methods(Advance(s), acc, bodies)
      ELSE IF m.go THEN Methods(m, Append(acc, m.v), bodies) ELSE m

MethodBlock(s, bodies) ==
  LET m == Methods(Advance(s), <<>>, bodies)
  IN  IF ~s.go THEN s
      ELSE IF Is(s, "{") THEN With(Expect(m, "}"), m.v) ELSE With(ExpectEnd(s), <<>>)

TraitDeclaration(s) ==
  LET n == Take(Expect(s, "trait"), IdentifierLike)
      m == MethodBlock(n, FALSE)
  IN  Return(m, <<"trait", n.v, m.v>>)

ImplDeclaration(s) ==
  LET n == QualifiedName(Expect(s, "impl"))
      t == NeedElse(Parse("type", Expect(n, "for")))
      m == MethodBlock(t, TRUE)
  IN  Return(m, <<"impl", n.v, t.v, m.v>>)

\* Commas and newlines separate an enum's type parameters, or nothing does.
EnumParams(s, acc) ==
  IF IsIn(s, {">", "eof"}) \/ s.err THEN With(s, acc)
  ELSE IF IsIn(s, {",", "nl"}) THEN EnumParams(Advance(s), acc)
  ELSE IF IsIn(s, TypeWords) THEN EnumParams(Advance(s), Append(acc, s.cur.v))
  ELSE With(SetError(s), acc)

Payload(s) ==
  LET o == Advance(s)
      t == IF IsIn(o, TypeWords) THEN NeedElse(Parse("type", o)) ELSE Fail(o)
  IN  IF s.go /\ Is(s, "(") THEN With(Expect(t, ")"), t.v) ELSE With(s, Null)

Variants(s, acc) ==
  LET n == Take(s, IdentifierLike)
      p == Payload(n)
      v == IF p.go /\ Is(p, "=") THEN NeedElse(Parse("expr", Advance(p))) ELSE With(p, Null)
      next == IF IsIn(v, {",", "nl"}) THEN Advance(v) ELSE v
  IN  IF IsIn(s, {"}", "eof"}) \/ s.err THEN With(s, acc)
      ELSE IF IsIn(s, {",", "nl"}) THEN Variants(Advance(s), acc)
      ELSE IF v.go THEN Variants(next, Append(acc, <<n.v, p.v, v.v>>)) ELSE v

\* The cleanup behind the node walks the type parameters once more, through the
\* pointer that was set to NULL when the node took them.
EnumDeclaration(s) ==
  LET n == Take(Expect(s, "enum"), IdentifierLike)
      g == IF n.go /\ Is(n, "<") THEN EnumParams(Advance(n), <<>>) ELSE With(n, <<>>)
      h == IF n.go /\ Is(n, "<") /\ ~g.err THEN Expect(g, ">") ELSE g
      o == Expect(h, "{")
      v == IF o.go THEN Variants(o, <<>>) ELSE o
      c == IF v.err THEN Stop(v) ELSE Expect(v, "}")
  IN  Return([c EXCEPT !.null = @ \/ (c.go /\ g.v # <<>>)], <<"enum", n.v, g.v, v.v>>)

MethodDeclaration(s) ==
  LET n == Take(Expect(s, "method"), IdentifierLike)
      p == ParameterList(Expect(n, "("))
      r == ReturnType(p)
      b == IF r.go /\ Is(r, "{") THEN Need(Parse("block", r)) ELSE IF r.go THEN Fail(r) ELSE r
  IN  Return(b, <<"method", n.v, p.v, r.v, b.v>>)

\* Fields and methods; a field's missing end stops the list at an error.
Members(s, fields, methods) ==
  LET m == Parse("method", s)
      n == Take(s, IdentifierLike)
      t == NeedElse(Parse("type", Expect(n, ":")))
  IN  IF IsIn(s, {"}", "eof"}) \/ s.err THEN With(s, <<fields, methods>>)
      ELSE IF IsIn(s, Ends) THEN Members(Advance(s), fields, methods)
      ELSE IF Is(s, "method")
      THEN IF m.v = Null THEN Stop(m) ELSE Members(m, fields, Append(methods, m.v))
      ELSE IF t.go THEN Members(StatementEnd(t), Append(fields, <<n.v, t.v>>), methods) ELSE t

StructDeclaration(s) ==
  LET n == Take(Expect(s, "struct"), IdentifierLike)
      g == TypeParamList(n)
      w == WhereClause(g, g.v)
      o == Expect(w, "{")
      m == IF o.go THEN Members(o, <<>>, <<>>) ELSE o
  IN  Return(Expect(m, "}"), <<"struct", n.v, w.v, m.v>>)

\* The rest of an extern declaration.
ExternDeclaration(s) ==
  LET f == Need(Parse("function", s))
      e == IF f.go /\ HasBody(f.v) THEN Fail(f) ELSE f
  IN  IF Is(s, "function") THEN Return(e, <<"extern", e.v>>)
      ELSE IF Is(s, "var") THEN ExternVar(s) ELSE Return(Fail(s), Null)

ExportDeclaration(s) ==
  LET d == IF Is(s, "function") THEN Parse("function", s)
           ELSE IF Is(s, "struct") THEN StructDeclaration(s)
           ELSE IF Is(s, "enum") THEN EnumDeclaration(s)
           ELSE IF Is(s, "trait") THEN TraitDeclaration(s)
           ELSE IF Is(s, "var") THEN Parse("var", s)
           ELSE IF Is(s, "extern") THEN ExternDeclaration(Advance(s)) ELSE Fail(s)
      e == Need(d)
  IN  Return(e, <<"export", e.v>>)

Declaration(s) ==
  CASE Is(s, "import") -> ImportDeclaration(s)
    [] Is(s, "extern") -> ExternDeclaration(Advance(s))
    [] Is(s, "export") -> ExportDeclaration(Advance(s))
    [] Is(s, "function") -> Parse("function", s)
    [] Is(s, "struct") -> StructDeclaration(s)
    [] Is(s, "enum") -> EnumDeclaration(s)
    [] Is(s, "trait") -> TraitDeclaration(s)
    [] Is(s, "impl") -> ImplDeclaration(s)
    [] s.cur.t \notin {"import", "extern", "export", "function", "struct", "enum", "trait", "impl"} ->
         Parse("stmt", s)

\* The parse function of a nonterminal; nothing once the caller has given up.
Parse(nonterminal, s) ==
  IF ~s.go THEN s
  ELSE CASE nonterminal = "decl" -> Declaration(s)
         [] nonterminal = "function" -> FunctionDeclaration(s)
         [] nonterminal = "method" -> MethodDeclaration(s)
         [] nonterminal = "var" -> VarDeclaration(s)
         [] nonterminal = "block" -> Block(s)
         [] nonterminal = "stmt" -> Statement(s)
         [] nonterminal = "assignment" -> ExpressionStatement(s)
         [] nonterminal = "expr" -> Expression(s)
         [] nonterminal = "unary" -> UnaryExpression(s)
         [] nonterminal = "postfix" -> PostfixExpression(s)
         [] nonterminal = "match_expr" -> Match(s, TRUE)
         [] nonterminal = "type" -> TypeAnnotation(s)

(***************************************************************************)
(* parser_parse_program, one turn of its loop at a time                    *)
(***************************************************************************)
CONSTANT ParseFunction(_)   \* parser_parse_declaration: the loop is given Declaration

VARIABLES source,    \* the text
          ps,        \* the parser
          program,   \* the declarations found so far
          crashed    \* the process has ended on memory freed twice or a null pointer

vars == <<source, ps, program, crashed>>

AtEnd == Is(ps, "eof")

\* compile_lex_and_parse: neither the parser nor the reporter has an error.
Accepted == AtEnd /\ ~ps.had /\ ~ps.reported

SkipEmptyStatement ==
  /\ IsIn(ps, Ends)
  /\ ps' = Advance(ps)
  /\ UNCHANGED <<program, crashed>>

\* A parse function that returns NULL without an error skips a token.
Reported(s) == IF s.v = Null /\ ~s.err THEN Advance(SetError(s)) ELSE s

\* Mutant: no guard against a recovery that does not move.
RecoveredUnguarded(s, start) == IF s.err THEN RecoverFromError(s) ELSE s

\* Recovery that stops where the declaration began skips a token, too.
Recovered(s, start) ==
  LET Moved(r) == IF ~Is(r, "eof") /\ r.lx.pos = start.lx.pos THEN Advance(r) ELSE r
  IN  IF s.err THEN Moved(RecoverFromError(s)) ELSE s

ParseDeclaration ==
  /\ ~AtEnd /\ ~IsIn(ps, Ends)
  /\ LET d == ParseFunction(ps)
     IN  \/ d.null /\ crashed' = TRUE /\ UNCHANGED <<ps, program>>
         \/ /\ ~d.null
            /\ ps' = With(Recovered(Reported(d), ps), Null)
            /\ program' = IF d.v = Null THEN program ELSE Append(program, d.v)
            /\ UNCHANGED crashed

\* Whether freeing an argument twice is noticed is up to the allocator.
Abort ==
  /\ ps.freed
  /\ crashed' = TRUE
  /\ UNCHANGED <<ps, program>>

Next ==
  /\ ~crashed
  /\ UNCHANGED source
  /\ SkipEmptyStatement \/ ParseDeclaration \/ Abort
=============================================================================
