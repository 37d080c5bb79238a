---------------------------- MODULE TypeChecker ----------------------------
(***************************************************************************)
(* The type checker (src/src/semantic/type_checker.c).  Programs are trees *)
(* shaped as the parser builds them (see Parser), except that an integer   *)
(* literal <<"num", value, radix>> carries its value.                      *)
(*                                                                         *)
(* A checker state c holds the scopes of the symbol table, the stack vars  *)
(* of tracked locals [name, init] with the scope markers marks, the known  *)
(* buffers ext [name, n, align, depth], newest first, the loop and switch  *)
(* depth, the return type of the current function (fn, empty outside),     *)
(* the generic enum templates and the warnings given.  Every function of   *)
(* the checker is an operator that returns the new state, with its result  *)
(* in c.t: a type, Ok for a statement, or Null when it has reported an     *)
(* error.  The first error ends the check, so what a failing function      *)
(* leaves behind is never looked at.                                       *)
(***************************************************************************)
EXTENDS SymbolTable

CONSTANTS Int32Max, UInt32Max, Int64Max   \* the limits of literals, scaled down

ASSUME LimitsAssumption == Int32Max \in Nat /\ UInt32Max \in Nat /\ Int64Max \in Nat
                             /\ Int32Max < UInt32Max /\ UInt32Max < Int64Max

RECURSIVE GetType(_, _), TypeList(_, _, _), TypesEqual(_, _), EvalConst(_, _, _), BufferOf(_, _), AlignmentOf(_, _),
          KnownAfter(_, _), Infer(_, _), Args(_, _, _, _), MatchArms(_, _, _, _), Check(_, _), CheckAll(_, _, _),
          ElseIfs(_, _, _, _), Cases(_, _, _, _), EnumValues(_, _, _, _, _), Terminates(_), BareName(_),
          PayloadTypes(_, _, _, _), Constructors(_, _, _, _), Params(_, _, _, _), Split(_, _, _, _)

Ok == <<"void">>
Int32 == <<"int32">>
Int64 == <<"int64">>
Bool == <<"bool">>
CString == <<"ptr", <<"uint8">>, <<"cstring">>>>

With(c, t) == [c EXCEPT !.t = t]
Error(c) == With(c, Null)
OkIf(c, cond) == With(c, IF cond THEN Ok ELSE Null)
Then(c, Step(_)) == IF c.t = Null THEN c ELSE Step(c)
Warn(c, kind, node) == [c EXCEPT !.warned = Append(@, <<kind, node>>)]

(***************************************************************************)
(* Type names                                                              *)
(***************************************************************************)
Builtins == {"bool", "int8", "int16", "int32", "int64", "uint8", "uint16", "uint32", "uint64",
             "float32", "float64", "string", "void"}
Sizes == [d \in {"0", "1", "2", "3", "4", "8"} |->
            CASE d = "0" -> 0 [] d = "1" -> 1 [] d = "2" -> 2 [] d = "3" -> 3 [] d = "4" -> 4 [] OTHER -> 8]

NameOf(t) ==
  CASE Kind(t) = "ptr" -> t[3] [] Kind(t) = "arr" -> t[4] [] Kind(t) = "fn" -> <<"function">>
    [] Kind(t) \in {"struct", "enum", "tagged"} -> t[2] [] OTHER -> t

\* The position of the first of these tokens, or 0.
FirstOf(name, tokens) ==
  IF \E i \in DOMAIN name : name[i] \in tokens
  THEN CHOOSE i \in DOMAIN name : name[i] \in tokens /\ \A j \in 1..(i - 1) : name[j] \notin tokens
  ELSE 0

\* type_checker_parse_array_type: up to the first bracket, whose closing one
\* must end the name.
ArrayType(c, name) ==
  LET l == FirstOf(name, {"["})
      r == FirstOf(name, {"]"})
      base == GetType(c, SubSeq(name, 1, l - 1))
      n == Sizes[name[l + 1]]
  IN  IF l < 2 \/ r # l + 2 \/ r # Len(name) THEN Error(c)
      ELSE IF base.t = Null \/ n = 0 THEN Error(base)
      ELSE With(base, <<"arr", base.t, n, name>>)

PointerTo(t) == <<"ptr", t, Append(NameOf(t), "*")>>

\* type_checker_parse_pointer_type
PointerType(c, name) ==
  LET base == GetType(c, SubSeq(name, 1, Len(name) - 1))
  IN  IF name[Len(name)] # "*" \/ Len(name) = 1 THEN Error(c)
      ELSE IF base.t = Null THEN base ELSE With(base, PointerTo(base.t))

Nesting(token) == CASE token \in {"<", "[", "("} -> 1 [] token \in {">", "]", ")"} -> -1 [] OTHER -> 0

\* The parts of name between its commas outside all brackets.
Split(name, i, depth, part) ==
  IF i > Len(name) THEN <<part>>
  ELSE IF name[i] = "," /\ depth = 0 THEN <<part>> \o Split(name, i + 1, 0, <<>>)
  ELSE Split(name, i + 1, depth + Nesting(name[i]), Append(part, name[i]))

\* The types of these names, as the sequence in t (Null if one is unknown).
TypeList(c, names, types) ==
  IF names = <<>> THEN With(c, <<"types", types>>)
  ELSE LET h == GetType(c, Head(names))
       IN  IF h.t = Null THEN h ELSE TypeList(h, Tail(names), Append(types, h.t))

\* type_checker_parse_function_pointer_type: fn(types)->type
FnPointerType(c, name) ==
  LET depth(i) == Len(SelectSeq(SubSeq(name, 2, i), LAMBDA x : x = "("))
                    - Len(SelectSeq(SubSeq(name, 2, i), LAMBDA x : x = ")"))
      closing == {i \in 3..Len(name) : depth(i) = 0 /\ \A j \in 2..(i - 1) : depth(j) # 0}
      close == CHOOSE i \in closing : TRUE
      inside == SubSeq(name, 3, close - 1)
      params == TypeList(c, IF inside = <<>> THEN <<>> ELSE Split(inside, 1, 0, <<>>), <<>>)
      ret == GetType(params, SubSeq(name, close + 2, Len(name)))
  IN  IF closing = {} \/ close + 2 > Len(name) \/ name[close + 1] # "->" THEN Error(c)
      ELSE IF params.t = Null \/ ret.t = Null THEN Error(params)
      ELSE With(ret, <<"fn", params.t[2], ret.t>>)

\* The payload types of an enum's variants; one that is unknown is no payload.
PayloadTypes(c, variants, i, acc) ==
  IF i > Len(variants) THEN With(c, <<"types", acc>>)
  ELSE LET p == IF variants[i][2] = Null THEN Error(c) ELSE GetType(c, variants[i][2])
       IN  PayloadTypes(p, variants, i + 1, Append(acc, p.t))

MaxOf(S) == CHOOSE x \in S : \A y \in S : x >= y

\* type_checker_build_tagged_enum_type: a tag of four bytes, then the payloads
\* in one place.
TaggedType(c, name, variants) ==
  LET p == PayloadTypes(c, variants, 1, <<>>)
      payloads == {p.t[2][i] : i \in DOMAIN variants} \ {Null}
      size == MaxOf({0} \cup {SizeOf(t) : t \in payloads})
      align == MaxOf({4} \cup {AlignOf(t) : t \in payloads})
      total == PadUp(PadUp(4, align) + size, align)
  IN  With(p, <<"tagged", name, [i \in DOMAIN variants |-> <<variants[i][1], p.t[2][i]>>],
                IF total < 8 THEN 8 ELSE total, align, PadUp(4, align)>>)

\* The constructors of the tagged enum t, in the current scope; a generic one
\* adds only those whose name is still free.
Constructors(c, t, i, onlyFree) ==
  IF i > Len(t[3]) THEN With(c, t)
  ELSE LET sym == [Sym(t[3][i][1], "constructor", t) EXCEPT !.payload = t[3][i][2], !.value = i - 1]
       IN  IF onlyFree /\ LookupSymbol(c.scopes, sym.name) # NoSymbol
           THEN Constructors(c, t, i + 1, onlyFree)
           ELSE Constructors([c EXCEPT !.scopes = Inserted(@, sym)], t, i + 1, onlyFree)

\* type_checker_instantiate_generic_enum: the instance is looked up, and
\* entered, under the name base__argument.
InstantiateEnum(c, base, arg) ==
  LET mangled == base \o <<"__">> \o arg
      old == GetType(c, mangled)
      a == GetType(old, arg)
      tmpl == SelectSeq(c.tmpl, LAMBDA d : d[2] = base)
      variants == [i \in DOMAIN tmpl[1][4] |->
                     LET v == tmpl[1][4][i] IN <<v[1], IF v[2] = tmpl[1][3][1] THEN arg ELSE v[2]>>]
      t == TaggedType(a, mangled, variants)
  IN  IF old.t # Null THEN old
      ELSE IF a.t = Null \/ tmpl = <<>> THEN Error(a)
      ELSE Constructors([t EXCEPT !.scopes = Inserted(@, Sym(mangled, "enum", t.t))], t.t, 1, TRUE)

\* Base<argument, ...>; only the first argument counts.
GenericType(c, name) ==
  LET l == FirstOf(name, {"<"})
      comma == FirstOf(SubSeq(name, l + 1, Len(name)), {","})
      arg == SubSeq(name, l + 1, IF comma > 0 THEN l + comma - 1 ELSE Len(name) - 1)
  IN  IF l = 0 \/ name[Len(name)] # ">" THEN Error(c) ELSE InstantiateEnum(c, SubSeq(name, 1, l - 1), arg)

\* type_checker_get_type_by_name
GetType(c, name) ==
  LET sym == LookupSymbol(c.scopes, name)
      has(token) == \E i \in DOMAIN name : name[i] = token
      f == IF Len(name) > 2 /\ name[1] = "fn" /\ name[2] = "(" THEN FnPointerType(c, name) ELSE Error(c)
      a == IF f.t = Null /\ has("[") /\ has("]") THEN ArrayType(f, name) ELSE f
      p == IF a.t = Null /\ has("*") THEN PointerType(a, name) ELSE a
  IN  IF name = <<>> THEN Error(c)
      ELSE IF Len(name) = 1 /\ name[1] \in Builtins THEN With(c, name)
      ELSE IF name = <<"cstring">> THEN With(c, CString)
      ELSE IF p.t # Null THEN p
      ELSE IF sym.kind \in {"struct", "enum"} THEN With(p, sym.type)
      ELSE GenericType(p, name)

(***************************************************************************)
(* Relations between types                                                 *)
(***************************************************************************)
IntegerKinds == {"int8", "int16", "int32", "int64", "uint8", "uint16", "uint32", "uint64", "bool", "enum"}
FloatKinds == {"float32", "float64"}
IsInteger(t) == Kind(t) \in IntegerKinds
IsFloat(t) == Kind(t) \in FloatKinds
IsNumeric(t) == IsInteger(t) \/ IsFloat(t)

\* type_checker_types_equal: like TypesCompatible, and like it blind to which
\* enum an enum is.
TypesEqual(a, b) == TypesCompatible(a, b)

IsImplicitlyConvertible(from, to) ==
  IF Kind(from) = Kind(to) THEN TypesEqual(from, to)
  ELSE \/ IsInteger(from) /\ IsNumeric(to)
       \/ IsFloat(from) /\ IsFloat(to)

Opaque == {"ptr", "arr", "struct"}

IsAssignable(dest, src) ==
  \/ TypesEqual(dest, src)
  \/ Kind(dest) = "ptr" /\ NameOf(dest) = <<"cstring">>
       /\ (Kind(src) = "string" \/ (Kind(src) = "ptr" /\ NameOf(src[2]) = <<"int8">>))
  \/ Kind(dest) = "ptr" /\ Kind(src) = "arr" /\ TypesEqual(dest[2], src[2])
  \/ {Kind(dest), Kind(src)} \cap Opaque = {} /\ IsImplicitlyConvertible(src, dest)

AreCompatible(a, b) ==
  \/ TypesEqual(a, b)
  \/ {Kind(a), Kind(b)} \cap Opaque = {} /\ (IsImplicitlyConvertible(a, b) \/ IsImplicitlyConvertible(b, a))

IsCastValid(from, to) ==
  LET ks == {Kind(from), Kind(to)}
  IN  \/ TypesEqual(from, to)
      \/ IsNumeric(from) /\ IsNumeric(to)
      \/ ks \subseteq {"ptr", "fn"}
      \/ \E x, y \in {from, to} : {x, y} = {from, to} /\ IsInteger(x) /\ Kind(y) \in {"ptr", "fn"}

Rank(t) ==
  CASE Kind(t) \in {"int8", "uint8"} -> 1 [] Kind(t) \in {"int16", "uint16"} -> 2
    [] Kind(t) \in {"int32", "uint32"} -> 3 [] Kind(t) = "float32" -> 4
    [] Kind(t) \in {"int64", "uint64"} -> 5 [] Kind(t) = "float64" -> 6 [] Kind(t) = "string" -> 10 [] OTHER -> 0
LargerType(a, b) == IF Rank(a) >= Rank(b) THEN a ELSE b

\* type_checker_promote_types for the operators that reach it.
Promote(a, b, op) == IF op \in {"+", "-", "*", "/", "%"} THEN LargerType(a, b) ELSE a

\* type_checker_default_integer_literal_type
LiteralType(n, radix) ==
  IF n <= Int32Max THEN Int32
  ELSE IF radix # 10 /\ n <= UInt32Max THEN <<"uint32">>
  ELSE IF n <= Int64Max THEN Int64 ELSE <<"uint64">>

(***************************************************************************)
(* Constant expressions                                                    *)
(***************************************************************************)
Truth(b) == IF b THEN 1 ELSE 0
Abs(n) == IF n < 0 THEN -n ELSE n
Quotient(a, b) == (Abs(a) \div Abs(b)) * (IF (a < 0) = (b < 0) THEN 1 ELSE -1)

\* The value of an operator on constants as a 1-tuple, or Null.
Fold(op, a, b) ==
  CASE op = "+" -> <<a + b>> [] op = "-" -> <<a - b>> [] op = "*" -> <<a * b>>
    [] op = "/" -> IF b = 0 THEN Null ELSE <<Quotient(a, b)>>
    [] op = "%" -> IF b = 0 THEN Null ELSE <<a - b * Quotient(a, b)>>
    [] op = "==" -> <<Truth(a = b)>> [] op = "!=" -> <<Truth(a # b)>> [] op = "<" -> <<Truth(a < b)>>
    [] op = "<=" -> <<Truth(a <= b)>> [] op = ">" -> <<Truth(a > b)>> [] op = ">=" -> <<Truth(a >= b)>>
    [] op = "&&" -> <<Truth(a # 0 /\ b # 0)>> [] op = "||" -> <<Truth(a # 0 \/ b # 0)>> [] OTHER -> Null

\* type_checker_eval_integer_constant_with_checker; names and sizes have a
\* value only with the checker (known).
EvalConst(c, e, known) ==
  CASE e[1] = "num" -> With(c, <<e[2]>>)
    [] e[1] = "id" -> LET s == LookupSymbol(c.scopes, e[2])
                      IN  IF known /\ s.kind = "constant" THEN With(c, <<s.value>>) ELSE Error(c)
    [] e[1] = "call" /\ e[2] = <<"sizeof">> /\ Len(e[4]) = 1 ->
         LET t == GetType(c, e[4][1][2])
         IN  IF known /\ e[4][1][1] = "id" /\ t.t # Null THEN With(t, <<SizeOf(t.t)>>) ELSE Error(c)
    [] e[1] = "un" -> LET v == EvalConst(c, e[3], known)
                      IN  IF v.t = Null \/ e[2] \notin {"+", "-"} THEN Error(v)
                          ELSE With(v, <<IF e[2] = "-" THEN -v.t[1] ELSE v.t[1]>>)
    [] e[1] = "bin" -> LET l == EvalConst(c, e[3], known)
                           r == EvalConst(l, e[4], known)
                       IN  IF l.t = Null \/ r.t = Null THEN Error(l) ELSE With(r, Fold(e[2], l.t[1], r.t[1]))
    [] OTHER -> Error(c)

Const(c, e) == EvalConst(c, e, FALSE).t
IsNullConstant(c, e) == Const(c, e) = <<0>>

StaticAssert(c, args) ==
  LET v == EvalConst(c, args[1], TRUE)
  IN  IF Len(args) # 1 THEN Error(c) ELSE OkIf(v, v.t # Null /\ v.t # <<0>>)

(***************************************************************************)
(* Known buffers: how many bytes a pointer is known to point to (-1 if not) *)
(***************************************************************************)
BareName(e) == IF e[1] = "cast" THEN BareName(e[3]) ELSE IF e[1] = "id" THEN e[2] ELSE Null

Unknown == [name |-> Null, n |-> -1, align |-> -1, depth |-> 0]
BufferNamed(c, name) ==
  LET found == SelectSeq(c.ext, LAMBDA b : b.name = name) IN IF found = <<>> THEN Unknown ELSE found[1]

\* type_checker_extract_allocation_call_extent
Allocated(c, name, args) ==
  LET v(i) == Const(c, args[i])
      known == \A i \in DOMAIN args : v(i) # Null /\ v(i)[1] >= 0
  IN  IF name = <<"malloc">> /\ Len(args) = 1 /\ known THEN v(1)[1]
      ELSE IF name = <<"calloc">> /\ Len(args) = 2 /\ known THEN v(1)[1] * v(2)[1] ELSE -1

\* The operand and the constant of a sum, whichever side the constant is on.
ConstantPart(c, e) ==
  IF Const(c, e[4]) # Null THEN <<e[3], Const(c, e[4])[1]>>
  ELSE IF e[2] = "+" /\ Const(c, e[3]) # Null THEN <<e[4], Const(c, e[3])[1]>> ELSE Null

\* type_checker_extract_known_buffer_extent
BufferOf(c, e) ==
  CASE e = Null -> -1
    [] e[1] = "cast" -> BufferOf(c, e[3])
    [] e[1] = "call" -> Allocated(c, e[2], e[4])
    [] e[1] = "bin" /\ e[2] = "+" ->
         LET part == ConstantPart(c, e)
             n == BufferOf(c, part[1])
         IN  IF part = Null \/ n < 0 \/ part[2] < 0 THEN -1 ELSE IF part[2] >= n THEN 0 ELSE n - part[2]
    [] OTHER -> BufferNamed(c, BareName(e)).n

KnownAfter(align, offset) == IF align <= 1 \/ offset % align = 0 THEN align ELSE KnownAfter(align \div 2, offset)

\* type_checker_extract_known_pointer_alignment
AlignmentOf(c, e) ==
  CASE e = Null -> -1
    [] e[1] = "cast" -> AlignmentOf(c, e[3])
    [] e[1] = "call" -> IF e[2] \in {<<"malloc">>, <<"calloc">>} THEN 8 ELSE -1
    [] e[1] = "bin" /\ e[2] \in {"+", "-"} ->
         LET part == ConstantPart(c, e)
             a == AlignmentOf(c, part[1])
         IN  IF part = Null \/ a <= 0 THEN -1 ELSE KnownAfter(a, Abs(part[2]))
    [] OTHER -> BufferNamed(c, BareName(e)).align

DeclareBuffer(c, name, n, align) ==
  [c EXCEPT !.ext = <<[name |-> name, n |-> n, align |-> align, depth |-> Len(c.marks)]>> \o @]

\* type_checker_buffer_extent_set: the newest buffer of that name.
SetBuffer(c, name, n, align) ==
  LET named == {i \in DOMAIN c.ext : c.ext[i].name = name}
      first == CHOOSE i \in named : \A j \in named : i <= j
  IN  IF named = {} THEN DeclareBuffer(c, name, n, align)
      ELSE [c EXCEPT !.ext[first].n = n, !.ext[first].align = align]

\* The warnings of a call: recv, memcpy and memmove of more than the buffer.
WarnBuffers(c, name, args) ==
  LET len == Const(c, args[3])
      tooLong(n) == n >= 0 /\ len[1] > n
      recv == BufferNamed(c, BareName(args[2])).n
      d == IF tooLong(BufferOf(c, args[1])) THEN Warn(c, "destination", args) ELSE c
  IN  IF Len(args) < 3 \/ name \notin {<<"recv">>, <<"memcpy">>, <<"memmove">>} THEN c
      ELSE IF len = Null THEN c
      ELSE IF name = <<"recv">> THEN (IF BareName(args[2]) # Null /\ tooLong(recv) THEN Warn(c, "recv", args) ELSE c)
      ELSE IF len[1] < 0 THEN c
      ELSE IF tooLong(BufferOf(c, args[2])) THEN Warn(d, "source", args) ELSE d

WarnMisaligned(c, target, operand) ==
  LET known == AlignmentOf(c, operand)
  IN  IF Kind(target) = "ptr" /\ AlignOf(target[2]) > 1 /\ known > 0 /\ known < AlignOf(target[2])
      THEN Warn(c, "misaligned", operand) ELSE c

(***************************************************************************)
(* Tracked locals                                                          *)
(***************************************************************************)
ResetTracker(c) == [c EXCEPT !.vars = <<>>, !.marks = <<>>, !.ext = <<>>]
EnterTracker(c) == [c EXCEPT !.marks = Append(@, Len(c.vars))]

\* A bug: the buffers of an inner scope stay known after it.
ExitTrackerKeep(c) ==
  LET n == Len(c.marks) IN [c EXCEPT !.vars = SubSeq(@, 1, c.marks[n]), !.marks = SubSeq(@, 1, n - 1)]

ExitTracker(c) ==
  LET n == Len(c.marks)
  IN  [c EXCEPT !.vars = SubSeq(@, 1, c.marks[n]), !.marks = SubSeq(@, 1, n - 1),
                !.ext = SelectSeq(@, LAMBDA b : b.depth # n)]

\* The newest tracked local of that name, or 0.
Tracked(c, name) == LET named == {i \in DOMAIN c.vars : c.vars[i].name = name} IN MaxOf({0} \cup named)
Track(c, name, init) == [c EXCEPT !.vars = Append(@, [name |-> name, init |-> init])]
SetInitialized(c, name) == LET i == Tracked(c, name) IN IF i = 0 THEN c ELSE [c EXCEPT !.vars[i].init = TRUE]

\* A bug: what a branch has assigned stays assigned.
RestoreNothing(c, snapshot) == c

\* type_checker_init_tracker_restore
Restore(c, snapshot) == [c EXCEPT !.vars = [i \in DOMAIN @ |-> IF i <= Len(snapshot) THEN snapshot[i] ELSE @[i]]]

EnterBlock(c) == EnterTracker([c EXCEPT !.scopes = EnterScope(@, "block")])
ExitBlock(c) == Then(c, LAMBDA d : [ExitTracker(d) EXCEPT !.scopes = ExitScope(@)])

(***************************************************************************)
(* Expressions                                                             *)
(***************************************************************************)
Skipped == {"arr", "struct", "string"}   \* types whose locals need no assignment before a read

IdentifierType(c, name) ==
  LET s == LookupSymbol(c.scopes, name)
      local == c.fn # Null /\ s.kind = "variable" /\ ~IsGlobal(c.scopes, name)
      i == Tracked(c, name)
  IN  IF s = NoSymbol THEN Error(c)
      ELSE IF local /\ Kind(s.type) \notin Skipped /\ i # 0 /\ ~c.vars[i].init THEN Error(c)
      ELSE With(c, s.type)

IsLvalue(e) == e[1] \in {"id", "mem", "idx"} \/ (e[1] = "un" /\ e[2] = "*")

Unary(c, op, e) ==
  LET s == LookupSymbol(c.scopes, e[2])
      v == Infer(c, e)
      t == v.t
  IN  IF op = "&" /\ e[1] = "id" /\ s.kind = "function" THEN With(c, <<"fn", s.params, s.type>>)
      ELSE IF op = "&" THEN (IF IsLvalue(e) /\ t # Null THEN GetType(v, Append(NameOf(t), "*")) ELSE Error(c))
      ELSE IF t = Null THEN v
      ELSE IF op = "*" THEN With(v, IF Kind(t) = "ptr" /\ ~IsNullConstant(c, e) THEN t[2] ELSE Null)
      ELSE IF op \in {"+", "-"} THEN With(v, IF IsNumeric(t) THEN t ELSE Null)
      ELSE IF op = "~" THEN With(v, IF IsInteger(t) THEN t ELSE Null)
      ELSE With(v, IF op = "!" /\ (IsNumeric(t) \/ Kind(t) = "ptr") THEN Int32 ELSE Null)

\* type_checker_check_binary_expression
BinaryType(c, op, l, lt, r, rt) ==
  LET ptrs == Kind(lt) = "ptr" \/ Kind(rt) = "ptr"
      bothPtr == Kind(lt) = "ptr" /\ Kind(rt) = "ptr"
      comparable == \/ bothPtr /\ TypesEqual(lt, rt)
                    \/ Kind(lt) = "ptr" /\ IsNullConstant(c, r)
                    \/ Kind(rt) = "ptr" /\ IsNullConstant(c, l)
  IN  IF op = "+" /\ lt = <<"string">> /\ rt = <<"string">> THEN lt
      ELSE IF op \in {"+", "-"} /\ ptrs
      THEN IF Kind(lt) = "ptr" /\ IsInteger(rt) THEN lt
           ELSE IF op = "+" /\ Kind(rt) = "ptr" /\ IsInteger(lt) THEN rt
           ELSE IF op = "-" /\ bothPtr /\ TypesEqual(lt, rt) THEN Int64 ELSE Null
      ELSE CASE op \in {"+", "-", "*", "/"} ->
             IF IsNumeric(lt) /\ IsNumeric(rt) THEN Promote(lt, rt, op) ELSE Null
        [] op \in {"%", "&", "|", "^", "<<", ">>"} ->
             IF IsInteger(lt) /\ IsInteger(rt) THEN Promote(lt, rt, op) ELSE Null
        [] op \in {"==", "!=", "<", "<=", ">", ">="} ->
             IF ptrs THEN (IF op \in {"==", "!="} /\ comparable THEN Bool ELSE Null)
             ELSE IF AreCompatible(lt, rt) THEN Bool ELSE Null
        [] op \in {"&&", "||"} -> IF IsNumeric(lt) /\ IsNumeric(rt) THEN Bool ELSE Null
        [] OTHER -> Null

Binary(c, op, l, r) ==
  LET a == Infer(c, l)
      b == Infer(a, r)
  IN  IF a.t = Null \/ b.t = Null THEN Error(b) ELSE With(b, BinaryType(b, op, l, a.t, r, b.t))

\* The value e where a target type is wanted; a null constant suits a pointer.
Value(c, e, target) ==
  LET v == Infer(c, e)
  IN  IF v.t = Null THEN v
      ELSE OkIf(v, (Kind(target) = "ptr" /\ IsNullConstant(v, e)) \/ IsAssignable(target, v.t))

\* The arguments from the i-th on: as many as there are parameters, each assignable.
Args(c, params, args, i) ==
  IF i > Len(args) THEN OkIf(c, Len(args) = Len(params))
  ELSE IF Len(args) # Len(params) THEN Error(c)
  ELSE Then(Value(c, args[i], params[i]), LAMBDA d : Args(d, params, args, i + 1))

\* A constructor takes its payload, and no null constant for a pointer.
Construct(c, s, args) ==
  LET v == Infer(c, args[1])
  IN  IF Len(args) # (IF s.payload = Null THEN 0 ELSE 1) THEN Error(c)
      ELSE IF s.payload = Null THEN With(c, s.type)
      ELSE IF v.t = Null \/ ~IsAssignable(s.payload, v.t) THEN Error(v) ELSE With(v, s.type)

\* A call of a name: a function, a function pointer in a variable, a
\* constructor, or one of the two built-in forms.
CallType(c, name, args) ==
  LET s == LookupSymbol(c.scopes, name)
      viaPointer == s.kind = "variable" /\ Kind(s.type) = "fn"
      sized == GetType(c, args[1][2])
  IN  IF name = <<"sizeof">>
      THEN IF Len(args) = 1 /\ args[1][1] = "id" /\ sized.t # Null THEN With(sized, Int64) ELSE Error(c)
      ELSE IF name = <<"static_assert">> THEN StaticAssert(c, args)
      ELSE CASE viaPointer -> Then(Args(c, s.type[2], args, 1), LAMBDA d : With(d, s.type[3]))
             [] s.kind = "constructor" -> Construct(c, s, args)
             [] s.kind = "function" ->
                  Then(Args(c, s.params, args, 1), LAMBDA d : With(WarnBuffers(d, name, args), s.type))
             [] OTHER -> Error(c)

\* type_checker_desugar_struct_method_call: x.m(a) is S_m(x, a).
MethodCall(c, object, name, args) ==
  LET r == Infer(c, object)
      base == IF r.t # Null /\ Kind(r.t) = "ptr" THEN r.t[2] ELSE r.t
      method == base[2] \o <<"_">> \o name
  IN  IF r.t = Null \/ base = Null \/ Kind(base) # "struct" THEN Error(r)
      ELSE IF LookupSymbol(r.scopes, method) = NoSymbol THEN Error(r)
      ELSE CallType(r, method, <<object>> \o args)

Member(c, object, name) ==
  LET o == Infer(c, object)
  IN  IF o.t = Null \/ Kind(o.t) \notin {"struct", "string"} THEN Error(o) ELSE With(o, FieldType(o.t, name))

\* A constant index into an array must be one of its indices.
OutOfBounds(c, t, index) ==
  LET i == Const(c, index) IN Kind(t) = "arr" /\ i # Null /\ (i[1] < 0 \/ i[1] >= t[3])

Index(c, array, index) ==
  LET a == Infer(c, array)
      i == Infer(a, index)
      bad == \/ Kind(a.t) \notin {"arr", "ptr"} \/ ~IsInteger(i.t)
             \/ Kind(a.t) = "ptr" /\ IsNullConstant(c, array)
             \/ OutOfBounds(i, a.t, index)
  IN  IF a.t = Null \/ i.t = Null \/ bad THEN Error(i) ELSE With(i, a.t[2])

New(c, name) ==
  IF LookupSymbol(c.scopes, name).kind = "struct" THEN GetType(c, Append(name, "*")) ELSE Error(c)

Cast(c, name, e) ==
  LET t == GetType(c, name)
      v == Infer(t, e)
  IN  IF t.t = Null \/ v.t = Null \/ ~IsCastValid(v.t, t.t) THEN Error(v)
      ELSE With(WarnMisaligned(v, t.t, e), t.t)

(***************************************************************************)
(* match                                                                   *)
(***************************************************************************)
\* The arms from m.i on, checked one after the other: m.covered holds the
\* variants seen, m.result the type of the arms of an expression so far.
\* A binding lives in a scope of its own, which the tracker does not know of.
MatchArms(c, subject, arms, m) ==
  LET arm == arms[m.i]
      named == {v \in DOMAIN subject[3] : subject[3][v][1] = arm[1]}
      isDefault == arm[1] = <<"default">>
      v == CHOOSE x \in named : \A y \in named : x <= y
      payload == subject[3][v][2]
      bound == ~isDefault /\ arm[2] # Null
      d0 == IF bound THEN [c EXCEPT !.scopes = Inserted(EnterScope(@, "block"), Sym(arm[2], "variable", payload))] ELSE c
      d1 == IF m.expr THEN Infer(d0, arm[3]) ELSE Check(d0, arm[3])
      d == IF bound THEN [d1 EXCEPT !.scopes = ExitScope(@)] ELSE d1
      next == [m EXCEPT !.i = @ + 1, !.default = @ \/ isDefault, !.covered = IF isDefault THEN @ ELSE @ \cup {v},
                        !.result = IF @ = Null THEN d.t ELSE @]
  IN  IF m.i > Len(arms)
      THEN IF m.default \/ m.covered = DOMAIN subject[3] THEN With(c, IF m.expr THEN m.result ELSE Ok) ELSE Error(c)
      ELSE IF ~isDefault /\ (named = {} \/ v \in m.covered \/ (bound /\ payload = Null)) THEN Error(c)
      ELSE IF d.t = Null \/ (m.expr /\ m.result # Null /\ ~AreCompatible(m.result, d.t)) THEN Error(d)
      ELSE MatchArms(d, subject, arms, next)

Match(c, e, arms, expr) ==
  LET s == Infer(c, e)
  IN  IF s.t = Null \/ Kind(s.t) # "tagged" THEN Error(s)
      ELSE MatchArms(s, s.t, arms, [i |-> 1, covered |-> {}, default |-> FALSE, result |-> Null, expr |-> expr])

\* type_checker_infer_type_internal; an assignment here is the step of a for
\* loop, of which only the value is looked at.
Infer(c, e) ==
  CASE e[1] = "num" -> With(c, LiteralType(e[2], e[3]))
    [] e[1] = "float" -> With(c, <<"float64">>)
    [] e[1] = "str" -> With(c, <<"string">>)
    [] e[1] = "id" -> IdentifierType(c, e[2])
    [] e[1] = "un" -> Unary(c, e[2], e[3])
    [] e[1] = "bin" -> Binary(c, e[2], e[3], e[4])
    [] e[1] = "call" -> CallType(c, e[2], e[4])
    [] e[1] = "mcall" -> MethodCall(c, e[2], e[3], e[4])
    [] e[1] = "mem" -> Member(c, e[2], e[3])
    [] e[1] = "idx" -> Index(c, e[2], e[3])
    [] e[1] = "new" -> New(c, e[2])
    [] e[1] = "cast" -> Cast(c, e[2], e[3])
    [] e[1] \in {"assign", "fassign"} -> Infer(c, e[3])
    [] e[1] = "match_expr" -> Match(c, e[2], e[3], TRUE)
    [] OTHER -> Error(c)

(***************************************************************************)
(* Statements                                                              *)
(***************************************************************************)
\* A local pointer's buffer is remembered from its declaration on.
TrackLocal(c, name, type, init) ==
  LET d == IF Kind(type) \in Skipped THEN c ELSE Track(c, name, init # Null)
  IN  IF Kind(type) = "ptr" THEN DeclareBuffer(d, name, BufferOf(d, init), AlignmentOf(d, init)) ELSE d

\* var name: type = init, and extern var name: type with a link name.
VarDeclaration(c, name, typeName, init, ext, link) ==
  LET global == Len(c.scopes) = 1
      t == IF typeName = Null THEN Error(c) ELSE GetType(c, typeName)
      v == IF init = Null THEN t ELSE IF typeName = Null THEN Infer(t, init) ELSE Value(t, init, t.t)
      type == IF typeName = Null THEN v.t ELSE t.t
      sym == [Sym(name, "variable", type) EXCEPT !.ext = ext, !.link = IF link = Null THEN name ELSE link]
      old == LookupCurrent(v.scopes, name)
      scopes == Declared(v.scopes, sym)
  IN  IF (ext /\ ~global) \/ (typeName # Null /\ t.t = Null) \/ v.t = Null THEN Error(c)
      ELSE IF old # NoSymbol
      THEN OkIf(v, old.kind = "variable" /\ old.ext /\ ext /\ TypesEqual(old.type, type) /\ old.link = sym.link)
      ELSE IF scopes = Null THEN Error(v)
      ELSE LET d == With([v EXCEPT !.scopes = scopes], Ok)
           IN  IF c.fn # Null /\ ~global THEN TrackLocal(d, name, type, init) ELSE d

\* name = value
AssignName(c, name, value) ==
  LET s == LookupSymbol(c.scopes, name)
      v == Value(c, value, s.type)
      d == SetInitialized(v, name)
      local == c.fn # Null /\ ~IsGlobal(c.scopes, name)
  IN  IF s.kind # "variable" THEN Error(c)
      ELSE IF v.t = Null \/ ~local THEN v
      ELSE IF Kind(s.type) = "ptr" THEN SetBuffer(d, name, BufferOf(d, value), AlignmentOf(d, value)) ELSE d

\* object.field = value, array[index] = value, *pointer = value
AssignTarget(c, target, value) ==
  IF ~IsLvalue(target) \/ target[1] = "id" THEN Error(c)
  ELSE Then(Infer(c, target), LAMBDA d : Value(d, value, d.t))

\* type_checker_statement_guarantees_termination
Terminates(st) ==
  CASE st[1] \in {"return", "break", "continue"} -> TRUE
    [] st[1] = "if" -> /\ st[4][2] # Null /\ Terminates(st[3]) /\ Terminates(st[4][2])
                       /\ \A i \in DOMAIN st[4][1] : Terminates(st[4][1][i][2])
    [] st[1] = "block" -> \E i \in DOMAIN st[2] : Terminates(st[2][i])
    [] OTHER -> FALSE

CheckAll(c, sts, i) ==
  LET dead == \E j \in 1..(i - 1) : Terminates(sts[j])
      d == IF dead THEN Warn(c, "unreachable", sts[i]) ELSE c
  IN  IF i > Len(sts) THEN With(c, Ok) ELSE Then(Check(d, sts[i]), LAMBDA x : CheckAll(x, sts, i + 1))

Block(c, sts) == ExitBlock(CheckAll(EnterBlock(c), sts, 1))

Condition(c, e) == LET v == Infer(c, e) IN IF v.t = Null THEN v ELSE OkIf(v, IsNumeric(v.t))

\* A branch, after which only what was assigned before it counts as assigned.
Branch(c, st, snapshot) == Then(Check(c, st), LAMBDA d : Restore(d, snapshot))

ElseIfs(c, clauses, i, snapshot) ==
  IF i > Len(clauses) THEN c
  ELSE Then(Condition(c, clauses[i][1]), LAMBDA d :
         Then(Branch(d, clauses[i][2], snapshot), LAMBDA x : ElseIfs(x, clauses, i + 1, snapshot)))

IfStatement(c, st) ==
  Then(Condition(c, st[2]), LAMBDA d :
    Then(Branch(d, st[3], d.vars), LAMBDA x :
      Then(ElseIfs(x, st[4][1], 1, d.vars), LAMBDA y :
        IF st[4][2] = Null THEN y ELSE Branch(y, st[4][2], d.vars))))

InLoop(c, body) ==
  Then(Branch([c EXCEPT !.loops = @ + 1], body, c.vars), LAMBDA d : [d EXCEPT !.loops = @ - 1])

\* The step is checked before the body, and as an expression.
ForStatement(c, st) ==
  LET c0 == With(EnterBlock(c), Ok)
      i == IF st[2] = Null THEN c0
           ELSE IF st[2][1] \in {"var", "assign", "fassign", "call", "mcall"} THEN Check(c0, st[2]) ELSE Infer(c0, st[2])
  IN  ExitBlock(Then(i, LAMBDA d :
        Then(IF st[3] = Null THEN d ELSE Condition(d, st[3]), LAMBDA x :
          Then(IF st[4] = Null THEN x ELSE Infer(x, st[4]), LAMBDA y :
            Then(InLoop(y, st[5]), LAMBDA z : With(Restore(z, d.vars), Ok))))))

\* The value of a case: a constant expression, or the name of a constant.
CaseValue(c, e) ==
  LET s == LookupSymbol(c.scopes, IF e[1] = "id" THEN e[2] ELSE Null)
  IN  IF Const(c, e) # Null THEN Const(c, e) ELSE IF s.kind = "constant" THEN <<s.value>> ELSE Null

\* The cases from s.i on; s.values are the case values seen.
Cases(c, type, cases, s) ==
  LET case == cases[s.i]
      v == IF case[1] = Null THEN With(c, type) ELSE Infer(c, case[1])
      n == CaseValue(c, case[1])
      good == \/ case[1] = Null /\ ~s.default
              \/ /\ case[1] # Null /\ v.t # Null /\ IsInteger(v.t) /\ IsAssignable(type, v.t)
                 /\ n # Null /\ n[1] \notin s.values
      next == [s EXCEPT !.i = @ + 1, !.default = @ \/ case[1] = Null,
                        !.values = IF case[1] = Null THEN @ ELSE @ \cup {n[1]}]
  IN  IF s.i > Len(cases) THEN With(c, <<"values", s.values, s.default>>)
      ELSE IF ~good THEN Error(v)
      ELSE Then(Branch(v, <<"block", case[2]>>, s.snapshot), LAMBDA d : Cases(d, type, cases, next))

\* Without a default, a switch on an enum or a bool covers every value.
Exhaustive(c, type, values) ==
  /\ Kind(type) = "enum" => \A i \in DOMAIN c.scopes[1].syms :
       LET s == c.scopes[1].syms[i] IN s.kind = "constant" /\ s.type = type => s.value \in values
  /\ Kind(type) = "bool" => {0, 1} \subseteq values

SwitchStatement(c, st) ==
  LET e == Infer(c, st[2])
      s == Cases([e EXCEPT !.switches = @ + 1], e.t, st[3],
                 [i |-> 1, values |-> {}, default |-> FALSE, snapshot |-> e.vars])
  IN  IF e.t = Null \/ ~IsInteger(e.t) THEN Error(e)
      ELSE IF s.t = Null THEN s
      ELSE OkIf([s EXCEPT !.switches = @ - 1], s.t[3] \/ Exhaustive(s, e.t, s.t[2]))

\* Without a value a return is good in every function.
ReturnStatement(c, e) == IF e = Null THEN With(c, Ok) ELSE IF c.fn = Null THEN Error(c) ELSE Value(c, e, c.fn[1])

\* type_checker_check_statement
Check(c, st) ==
  CASE st[1] \in {"defer", "errdefer"} ->
         IF c.fn = Null \/ st[2][1] \notin {"call", "mcall", "assign", "fassign", "block"} THEN Error(c) ELSE Check(c, st[2])
    [] st[1] = "var" -> VarDeclaration(c, st[2], st[3], st[4], FALSE, Null)
    [] st[1] = "assign" -> AssignName(c, st[2], st[3])
    [] st[1] = "fassign" -> AssignTarget(c, st[2], st[3])
    [] st[1] \in {"call", "mcall"} -> Infer(c, st)
    [] st[1] = "return" -> ReturnStatement(c, st[2])
    [] st[1] = "if" -> IfStatement(c, st)
    [] st[1] = "while" -> Then(Condition(c, st[2]), LAMBDA d : InLoop(d, st[3]))
    [] st[1] = "for" -> ForStatement(c, st)
    [] st[1] = "label" -> Check(c, st[3])
    [] st[1] = "switch" -> SwitchStatement(c, st)
    [] st[1] \in {"match", "match_expr"} -> Match(c, st[2], st[3], st[1] = "match_expr")
    [] st[1] = "break" -> OkIf(c, c.loops > 0 \/ c.switches > 0)
    [] st[1] = "continue" -> OkIf(c, c.loops > 0)
    [] st[1] = "asm" -> With(c, Ok)
    [] st[1] = "block" -> Block(c, st[2])
    [] OTHER -> Error(c)

(***************************************************************************)
(* Declarations                                                            *)
(***************************************************************************)
StructDeclaration(c, d) ==
  LET types == TypeList(c, [i \in DOMAIN d[4][1] |-> d[4][1][i][2]], <<>>)
      t == StructType(d[2], [i \in DOMAIN d[4][1] |-> <<d[4][1][i][1], types.t[2][i]>>])
      scopes == Declared(types.scopes, Sym(d[2], "struct", t))
  IN  IF LookupCurrent(c.scopes, d[2]) # NoSymbol \/ types.t = Null \/ t = Null \/ scopes = Null THEN Error(c)
      ELSE With([types EXCEPT !.scopes = scopes], Ok)

\* The constants of a plain enum, from its i-th variant on.
EnumValues(c, t, variants, i, next) ==
  LET v == variants[i]
      e == v[3]
      value == IF e = Null THEN <<next>>
               ELSE IF e[1] = "num" THEN <<e[2]>>
               ELSE IF e[1] = "un" /\ e[2] = "-" /\ e[3][1] = "num" THEN <<-e[3][2]>> ELSE Null
  IN  IF i > Len(variants) THEN With(c, Ok)
      ELSE IF value = Null \/ LookupCurrent(c.scopes, v[1]) # NoSymbol THEN Error(c)
      ELSE EnumValues([c EXCEPT !.scopes = Inserted(@, [Sym(v[1], "constant", t) EXCEPT !.value = value[1]])],
                      t, variants, i + 1, value[1] + 1)

\* A generic enum is kept as a template; one with payloads is tagged.
EnumDeclaration(c, d) ==
  LET tagged == \E i \in DOMAIN d[4] : d[4][i][2] # Null
      old == GetType(c, d[2])
      t == IF tagged THEN TaggedType(old, d[2], d[4]) ELSE With(old, <<"enum", d[2]>>)
      scopes == Declared(t.scopes, Sym(d[2], "enum", t.t))
      x == [t EXCEPT !.scopes = scopes]
  IN  IF d[3] # <<>> THEN With([c EXCEPT !.tmpl = Append(@, d)], Ok)
      ELSE IF old.t # Null \/ scopes = Null THEN Error(c)
      ELSE IF tagged THEN With(Constructors(x, t.t, 1, FALSE), Ok) ELSE EnumValues(x, t.t, d[4], 1, 0)

\* The symbol of a function declaration in t, <<"function", symbol>>.
FunctionSymbol(c, d, ext) ==
  LET ret == IF d[5] = Null THEN With(c, Ok) ELSE GetType(c, d[5])
      params == TypeList(ret, [i \in DOMAIN d[4] |-> d[4][i][2]], <<>>)
      sym == [Sym(d[2], "function", ret.t) EXCEPT !.params = params.t[2], !.ext = ext,
                                                 !.link = IF ext /\ d[6] # Null THEN d[6] ELSE d[2]]
  IN  IF ret.t = Null \/ params.t = Null THEN Error(params) ELSE With(params, <<"function", sym>>)

\* A bug: only functions without a body are registered ahead.
RegisterSignatureBodiless(c, d, ext) ==
  LET f == FunctionSymbol(c, d, ext)
      scopes == DeclaredForward(f.scopes, f.t[2])
  IN  IF LookupCurrent(c.scopes, d[2]) # NoSymbol \/ d[7] # Null THEN c
      ELSE IF f.t = Null \/ scopes = Null THEN f ELSE [f EXCEPT !.scopes = scopes]

\* type_checker_register_function_signature, whose failures are ignored.
RegisterSignature(c, d, ext) ==
  LET f == FunctionSymbol(c, d, ext)
      scopes == DeclaredForward(f.scopes, f.t[2])
  IN  IF LookupCurrent(c.scopes, d[2]) # NoSymbol THEN c
      ELSE IF f.t = Null \/ scopes = Null THEN f ELSE [f EXCEPT !.scopes = scopes]

\* The parameters from the i-th on, as tracked and assigned locals.
Params(c, d, types, i) ==
  LET scopes == Declared(c.scopes, Sym(d[4][i][1], "variable", types[i]))
      t == Track([c EXCEPT !.scopes = scopes], d[4][i][1], TRUE)
  IN  IF i > Len(d[4]) THEN With(c, Ok)
      ELSE IF scopes = Null THEN Error(c)
      ELSE Params(IF Kind(types[i]) = "ptr" THEN DeclareBuffer(t, d[4][i][1], -1, -1) ELSE t, d, types, i + 1)

\* The body of a function whose symbol has been declared in c.
Body(c, d) ==
  LET s == LookupCurrent(c.scopes, d[2])
      in == [EnterTracker(ResetTracker(c)) EXCEPT !.scopes = EnterScope(@, "function"), !.fn = <<s.type>>]
      b == Then(Params(in, d, s.params, 1), LAMBDA x : Check(x, d[7]))
  IN  Then(b, LAMBDA x : [ResetTracker(x) EXCEPT !.scopes = ExitScope(@), !.fn = Null])

FunctionDeclaration(c, d, ext) ==
  LET f == FunctionSymbol(c, d, ext)
      scopes == IF d[7] = Null THEN DeclaredForward(f.scopes, f.t[2]) ELSE Resolved(f.scopes, f.t[2])
      repeated == \E i, j \in DOMAIN d[4] : i # j /\ d[4][i][1] = d[4][j][1]
  IN  IF (d[6] # Null /\ ~ext) \/ (ext /\ d[7] # Null) \/ repeated \/ f.t = Null THEN Error(c)
      ELSE IF scopes = Null THEN Error(f)
      ELSE LET x == With([f EXCEPT !.scopes = scopes], Ok) IN IF d[7] = Null THEN x ELSE Body(x, d)

\* type_checker_process_declaration at the top level.
ProcessDeclaration(c, d) ==
  CASE d[1] = "var" -> VarDeclaration(c, d[2], d[3], d[4], FALSE, Null)
    [] d[1] = "extern_var" -> VarDeclaration(c, d[2], d[3], Null, TRUE, d[4])
    [] d[1] = "function" -> FunctionDeclaration(c, d, FALSE)
    [] d[1] = "extern" -> FunctionDeclaration(c, d[2], TRUE)
    [] d[1] = "assign" -> AssignName(c, d[2], d[3])
    [] d[1] = "fassign" -> AssignTarget(c, d[2], d[3])
    [] d[1] = "asm" -> With(c, Ok)
    [] d[1] = "call" /\ d[2] = <<"static_assert">> -> StaticAssert(c, d[4])
    [] OTHER -> Error(c)

(***************************************************************************)
(* type_checker_check_program                                              *)
(***************************************************************************)
CONSTANT CheckerPass(_, _, _)   \* what a pass makes of a declaration: the loop is given PassOver

VARIABLES program,   \* the declarations
          pass, at,  \* the pass and the next declaration
          ck,        \* the checker state
          verdict    \* "open", "accepted" or "rejected"

vars == <<program, pass, at, ck, verdict>>

\* type_checker_create: the symbol table holds true and false.
NewChecker ==
  [scopes |-> Inserted(Inserted(<<Scope("global")>>, [Sym(<<"true">>, "constant", Bool) EXCEPT !.value = 1]),
                       Sym(<<"false">>, "constant", Bool)),
   vars |-> <<>>, marks |-> <<>>, ext |-> <<>>, loops |-> 0, switches |-> 0, fn |-> Null, tmpl |-> <<>>,
   warned |-> <<>>, t |-> Ok]

Start(decls) == program = decls /\ pass = 1 /\ at = 1 /\ ck = NewChecker /\ verdict = "open"

InPass(p) == verdict = "open" /\ pass = p /\ at <= Len(program)
TypeDeclarations == {"struct", "enum"}

\* A declaration has been checked, and the next one is.
Outcome(c) ==
  /\ ck' = With(c, Ok)
  /\ at' = at + 1
  /\ verdict' = IF c.t = Null THEN "rejected" ELSE "open"
  /\ UNCHANGED <<program, pass>>

\* What each pass makes of a declaration: structs and enums first, then the
\* signatures of functions, then everything else with the bodies.
TypePass(c, d) == IF d[1] = "struct" THEN StructDeclaration(c, d) ELSE IF d[1] = "enum" THEN EnumDeclaration(c, d) ELSE c
SignaturePass(c, d) ==
  With(IF d[1] = "function" THEN RegisterSignature(c, d, FALSE)
       ELSE IF d[1] = "extern" THEN RegisterSignature(c, d[2], TRUE) ELSE c, Ok)
BodyPass(c, d) == IF d[1] \in TypeDeclarations THEN c ELSE ProcessDeclaration(c, d)
PassOver(p, c, d) == CASE p = 1 -> TypePass(c, d) [] p = 2 -> SignaturePass(c, d) [] OTHER -> BodyPass(c, d)

DeclareType == InPass(1) /\ Outcome(CheckerPass(1, ck, program[at]))
DeclareSignature == InPass(2) /\ Outcome(CheckerPass(2, ck, program[at]))
CheckDeclaration == InPass(3) /\ Outcome(CheckerPass(3, ck, program[at]))

NextPass ==
  /\ verdict = "open" /\ at > Len(program)
  /\ IF pass < 3 THEN pass' = pass + 1 /\ at' = 1 /\ UNCHANGED verdict
     ELSE verdict' = "accepted" /\ UNCHANGED <<pass, at>>
  /\ UNCHANGED <<program, ck>>

Next == DeclareType \/ DeclareSignature \/ CheckDeclaration \/ NextPass
=============================================================================
