------------------------------ MODULE MCTypes ------------------------------
(***************************************************************************)
(* Instances of the type checker: expressions and statements inside one    *)
(* function, struct and enum layouts, programs in different orders, and    *)
(* straight-line code about buffers.                                       *)
(***************************************************************************)
EXTENDS TypedRuns, Functions

VARIABLE case      \* what the program is an instance of

\* A hash with many collisions.
MCHash(name) == IF Len(name) > 1 THEN 3 ELSE IF name[1] \in {"f", "g", "x", "i", "true"} THEN 6 ELSE 7

\* The passes of the checker are the ones of type_checker_check_program.
MCCheckerPass(p, c, d) == LET r == PassOver(p, c, d) IN r

Id(n) == <<"id", <<n>>>>
Num(n) == <<"num", n, 10>>
Call(f, args) == <<"call", <<f>>, <<>>, args>>
Set(x, e) == <<"assign", <<x>>, e>>
Blk(sts) == <<"block", sts>>
Param(n, t) == <<<<n>>, t>>
Fun(name, params, ret, body) == <<"function", <<name>>, <<>>, params, ret, Null, body>>
Local(x, t, e) == <<"var", <<x>>, t, e>>
Ret(e) == <<"return", e>>
F64 == <<"float64">>
IntPtr == <<"int32", "*">>
Extern(name, params, ret) == <<"extern", <<"function", <<name>>, <<>>, params, ret, Null, Null>>>>

StructS == <<"struct", <<"S">>, <<>>, << <<Param("a", Int32), Param("p", IntPtr)>>, <<>> >> >>
EnumE == <<"enum", <<"E">>, <<>>, << <<<<"R">>, Null, Null>>, <<<<"G">>, Null, Num(3)>> >> >>
EnumO == <<"enum", <<"O">>, <<>>, << <<<<"Some">>, Int32, Null>>, <<<<"None">>, Null, Null>> >> >>
FunG == Fun("g", <<Param("i", Int32), Param("u", F64)>>, Int32, Blk(<<Ret(Id("i"))>>))
Method == <<"function", <<"S", "_", "m">>, <<>>, <<Param("s", <<"S">>), Param("i", Int32)>>, Int32, Null, Blk(<<Ret(Num(1))>>)>>
FParams == <<Param("i", Int32), Param("u", F64), Param("s", <<"S">>), Param("o", <<"O">>), Param("e", <<"E">>),
             Param("q", IntPtr), Param("h", <<"fn", "(", "int32", ")", "->", "float64">>)>>
Program(body) == <<Fun("f", FParams, Int32, Blk(body)), StructS, EnumE, EnumO, FunG, Method>>

(***************************************************************************)
(* Expressions                                                             *)
(***************************************************************************)
Leaves == {Id("i"), Id("u"), Id("s"), Id("o"), Id("e"), Id("q"), Id("h"), Id("x"), Id("a"), Id("zz"),
           Num(0), Num(1), <<"str", <<"b">>>>, Id("R")}
One == {Id("i"), Id("u"), Id("q"), Id("s"), Id("x"), Num(0)}
MatchOf(e, some, none) == <<"match_expr", e, << <<<<"Some">>, <<"v">>, some>>, <<<<"None">>, Null, none>> >> >>
Operations ==
  {<<"bin", op, l, r>> : op \in {"+", "-", "%", "==", "&&", "<"}, l \in Leaves, r \in Leaves}
    \cup {<<"un", op, e>> : op \in {"&", "*", "-", "!", "~"}, e \in Leaves}
    \cup {<<"idx", l, r>> : l \in Leaves, r \in One \cup {Num(3)}}
    \cup {<<"mem", e, <<n>>>> : e \in Leaves, n \in {"a", "p", "length"}}
    \cup {Call(g, <<l, r>>) : g \in {"g", "zz"}, l \in Leaves, r \in Leaves}
    \cup {Call(g, <<e>>) : g \in {"h", "Some", "g"}, e \in Leaves} \cup {Call("None", <<>>), <<"new", <<"S">>>>, <<"new", <<"E">>>>}
    \cup {<<"mcall", e, <<"m">>, <<Id("i")>>>> : e \in Leaves}
    \cup {<<"cast", t, e>> : t \in {Int32, F64, IntPtr, <<"S">>}, e \in Leaves}
    \cup {MatchOf(e, l, r) : e \in {Id("o"), Id("i")}, l \in One \cup {Id("v")}, r \in One}
    \cup {<<"call", <<"sizeof">>, <<>>, <<Id("S")>>>>, <<"un", "&", Id("g")>>, <<"un", "*", <<"mem", Id("s"), <<"p">>>>>>}

\* x is the only local that is not assigned.
Use(e) == <<Local("x", Int32, Null), Local("a", <<"int32", "[", "3", "]">>, Null)>> \o e
Uses == {Use(<<Ret(e)>>) : e \in Leaves \cup Operations}
          \cup {Use(<<Local("y", Null, e), Ret(<<"idx", Id("a"), Id("y")>>)>>) : e \in Operations}
          \cup {Use(<<st, Ret(Num(1))>>) :
                 st \in UNION {{Set("u", e), Set("q", e), <<"fassign", <<"mem", Id("s"), <<"a">>>>, e>>,
                                <<"fassign", <<"un", "*", Id("q")>>, e>>, <<"fassign", <<"idx", Id("a"), e>>, Num(1)>>,
                                <<"if", e, Blk(<<>>), <<<<>>, Null>>>>, <<"switch", e, << <<Num(0), <<>>>> >> >>} : e \in Leaves}}

(***************************************************************************)
(* Flow of assignments                                                     *)
(***************************************************************************)
X1 == Set("x", Num(1))
IfI(then, else) == <<"if", Id("i"), then, <<<<>>, else>>>>
Inner == {Blk(<<X1>>), Blk(<<>>), Blk(<<Ret(Num(1))>>), Blk(<<X1, <<"break", Null>>>>), Blk(<<Set("i", Id("x"))>>),
          Blk(<<Local("x", F64, Num(1)), X1>>), Blk(<<<<"continue", Null>>, X1>>)}
Flows ==
  {X1, Set("i", Id("x")), Blk(<<X1>>), Blk(<<Local("x", F64, Null), X1>>), Blk(<<Local("x", Int32, Null), Set("i", Id("x"))>>),
   Blk(<<Local("x", <<"S">>, Null), Set("x", Id("s"))>>), <<"defer", X1>>, <<"errdefer", Blk(<<X1>>)>>,
   Blk(<<Local("k", <<"fn", "(", "int32", ")", "->", "float64">>, Null), Call("k", <<Num(1)>>)>>),
   Call("g", <<Id("x"), Num(1)>>), <<"defer", Call("g", <<Id("x"), Num(1)>>)>>, <<"asm", <<"mov">>>>, <<"break", Null>>,
   <<"label", <<"l">>, <<"while", Id("i"), Blk(<<X1>>)>>>>}
    \cup {IfI(b, Null) : b \in Inner} \cup {IfI(Blk(<<X1>>), b) : b \in Inner}
    \cup {<<"if", Id("i"), Blk(<<X1>>), << << <<Id("x"), Blk(<<X1>>)>> >>, Blk(<<X1>>)>>>>}
    \cup {<<"while", Id("i"), b>> : b \in Inner}
    \cup {<<"for", Local("j", Int32, Num(0)), <<"bin", "<", Id("j"), Id("i")>>, Call("g", <<Id("j"), Num(1)>>), b>> : b \in Inner}
    \cup {<<"for", X1, Null, Null, Blk(<<<<"break", Null>>>>)>>}
    \cup {<<"switch", Id("e"), << <<Id("R"), b[2]>>, <<Id("G"), <<X1>>>> >> >> : b \in Inner}
    \cup {<<"switch", Id("e"), << <<Num(0), <<X1>>>>, <<Null, <<X1>>>> >> >>, <<"switch", Id("e"), << <<Id("R"), <<>>>> >> >>,
          <<"switch", Id("i"), << <<Num(1), <<X1>>>>, <<Num(1), <<X1>>>> >> >>}
Arms(some, none) == <<"match", Id("o"), << <<<<"Some">>, <<"v">>, some>>, <<<<"None">>, Null, none>> >> >>
Matches == {Arms(Blk(<<Set("i", Id("v"))>>), Blk(<<>>)), Arms(Blk(<<Ret(Id("v"))>>), Blk(<<Set("i", Id("x"))>>)),
            Arms(Blk(<<X1>>), Blk(<<>>)), Arms(Blk(<<X1>>), Blk(<<X1>>)), Arms(Blk(<<X1>>), Blk(<<Set("i", Id("x")), X1>>)),
            <<"match", Id("o"), << <<<<"Some">>, Null, Blk(<<>>)>> >> >>,
            <<"match", Id("o"), << <<<<"None">>, <<"v">>, Blk(<<>>)>>, <<<<"default">>, Null, Blk(<<>>)>> >> >>}

FlowBodies == {<<Local("x", Int32, Null), a, b, Ret(Id("x"))>> : a, b \in Flows \cup Matches}

(***************************************************************************)
(* Layouts, orders, buffers                                                *)
(***************************************************************************)
FieldTypes == {<<"int8">>, <<"int16">>, Int32, F64, <<"string">>, <<"int8", "[", "3", "]">>, <<"T">>, <<"O">>, IntPtr}
Small == {<<"struct", <<"T">>, <<>>, << <<Param("a", <<"int16">>), Param("b", <<"int8">>)>>, <<>> >> >>, EnumO}
Fields == {<<a, b, c>> : a, b, c \in FieldTypes} \cup {<<a>> : a \in FieldTypes}
LayoutPrograms ==
  {<<t, EnumO, <<"struct", <<"S">>, <<>>, << [i \in DOMAIN fs |-> <<<<<<"a", "b", "c">>[i]>>, fs[i]>>], <<>> >> >>,
     <<"enum", <<"P">>, <<>>, [i \in DOMAIN fs |-> <<<<<<"A", "B", "C">>[i]>>, fs[i], Null>>]>> >>
     : fs \in Fields, t \in {CHOOSE x \in Small : x[1] = "struct"}}

\* Three functions that call each other, some of them wrongly, with one or two
\* instances of the generic enum Opt in signatures and bodies.  (The parser ends
\* the process on a generic enum, parser.c:3036; the checker is given its tree.)
OptOf(t) == <<"Opt", "<", t, ">">>
Full(e) == Call("Full", <<e>>)
Callee == {Fun("g", <<Param("i", Int32)>>, Int32, Blk(<<Ret(Call("f", <<Id("i"), Num(1)>>))>>)),
           Fun("g", <<Param("o", OptOf("int32"))>>, F64, Blk(<<Ret(Num(1))>>)),
           Fun("g", <<>>, Null, Blk(<<Local("y", OptOf("int32"), Full(Num(1)))>>))}
Caller == {Fun("f", <<Param("i", Int32), Param("u", t)>>, r, Blk(<<Ret(Call("g", <<e>>))>>)) :
             t \in {Int32, F64}, r \in {Int32, F64}, e \in {Id("i"), Full(Num(1)), Full(Id("u"))}}
            \cup {Fun("f", <<Param("i", Int32), Param("u", F64)>>, Int32, Blk(<<Call("g", <<>>), Ret(Num(1))>>))}
Third == {Fun("m", <<>>, Null, Blk(<<Call("f", <<Num(1), e>>)>>)) : e \in {Num(1), <<"str", <<"b">>>>}}
           \cup {Fun("m", <<Param("o", OptOf(t)), Param("u", F64)>>, Null, Blk(<<Call("f", <<Num(1), Num(1)>>)>>)) : t \in {"int32", "float64"}}
           \cup {Fun("m", <<Param("u", F64)>>, OptOf(t), Blk(<<Ret(Full(e))>>)) : t \in {"int32", "float64"}, e \in {Num(1), Id("u")}}
           \cup {Fun("m", <<Param("u", F64)>>, Null, Blk(<<Local("y", OptOf("float64"), Full(Id("u")))>>))}
EnumOpt == <<"enum", <<"Opt">>, << <<"T">> >>, << <<<<"Full">>, <<"T">>, Null>>, <<<<"Empty">>, Null, Null>> >> >>
Orders == {s \in [1..3 -> 1..3] : \A i, j \in 1..3 : i # j => s[i] # s[j]}
InOrder(fs, s) == <<EnumOpt, fs[s[1]], fs[s[2]], fs[s[3]]>>

\* Straight-line code: what buffers b and d hold is known from their last assignment.
Bytes == <<"uint8", "*">>
Library == <<Extern("malloc", <<Param("n", Int64)>>, Bytes), Extern("calloc", <<Param("n", Int64), Param("m", Int64)>>, Bytes),
             Extern("memcpy", <<Param("d", Bytes), Param("s", Bytes), Param("n", Int64)>>, Bytes),
             Extern("recv", <<Param("s", Int32), Param("b", Bytes), Param("n", Int64)>>, Int32)>>
Alloc == {Call("malloc", <<Num(4)>>), Call("calloc", <<Num(2), Num(4)>>), Id("p"), Num(0)}
BufferSteps == {Set(n, e) : n \in {"b", "d"}, e \in Alloc \cup {Id("b"), <<"bin", "+", Id("b"), Num(2)>>}}
                 \cup {Call("memcpy", <<Id("b"), Id("d"), Num(n)>>) : n \in {3, 5, 9}}
                 \cup {Call("recv", <<Num(1), <<"cast", Bytes, Id("b")>>, Num(5)>>), Blk(<<Local("b", Bytes, Call("malloc", <<Num(4)>>))>>)}
BufferBodies == {<<Local("b", Bytes, a), Local("d", Bytes, Call("malloc", <<Num(8)>>)), s1, s2, s3>> :
                   a \in Alloc, s1, s2 \in BufferSteps, s3 \in {s \in BufferSteps : s[1] = "call"}}

(***************************************************************************)
(* The specification                                                       *)
(***************************************************************************)
Begin(kind, decls) == case = kind /\ Start(decls)

Init ==
  \/ \E b \in Uses \cup FlowBodies : Begin("body", Program(b))
  \/ \E p \in LayoutPrograms : Begin("layout", p)
  \/ \E g \in Callee, f \in Caller, m \in Third : Begin("order", InOrder(<<f, g, m>>, <<1, 2, 3>>))
  \/ \E b \in BufferBodies : Begin("buffers", Append(Library, Fun("f", <<Param("p", Bytes)>>, Null, Blk(b))))
Spec == Init /\ [][Next /\ UNCHANGED case]_<<vars, case>>
(***************************************************************************)
(* Properties                                                              *)
(***************************************************************************)
\* The statements of a body, inner ones included, and the values they take.
RECURSIVE Within(_)
Within(st) ==
  LET parts == CASE st[1] = "block" -> Range(st[2])
                 [] st[1] \in {"defer", "errdefer"} -> {st[2]}
                 [] st[1] \in {"while", "label"} -> {st[3]}
                 [] st[1] = "for" -> {st[2], st[5]}
                 [] st[1] = "if" -> {st[3], st[4][2]} \cup {e[2] : e \in Range(st[4][1])}
                 [] st[1] = "switch" -> UNION {Range(k[2]) : k \in Range(st[3])}
                 [] st[1] = "match" -> {arm[3] : arm \in Range(st[3])}
                 [] OTHER -> {}
  IN  {st} \cup UNION {Within(p) : p \in parts \ {Null}}
ValuesIn(body) == {st[Len(st)] : st \in {st \in Within(body) : st[1] \in {"return", "var", "assign"}}} \ {Null}

Untracked(type) == type \in {<<"S">>, <<"string">>} \/ type[Len(type)] = "]"
Unset(body) == {st \in Within(body) : st[1] = "var" /\ st[4] = Null}
AssignedIn(st, names) == {a[2] : a \in {a \in Within(st) : a[1] = "assign"}} \cap names

\* The bodies the checker accepts although they can go wrong.  A match arm
\* assigns a local that another arm does not assign at once: no snapshot is
\* taken around the arms (type_checker.c:3216-3238).
AssignedInArm(body) ==
  \E m \in Within(body) : m[1] = "match" /\
    \E arm, other \in Range(m[3]) : \E x \in AssignedIn(arm[3], {v[2] : v \in Unset(body)}) :
      other[3][2] = <<>> \/ other[3][2][1][1] # "assign" \/ other[3][2][1][2] # x

\* A deferred statement assigns a local: it counts as assigned at once
\* (type_checker.c:4882-4892).
AssignedInDefer(body) ==
  \E d \in Within(body) : d[1] \in {"defer", "errdefer"} /\ AssignedIn(d, {v[2] : v \in Unset(body)}) # {}

\* An inner struct, string or array has the name of an outer local and is
\* assigned: it is not tracked, so the outer one counts as assigned
\* (type_checker.c:1045-1051).
HiddenByStruct(body) ==
  \E b \in Within(body) : b[1] = "block" /\
    \E v \in Range(b[2]), outer \in Unset(body) \ Range(b[2]) :
      v[1] = "var" /\ Untracked(v[3]) /\ ~Untracked(outer[3]) /\ v[2] \in AssignedIn(b, {outer[2]})

\* A function pointer is called before it was assigned: a call looks its name
\* up without the tracker (type_checker.c:1744-1750).
UnassignedPointerCalled(body) ==
  \E v \in Unset(body), st \in Within(body) : v[3][1] = "fn" /\ st[1] = "call" /\ st[2] = v[2]

\* Two values of one type that has no order are compared with <, and a match
\* expression has an integer arm before a float one, whose value is converted.
UnorderedLess(body) ==
  \E e \in ValuesIn(body) : e[1] = "bin" /\ e[2] = "<"
    /\ {e[3], e[4]} \subseteq {Id("a"), Id("h"), Id("o"), Id("s"), <<"str", <<"b">>>>}
MixedArms(body) ==
  \E e \in ValuesIn(body) : e[1] = "match_expr" /\ e[3][1][3] \in {Id("i"), Id("v"), Num(0)} /\ e[3][2][3] = Id("u")

\* A function the checker accepted never goes wrong, whatever values it runs
\* on: it never applies an operation to a value of another kind, reads a local
\* before it was assigned or meets a match without an arm
\* (type_checker_infer_type, the initialisation tracker with its snapshots
\* around branches, loops and cases, and the exhaustiveness of match).  The six
\* kinds of body named above are the exceptions; in the first four, "Local scalar
\* and pointer variables must be assigned before first read" (docs/types.md:105)
\* does not hold.
AcceptedProgramsGoRight ==
  [][LET body == program[1][7]
     IN  case = "body" /\ verdict' = "accepted" =>
           \/ AssignedInArm(body) \/ AssignedInDefer(body) \/ HiddenByStruct(body)
           \/ UnassignedPointerCalled(body) \/ UnorderedLess(body) \/ MixedArms(body)
           \/ \A r \in RunsOf(program[1]) : r.how # "wrong"]_<<vars, case>>

\* The three passes over a list of declarations, at once.
RECURSIVE Over(_, _, _, _)
Over(c, ds, p, i) ==
  IF i > Len(ds) THEN (IF p = 3 THEN c ELSE Over(c, ds, p + 1, 1))
  ELSE LET d == CheckerPass(p, c, ds[i])
       IN  IF d.t = Null THEN d ELSE Over(With(d, Ok), ds, p, i + 1)

\* The instances of the generic enum in the signatures of a program, in the
\* order in which they are registered: the return type, then the parameters.
RECURSIVE SignatureInstances(_)
SignatureInstances(ds) ==
  IF ds = <<>> THEN <<>>
  ELSE LET d == Head(ds)
           types == IF d[1] = "function" THEN <<d[5]>> \o [i \in DOMAIN d[4] |-> d[4][i][2]] ELSE <<>>
       IN  SelectSeq(types, LAMBDA t : t # Null /\ t[1] = "Opt") \o SignatureInstances(Tail(ds))

\* The bare constructors mean the same instance in both programs, "the first
\* instantiation seen" (type_checker.c:3116).
SameConstructors(p, q) ==
  LET a == SignatureInstances(p)
      b == SignatureInstances(q)
  IN  a = <<>> \/ a[1] = b[1]

\* The verdict does not depend on the order in which the functions of a
\* program are written: the signatures are registered before any body is
\* checked "so any function can call any other" (type_checker_check_program).
\* The orders that give the bare constructors of a generic enum to another
\* instance are the exception: they can change the type of every use.
FunctionsInAnyOrder ==
  case = "order" /\ verdict # "open" =>
    \A s \in Orders :
      LET other == InOrder(Tail(program), s)
      IN  SameConstructors(program, other) => (Over(NewChecker, other, 1, 1).t # Null) = (verdict = "accepted")

\* Every struct and tagged enum the checker has built is laid out soundly: the
\* fields are at their alignment, in order, apart and inside, the payloads
\* behind the tag, and elements of an array keep their alignment
\* (type_create_struct, type_checker_build_tagged_enum_type).
LayoutsSound ==
  \A i \in DOMAIN ck.scopes[1].syms :
    LET t == ck.scopes[1].syms[i].type
    IN  /\ Kind(t) = "struct" =>
             /\ t[4] % t[5] = 0
             /\ \A f \in DOMAIN t[3] :
                  /\ t[3][f].off % AlignOf(t[3][f].type) = 0 /\ t[5] % AlignOf(t[3][f].type) = 0
                  /\ t[3][f].off + SizeOf(t[3][f].type) <= (IF f = Len(t[3]) THEN t[4] ELSE t[3][f + 1].off)
        /\ Kind(t) = "tagged" =>
             /\ t[4] % t[5] = 0 /\ t[5] % 4 = 0 /\ t[6] >= 4
             /\ \A v \in DOMAIN t[3] : t[3][v][2] # Null =>
                  t[6] % AlignOf(t[3][v][2]) = 0 /\ t[5] % AlignOf(t[3][v][2]) = 0 /\ t[6] + SizeOf(t[3][v][2]) <= t[4]

\* What is left of a buffer when a straight-line body has run: room maps b, d
\* and p to the bytes they point to, -1 for what the function was given.
BytesAt(room, e) ==
  CASE e[1] = "id" -> room[e[2][1]]
    [] e[1] = "num" -> -1
    [] e[1] = "cast" -> room[e[3][2][1]]
    [] e[1] = "bin" -> LET n == room[e[3][2][1]] IN IF n < 0 THEN -1 ELSE IF n < e[4][2] THEN 0 ELSE n - e[4][2]
    [] e[2] = <<"malloc">> -> e[4][1][2]
    [] OTHER -> e[4][1][2] * e[4][2][2]

RECURSIVE Overruns(_, _, _)
Overruns(sts, i, room) ==
  IF i > Len(sts) THEN {}
  ELSE LET st == sts[i]
           over(arg) == BytesAt(room, arg) >= 0 /\ BytesAt(room, arg) < st[4][3][2]
       IN  CASE st[1] \in {"var", "assign"} ->
                  Overruns(sts, i + 1, [room EXCEPT ![st[2][1]] = BytesAt(room, st[Len(st)])])
             [] st[1] = "call" -> {<<k, st[4]>> : k \in {k \in {"destination", "source", "recv"} :
                                     CASE k = "recv" -> st[2] = <<"recv">> /\ over(st[4][2])
                                       [] k = "destination" -> st[2] = <<"memcpy">> /\ over(st[4][1])
                                       [] OTHER -> st[2] = <<"memcpy">> /\ over(st[4][2])}}
                                  \cup Overruns(sts, i + 1, room)
             [] OTHER -> Overruns(sts, i + 1, room)

\* In straight-line code the checker warns of exactly the calls of memcpy and
\* recv that run past what their buffer holds at that point, also after
\* assignments, offsets and an inner variable of the same name
\* (type_checker_extract_known_buffer_extent and the tracked extents).
WarnsExactlyOfOverruns ==
  case = "buffers" /\ verdict # "open" =>
    /\ verdict = "accepted"
    /\ {ck.warned[i] : i \in DOMAIN ck.warned} =
         Overruns(program[5][7][2], 1, [n \in {"b", "d", "p"} |-> -1])

\* The hash index of a scope that has grown finds what a scan of its symbols
\* would, through collisions and rebuilds
\* (scope_lookup_symbol, scope_name_index_register_appended).
IndexFindsFirst ==
  \A s \in DOMAIN ck.scopes : \A i \in DOMAIN ck.scopes[s].syms :
    LET name == ck.scopes[s].syms[i].name IN Position(ck.scopes[s], name) = FirstNamed(ck.scopes[s].syms, name)

=============================================================================
