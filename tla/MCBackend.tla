----------------------------- MODULE MCBackend -----------------------------
(***************************************************************************)
(* The binary backend on small functions: a few declarations, one or two   *)
(* fragments of IR as the lowering and the optimizer leave them, and a     *)
(* return.  Every fragment is there for a path of the code generator.      *)
(***************************************************************************)
EXTENDS Backend

a == Sym("a")
b == Sym("b")
x == Sym("x")
y == Sym("y")
w == Sym("w")
z == Sym("z")
g == Sym("g")
n == Sym("n")
arr == Sym("arr")
s == Sym("s")
u == Sym("u")

Local(sym, class) == Instruction("local", sym, None, None, class, 0, <<>>)
CallOf(d, callee, args) == Instruction("call", d, None, None, callee, 0, args)

MCSignatures ==
    "h2" :> [params |-> <<"int", "int">>, ret |-> "int", foreign |-> TRUE] @@
    "h7" :> [params |-> <<"int", "int", "int", "int", "int", "int", "int">>, ret |-> "int", foreign |-> TRUE] @@
    "hm" :> [params |-> <<"int", "float", "int", "float", "int", "int">>, ret |-> "float", foreign |-> TRUE] @@
    "hs" :> [params |-> <<"struct", "int">>, ret |-> "struct", foreign |-> FALSE] @@
    "h0" :> [params |-> <<>>, ret |-> "struct", foreign |-> TRUE] @@
    "hv" :> [params |-> <<"struct", "int">>, ret |-> "int", foreign |-> FALSE] @@
    "h5" :> [params |-> <<"int", "struct", "int", "int", "int", "int", "int", "int">>, ret |-> "int", foreign |-> FALSE]

Locals == <<Local(x, "int"), Local(y, "int"), Local(Sym("odd"), "bytes3"), Local(w, "int"),
            Local(arr, "array"), Local(Sym("rec"), "record12"), Local(s, "struct"), Local(z, "int"),
            Local(n, "int"), Local(u, "struct")>>

\* Fragment names; k tells the temporaries and labels of the first and the
\* second fragment of a function apart.
Fragment(name, k) ==
    LET t(j) == Temp(10 * k + j)
        l(j) == 10 * k + j
    IN
    CASE name = "sum"     -> <<Binary(t(1), "+", a, x), Assign(y, t(1))>>
      [] name = "twice"   -> <<Binary(t(1), "+", a, x), Binary(t(2), "*", t(1), t(1)), Assign(y, t(2))>>
      [] name = "chain"   -> <<Binary(t(1), "-", a, b), Binary(t(2), "*", t(1), x), Assign(y, t(2))>>
      [] name = "chain2"  -> <<Binary(t(1), "+", x, Lit(3)), Binary(t(2), "-", y, t(1)), Binary(t(3), "+", a, t(2)), Assign(x, t(3))>>
      [] name = "chaindiv" -> <<Binary(t(1), "+", a, Lit(9)), Binary(t(2), "/", t(1), x), Assign(y, t(2))>>
      [] name = "step"    -> <<Binary(x, "+", x, Lit(1)), Binary(y, "-", y, Lit(1))>>
      [] name = "fold"    -> <<Binary(x, "-", Lit(5), x), Binary(y, "*", y, Lit(0)), Binary(y, "|", Lit(6), a)>>
      [] name = "zero"    -> <<Binary(t(1), "*", a, Lit(0)), Binary(t(2), "+", t(1), x), Assign(y, t(2))>>
      [] name = "big"     -> <<Binary(t(1), "+", a, Lit(100)), Assign(y, t(1)), Binary(x, "<", Lit(100), y)>>
      [] name = "div4"    -> <<Binary(t(1), "/", a, Lit(4)), Binary(t(2), "%", a, Lit(4)), Assign(x, t(1)), Assign(y, t(2))>>
      [] name = "div64"   -> <<Binary(x, "/", a, Lit(64)), Binary(t(2), "%", a, Lit(64)), Binary(y, "+", t(2), x)>>
      [] name = "div1"    -> <<Binary(x, "/", a, Lit(1)), Binary(y, "%", a, Lit(1))>>
      [] name = "divb"    -> <<Binary(t(1), "%", a, y), Binary(t(2), "/", a, y), Assign(x, t(1)), Assign(y, t(2))>>
      [] name = "shifts"  -> <<Binary(x, "<<", a, Lit(2)), Binary(y, ">>", a, b), Binary(t(1), "<<", Lit(1), b), Assign(z, t(1))>>
      [] name = "unary"   -> <<Unary(x, "-", a), Unary(t(1), "!", b), Unary(y, "~", t(1)), Unary(z, "+", x)>>
      [] name = "compare" -> <<Binary(x, "<", a, b), Binary(t(1), ">=", a, Lit(5)), Binary(t(2), "==", Lit(5), a), Binary(y, "+", t(1), t(2))>>
      [] name = "alias"   -> <<Assign(w, z), Binary(y, "+", w, Lit(1)), Assign(x, w)>>
      [] name = "branch"  -> <<Binary(t(1), ">", a, x), BranchZero(t(1), l(1)), Assign(y, a), Label(l(1))>>
      [] name = "symbranch" -> <<BranchZero(b, l(1)), Assign(x, Lit(3)), Jump(l(2)), Label(l(1)), Assign(x, a), Label(l(2))>>
      [] name = "eq"      -> <<BranchEq(a, Lit(5), l(1)), BranchEq(b, y, l(1)), Assign(x, Lit(2)), Label(l(1))>>
      [] name = "mask"    -> <<Binary(t(1), "&", a, Lit(1)), Binary(t(2), "==", t(1), Lit(0)), BranchZero(t(2), l(1)), Assign(x, Lit(4)), Label(l(1))>>
      [] name = "mask2"   -> <<Binary(t(1), "&", Lit(2), x), Binary(t(2), "!=", Lit(0), t(1)), BranchZero(t(2), l(1)), Assign(y, Lit(4)), Label(l(1))>>
      [] name = "chainbranch" -> <<Binary(t(1), "-", a, b), Binary(t(2), "<", t(1), y), BranchZero(t(2), l(1)), Assign(x, Lit(4)), Label(l(1))>>
      [] name = "kept"    -> <<Binary(t(1), "<", a, y), BranchZero(t(1), l(1)), Assign(x, t(1)), Label(l(1))>>
      [] name = "diamond" -> <<Binary(t(1), "<", a, y), BranchZero(t(1), l(1)), Assign(x, Lit(0)), Jump(l(2)), Label(l(1)), Label(l(2))>>
      [] name = "max"     -> <<Binary(t(3), "*", a, Lit(3)), Assign(z, t(3)), Binary(t(1), ">", z, y), BranchZero(t(1), l(1)),
                               Assign(y, t(3)), Jump(l(2)), Label(l(1)), Label(l(2))>>
      [] name = "maxlater" -> <<Binary(t(3), "*", a, Lit(3)), Assign(z, t(3)), Binary(z, "-", z, Lit(9)), Binary(t(1), ">", z, y), BranchZero(t(1), l(1)),
                               Assign(y, t(3)), Jump(l(2)), Label(l(1)), Label(l(2))>>
      [] name = "shared"  -> <<BranchZero(b, l(1)), Binary(t(1), "<", a, y), BranchZero(t(1), l(1)), Assign(x, Lit(0)),
                               Jump(l(2)), Label(l(1)), Label(l(2))>>
      [] name = "loop"    -> <<Assign(n, Lit(0)), Label(l(1)), Binary(t(1), "<", n, Lit(2)), BranchZero(t(1), l(2)),
                               Binary(y, "+", y, a), Binary(n, "+", n, Lit(1)), Jump(l(1)), Label(l(2))>>
      [] name = "rotate"  -> <<RotateAdd(z, x, y)>>
      [] name = "index"   -> <<AddressOf(t(1), arr), Binary(t(2), "<<", b, Lit(3)), Binary(t(3), "+", t(1), t(2)), Store(t(3), a),
                               Binary(t(4), "+", t(2), t(1)), Load(t(5), t(4)), Assign(y, t(5))>>
      [] name = "index1"  -> <<AddressOf(t(1), arr), Binary(t(2), "<<", b, Lit(3)), Binary(t(3), "+", t(1), t(2)), Store(t(3), x)>>
      [] name = "element" -> <<AddressOf(t(1), arr), Store(t(1), a), Unary(t(6), "!", b), Binary(t(2), "<<", t(6), Lit(3)),
                               Binary(t(3), "+", t(1), t(2)), Store(t(3), y), Binary(t(4), "+", t(1), Lit(8)), Store(t(4), x), Load(t(5), t(1)), Assign(x, t(5))>>
      [] name = "prefix"  -> <<AddressOf(t(1), arr), Store(t(1), a), Binary(t(7), "-", Lit(1), b), Binary(t(2), "<<", t(7), Lit(3)),
                               Binary(t(4), "+", t(1), t(2)), Store(t(4), y), Load(t(5), t(1)), Assign(x, t(5))>>
      [] name = "indexlater" -> <<AddressOf(t(1), arr), Store(t(1), y), Assign(n, b), Binary(t(2), "<<", n, Lit(3)), Binary(n, "-", Lit(1), n),
                               Binary(t(3), "+", t(1), t(2)), Store(t(3), a), Load(t(5), t(1)), Assign(x, t(5))>>
      [] name = "offset"  -> <<AddressOf(t(1), arr), Binary(t(2), "<<", b, Lit(3)), Binary(t(3), "+", t(1), t(2)), Store(t(3), a),
                               Binary(t(4), "+", t(2), x), Assign(y, t(4))>>
      [] name = "pointer" -> <<AddressOf(t(1), z), Store(t(1), a), Assign(x, z), Load(y, t(1))>>
      [] name = "fields"  -> <<AddressOf(t(1), s), Store(t(1), a), Binary(t(2), "+", t(1), Lit(8)), Store(t(2), y), Load(x, t(1))>>
      [] name = "global"  -> <<Binary(g, "+", g, Lit(1)), Assign(x, g), Assign(g, a)>>
      [] name = "call"    -> <<CallOf(t(1), "h2", <<x, a>>), Assign(y, t(1))>>
      [] name = "callraw" -> <<Binary(t(2), "+", a, b), CallOf(x, "h2", <<t(2), Lit(100)>>)>>
      [] name = "seven"   -> <<CallOf(x, "h7", <<a, b, x, y, g, Lit(6), a>>)>>
      [] name = "structs" -> <<CallOf(s, "h0", <<>>), CallOf(t(1), "hs", <<s, a>>), Assign(u, t(1)), CallOf(x, "hv", <<u, b>>)>>
      [] name = "relay"   -> <<CallOf(t(1), "h0", <<>>), CallOf(t(2), "hs", <<t(1), a>>), CallOf(None, "hv", <<t(2), x>>)>>
      [] name = "structstack" -> <<CallOf(s, "h0", <<>>), CallOf(x, "h5", <<a, s, b, Lit(3), Lit(4), Lit(5), Lit(6), Lit(7)>>)>>

Plain == {"sum", "twice", "chain", "chain2", "chaindiv", "step", "fold", "zero", "big", "div4", "div64", "div1", "divb",
          "shifts", "unary", "compare", "alias", "branch", "symbranch", "eq", "mask", "mask2", "chainbranch",
          "kept", "diamond", "max", "shared", "loop", "rotate", "index", "index1", "element", "prefix", "offset", "pointer",
          "fields", "global", "call", "callraw", "seven", "structs", "relay", "structstack"}

IntParam(name) == [name |-> name, class |-> "int"]
TwoInts == <<IntParam("a"), IntParam("b")>>
Start == Locals \o <<Assign(x, Lit(7)), Assign(y, Lit(9)), Assign(z, Lit(2))>>

Result(k) == <<Binary(Temp(k), "*", x, Lit(10)), Binary(Temp(k + 1), "+", Temp(k), y), Return(Temp(k + 1))>>

\* (a, b) -> int, of every two fragments.
Pairs == {[params |-> TwoInts, ret |-> "int", code |-> Start \o Fragment(p, 1) \o Fragment(q, 2) \o Result(1)] :
             p \in Plain, q \in Plain}

\* More parameters than there are registers, floats and a struct among them.
Many == <<IntParam("a"), [name |-> "f", class |-> "float"], IntParam("b"), [name |-> "p", class |-> "struct"], IntParam("c"),
          IntParam("d"), IntParam("e"), [name |-> "v", class |-> "float"], IntParam("q")>>
ManyParams ==
    {[params |-> Many, ret |-> r, code |-> Start \o Fragment(p, 1)
        \o <<CallOf(z, "h2", <<Sym("c"), Sym("d")>>), CallOf(Temp(4), "hm", <<Sym("e"), Sym("f"), Sym("q"), Sym("v"), x, y>>),
             AddressOf(Temp(2), Sym("p")), Binary(Temp(3), "+", Temp(2), Lit(8)), Load(Temp(6), Temp(3)),
             Binary(Temp(7), "+", Temp(6), Sym("q")), Binary(Temp(5), "+", Temp(7), z)>>
        \o (IF r = "struct" THEN <<Return(Sym("p"))>> ELSE IF r = "float" THEN <<Return(Sym("v"))>> ELSE <<Return(Temp(5))>>)] :
        p \in {"sum", "index", "structs", "loop", "step"}, r \in {"int", "float", "struct"}}

\* No calls, so that registers are given out in the first phase too.
Leaf ==
    {[params |-> Many, ret |-> "int",
      code |-> Start \o <<Binary(Sym("q"), "+", Sym("q"), Lit(1)), Binary(Sym("d"), "+", Sym("d"), Lit(4))>>
        \o Fragment(p, 1) \o <<Binary(Temp(5), "-", Sym("q"), Sym("d")), Binary(Temp(6), "+", Temp(5), Sym("c")), Binary(Temp(7), "+", Temp(6), Sym("e")), Binary(Temp(8), "+", Temp(7), x), Return(Temp(8))>>] :
        p \in {"rotate", "loop", "element", "fields"}}

StructReturn ==
    {[params |-> TwoInts, ret |-> "struct", code |-> Start \o Fragment(p, 1) \o Fragment("fields", 2) \o <<Return(s)>>] : p \in Plain}
        \cup {[params |-> TwoInts, ret |-> "struct", code |-> Start \o Fragment(p, 1) \o <<CallOf(Temp(3), "h0", <<>>), Return(Temp(3))>>] :
                 p \in {"relay", "call"}}

Small == {[params |-> <<>>, ret |-> "int", code |-> <<Return(Lit(3))>>],
          [params |-> TwoInts, ret |-> "float", code |-> <<Jump(9), Label(9), Return(a)>>],
          [params |-> TwoInts, ret |-> "int", code |-> Start \o Fragment("maxlater", 1) \o Result(1)],
          [params |-> TwoInts, ret |-> "int", code |-> Start \o Fragment("indexlater", 1) \o Result(1)],
          [params |-> <<IntParam("a")>>, ret |-> "int", code |-> <<Nop, Binary(a, "+", a, Lit(1)), Return(a)>>]}

MCFunctions == Pairs \cup ManyParams \cup Leaf \cup StructReturn \cup Small

\* A parameter copied to a local, then changed.
AliasFunctions ==
    {[params |-> TwoInts, ret |-> "int",
      code |-> Start \o <<Assign(w, a), Binary(a, "+", a, Lit(1))>> \o Fragment(p, 1)
                 \o <<Binary(Temp(1), "*", w, Lit(10)), Binary(Temp(2), "+", Temp(1), y), Return(Temp(2))>>] :
        p \in {"sum", "call", "index", "branch"}}

MCArgWords ==
    "a" :> {<<-3>>, <<5>>} @@ "b" :> {<<0>>, <<1>>} @@ "c" :> {<<11>>} @@ "d" :> {<<12>>} @@ "e" :> {<<13>>} @@
    "f" :> {<<14>>} @@ "p" :> {<<15, 16>>} @@ "v" :> {<<17>>} @@ "q" :> {<<18>>}
MCGlobalWords == {20}
=============================================================================
