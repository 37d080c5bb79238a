--------------------------- MODULE MCMonomorphize ---------------------------
(***************************************************************************)
(* The monomorphizer on programs made of a few generics, two traits with   *)
(* their impls, and a function main of one or two nodes.                   *)
(***************************************************************************)
EXTENDS Monomorphize

I32 == <<"int">>
Str == <<"str">>
Void == <<"void">>
T == <<"T">>
U == <<"U">>
App(g, t) == <<g, "<">> \o t \o <<">">>
App2(g, t, u) == <<g, "<">> \o t \o <<",">> \o u \o <<">">>

Node(kind, name, text, targs) ==
    [kind |-> kind, name |-> name, text |-> text, targs |-> targs, walked |-> TRUE]
VarOf(x, t) == Node("var", x, t, <<>>)
CallOf(f, targs) == Node("call", "", <<f>>, targs)
Method(x, m) == Node("call", x, <<m>>, <<>>)
InArm(n) == [n EXCEPT !.walked = FALSE]

Decl(kind, name, params, bounds, xs, sig, body) ==
    [kind |-> kind, name |-> <<name>>, params |-> params, bounds |-> bounds, vars |-> xs,
     sig |-> sig, body |-> body, from |-> [sig |-> sig, body |-> body], binds |-> <<>>]
Struct(name, params, bounds, sig) == Decl("struct", name, params, bounds, <<>>, sig, <<>>)
Fn(name, params, bounds, xs, sig, body) == Decl("fn", name, params, bounds, xs, sig, body)
Trait(name, methods) ==
    [kind |-> "trait", name |-> name, methods |-> methods, params |-> <<>>, bounds |-> <<>>]
Impl(trait, for, methods) ==
    [kind |-> "impl", trait |-> trait, for |-> for, methods |-> methods, params |-> <<>>, bounds |-> <<>>]
MethodDecl(name, sig, body) == [name |-> name, vars |-> <<"self">>, sig |-> sig, body |-> body]

Generics ==
  << Struct("Box", <<T>>, <<{}>>, <<T>>),
     Struct("Pair", <<T, U>>, <<{}, {"Show"}>>, <<T \o <<"*">>, U, App("Box", T)>>),
     Struct("List", <<T>>, <<{}>>, <<App("Box", T), App("List", T) \o <<"*">>, T \o <<"[4]">>>>),
     Fn("id", <<T>>, <<{}>>, <<"x">>, <<T, T>>, <<VarOf("y", App("Box", T)), CallOf("show", <<T>>), CallOf("mk", <<App("Box", T)>>)>>),
     Fn("show", <<T>>, <<{"Show"}>>, <<"x">>, <<T, Void>>, <<Method("x", "print")>>),
     Fn("mk", <<T>>, <<{}>>, <<"x">>, <<T, App("Box", App("Box", T))>>, <<Node("new", "", App("Box", T), <<>>)>>) >>

Traits == << Trait("Show", <<MethodDecl("print", <<Self, Void>>, <<>>)>>),
             Trait("Size", <<MethodDecl("print", <<Self, Void>>, <<>>)>>) >>
ShowInt == Impl("Show", I32, <<MethodDecl("print", <<I32, Void>>, <<VarOf("b", App("Box", Self))>>)>>)
SizeInt == Impl("Size", I32, <<MethodDecl("print", <<Self, Void>>, <<>>)>>)
ShowStr == Impl("Show", Str, <<MethodDecl("print", <<Self, Void>>, <<>>)>>)
BadImpl == Impl("Show", Str, <<MethodDecl("print", <<I32, Void>>, <<>>)>>)

Extras ==
  { <<ShowInt>>, <<ShowInt, ShowStr>>, <<ShowInt, SizeInt>>, <<ShowInt, ShowInt>>, <<BadImpl>>,
    <<ShowInt, Struct("Holder", <<>>, <<>>, <<App("Box", I32)>>)>>,
    <<ShowInt, Struct("int_ptr", <<>>, <<>>, <<I32>>), Fn("grow", <<T>>, <<{}>>, <<>>, <<Void>>, <<CallOf("grow", <<App("Box", T)>>)>>)>> }

Nodes ==
  { VarOf("x", I32), VarOf("x", Str), VarOf("b", App("Box", I32)), VarOf("b", App("Box", Str) \o <<"*">>),
    VarOf("b", App("Box", I32) \o <<"[4]">>), VarOf("b", App("Box", App("Box", I32))),
    VarOf("b", App("Box", <<"int", "*">>)), VarOf("b", App("Box", <<"int", "_", "ptr">>)),
    VarOf("p", App2("Pair", I32, Str)), VarOf("p", App2("Pair", Str, I32)), VarOf("l", App("List", I32)),
    Node("new", "", App("List", Str), <<>>), Node("cast", "", App("Box", Str), <<>>),
    CallOf("id", <<I32>>), CallOf("id", <<Str>>), CallOf("show", <<I32>>), CallOf("mk", <<App("Box", I32)>>),
    CallOf("show", <<I32, Str>>), CallOf("grow", <<I32>>), Method("x", "print"), InArm(VarOf("b", App("Box", Str))) }

Main(sig, body) == Fn("main", <<>>, <<>>, <<"x">>, sig, body)
MCPrograms ==
  { Traits \o Generics \o extra \o <<Main(<<I32, Void>>, <<a, b>>)>> : extra \in Extras, a, b \in Nodes }
  \cup { Traits \o Generics \o <<ShowInt, Main(<<t, r>>, <<Method("x", "print")>>)>> :
            t \in {I32, Str, <<"int", "*">>, App("Box", I32)}, r \in {Void, App("List", I32) \o <<"*">>} }
  \cup { Traits \o <<ShowInt, Main(<<I32, Void>>, <<Method("x", "print"), Method("y", "print")>>)>>,
         Generics, Traits \o Traits }
MCBuiltin == {I32, Str, Void, <<"int", "_", "ptr">>}
=============================================================================
