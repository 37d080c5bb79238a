-------------------------- MODULE MCImportResolve --------------------------
(* Small projects: main in app/, a beside it, b in a -I directory, c in the  *)
(* package pk of a mettle.deps file, each with a function, a helper, and any  *)
(* of some ways to import the others.                                        *)
EXTENDS ImportResolve

MCRoot == <<"app", "main">>
FileA == <<"app", "a">>
FileB == <<"lib", "b">>
FileC == <<"pkg", "c">>
MCDisk == {MCRoot, FileA, FileB, FileC, <<"app", "page">>, <<"pkg", "page">>, <<"app", "note">>}
MCStdlibDir == <<"usr", "stdlib">>
MCImportDirs == <<<<"lib">>>>
MCDeps == [d \in {<<"app">>, <<"lib">>, <<"pkg">>} |-> <<[pkg |-> "pk", root |-> <<"pkg">>]>>]
MCCwd == <<"work">>

PathOf == [f \in {MCRoot, FileA, FileB, FileC} |->
    CASE f = FileC -> Relative(<<"pk", "c">>)
      [] f = FileB -> Relative(<<"b">>)
      [] OTHER -> Absolute(f)]
Main == [f \in DOMAIN PathOf |->
    CASE f = MCRoot -> <<"main">> [] f = FileA -> <<"fa">> [] f = FileB -> <<"fb">> [] f = FileC -> <<"fc">>]
\* main and c both have a function called help.
Helper == [f \in DOMAIN PathOf |->
    CASE f = FileA -> <<"ha">> [] f = FileB -> <<"hb">> [] OTHER -> <<"help">>]
Alias == [f \in DOMAIN PathOf |->
    CASE f = MCRoot -> "m" [] f = FileA -> "a" [] f = FileB -> "b" [] f = FileC -> "c"]

Plainly(f) == Import(PathOf[f], NoAlias, {})
Spelled(f) == Import(Absolute(f), NoAlias, {})
As(f) == Import(PathOf[f], Alias[f], {})
Only(f) == Import(PathOf[f], NoAlias, {Main[f]})
\* The helper is never exported.
OnlyHelper(f) == Import(PathOf[f], NoAlias, {Helper[f]})
Lost == Import(Relative(<<"std", "none">>), NoAlias, {})

Ways(f) == {Plainly(f), As(f), Only(f)}

FileOf(i) == CHOOSE f \in DOMAIN PathOf : i.path \in {PathOf[f], Absolute(f)}
CallOf(i) ==
    LET f == FileOf(i)
    IN Ref(i.alias, IF i = OnlyHelper(f) THEN Helper[f] ELSE Main[f], TRUE, f)

\* A file: its imports, a helper, a function that calls the helper and what was
\* imported; b declares its helper first and defines it later, the function of
\* c embeds a text twice, once where the walk does not look, the helper of a is a
\* type, one main embeds what is not there, another the same where the walk does
\* not look, and one b what is not there for it, but is for main.
Contents(f, imports, exporting) ==
    LET n == Len(imports)
        known == SelectSeq(imports, LAMBDA i : i # Lost)
        calls == [k \in DOMAIN known |-> CallOf(known[k])]
        own == <<Ref(NoAlias, Helper[f], f # FileA, f)>>
        helper(k) == Decl(f, k, Helper[f], FALSE, <<>>, {})
        function(k) == Decl(f, k, Main[f], exporting, own \o calls,
                            CASE f = FileC -> {Embed(Relative(<<"page">>), walked) : walked \in BOOLEAN}
                              [] f = FileB /\ imports = <<Plainly(FileA)>> /\ exporting
                                    -> {Embed(Relative(<<"note">>), TRUE)}
                              [] f = MCRoot /\ imports[1] = Only(FileA) /\ imports[2] = Plainly(FileA)
                                    -> {Embed(Relative(<<"gone">>), TRUE)}
                              [] f = MCRoot /\ imports[1] = Only(FileA) /\ imports[2] = Plainly(FileB)
                                    -> {Embed(Relative(<<"gone">>), FALSE)}
                              [] OTHER -> {})
    IN imports \o (IF f = FileB THEN <<helper(n + 1), function(n + 2), helper(n + 3)>>
                   ELSE <<function(n + 1), helper(n + 2)>>)

RootImports ==
    {<<i, k>> : i \in Ways(FileA) \cup {Plainly(FileB), Only(FileB)},
                k \in {Plainly(FileB), Spelled(FileB), As(FileB), Plainly(FileC), As(FileC)}}
    \cup {<<Lost, Plainly(FileA)>>, <<Only(FileA), Plainly(FileA)>>}
ImportsOfA == {<<>>} \cup {<<i>> : i \in Ways(FileB) \cup {OnlyHelper(FileB), Plainly(FileC), As(FileC)}} \cup {<<Plainly(MCRoot), Spelled(FileB)>>}
ImportsOfB == {<<>>, <<Plainly(FileC)>>, <<Plainly(FileA)>>, <<As(FileC)>>}
ImportsOfC == {<<>>, <<Plainly(FileB)>>}

MCProjects ==
    {[f \in {MCRoot, FileA, FileB, FileC} |->
        CASE f = MCRoot -> Contents(f, r, FALSE)
          [] f = FileA -> Contents(f, a, ea)
          [] f = FileB -> Contents(f, b, eb)
          [] f = FileC -> IF c = <<Lost>> THEN Unparsable ELSE Contents(f, c, FALSE)] :
        r \in RootImports, a \in ImportsOfA, b \in ImportsOfB,
        c \in ImportsOfC \cup {<<Lost>>}, ea \in BOOLEAN, eb \in BOOLEAN}
=============================================================================
