---------------------------- MODULE MCLinkResolve ----------------------------
(* Object files for the linker's runs: small sections of odd sizes and mixed *)
(* alignments, references before and after their definitions, a .bss sized   *)
(* by its symbols, sections that are not merged, and broken files.           *)
EXTENDS LinkResolve

Section(kind, raw, align, aux) ==
  [kind |-> kind, raw |-> raw, virtual |-> 0, align |-> align, aux |-> aux,
   debug |-> FALSE, relocs |-> <<>>]
Symbol(name, external, section, value) ==
  [name |-> name, external |-> external, auxiliary |-> FALSE,
   section |-> section, value |-> value]
Aux == [name |-> "", external |-> FALSE, auxiliary |-> TRUE, section |-> 0, value |-> 0]
File(sections, symbols) == [readable |-> TRUE, sections |-> sections, symbols |-> symbols]

MCEntry == File(<<Section("text", 5, 0, 5), Section("data", 3, 4, 0), Section("bss", 0, 0, 6)>>,
                <<Symbol("main", TRUE, 1, 0), Symbol("f", TRUE, 0, 0), Symbol("g", TRUE, 0, 0)>>)
MCProvider == File(<<Section("text", 7, 2, 7), Section("bss", 0, 4, 0), Section("none", 9, 1, 0)>>,
                   <<Symbol("f", TRUE, 1, 2), Symbol("counter", FALSE, 2, 4),
                     Symbol("debug", FALSE, 3, 0)>>)
MCData == File(<<Section("data", 2, 1, 0), Section("bss", 0, 8, 5), Section("text", 0, 4, 0)>>,
               <<Symbol("g", TRUE, 1, 1), Aux, Symbol("end", FALSE, 3, 0)>>)
MCDuplicate == File(<<Section("rdata", 4, 8, 0)>>,
                    <<Symbol("f", TRUE, 0, 0), Symbol("f", TRUE, 1, 0)>>)
MCAbsolute == File(<<Section("none", 2, 1, 0)>>,
                   <<Symbol("g", TRUE, -1, 3), Symbol("main", TRUE, 1, 0)>>)
MCBroken == File(<<Section("text", 3, 1, 0)>>, <<Symbol("main", TRUE, 2, 0)>>)
MCUnreadable == [readable |-> FALSE, sections |-> <<>>, symbols |-> <<>>]

MCObjectFiles ==
  {MCEntry, MCProvider, MCData, MCDuplicate, MCAbsolute, MCBroken, MCUnreadable}
=============================================================================
