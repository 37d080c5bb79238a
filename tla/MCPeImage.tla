------------------------------ MODULE MCPeImage ------------------------------
(* Command lines for the whole internal link: calls across objects and into  *)
(* DLLs, direct and through __imp_ slots, unwind data, debug sections, a     *)
(* large .bss and relocations that cannot be applied.                        *)
EXTENDS PeImage

Reloc(type, offset, symbol, addend) ==
  [type |-> type, at |-> offset, symbol |-> symbol, addend |-> addend]
Section(kind, raw, align, aux, relocs) ==
  [kind |-> kind, raw |-> raw, virtual |-> 0, align |-> align, aux |-> aux,
   debug |-> FALSE, relocs |-> relocs]
Debug(relocs) == [Section("none", 9, 1, 0, relocs) EXCEPT !.debug = TRUE]
Symbol(name, external, section, value) ==
  [name |-> name, external |-> external, auxiliary |-> FALSE,
   section |-> section, value |-> value]
Aux == [name |-> "", external |-> FALSE, auxiliary |-> TRUE, section |-> 0, value |-> 0]
File(sections, symbols) == [readable |-> TRUE, sections |-> sections, symbols |-> symbols]

MCMain ==
  File(<<Section("text", 21, 0, 0, <<Reloc("rel32", 1, 2, 0), Reloc("rel32", 6, 3, 0),
                                     Reloc("rel32", 11, 4, 3)>>),
         Section("pdata", 12, 4, 0, <<Reloc("addr32nb", 0, 1, 0), Reloc("addr32nb", 4, 1, 21)>>)>>,
       <<Symbol("main", TRUE, 1, 2), Symbol("f", TRUE, 0, 0), Symbol("puts", TRUE, 0, 0),
         Symbol("imp_exit", TRUE, 0, 0)>>)
MCLib ==
  File(<<Section("text", 9, 2, 0, <<Reloc("rel32", 5, 2, -2), Reloc("rel32", 1, 4, 0)>>),
         Section("data", 16, 8, 0, <<Reloc("addr64", 0, 1, 0), Reloc("addr64", 8, 3, 0)>>),
         Section("bss", 0, 8, 10, <<>>)>>,
       <<Symbol("f", TRUE, 1, 3), Symbol("buffer", FALSE, 3, 4), Symbol("imp_puts", TRUE, 0, 0),
         Symbol("tick", TRUE, 0, 0)>>)
MCDebug ==
  File(<<Section("rdata", 5, 1, 0, <<>>), Debug(<<Reloc("secrel", 0, 2, 0)>>),
         Section("xdata", 8, 4, 0, <<Reloc("secrel", 0, 1, 2), Reloc("rel32", 4, 1, 0)>>)>>,
       <<Symbol("text_of_debug", FALSE, 1, 1), Symbol("info", FALSE, 2, 0)>>)
MCBig == File(<<Section("bss", 0, 0, 12000, <<>>)>>, <<Symbol("f", TRUE, 1, 8)>>)
MCHuge == File(<<Section("bss", 0, 0, 55000, <<>>), Section("xdata", 3, 1, 0, <<>>)>>, <<>>)
MCPast == File(<<Section("data", 6, 1, 0, <<Reloc("addr32nb", 4, 1, 0)>>)>>,
               <<Symbol("k", FALSE, 1, 0)>>)
MCOdd == File(<<Section("data", 8, 1, 0, <<Reloc("rel32", 0, 2, 0)>>)>>,
              <<Symbol("data", FALSE, 1, 0), Aux>>)
MCCallsData == File(<<Section("text", 4, 1, 0, <<Reloc("rel32", 0, 1, 0)>>)>>,
                    <<Symbol("environ", TRUE, 0, 0)>>)
MCOrphan == File(<<>>, <<Symbol("orphan", TRUE, 0, 0)>>)

MCObjectFiles == {MCMain, MCLib, MCDebug, MCBig, MCHuge, MCPast, MCOdd, MCCallsData,
                  MCOrphan}

MCImpNames == {"imp_exit", "imp_puts"}
MCImpBase == [n \in MCImpNames |-> IF n = "imp_exit" THEN "exit" ELSE "puts"]

Offer(name, dll, code, ordinal) ==
  [name |-> name, dll |-> dll, code |-> code, ordinal |-> ordinal]
MCLibraries ==
  <<<<Offer("puts", "crt", TRUE, FALSE), Offer("environ", "crt", FALSE, FALSE)>>,
    <<Offer("puts", "kernel", TRUE, FALSE), Offer("exit", "crt", TRUE, TRUE)>>>>
MCDlls ==
  <<[name |-> "missing", loads |-> FALSE, exports |-> {"tick"}],
    [name |-> "kernel", loads |-> TRUE, exports |-> {"puts", "tick", "f"}],
    [name |-> "user", loads |-> TRUE, exports |-> {"tick", "environ"}]>>
=============================================================================
