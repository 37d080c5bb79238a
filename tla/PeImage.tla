------------------------------- MODULE PeImage -------------------------------
(***************************************************************************)
(* The second half of the internal linker: pe_emit_executable              *)
(* (src/src/linker/pe_emitter.c) takes the resolution LinkResolve builds,  *)
(* finds imports for the names still undefined (import_lib.c), appends the *)
(* import tables and jump thunks to the merged sections, lays the image    *)
(* out, applies the relocations (relocation.c) and writes the file.        *)
(*                                                                         *)
(* A relocation is [type, at, symbol, addend]; addend is what the object   *)
(* file stores in the patched field; two fields do not overlap.  The       *)
(* values the linker stores are kept in `patches' and, for the import      *)
(* tables, in `tables'.                                                    *)
(***************************************************************************)
EXTENDS LinkResolve

CONSTANTS
  ImpNames,      \* the names that start with __imp_
  ImpBase,       \* such a name without the prefix
  Libraries,     \* the import libraries named by the options, in order
  Dlls,          \* the DLLs to probe: [name, loads, exports]
  NameBytes,     \* bytes of a symbol or DLL name with its terminator
  ImageBase,
  PeAlignment,   \* options->section_alignment of the image
  FileAlignment,
  Int32,         \* 2^31: what a signed 32-bit field reaches
  Word32         \* 2^32

\* One symbol of an import library: which DLL has it, whether it is code, and
\* whether it is bound by ordinal.
OfferRecord == [name : STRING, dll : STRING, code : BOOLEAN, ordinal : BOOLEAN]

ASSUME NameAssumption == NameBytes \in Nat \ {0}
ASSUME ImageAssumption == {ImageBase, PeAlignment, FileAlignment, Int32, Word32} \subseteq Nat \ {0}
\* Both alignments are powers of two, which linker_align_up relies on: the
\* smaller divides the larger.
ASSUME NestedAssumption == PeAlignment < FileAlignment \/ PeAlignment % FileAlignment = 0
ASSUME ImpAssumption == ImpBase \in [ImpNames -> STRING]
ASSUME LibrariesAssumption == Libraries \in Seq(Seq(OfferRecord))
ASSUME DllsAssumption ==
  Dlls \in Seq([name : STRING, loads : BOOLEAN, exports : SUBSET STRING])

VARIABLES
  libs,      \* the ImportLibrary list: sequences of [name, dll, code, ordinal]
  dlls,      \* PeImportPlan.dlls: [name, count, ilt, iat]
  imports,   \* PeImportPlan.symbols
  layout,    \* PeSectionLayout of the sections that are emitted
  tables,    \* values stored in the import tables and thunks
  patches,   \* values stored by relocations
  file       \* the output file: "old", "partial", "complete"

pevars == <<libs, dlls, imports, layout, tables, patches, file>>
vars == <<linkvars, pevars>>

IsImp(name) == name \in ImpNames
Canonical(name) == IF IsImp(name) THEN ImpBase[name] ELSE name

LibraryOffers(lib, name) == {i \in 1 .. Len(lib) : lib[i].name = name}
OfferedBy(ls, name) == {i \in 1 .. Len(ls) : LibraryOffers(ls[i], name) # {}}
Least(S) == CHOOSE x \in S : \A y \in S : x <= y
Greatest(S) == CHOOSE x \in S : \A y \in S : y <= x

\* pe_find_import_symbol: the first library that has the name wins.
FindImportLast(ls, name) ==
  LET lib == ls[Greatest(OfferedBy(ls, name))]
  IN  lib[Least(LibraryOffers(lib, name))]
FindImport(ls, name) ==
  LET lib == ls[Least(OfferedBy(ls, name))]
  IN  lib[Least(LibraryOffers(lib, name))]

LinkKept == UNCHANGED <<objects, place, syms>>

-----------------------------------------------------------------------------
\* pe_emit_executable: options first.  The entry symbol is resolved already.
CheckOptions ==
  /\ phase = "resolved"
  /\ phase' = IF PeAlignment < FileAlignment THEN "failed" ELSE "libraries"
  /\ at' = <<1, 1>>
  /\ LinkKept /\ UNCHANGED <<merged, globals, address, pevars>>

\* import_library_read: an archive it cannot parse and one without import
\* members are refused alike, so both are the empty library here.
ImportLibraryReads(lib) == lib # <<>>

\* pe_load_import_libraries, one library.
LoadLibrary ==
  /\ phase = "libraries" /\ at[1] <= Len(Libraries)
  /\ at' = <<at[1] + 1, 1>>
  /\ IF ImportLibraryReads(Libraries[at[1]])
     THEN libs' = Append(libs, Libraries[at[1]]) /\ UNCHANGED phase
     ELSE Fail /\ UNCHANGED libs
  /\ LinkKept /\ UNCHANGED <<merged, globals, address, dlls, imports, layout, tables, patches, file>>

EndLibraries ==
  /\ phase = "libraries" /\ at[1] > Len(Libraries)
  /\ phase' = "dlls" /\ at' = <<1, 1>>
  /\ LinkKept /\ UNCHANGED <<merged, globals, address, pevars>>

\* GetProcAddress is asked for the name without its prefix.
Exports(dll, name) == Canonical(name) \in dll.exports

\* pe_append_imports_from_dlls, one DLL: a synthetic library of the undefined
\* names the DLL exports and no earlier library has.
ProbedLibrary(dll) ==
  LET wanted(i) == /\ ~globals[i].defined
                   /\ OfferedBy(libs, Canonical(globals[i].name)) = {}
                   /\ Exports(dll, globals[i].name)
      after[n \in 0 .. Len(globals)] ==
        IF n = 0 THEN <<>>
        ELSE LET name == Canonical(globals[n].name)
             IN  IF wanted(n) /\ LibraryOffers(after[n - 1], name) = {}
                 THEN Append(after[n - 1], [name |-> name, dll |-> dll.name,
                                            code |-> TRUE, ordinal |-> FALSE])
                 ELSE after[n - 1]
  IN  after[Len(globals)]

\* pe_append_imports_from_dlls on Windows; elsewhere a DLL is an error.
ProbeDll ==
  LET dll == Dlls[at[1]]
  IN  /\ phase = "dlls" /\ at[1] <= Len(Dlls)
      /\ at' = <<at[1] + 1, 1>>
      /\ libs' = IF dll.loads /\ ProbedLibrary(dll) # <<>>
                 THEN Append(libs, ProbedLibrary(dll)) ELSE libs
      /\ LinkKept
      /\ UNCHANGED <<phase, merged, globals, address, dlls, imports, layout, tables, patches, file>>

EndDlls ==
  /\ phase = "dlls" /\ at[1] > Len(Dlls)
  /\ phase' = "plan" /\ at' = <<1, 1>>
  /\ LinkKept /\ UNCHANGED <<merged, globals, address, pevars>>

-----------------------------------------------------------------------------
DllIndex(name) ==
  LET found == {i \in 1 .. Len(dlls) : dlls[i].name = name}
  IN  IF found = {} THEN 0 ELSE Least(found)
ImportIndex(name, dll) ==
  LET found == {i \in 1 .. Len(imports) : imports[i].name = name /\ imports[i].dll = dll}
  IN  IF found = {} THEN 0 ELSE Least(found)

\* The slot a new import takes in its DLL's tables: symbol_count++.
SlotReused(d) == IF dlls[d].count = 0 THEN 0 ELSE dlls[d].count - 1
Slot(d) == dlls[d].count

\* pe_bind_import_symbol.
Bind(offer, name, viaIat) ==
  LET d == DllIndex(offer.dll)
      i == ImportIndex(name, offer.dll)
      dllAt == IF d = 0 THEN Len(dlls) + 1 ELSE d
      slot == IF d = 0 THEN 0 ELSE Slot(d)
      new == [name |-> name, dll |-> offer.dll, index |-> dllAt, slot |-> slot,
              ordinal |-> offer.ordinal, thunk |-> ~viaIat, iatsym |-> viaIat,
              hint |-> 0, thunkAt |-> 0]
  IN  /\ imports' = IF i = 0 THEN Append(imports, new)
                    ELSE [imports EXCEPT ![i].thunk = @ \/ ~viaIat,
                                         ![i].iatsym = @ \/ viaIat]
      /\ dlls' = IF d = 0 THEN Append(dlls, [name |-> offer.dll, count |-> 1, ilt |-> 0, iat |-> 0])
                 ELSE IF i = 0 THEN [dlls EXCEPT ![d].count = @ + 1] ELSE dlls

\* pe_build_import_plan, one symbol of the global table.  Importing data through
\* its plain name is refused.
PlanImport ==
  LET g == globals[at[1]]
      name == Canonical(g.name)
      offer == FindImport(libs, name)
  IN  /\ phase = "plan" /\ at[1] <= Len(globals)
      /\ at' = <<at[1] + 1, 1>>
      /\ IF g.defined \/ OfferedBy(libs, name) = {} THEN UNCHANGED <<phase, dlls, imports>>
         ELSE IF ~IsImp(g.name) /\ ~offer.code THEN Fail /\ UNCHANGED <<dlls, imports>>
         ELSE Bind(offer, name, IsImp(g.name)) /\ UNCHANGED phase
      /\ LinkKept /\ UNCHANGED <<merged, globals, address, libs, layout, tables, patches, file>>

EndPlan ==
  /\ phase = "plan" /\ at[1] > Len(globals)
  /\ phase' = "storage" /\ at' = <<1, 1>>
  /\ LinkKept /\ UNCHANGED <<merged, globals, address, pevars>>

-----------------------------------------------------------------------------
\* pe_section_align and pe_section_append_zeros / _bytes.
Grown(m, to, by) ==
  [m EXCEPT !.size = to, !.vsize = Larger(@, to), !.writes = @ \o Segment(m.size, to, by)]
AlignedUnwritten(m, a) ==
  [m EXCEPT !.size = AlignUp(@, a), !.vsize = Larger(@, AlignUp(m.size, a))]
Aligned(m, a) == Grown(m, AlignUp(m.size, a), "zero")
Appended(m, n, by) == Grown(m, m.size + n, by)

\* The stages of pe_emit_import_storage, each a function of how many DLLs or
\* symbols have been dealt with.
TableBytes(d) == (dlls[d].count + 1) * 8
Descriptors(m) == Appended(Aligned(m, 8), (Len(dlls) + 1) * 20, "descriptors")
IltAfter(m) ==
  LET f[n \in 0 .. Len(dlls)] ==
        IF n = 0 THEN Descriptors(m) ELSE Appended(Aligned(f[n - 1], 8), TableBytes(n), "ilt")
  IN  f
HintsAfter(m) ==
  LET f[n \in 0 .. Len(imports)] ==
        IF n = 0 THEN IltAfter(m)[Len(dlls)]
        ELSE IF imports[n].ordinal THEN f[n - 1]
        ELSE Appended(Aligned(f[n - 1], 2), 2 + NameBytes, "hint")
  IN  f
IatAfter(m) ==
  LET start == Aligned(Appended(HintsAfter(m)[Len(imports)], Len(dlls) * NameBytes, "names"), 8)
      f[n \in 0 .. Len(dlls)] ==
        IF n = 0 THEN start ELSE Appended(f[n - 1], TableBytes(n), "iat")
  IN  f
ThunksAfter(m) ==
  LET f[n \in 0 .. Len(imports)] ==
        IF n = 0 THEN m
        ELSE IF imports[n].thunk THEN Appended(Aligned(f[n - 1], 16), 6, "thunk")
        ELSE f[n - 1]
  IN  f

\* The import that supplies a name of the global table, 0 if none does.
ImportOf(name) ==
  LET fits(i) == imports[i].name = Canonical(name)
                 /\ IF IsImp(name) THEN imports[i].iatsym ELSE imports[i].thunk
      found == {i \in 1 .. Len(imports) : fits(i)}
  IN  IF found = {} THEN 0 ELSE Greatest(found)

\* pe_emit_import_storage: tables in .rdata, thunks in .text, and the names the
\* imports define.
StoreImports ==
  LET rdata == merged["rdata"]
      ilt == IltAfter(rdata)
      hints == HintsAfter(rdata)
      iat == IatAfter(rdata)
      thunks == ThunksAfter(merged["text"])
      iatAt(i) == iat[imports[i].index - 1].size + imports[i].slot * 8
      thunkAt(i) == Aligned(thunks[i - 1], 16).size
      supplied(g) == ~g.defined /\ ImportOf(g.name) # 0
      bound(g) == LET i == ImportOf(g.name)
                  IN  [g EXCEPT !.defined = TRUE,
                                !.kind = IF IsImp(g.name) THEN "rdata" ELSE "text",
                                !.offset = IF IsImp(g.name) THEN iatAt(i) ELSE thunkAt(i)]
  IN  /\ phase = "storage"
      /\ phase' = "unresolved"
      /\ IF imports = <<>> THEN UNCHANGED <<merged, globals, dlls, imports>>
         ELSE /\ merged' = [merged EXCEPT !["rdata"] = iat[Len(dlls)],
                                          !["text"] = thunks[Len(imports)]]
              /\ dlls' = [d \in 1 .. Len(dlls) |->
                            [dlls[d] EXCEPT !.ilt = Aligned(ilt[d - 1], 8).size,
                                            !.iat = iat[d - 1].size]]
              /\ imports' = [i \in 1 .. Len(imports) |->
                               [imports[i] EXCEPT !.hint = Aligned(hints[i - 1], 2).size,
                                                  !.thunkAt = thunkAt(i)]]
              /\ globals' = [g \in 1 .. Len(globals) |->
                               IF supplied(globals[g]) THEN bound(globals[g]) ELSE globals[g]]
      /\ LinkKept /\ UNCHANGED <<at, address, libs, layout, tables, patches, file>>

\* pe_validate_unresolved_externals.
ValidateUnresolved ==
  /\ phase = "unresolved"
  /\ phase' = IF Unresolved = {} THEN "layout" ELSE "failed"
  /\ LinkKept /\ UNCHANGED <<at, merged, globals, address, pevars>>

-----------------------------------------------------------------------------
\* pe_collect_sections: the sections that are emitted.
Emitted ==
  LET after[n \in 0 .. Len(KindOrder)] ==
        IF n = 0 THEN <<>>
        ELSE IF merged[KindOrder[n]].vsize # 0 THEN Append(after[n - 1], KindOrder[n])
        ELSE after[n - 1]
  IN  after[Len(KindOrder)]
TooLarge == \E k \in MergedKinds : merged[k].vsize >= Word32

\* DOS stub, signature, file and optional header, one header per section.
SizeOfHeaders(n) == AlignUp(128 + 4 + 20 + 240 + n * 40, FileAlignment)
RawSize(k) == IF k = "bss" THEN 0 ELSE AlignUp(merged[k].size, FileAlignment)

\* How far a section moves the next one.
AdvanceUnaligned(k) == merged[k].vsize
Advance(k) == AlignUp(merged[k].vsize, PeAlignment)

\* pe_layout_sections; addresses are 32-bit.
Layout ==
  LET n == Len(Emitted)
      rva[i \in 0 .. n] ==
        IF i = 0 THEN AlignUp(SizeOfHeaders(n), PeAlignment)
        ELSE (rva[i - 1] + Advance(Emitted[i])) % Word32
      raw[i \in 0 .. n] ==
        IF i = 0 THEN SizeOfHeaders(n)
        ELSE (raw[i - 1] + RawSize(Emitted[i])) % Word32
  IN  [i \in 1 .. n |->
         [kind |-> Emitted[i], rva |-> rva[i - 1], vsize |-> merged[Emitted[i]].vsize,
          rawAt |-> IF RawSize(Emitted[i]) = 0 THEN 0 ELSE raw[i - 1],
          rawSize |-> RawSize(Emitted[i])]]

\* pe_collect_sections, pe_layout_sections.
LayoutSections ==
  /\ phase = "layout"
  /\ IF TooLarge \/ Emitted = <<>> THEN Fail /\ UNCHANGED layout
     ELSE layout' = Layout /\ phase' = "apply"
  /\ LinkKept
  /\ UNCHANGED <<at, merged, globals, address, libs, dlls, imports, tables, patches, file>>

LayoutOf(k) == {i \in 1 .. Len(layout) : layout[i].kind = k}
RvaOf(k) == layout[CHOOSE i \in LayoutOf(k) : TRUE].rva

\* pe_apply_layout_to_resolution: the provisional addresses are replaced.
ImageAddressesStale == address
ImageAddresses ==
  [k \in MergedKinds |-> IF LayoutOf(k) = {} THEN 0 ELSE ImageBase + RvaOf(k)]

ApplyLayout ==
  /\ phase = "apply"
  /\ phase' = "finalize"
  /\ address' = ImageAddresses
  /\ LinkKept /\ UNCHANGED <<at, merged, globals, pevars>>

\* The displacement of a thunk's jump: from its end to its slot.
DisplacementFromStart(i) == (RvaOf("rdata") + dlls[imports[i].index].iat + imports[i].slot * 8)
                            - (RvaOf("text") + imports[i].thunkAt)
Displacement(i) == (RvaOf("rdata") + dlls[imports[i].index].iat + imports[i].slot * 8)
                   - (RvaOf("text") + imports[i].thunkAt + 6)
InInt32(v) == -Int32 <= v /\ v < Int32

\* What a table entry holds: an ordinal, or where the hint and name are.
Entry(i) == IF imports[i].ordinal THEN [ordinal |-> TRUE, rva |-> i]
            ELSE [ordinal |-> FALSE, rva |-> RvaOf("rdata") + imports[i].hint]

\* pe_finalize_imports.
FinalizeImports ==
  LET n == 1 .. Len(imports)
      entry(base, i) == [kind |-> "rdata", at |-> base + imports[i].slot * 8, value |-> Entry(i)]
      stub(i) == [kind |-> "text", at |-> imports[i].thunkAt,
                  value |-> [ordinal |-> FALSE, rva |-> Displacement(i)]]
      thunks == {i \in n : imports[i].thunk}
  IN  /\ phase = "finalize"
      /\ at' = <<1, 1>>
      /\ IF imports = <<>> THEN phase' = "relocate" /\ UNCHANGED tables
         ELSE IF \/ LayoutOf("text") = {} \/ LayoutOf("rdata") = {}
                 \/ \E i \in thunks : ~InInt32(Displacement(i))
         THEN Fail /\ UNCHANGED tables
         ELSE /\ tables' = {entry(dlls[imports[i].index].ilt, i) : i \in n}
                           \cup {entry(dlls[imports[i].index].iat, i) : i \in n}
                           \cup {stub(i) : i \in thunks}
              /\ phase' = "relocate"
      /\ LinkKept /\ UNCHANGED <<merged, globals, address, libs, dlls, imports, layout, patches, file>>

-----------------------------------------------------------------------------
NoTarget == [found |-> FALSE, kind |-> "none", offset |-> 0]

\* relocation_resolve_target: the object's own definition, else the global one.
TargetGlobal(o, s) ==
  LET i == GlobalIndex(syms[<<o, s>>].name)
  IN  IF i = 0 \/ ~globals[i].defined THEN NoTarget
      ELSE [found |-> TRUE, kind |-> globals[i].kind, offset |-> globals[i].offset]
Target(o, s) ==
  IF <<o, s>> \notin DOMAIN syms \/ syms[<<o, s>>].auxiliary THEN NoTarget
  ELSE IF syms[<<o, s>>].defined
  THEN [found |-> TRUE, kind |-> syms[<<o, s>>].kind, offset |-> syms[<<o, s>>].offset]
  ELSE TargetGlobal(o, s)

Width(r) == IF r.type = "addr64" THEN 8 ELSE 4

\* The value link_apply_relocations stores for relocation r at an address.  A
\* symbol of a section without bytes has no address in the image.
VirtualAddress(t) == address[t.kind] + t.offset
Rva(t) == IF VirtualAddress(t) >= ImageBase THEN VirtualAddress(t) - ImageBase
          ELSE VirtualAddress(t)
AbsoluteValue(r, t) ==
  CASE r.type = "addr64" -> VirtualAddress(t) + r.addend
    [] r.type = "addr32nb" -> Rva(t) + r.addend
    [] r.type = "secrel" -> t.offset + r.addend

Value(r, t, patchAddress) ==
  IF r.type = "rel32" THEN VirtualAddress(t) + r.addend - (patchAddress + 4)
  ELSE AbsoluteValue(r, t)

InRange(r, v) ==
  CASE r.type = "rel32" -> InInt32(v)
    [] r.type = "addr64" -> v >= 0
    [] OTHER -> 0 <= v /\ v < Word32

\* A field may not reach past the merged section.
Fits(k, offset, r) == offset + Width(r) <= merged[k].size

\* The patch of one relocation of section <<o, s>>, or none if it cannot be done.
PatchOf(o, s, r) ==
  LET p == place[<<o, s>>]
      t == Target(o, r.symbol)
      offset == p.offset + r.at
      v == Value(r, t, address[p.kind] + offset)
  IN  IF /\ t.found
         /\ r.type \in {"rel32", "addr64", "addr32nb", "secrel"}
         /\ Fits(p.kind, offset, r)
         /\ InRange(r, v)
      THEN {[kind |-> p.kind, at |-> offset, width |-> Width(r), value |-> v]}
      ELSE {}

\* link_apply_relocations, one section of one object.
RelocateSection ==
  LET section == objects[at[1]].sections[at[2]]
      relocs == section.relocs
      done == UNION {PatchOf(at[1], at[2], relocs[i]) : i \in DOMAIN relocs}
  IN  /\ phase = "relocate" /\ at[1] <= Len(objects) /\ at[2] <= Len(objects[at[1]].sections)
      /\ at' = <<at[1], at[2] + 1>>
      /\ IF relocs = <<>> \/ (place[at].kind = "none" /\ section.debug)
         THEN UNCHANGED <<phase, patches>>
         ELSE IF place[at].kind = "none"
                 \/ \E i \in DOMAIN relocs : PatchOf(at[1], at[2], relocs[i]) = {}
         THEN Fail /\ UNCHANGED patches
         ELSE patches' = patches \cup done /\ UNCHANGED phase
      /\ LinkKept /\ UNCHANGED <<merged, globals, address, libs, dlls, imports, layout, tables, file>>

RelocateNextObject ==
  /\ phase = "relocate" /\ at[1] <= Len(objects) /\ at[2] > Len(objects[at[1]].sections)
  /\ at' = <<at[1] + 1, 1>>
  /\ LinkKept /\ UNCHANGED <<phase, merged, globals, address, pevars>>

EndRelocate ==
  /\ phase = "relocate" /\ at[1] > Len(objects)
  /\ phase' = "write"
  /\ LinkKept /\ UNCHANGED <<at, merged, globals, address, pevars>>

\* fopen, pe_write_headers, pe_write_payloads.  The result of fclose is not
\* looked at: what it fails to flush is lost without a word.
WriteImage ==
  /\ phase = "write"
  /\ \/ phase' = "linked" /\ file' \in {"complete", "partial"}
     \/ phase' = "failed" /\ file' \in {"old", "partial"}
  /\ LinkKept
  /\ UNCHANGED <<at, merged, globals, address, libs, dlls, imports, layout, tables, patches>>

-----------------------------------------------------------------------------
Init ==
  /\ LinkInit
  /\ libs = <<>> /\ dlls = <<>> /\ imports = <<>> /\ layout = <<>>
  /\ tables = {} /\ patches = {} /\ file = "old"

PeNext ==
  \/ CheckOptions \/ LoadLibrary \/ EndLibraries \/ ProbeDll \/ EndDlls
  \/ PlanImport \/ EndPlan \/ StoreImports \/ ValidateUnresolved
  \/ LayoutSections \/ ApplyLayout \/ FinalizeImports
  \/ RelocateSection \/ RelocateNextObject \/ EndRelocate \/ WriteImage

Next == (LinkNext /\ UNCHANGED pevars) \/ PeNext

Spec == Init /\ [][Next]_vars

-----------------------------------------------------------------------------
PhasesAfterLayout == {"apply", "finalize", "relocate", "write", "linked"}
PhasesAfterFinalize == {"relocate", "write", "linked"}

\* The image's sections overlap neither each other nor the headers, in memory or
\* in the file, start on aligned addresses, and the file holds all their bytes,
\* as long as the image does not exceed 32 bits.
ImageLayoutSound ==
  LET end[n \in 0 .. Len(layout)] ==
        IF n = 0 THEN AlignUp(SizeOfHeaders(Len(layout)), PeAlignment)
        ELSE end[n - 1] + AlignUp(layout[n].vsize, PeAlignment)
      stored == {i \in 1 .. Len(layout) : layout[i].rawSize # 0}
  IN  (phase \in PhasesAfterLayout /\ end[Len(layout)] < Word32) =>
        /\ \A i \in 1 .. Len(layout) :
             /\ layout[i].rva >= SizeOfHeaders(Len(layout))
             /\ layout[i].rva % PeAlignment = 0
             /\ layout[i].kind # "bss" => layout[i].rawSize >= merged[layout[i].kind].size
             /\ \A j \in i + 1 .. Len(layout) :
                  layout[i].rva + layout[i].vsize <= layout[j].rva
        /\ \A i \in stored :
             /\ layout[i].rawAt >= SizeOfHeaders(Len(layout))
             /\ \A j \in stored : i < j => layout[i].rawAt + layout[i].rawSize <= layout[j].rawAt

IatSlot(i) == dlls[imports[i].index].iat + imports[i].slot * 8
IltSlot(i) == dlls[imports[i].index].ilt + imports[i].slot * 8

\* Every import has slots of its own in both tables, in front of the null entry
\* that ends its DLL's table and behind the bytes of the object files, both
\* slots hold that import's entry, and its thunk jumps through its slot.
ImportTablesSound ==
  phase \in PhasesAfterFinalize =>
    \A i \in 1 .. Len(imports) :
      /\ imports[i].slot < dlls[imports[i].index].count
      /\ \A j \in 1 .. Len(imports) : i # j =>
           /\ IatSlot(i) # IatSlot(j) /\ IltSlot(i) # IltSlot(j)
           /\ IatSlot(i) # IltSlot(j)
      /\ {t.value : t \in {x \in tables : x.kind = "rdata" /\ x.at \in {IatSlot(i), IltSlot(i)}}}
           = {Entry(i)}
      /\ \A k \in 1 .. Len(merged["rdata"].parts) :
           LET p == merged["rdata"].parts[k]
           IN  p.offset + p.used <= IltSlot(i) /\ p.offset + p.used <= IatSlot(i)
      /\ IatSlot(i) + 16 <= merged["rdata"].size
      /\ imports[i].thunk =>
           \E t \in tables :
             /\ t.kind = "text" /\ t.at = imports[i].thunkAt
             /\ RvaOf("text") + t.at + 6 + t.value.rva = RvaOf("rdata") + IatSlot(i)

\* What is imported is exactly what some object refers to, none defines and a
\* library or DLL offers, and the first that offers it supplies it.  An image is
\* only written when every file was sound and every external name is defined by
\* one object or imported.
ImportsExactlyMissing ==
  /\ phase \in {"storage", "unresolved"} \cup PhasesAfterLayout =>
       LET offers(name) ==
             {i \in 1 .. Len(Libraries) : LibraryOffers(Libraries[i], name) # {}}
           exporters(name) == {i \in 1 .. Len(Dlls) : Dlls[i].loads /\ name \in Dlls[i].exports}
           missing == {n \in {SymbolAt(id).name : id \in ExternalSymbols} : Definitions(n) = {}}
           available == {n \in {Canonical(x) : x \in missing} : offers(n) \cup exporters(n) # {}}
           first(n) == Libraries[Least(offers(n))]
       IN  /\ {imports[i].name : i \in 1 .. Len(imports)} = available
           /\ \A i, j \in 1 .. Len(imports) : imports[i].name = imports[j].name => i = j
           /\ \A i \in 1 .. Len(imports) :
                LET n == imports[i].name
                IN  imports[i].dll = IF offers(n) = {} THEN Dlls[Least(exporters(n))].name
                                     ELSE first(n)[Least(LibraryOffers(first(n), n))].dll
           /\ \A i \in 1 .. Len(imports) :
                /\ imports[i].iatsym <=> \E x \in missing : IsImp(x) /\ Canonical(x) = imports[i].name
                /\ imports[i].thunk <=> imports[i].name \in missing \ ImpNames
  /\ phase \in {"write", "linked"} =>
       /\ WellFormedInput
       /\ \A id \in ExternalSymbols :
            Definitions(SymbolAt(id).name) # {} \/ ImportOf(SymbolAt(id).name) # 0

\* Where a symbol of an object ends up in the image, from the final layout alone.
PlacedAt(id) == RvaOf(place[<<id[1], SymbolAt(id).section>>].kind)
                + place[<<id[1], SymbolAt(id).section>>].offset + SymbolAt(id).value
OwnDefinition(id) ==
  /\ SymbolAt(id).section > 0
  /\ place[<<id[1], SymbolAt(id).section>>].kind # "none"
FinalRva(id) ==
  LET name == SymbolAt(id).name
      i == ImportOf(name)
  IN  IF OwnDefinition(id) THEN PlacedAt(id)
      ELSE IF Definitions(name) # {} THEN PlacedAt(CHOOSE d \in Definitions(name) : TRUE)
      ELSE IF IsImp(name) THEN RvaOf("rdata") + IatSlot(i)
      ELSE RvaOf("text") + imports[i].thunkAt
FinalKind(id) ==
  LET name == SymbolAt(id).name
      kindOf(d) == place[<<d[1], SymbolAt(d).section>>].kind
  IN  IF OwnDefinition(id) THEN kindOf(id)
      ELSE IF Definitions(name) # {} THEN kindOf(CHOOSE d \in Definitions(name) : TRUE)
      ELSE IF IsImp(name) THEN "rdata" ELSE "text"
\* The section of the definition has bytes.
InImage(id) == LayoutOf(FinalKind(id)) # {}

\* Every relocation of every merged section has been applied before the file is
\* opened, and the stored value leads from the final place of the field to the
\* final place of what it names: the object's own definition, the one definition
\* among all objects, or the import's slot or thunk.
RelocationsHit ==
  phase \in {"write", "linked"} =>
    \A id \in SectionIds(objects) :
      LET section == objects[id[1]].sections[id[2]]
          kind == section.kind
      IN  kind # "none" => \A n \in DOMAIN section.relocs :
            LET r == section.relocs[n]
                target == <<id[1], r.symbol>>
                field == place[id].offset + r.at
            IN  InImage(target) => \E p \in patches :
                  /\ p.kind = kind /\ p.at = field
                  /\ CASE r.type = "rel32" ->
                              RvaOf(kind) + field + 4 + p.value = FinalRva(target) + r.addend
                       [] r.type = "addr64" -> p.value = ImageBase + FinalRva(target) + r.addend
                       [] r.type = "addr32nb" -> p.value = FinalRva(target) + r.addend
                       [] r.type = "secrel" ->
                            RvaOf(FinalKind(target)) + p.value = FinalRva(target) + r.addend

=============================================================================
