----------------------------- MODULE LinkResolve -----------------------------
(***************************************************************************)
(* The first half of the internal linker, src/src/linker/symbol_resolve.c: *)
(* link_resolution_build loads the object files, merges their sections,    *)
(* builds the symbol tables, assigns addresses and checks the externals.   *)
(*                                                                         *)
(* An object file is what coff_object_read returns: sections [kind, raw,   *)
(* virtual, align, aux, relocs] and symbols [name, external, auxiliary,    *)
(* section, value], or a file it cannot read.  kind is "none" for a        *)
(* section that is not merged; align is 0 when the characteristics give    *)
(* none; aux is the length recorded by the section's own symbol, 0 without *)
(* one.  Bytes are abstracted to who wrote them: `writes' lists the        *)
(* segments of a merged section in the order they were written.            *)
(***************************************************************************)
EXTENDS Integers, Sequences, FiniteSets

CONSTANTS
  ObjectFiles,       \* the object files a command line may name
  MaxObjects,        \* bound on their number
  EntryName,         \* options->entry_symbol_name; no caller leaves it out
  SectionAlignment,  \* options->section_alignment
  AllowUnresolved    \* options->allow_unresolved_externals

\* The order of LinkResolution.sections.
KindOrder == <<"text", "rdata", "data", "bss", "pdata", "xdata">>
MergedKinds == {"text", "rdata", "data", "bss", "pdata", "xdata"}

ASSUME BoundAssumption == MaxObjects \in Nat
ASSUME AlignmentAssumption == SectionAlignment \in Nat
ASSUME FlagAssumption == AllowUnresolved \in BOOLEAN

\* What coff_object_read guarantees of the files it accepts.
SectionRecord ==
  [kind : MergedKinds \cup {"none"}, raw : Nat, virtual : Nat, align : Nat, aux : Nat, debug : BOOLEAN,
   relocs : Seq([type : STRING, at : Nat, symbol : Nat, addend : Int])]
SymbolRecord ==
  [name : STRING, external : BOOLEAN, auxiliary : BOOLEAN, section : Int, value : Nat]
ASSUME FilesAssumption ==
  \A f \in ObjectFiles : /\ f.sections \in Seq(SectionRecord)
                         /\ f.symbols \in Seq(SymbolRecord)

VARIABLES
  phase,     \* what link_resolution_build is doing; "resolved", "failed"
  objects,   \* the object files, in command-line order
  at,        \* the loops' cursor: object, and section or symbol in it
  merged,    \* LinkResolution.sections, without their addresses
  place,     \* section_merged_indices, section_merged_offsets of every object
  syms,      \* LinkedInputObject.symbols of every object
  globals,   \* LinkResolution.symbols
  address    \* LinkedSection.virtual_address

linkvars == <<phase, objects, at, merged, place, syms, globals, address>>

\* linker_align_up; alignments are powers of two.
AlignUp(v, a) == IF a = 0 \/ v % a = 0 THEN v ELSE v + (a - (v % a))

Larger(x, y) == IF x > y THEN x ELSE y

SectionIds(objs) ==
  UNION {{o} \X (1 .. Len(objs[o].sections)) : o \in 1 .. Len(objs)}
SymbolIds(objs) ==
  UNION {{o} \X (1 .. Len(objs[o].symbols)) : o \in 1 .. Len(objs)}

FallbackAlignment == IF SectionAlignment > 1 THEN SectionAlignment ELSE 16

\* link_section_alignment: what the characteristics say, else the fallback.
AlignmentOf(section) ==
  IF section.align # 0 THEN section.align ELSE FallbackAlignment

\* link_estimate_section_size.
EstimatedSize(object, s) ==
  LET section == object.sections[s]
      base == Larger(section.raw, section.virtual)
      ends == {object.symbols[i].value + 1 :
                 i \in {j \in DOMAIN object.symbols :
                          /\ ~object.symbols[j].auxiliary
                          /\ object.symbols[j].section = s}}
  IN  IF section.aux # 0 THEN section.aux
      ELSE IF section.kind # "bss" THEN base
      ELSE CHOOSE n \in {base} \cup ends : \A m \in {base} \cup ends : m <= n

EmptySection == [size |-> 0, vsize |-> 0, align |-> 1, parts |-> <<>>, writes |-> <<>>]
Unplaced == [kind |-> "none", offset |-> 0]

-----------------------------------------------------------------------------
\* Bytes are appended at `size'; a gap in front of them is zeroed first.
Segment(from, to, by) == IF from < to THEN <<[from |-> from, to |-> to, by |-> by]>> ELSE <<>>

Fail == phase' = "failed"

\* link_resolution_load_objects, one object file.
LoadObject ==
  /\ phase = "load" /\ at[1] <= Len(objects)
  /\ at' = <<at[1] + 1, 1>>
  /\ IF objects[at[1]].readable THEN UNCHANGED phase ELSE Fail
  /\ UNCHANGED <<objects, merged, place, syms, globals, address>>

EndLoad ==
  /\ phase = "load" /\ at[1] > Len(objects)
  /\ phase' = "merge"
  /\ at' = <<1, 1>>
  /\ UNCHANGED <<objects, merged, place, syms, globals, address>>

\* Where the next contribution to a merged section starts.
StartAtSize(m, a) == AlignUp(m.size, a)
Start(m, a) == AlignUp(m.vsize, a)

\* The zeroes between the last contribution and the next one.
Padding(m, start) == Segment(m.size, start, "zero")

\* The merged section after one contribution.
Contribute(m, id, section, size) ==
  LET a == AlignmentOf(section)
      start == Start(m, a)
      end == start + section.raw
      used == IF section.kind = "bss" THEN size ELSE section.raw
      part == [id |-> id, offset |-> start, used |-> used, align |-> a]
  IN  IF section.kind = "bss"
      THEN [m EXCEPT !.align = Larger(@, a),
                     !.vsize = Larger(@, start + size),
                     !.parts = Append(@, part)]
      ELSE [size |-> end,
            vsize |-> Larger(m.vsize, end),
            align |-> Larger(m.align, a),
            parts |-> Append(m.parts, part),
            writes |-> m.writes \o Padding(m, start) \o Segment(start, end, id)]

\* link_resolution_merge_sections, one section of one object.
MergeSection ==
  LET object == objects[at[1]]
      section == object.sections[at[2]]
      m == merged[section.kind]
  IN  /\ phase = "merge" /\ at[1] <= Len(objects) /\ at[2] <= Len(object.sections)
      /\ at' = <<at[1], at[2] + 1>>
      /\ IF section.kind \in MergedKinds
         THEN /\ merged' = [merged EXCEPT ![section.kind] =
                              Contribute(m, at, section, EstimatedSize(object, at[2]))]
              /\ place' = [place EXCEPT ![at] =
                             [kind |-> section.kind,
                              offset |-> Start(m, AlignmentOf(section))]]
         ELSE UNCHANGED <<merged, place>>
      /\ UNCHANGED <<phase, objects, syms, globals, address>>

MergeNextObject ==
  /\ phase = "merge" /\ at[1] <= Len(objects) /\ at[2] > Len(objects[at[1]].sections)
  /\ at' = <<at[1] + 1, 1>>
  /\ UNCHANGED <<phase, objects, merged, place, syms, globals, address>>

EndMerge ==
  /\ phase = "merge" /\ at[1] > Len(objects)
  /\ phase' = "symbols"
  /\ at' = <<1, 1>>
  /\ UNCHANGED <<objects, merged, place, syms, globals, address>>

-----------------------------------------------------------------------------
\* link_resolution_find_symbol: the index of a name in `globals', 0 if absent.
GlobalIndex(name) ==
  LET found == {i \in 1 .. Len(globals) : globals[i].name = name}
  IN  IF found = {} THEN 0 ELSE CHOOSE i \in found : TRUE

NoSymbol == [name |-> "", external |-> FALSE, auxiliary |-> FALSE, defined |-> FALSE,
             kind |-> "none", offset |-> 0]

\* The LinkedObjectSymbol of a symbol: defined only if its section was merged,
\* p, and at its place there.
ObjectSymbol(symbol, p, defined, offset) ==
  [name |-> symbol.name, auxiliary |-> symbol.auxiliary,
   external |-> symbol.external /\ ~symbol.auxiliary,
   defined |-> defined,
   kind |-> IF defined THEN p.kind ELSE "none",
   offset |-> IF defined THEN offset ELSE 0]
PlaceOf(o, symbol) == IF symbol.section > 0 THEN place[<<o, symbol.section>>] ELSE Unplaced

ResolvedUnplaced(o, symbol) ==
  LET p == PlaceOf(o, symbol)
  IN  ObjectSymbol(symbol, p, ~symbol.auxiliary /\ p.kind # "none", symbol.value)
Resolved(o, symbol) ==
  LET p == PlaceOf(o, symbol)
  IN  ObjectSymbol(symbol, p, ~symbol.auxiliary /\ p.kind # "none", p.offset + symbol.value)

\* A second definition of an external name.
Duplicate(i, r) == i # 0 /\ globals[i].defined /\ r.defined

GlobalSymbol(id, r) ==
  [name |-> r.name, defined |-> r.defined, owner |-> IF r.defined THEN id ELSE <<0, 0>>,
   kind |-> r.kind, offset |-> r.offset]

\* link_resolution_record_global_symbol: `globals' after an external symbol.
Recorded(id, r) ==
  LET i == GlobalIndex(r.name)
  IN  IF i = 0 THEN Append(globals, GlobalSymbol(id, r))
      ELSE IF r.defined THEN [globals EXCEPT ![i] = GlobalSymbol(id, r)] ELSE globals

\* link_resolution_build_symbols, one symbol of one object.
BuildSymbol ==
  LET object == objects[at[1]]
      symbol == object.symbols[at[2]]
      outside == ~symbol.auxiliary /\ symbol.section > Len(object.sections)
      r == Resolved(at[1], symbol)
  IN  /\ phase = "symbols" /\ at[1] <= Len(objects) /\ at[2] <= Len(object.symbols)
      /\ at' = <<at[1], at[2] + 1>>
      /\ IF outside \/ (r.external /\ Duplicate(GlobalIndex(r.name), r))
         THEN Fail /\ UNCHANGED <<syms, globals>>
         ELSE /\ syms' = [syms EXCEPT ![at] = r]
              /\ globals' = IF r.external THEN Recorded(at, r) ELSE globals
              /\ UNCHANGED phase
      /\ UNCHANGED <<objects, merged, place, address>>

SymbolsNextObject ==
  /\ phase = "symbols" /\ at[1] <= Len(objects) /\ at[2] > Len(objects[at[1]].symbols)
  /\ at' = <<at[1] + 1, 1>>
  /\ UNCHANGED <<phase, objects, merged, place, syms, globals, address>>

EndSymbols ==
  /\ phase = "symbols" /\ at[1] > Len(objects)
  /\ phase' = "addresses"
  /\ UNCHANGED <<objects, at, merged, place, syms, globals, address>>

\* link_resolution_assign_virtual_addresses: sections of the given lengths one
\* after the other.
AddressesFor(length) ==
  LET after[n \in 0 .. Len(KindOrder)] ==   \* current_address after n sections
        IF n = 0 THEN 0
        ELSE IF length[KindOrder[n]] = 0 THEN after[n - 1]
        ELSE AlignUp(after[n - 1], FallbackAlignment) + length[KindOrder[n]]
      index(k) == CHOOSE n \in 1 .. Len(KindOrder) : KindOrder[n] = k
  IN  [k \in MergedKinds |-> IF length[k] = 0 THEN 0 ELSE after[index(k)] - length[k]]
Addresses == AddressesFor([k \in MergedKinds |-> merged[k].vsize])

AssignVirtualAddresses ==
  /\ phase = "addresses"
  /\ phase' = "validate"
  /\ address' = Addresses
  /\ UNCHANGED <<objects, at, merged, place, syms, globals>>

Unresolved == {i \in 1 .. Len(globals) : ~globals[i].defined}
EntryResolved == GlobalIndex(EntryName) # 0 /\ globals[GlobalIndex(EntryName)].defined

ExternalsValidIfEntry == EntryResolved
ExternalsValid == (AllowUnresolved \/ Unresolved = {}) /\ EntryResolved

\* link_resolution_validate_externals.  On any failure link_resolution_build
\* destroys the resolution and returns nothing.
ValidateExternals ==
  /\ phase = "validate"
  /\ IF ExternalsValid THEN phase' = "resolved" ELSE Fail
  /\ UNCHANGED <<objects, at, merged, place, syms, globals, address>>

-----------------------------------------------------------------------------
CommandLines == UNION {[1 .. n -> ObjectFiles] : n \in 1 .. MaxObjects}

LinkInit ==
  /\ phase = "load"
  /\ objects \in CommandLines
  /\ at = <<1, 1>>
  /\ merged = [k \in MergedKinds |-> EmptySection]
  /\ place = [id \in SectionIds(objects) |-> Unplaced]
  /\ syms = [id \in SymbolIds(objects) |-> NoSymbol]
  /\ globals = <<>>
  /\ address = [k \in MergedKinds |-> 0]

LinkNext ==
  \/ LoadObject \/ EndLoad \/ MergeSection \/ MergeNextObject \/ EndMerge
  \/ BuildSymbol \/ SymbolsNextObject \/ EndSymbols \/ AssignVirtualAddresses \/ ValidateExternals

LinkSpec == LinkInit /\ [][LinkNext]_linkvars

-----------------------------------------------------------------------------
\* Sizes, alignments and offsets are natural numbers, and a symbol that counts as
\* defined has a merged section to be in.
LinkTypeOK ==
  /\ phase \in {"load", "merge", "symbols", "addresses", "validate", "resolved", "failed"}
  /\ \A k \in MergedKinds : merged[k].size \in Nat /\ merged[k].vsize \in Nat
                             /\ merged[k].align \in Nat
  /\ \A id \in DOMAIN place : place[id].kind \in MergedKinds \cup {"none"}
                               /\ place[id].offset \in Nat
  /\ \A id \in DOMAIN syms : syms[id].defined => syms[id].kind \in MergedKinds

\* No two contributions to a merged section share a byte, those of a .bss included,
\* and all lie inside the section (link_resolution_merge_sections).
ContributionsDisjoint ==
  \A k \in MergedKinds :
    LET p == merged[k].parts
    IN  /\ \A i \in 1 .. Len(p) : p[i].offset + p[i].used <= merged[k].vsize
        /\ \A i, j \in 1 .. Len(p) : i < j => p[i].offset + p[i].used <= p[j].offset

\* Every contribution starts where the alignment of its own section asks for.
ContributionsAligned ==
  \A k \in MergedKinds : \A i \in 1 .. Len(merged[k].parts) :
    merged[k].parts[i].offset % merged[k].parts[i].align = 0

\* No contribution is laid over another or off its alignment.
ContributionsPlaced == ContributionsDisjoint /\ ContributionsAligned

\* Every byte of a merged section's data was written exactly once: no heap
\* garbage reaches the image and no contribution overwrites another.
BytesWrittenOnce ==
  \A k \in MergedKinds :
    LET w == merged[k].writes
    IN  /\ merged[k].size = IF w = <<>> THEN 0 ELSE w[Len(w)].to
        /\ w # <<>> => w[1].from = 0
        /\ \A i \in 1 .. Len(w) - 1 : w[i + 1].from = w[i].to

\* A symbol of an object stands at the same distance from the start of its own
\* object's contribution as in the object file, whatever was merged before it.
SymbolsFollowTheirSection ==
  \A id \in DOMAIN syms : syms[id].defined =>
    LET s == objects[id[1]].symbols[id[2]]
        parts == merged[syms[id].kind].parts
    IN  \E i \in 1 .. Len(parts) :
          /\ parts[i].id = <<id[1], s.section>>
          /\ syms[id].offset = parts[i].offset + s.value

\* What the command line asks for, in terms of the object files alone.
ExternalSymbols ==
  {id \in SymbolIds(objects) : objects[id[1]].symbols[id[2]].external
                                /\ ~objects[id[1]].symbols[id[2]].auxiliary}
SymbolAt(id) == objects[id[1]].symbols[id[2]]
Definitions(name) ==
  {id \in ExternalSymbols :
     /\ SymbolAt(id).name = name
     /\ SymbolAt(id).section \in 1 .. Len(objects[id[1]].sections)
     /\ objects[id[1]].sections[SymbolAt(id).section].kind \in MergedKinds}

WellFormedInput ==
  /\ \A o \in 1 .. Len(objects) : objects[o].readable
  /\ \A id \in SymbolIds(objects) :
       SymbolAt(id).auxiliary \/ SymbolAt(id).section <= Len(objects[id[1]].sections)
  /\ \A id \in ExternalSymbols : Cardinality(Definitions(SymbolAt(id).name)) <= 1

\* The global table has one entry for each external name, and an entry is
\* defined exactly when some object defines the name, by that definition: it
\* does not matter whether references or the definition came first.
GlobalsAgreeWithObjects ==
  /\ \A i, j \in 1 .. Len(globals) : globals[i].name = globals[j].name => i = j
  /\ {globals[i].name : i \in 1 .. Len(globals)} = {SymbolAt(id).name : id \in ExternalSymbols}
  /\ \A i \in 1 .. Len(globals) :
       /\ globals[i].defined <=> Definitions(globals[i].name) # {}
       /\ globals[i].defined =>
            /\ globals[i].owner \in Definitions(globals[i].name)
            /\ globals[i].offset = syms[globals[i].owner].offset
            /\ globals[i].kind = syms[globals[i].owner].kind

\* link_resolution_build succeeds exactly when every file can be read, no name
\* is defined twice, no symbol refers outside its section table, the entry point
\* is defined and, unless unresolved names are allowed, so is every other one;
\* and then its symbol table agrees with the object files.
OutcomeAsSpecified ==
  LET linkable == /\ WellFormedInput
                  /\ Definitions(EntryName) # {}
                  /\ AllowUnresolved \/ \A id \in ExternalSymbols :
                                          Definitions(SymbolAt(id).name) # {}
  IN  /\ phase = "resolved" => linkable /\ GlobalsAgreeWithObjects
      /\ phase = "failed" => ~linkable
=============================================================================
