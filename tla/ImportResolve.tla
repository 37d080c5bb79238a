--------------------------- MODULE ImportResolve ---------------------------
(***************************************************************************)
(* The import resolver (import_resolver.c): process_imports_recursive walks *)
(* the top-level items of a file, goes into every file it imports, filters  *)
(* and renames what comes back, and flattens everything into one program.   *)
(*                                                                         *)
(* The recursion is an explicit stack of frames, one per file being         *)
(* processed.  ctxs is the stack of ImportContexts: a namespaced import is   *)
(* processed in a child of the context around it.  filtered in a declaration *)
(* and dropped in a context are history for the properties: whether it came  *)
(* through an import that is not plain, and what the filters left out.       *)
(***************************************************************************)
EXTENDS ImportPaths, FiniteSets

CONSTANTS
    Root,       \* the file the compiler was started on
    Projects,   \* the projects: file -> its items, or Unparsable
    NoAlias,
    Unparsable

VARIABLES
    project,   \* the sources on disk
    frames,    \* the calls of process_imports_recursive, innermost last
    ctxs,      \* their ImportContexts, innermost last
    hadError,
    finished

vars == <<project, frames, ctxs, hadError, finished>>

----------------------------------------------------------------------------
(* Items.  A name is a sequence: <<"q", "f">> is what build_qualified_name   *)
(* makes of q and f.  A reference written q.f has via = "q" until a binding  *)
(* of q turns it into a name.  walked says whether it stands in a part of    *)
(* the tree that collect_called_function_names goes into (calls, operands,   *)
(* control flow) or not (types, defer, match, casts, methods).  to is the    *)
(* file whose declaration is meant, which the compiler does not know.        *)

Import(path, alias, selected) == [path |-> path, alias |-> alias, selected |-> selected]

Ref(via, name, walked, to) == [via |-> via, name |-> name, walked |-> walked, to |-> to]

\* An import_str.  walked says whether process_import_strs_in_node gets to it: it
\* enters initializers, function bodies, call arguments, assigned and returned
\* values, operators, if, loops and switch, and not methods and impl blocks,
\* deferred statements, match, casts, index and member expressions, the arguments
\* of a call through a pointer or the target of an assignment.
Embed(path, walked) == [path |-> path, walked |-> walked]

\* A declaration, the at-th item of file.  An impl block has the name <<>>.
Decl(file, at, name, exported, uses, embeds) ==
    [file |-> file, at |-> at, name |-> name, exported |-> exported, uses |-> uses,
     embeds |-> embeds, texts |-> {}, filtered |-> FALSE]

IsImport(item) == "path" \in DOMAIN item
IsPlain(item) == item.alias = NoAlias /\ item.selected = {}

\* is_declaration_exported: an impl block always is.
Exported(decl) == decl.exported \/ decl.name = <<>>

WalkedNames(decl) == {r.name : r \in {x \in ToSet(decl.uses) : x.walked}}

\* The sources: the root file can be parsed, a file that can is a sequence of
\* imports and of its own declarations, and what an import leads to is there.
IsItem(file, at, item) ==
    IF IsImport(item)
    THEN item = Import(item.path, item.alias, item.selected) /\ <<>> \notin item.selected
    ELSE /\ item = Decl(file, at, item.name, item.exported, item.uses, item.embeds)
         /\ item.exported \in BOOLEAN
         /\ item.name \in Seq(ToSet(item.name)) /\ item.uses \in Seq(ToSet(item.uses))
         /\ \A e \in item.embeds : e = Embed(e.path, e.walked) /\ e.walked \in BOOLEAN

IsProject(p) ==
    /\ Root \in DOMAIN p /\ p[Root] # Unparsable
    /\ \A f \in DOMAIN p : p[f] # Unparsable =>
           /\ p[f] \in Seq(ToSet(p[f]))
           /\ \A n \in DOMAIN p[f] :
                  /\ IsItem(f, n, p[f][n])
                  /\ IsImport(p[f][n]) =>
                         ResolveImportPath(f, p[f][n].path) \in DOMAIN p \cup {NotFound}

ASSUME ProjectsAssumption == \A p \in Projects : IsProject(p)

----------------------------------------------------------------------------
(* Which declarations of an imported program are taken over.                 *)

FirstNamed(prog, name) ==
    CHOOSE i \in DOMAIN prog :
        /\ prog[i].name = name
        /\ \A k \in 1 .. i - 1 : prog[k].name # name

IsNamed(prog, name) == name # <<>> /\ \E i \in DOMAIN prog : prog[i].name = name

\* Mutant of TakeName: what is brought in is not looked into.
TakeNameOnly(prog, acc, name) ==
    IF name \in acc.names \/ ~ IsNamed(prog, name)
    THEN acc
    ELSE [acc EXCEPT !.names = @ \cup {name}, !.included = @ \cup {FirstNamed(prog, name)}]

\* One reference of the declaration the worklist works on: a name seen for the
\* first time brings in the first declaration of that name.
TakeName(prog, acc, name) ==
    IF name \in acc.names THEN acc
    ELSE IF ~ IsNamed(prog, name) \/ FirstNamed(prog, name) \in acc.included
         THEN [acc EXCEPT !.names = @ \cup {name}]
         ELSE [names |-> acc.names \cup {name},
               included |-> acc.included \cup {FirstNamed(prog, name)},
               work |-> Append(acc.work, FirstNamed(prog, name))]

\* One round of the worklist loop: the last index is taken off and expanded.
Expand(prog, acc) ==
    LET uses == prog[Last(acc.work)].uses
        after[n \in 0 .. Len(uses)] ==
            IF n = 0 THEN [acc EXCEPT !.work = Front(@)]
            ELSE IF uses[n].walked THEN TakeName(prog, after[n - 1], uses[n].name)
            ELSE after[n - 1]
    IN after[Len(uses)]

\* The numbers of indices up to n, in order.
InOrder(indices, n) ==
    LET upto[k \in 0 .. n] ==
            IF k = 0 THEN <<>>
            ELSE IF k \in indices THEN Append(upto[k - 1], k)
            ELSE upto[k - 1]
    IN upto[n]

\* The export dependency closure.  Every declaration enters the worklist at
\* most once, so there are at most Len(prog) rounds.
ExportClosure(prog) ==
    LET seeds == {i \in DOMAIN prog : Exported(prog[i])}
        round[k \in 0 .. Len(prog)] ==
            IF k = 0 THEN [names |-> {}, included |-> seeds, work |-> InOrder(seeds, Len(prog))]
            ELSE IF round[k - 1].work = <<>> THEN round[k - 1]
            ELSE Expand(prog, round[k - 1])
    IN round[Len(prog)].included

\* One declaration of a sweep of the selective import.
Pull(prog, acc, i) ==
    IF i \in acc.included \/ prog[i].name = <<>> \/ prog[i].name \notin acc.names
    THEN acc
    ELSE [included |-> acc.included \cup {i},
          names |-> acc.names \cup WalkedNames(prog[i])]

Sweep(prog, acc) ==
    LET after[n \in 0 .. Len(prog)] == IF n = 0 THEN acc ELSE Pull(prog, after[n - 1], n)
    IN after[Len(prog)]

\* Sweeps until nothing changes; a sweep that changes something includes a
\* declaration more, so there are at most Len(prog) of those.
SelectiveClosure(prog, selected) ==
    LET sweep[k \in 0 .. Len(prog)] ==
            IF k = 0 THEN [included |-> {}, names |-> selected] ELSE Sweep(prog, sweep[k - 1])
    IN sweep[Len(prog)].included

Included(prog, import) ==
    CASE import.selected # {} -> SelectiveClosure(prog, import.selected)
      [] import.selected = {} /\ (\E i \in DOMAIN prog : Exported(prog[i])) -> ExportClosure(prog)
      [] OTHER -> DOMAIN prog

----------------------------------------------------------------------------
(* Rewriting names and reading embedded files.                               *)

\* rewrite_program_names with namespace bindings: q.f becomes the name q__f.
BindRef(r, aliases) ==
    IF r.via \in aliases THEN [r EXCEPT !.via = NoAlias, !.name = <<r.via>> \o @] ELSE r

BindAliases(prog, aliases) ==
    [i \in DOMAIN prog |->
        [prog[i] EXCEPT !.uses = [k \in DOMAIN @ |-> BindRef(@[k], aliases)]]]

\* Mutant of Qualify: the declarations are renamed, the references to them are not.
QualifyDeclarations(prog, included, alias) ==
    LET names == {prog[i].name : i \in included} \ {<<>>}
    IN [i \in DOMAIN prog |->
           [prog[i] EXCEPT !.name = IF @ \in names THEN <<alias>> \o @ ELSE @]]

\* collect_namespaced_rewrites over the included declarations, then
\* rewrite_program_names with the rewrites: declarations and references alike.
Qualify(prog, included, alias) ==
    LET names == {prog[i].name : i \in included} \ {<<>>}
        new(name) == IF name \in names THEN <<alias>> \o name ELSE name
        ref(r) == IF r.via = NoAlias THEN [r EXCEPT !.name = new(@)] ELSE r
    IN [i \in DOMAIN prog |->
           [prog[i] EXCEPT !.name = new(@), !.uses = [k \in DOMAIN @ |-> ref(@[k])]]]

\* process_import_strs_in_node: of what the walk gets to, what is found becomes a
\* text and what is not is reported and stays; the rest stays without a report.
EmbedsFound(file, decl) ==
    {e \in decl.embeds : e.walked /\ ResolveImportPath(file, e.path) # NotFound}

EmbedTexts(prog, file) ==
    [i \in DOMAIN prog |->
        [prog[i] EXCEPT
            !.embeds = @ \ EmbedsFound(file, prog[i]),
            !.texts = @ \cup {[path |-> e.path, text |-> ResolveImportPath(file, e.path)] :
                                  e \in EmbedsFound(file, prog[i])}]]

EmbedsMissing(prog, file) ==
    \E i \in DOMAIN prog : \E e \in prog[i].embeds : e.walked /\ e \notin EmbedsFound(file, prog[i])

\* The declarations with the given indices, in order.
Select(prog, indices) ==
    LET kept == InOrder(indices, Len(prog))
    IN [k \in DOMAIN kept |-> prog[kept[k]]]

----------------------------------------------------------------------------
Top == Last(frames)
TopCtx == Last(ctxs)

Items(file) == project[file]
AtItem == ~ finished /\ Top.next <= Len(Items(Top.file))
Item == Items(Top.file)[Top.next]
ItemFile == ResolveImportPath(Top.file, Item.path)

\* The current frame with its next item behind it.
Advanced(frame) == [frame EXCEPT !.next = @ + 1]
ReplaceTop(frame) == [frames EXCEPT ![Len(frames)] = frame]

Frame(file, import) ==
    [file |-> file, import |-> import, ctx |-> 0, next |-> 1, decls |-> <<>>, aliases |-> {}]

Init ==
    /\ project \in Projects
    /\ frames = <<[Frame(Root, Import(Absolute(Root), NoAlias, {})) EXCEPT !.ctx = 1]>>
    /\ ctxs = <<[active |-> {Root}, resolved |-> {}, chain |-> <<Root>>, dropped |-> {}]>>
    /\ hadError = FALSE
    /\ finished = FALSE

TakeDeclaration ==
    /\ AtItem /\ ~ IsImport(Item)
    /\ frames' = ReplaceTop([Advanced(Top) EXCEPT
                    !.decls = Append(@, [Item EXCEPT !.filtered = Top.import.selected # {}])])
    /\ UNCHANGED <<project, ctxs, hadError, finished>>

ImportUnresolved ==
    /\ AtItem /\ IsImport(Item)
    /\ ItemFile = NotFound
    /\ hadError' = TRUE
    /\ frames' = ReplaceTop(Advanced(Top))
    /\ UNCHANGED <<project, ctxs, finished>>

\* A warning only: the import is dropped.
ImportCircular ==
    /\ AtItem /\ IsImport(Item)
    /\ ItemFile # NotFound
    /\ ItemFile \in TopCtx.active
    /\ frames' = ReplaceTop(Advanced(Top))
    /\ UNCHANGED <<project, ctxs, hadError, finished>>

ImportAgain ==
    /\ AtItem /\ IsImport(Item)
    /\ ItemFile # NotFound
    /\ ItemFile \notin TopCtx.active
    /\ IsPlain(Item) /\ ItemFile \in TopCtx.resolved
    /\ frames' = ReplaceTop(Advanced(Top))
    /\ UNCHANGED <<project, ctxs, hadError, finished>>

MustLoad ==
    /\ ItemFile # NotFound
    /\ ItemFile \notin TopCtx.active
    /\ ~ (IsPlain(Item) /\ ItemFile \in TopCtx.resolved)

\* The file cannot be read or parsed: the active set and the chain are put
\* back and the file does not count as resolved.
ImportBroken ==
    /\ AtItem /\ IsImport(Item)
    /\ MustLoad
    /\ Items(ItemFile) = Unparsable
    /\ hadError' = TRUE
    /\ frames' = ReplaceTop(Advanced(Top))
    /\ UNCHANGED <<project, ctxs, finished>>

\* import_context_init_child: a namespaced import starts with no resolved files.
ChildContext(ctx) == [ctx EXCEPT !.resolved = {}, !.dropped = {}]

EnterImport ==
    /\ AtItem /\ IsImport(Item)
    /\ MustLoad
    /\ Items(ItemFile) # Unparsable
    /\ LET ctx == [TopCtx EXCEPT !.active = @ \cup {ItemFile}, !.chain = Append(@, ItemFile)]
           entered == [ctxs EXCEPT ![Len(ctxs)] = ctx]
       IN /\ ctxs' = IF Item.alias = NoAlias THEN entered ELSE Append(entered, ChildContext(ctx))
          /\ frames' = Append(frames, [Frame(ItemFile, Item) EXCEPT !.ctx = Len(ctxs')])
    /\ UNCHANGED <<project, hadError, finished>>

\* The program of the finished frame, as the recursive call hands it back:
\* aliases bound, embedded files read.
Returned == EmbedTexts(BindAliases(Top.decls, Top.aliases), Top.file)

AtEnd == ~ finished /\ Top.next > Len(Items(Top.file))

\* What the importer takes over of the returned program.
TakenOver ==
    LET included == Included(Returned, Top.import)
        named == IF Top.import.alias = NoAlias THEN Returned
                 ELSE Qualify(Returned, included, Top.import.alias)
        marked == [i \in DOMAIN named |->
                      [named[i] EXCEPT !.filtered = @ \/ ~ IsPlain(Top.import)]]
    IN Select(marked, included)

\* History kept in the context: what a filter left out, and which kind of filter.
Dropped(decl, import) ==
    [file |-> decl.file, at |-> decl.at, selective |-> import.selected # {}, nested |-> FALSE]

\* What was left out under the child context that ends with this import.
DroppedBelow ==
    IF Top.import.alias = NoAlias THEN {}
    ELSE {[d EXCEPT !.nested = TRUE] : d \in TopCtx.dropped}

\* Mutant of AfterImport: a file is never recorded as resolved.
AfterImportForgets(ctx) ==
    [ctx EXCEPT !.active = @ \ {Top.file}, !.chain = Front(@)]

\* The context after the import: the file is no longer active, and it is
\* resolved if it was imported as a whole under its own names.
AfterImport(ctx) ==
    [active |-> ctx.active \ {Top.file},
     resolved |-> IF IsPlain(Top.import) THEN ctx.resolved \cup {Top.file} ELSE ctx.resolved,
     chain |-> Front(ctx.chain),
     dropped |-> ctx.dropped \cup DroppedBelow \cup
         {Dropped(Returned[i], Top.import) :
             i \in DOMAIN Returned \ Included(Returned, Top.import)}]

LeaveImport ==
    /\ AtEnd /\ Len(frames) > 1
    /\ hadError' = (hadError \/ EmbedsMissing(Top.decls, Top.file))
    /\ LET parent == frames[Len(frames) - 1]
           outer == IF Top.import.alias = NoAlias THEN ctxs ELSE Front(ctxs)
       IN /\ ctxs' = [outer EXCEPT ![Len(outer)] = AfterImport(@)]
          /\ frames' = Append(SubSeq(frames, 1, Len(frames) - 2),
                [Advanced(parent) EXCEPT
                    !.decls = @ \o TakenOver,
                    !.aliases = @ \cup ({Top.import.alias} \ {NoAlias})])
    /\ UNCHANGED <<project, finished>>

\* The outermost call returns to resolve_imports_with_options.
Finish ==
    /\ AtEnd /\ Len(frames) = 1
    /\ hadError' = (hadError \/ EmbedsMissing(Top.decls, Top.file))
    /\ frames' = ReplaceTop([Top EXCEPT !.decls = Returned])
    /\ ctxs' = [ctxs EXCEPT ![1].chain = Front(@)]
    /\ finished' = TRUE
    /\ UNCHANGED <<project>>

\* The resolver has returned.
Stop == finished /\ UNCHANGED vars

Next ==
    \/ TakeDeclaration
    \/ ImportUnresolved \/ ImportCircular \/ ImportAgain \/ ImportBroken
    \/ EnterImport \/ LeaveImport \/ Finish
    \/ Stop

Spec == Init /\ [][Next]_vars
----------------------------------------------------------------------------
(* Properties.                                                               *)

Files == DOMAIN project

\* Types: frames and contexts are about files of the project, at an item of the
\* file or just behind the last one, and every frame has a context.
TypeOK ==
    /\ hadError \in BOOLEAN /\ finished \in BOOLEAN
    /\ \A i \in DOMAIN frames :
           /\ frames[i].file \in Files
           /\ frames[i].next \in 1 .. Len(Items(frames[i].file)) + 1
           /\ frames[i].ctx \in DOMAIN ctxs
           /\ \A k \in DOMAIN frames[i].decls : frames[i].decls[k].file \in Files
    /\ \A k \in DOMAIN ctxs :
           /\ ctxs[k].active \subseteq Files /\ ctxs[k].resolved \subseteq Files
           /\ ctxs[k].chain \in Seq(Files)

\* The recursion ends whatever imports whatever: no file is entered while it is
\* being processed, in whichever context, and the chain the messages print is
\* the chain of the files being processed.
NoModuleInsideItself ==
    /\ \A i, k \in DOMAIN frames : i # k => frames[i].file # frames[k].file
    /\ TopCtx.active = {frames[i].file : i \in DOMAIN frames}
    /\ ~ finished => TopCtx.chain = [i \in DOMAIN frames |-> frames[i].file]

\* All the declarations that are being collected under context k.
Collected(k) ==
    UNION {{<<i, n>> : n \in DOMAIN frames[i].decls} : i \in {f \in DOMAIN frames : frames[f].ctx = k}}
CollectedDecl(at) == frames[at[1]].decls[at[2]]

\* A file that is imported from several places, by several paths or through
\* cycles is taken over exactly once.  Not twice: two copies of one of its
\* declarations mean that one of them came through a selective or a namespaced
\* import.  And not lost: of a file that counts as resolved, and so is not
\* imported again, each declaration is in the program under construction or was
\* left out by a filter, an exported one only by a selective import.
PlainModulesOnce ==
    \A k \in DOMAIN ctxs :
        /\ \A a, b \in Collected(k) :
             LET d == CollectedDecl(a)  e == CollectedDecl(b)
             IN (a # b /\ d.file = e.file /\ d.at = e.at) => (d.filtered \/ e.filtered)
        /\ \A f \in ctxs[k].resolved : \A n \in DOMAIN Items(f) :
             \/ IsImport(Items(f)[n])
             \/ \E a \in Collected(k) : CollectedDecl(a).file = f /\ CollectedDecl(a).at = n
             \/ \E d \in ctxs[k].dropped :
                    d.file = f /\ d.at = n /\ ~ d.nested /\ (d.selective \/ ~ Exported(Items(f)[n]))

\* What an import takes over is exactly what it asks for and what that needs:
\* the least set with the exported (or selected) declarations that has, with
\* each declaration, the ones whose names it uses.  A name stands for its first
\* declaration in one case and for all of them in the other.
\* By docs/imports.md:48 "When the module does use `export`, only exported names
\* may be selected"; the selective import looks at no export flag
\* (import_resolver.c:2734) and takes the PrivatelySelected declarations too.
UsesExport(prog) == \E i \in DOMAIN prog : prog[i].exported

SelectedNames(prog, import) ==
    {i \in DOMAIN prog : prog[i].name \in import.selected /\ (UsesExport(prog) => prog[i].exported)}

PrivatelySelected(prog, import) ==
    {i \in DOMAIN prog : prog[i].name \in import.selected /\ UsesExport(prog) /\ ~ prog[i].exported}

Wanted(prog, import) ==
    IF import.selected = {} THEN {i \in DOMAIN prog : Exported(prog[i])}
    ELSE SelectedNames(prog, import) \cup PrivatelySelected(prog, import)

Needs(prog, import, i) ==
    {k \in DOMAIN prog :
        /\ prog[k].name \in WalkedNames(prog[i]) \ {<<>>}
        /\ import.selected = {} => k = FirstNamed(prog, prog[k].name)}

TakesWhatIsNeeded ==
    (AtEnd /\ Len(frames) > 1) =>
        LET prog == Returned
            got == Included(prog, Top.import)
            closed(S) == /\ Wanted(prog, Top.import) \subseteq S
                         /\ \A i \in S : Needs(prog, Top.import, i) \subseteq S
        IN \/ (got = DOMAIN prog /\ Wanted(prog, Top.import) = {})
           \/ (closed(got) /\ \A S \in SUBSET got : closed(S) => S = got)

Result == frames[1].decls

\* Two files declare one name: the documents call that a collision.
Clash == \E i, k \in DOMAIN Result :
            Result[i].name = Result[k].name /\ Result[i].file # Result[k].file

\* Flattening and prefixing are hygienic: without a collision every name in the
\* finished program is declared there, by the file that declared it in the
\* sources, even when the importer declares the same name.  References that the
\* export filter does not follow are excepted, those to a file of which a filter
\* left something out, and those through the
\* alias of an import that was dropped because it closed a cycle.
NamesKeepTheirMeaning ==
    (finished /\ ~ hadError /\ ~ Clash) =>
        \A i \in DOMAIN Result : \A r \in ToSet(Result[i].uses) :
            \/ ~ r.walked
            \/ r.via # NoAlias
            \/ \E d \in ctxs[1].dropped : d.file = r.to
            \/ \E k \in DOMAIN Result : Result[k].file = r.to /\ Result[k].name = r.name

\* An import_str means a file next to the one it is written in, however deep
\* below the importer that is.  When it is not found there the resolver reports
\* an error, and what it then finds for the importer is of no consequence.  The
\* only ones that are still unread in a program without an error are those the
\* walk does not get to, which docs/imports.md:67 ("anywhere a string literal is
\* valid") does not except: no file is read for them and none is missed.
TextsFromOwnDirectory ==
    (finished /\ ~ hadError) =>
        \A i \in DOMAIN Result :
            /\ \A t \in Result[i].texts : t.text = ResolveImportPath(Result[i].file, t.path)
            /\ \A e \in Result[i].embeds : ~ e.walked

\* What a declaration says means in the flat program what it meant in its file:
\* its names and its texts.
FlatteningKeepsMeaning == NamesKeepTheirMeaning /\ TextsFromOwnDirectory

\* A file is processed once and taken over once, whatever imports it.
EachFileOnce == NoModuleInsideItself /\ PlainModulesOnce
=============================================================================
