# Mettle in TLA+

This directory holds a verification project for the Mettle compiler, its linker, its runtime and its
standard library: TLA+ modules that model parts of the program, TLC configurations that
check them on small instances, and TLAPS proofs that lift some of the results to every
instance. `PROJECT.json` is its index: which module models which component, which source
lines each definition translates (`map`), what each run checks (`runs`), how each
property can be broken (`mutants`), what is hard to test and which property watches it
(`hazards`), what is proved (`theorems`) and where documents and code disagree (`findings`).
Source paths below are relative to the repository's root.

To repeat a result: `tlc -config X.cfg MCModule` for a run, `tlapm XProofs.tla` for proofs.

## 1. The system

`mettle` compiles one program, given as a file that imports others, to assembly text, an
object file or a Windows executable. It is one sequential C program; a stage hands its
result to the next and keeps nothing for the one after that.

```
 text --lexer--> tokens --parser--> AST --import resolver--> one flat AST
   --monomorphizer--> AST without generics --type checker--> typed AST
   --IR lowering--> IR --optimizer--> IR
   --+-- code generator --> assembly text
     +-- binary backend + object emitters --> COFF/ELF --internal linker--> PE image
 at run time: profiler, crash handler, atomics; stdlib (std/net, std/thread, ...)
```

| Component | State it keeps | Operations | Interacts with |
|---|---|---|---|
| Lexer, parser (`src/lexer`, `src/parser`) | position; error recovery flag | next token; one function per construct | the import resolver starts one of each per file |
| Import resolver (`src/semantic/import_resolver.c`) | contexts with active and resolved files and the chain for messages; the program under construction | resolve a path, load and parse, recurse, filter, rename, read embedded files | parser (called for each file), error reporter (sources) |
| Monomorphizer (`src/semantic/monomorphize.c`) | generic definitions, traits, impls, the worklist of instances | collect, instantiate, rewrite, resolve trait calls | reads and rewrites the AST |
| Type checker, symbol table | scope stack, symbols, current function | declare, look up, infer, check | annotates the AST |
| IR lowering (`src/ir/ir_lowering.c`) | instructions so far, control stack, chain of defer scopes, label and temporary counters | one function per statement and expression | the optimizer's input |
| Optimizer (`src/ir/ir_optimize.c`) | the function, its version, a clean version per pass, features of the round | passes; the round loop | the backends' input |
| Code generator, binary backend | frame layout, register homes, fix-ups | one function per instruction | object emitters |
| Internal linker (`src/linker`) | merged sections, per-object and global symbols, import plan, layout | load, merge, resolve, plan imports, lay out, relocate, write | reads object files, import libraries and DLLs |
| Runtime profiler (`src/runtime/profile.c`) | counters per function, a fixed frame stack with an overflow count, call edges | enter, exit, op, report | called by the code `src/ir/ir_profile.c` inserts |
| std/net lifecycle over the spin lock of std/thread | a lock word, an int32 reference count | net_init, net_cleanup, net_is_initialized | threads, Winsock |
| Error reporter (`src/error`) | registered sources, reports | register, report, print | everyone |

What is hard here:

* **Concurrency** exists in compiled programs only. The one piece of library code that
  several threads share is std/net's lifecycle, a plain count under a spin lock whose
  critical section calls out to functions that may fail.
* **Unpaired calls and limits** in the profiler: enter may drop a frame for lack of memory
  or of stack, exit comes all the same; time is 64-bit arithmetic that wraps.
* **Order**: which import comes first, whether a reference or a definition is linked first,
  which pass ran before which.
* **Stale knowledge**: what a pass remembers of a value that has been overwritten, what
  the driver remembers of a pass, addresses handed out before the final layout.
* **Several exits**: every way out of a scope has to run the deferred statements of that
  scope and of no other; each is lowered by code of its own.
* **Partial failure**: files that do not parse, allocations, DLLs that do not load, a token lost
  in the middle of a declaration.
* **Agreements nobody states twice**: frame slots laid out by five computations, a peephole that
  takes several instructions at once, the registers of two conventions.

Properties that make the parts correct, in words: frames, times and edges of the profile
agree with each other and with what ran; a deferred statement runs exactly when its
scope is left; the linker's result depends on the object files and not on their order,
and each stored field leads to what it names; no reference to Winsock is lost and Winsock
is up while one is held; a pass keeps what the function does, and the driver stops only
when no pass has anything left to do; a program means the same after its files have been
flattened into one; a tree says what its text says; an accepted program never applies an operation
to the wrong kind of value; an instance of a generic is the type its author wrote; machine code
does what the IR does and keeps the platform's convention.

## 2. Modules

| Module | Models | Uses |
|---|---|---|
| `ProfileRuntime` | `src/src/runtime/profile.c` | |
| `DeferLowering` | statements, scopes and control flow in `ir_lowering.c` | |
| `LinkResolve` | `src/src/linker/symbol_resolve.c` | |
| `PeImage` | `pe_emitter.c`, `import_lib.c`, `relocation.c` | extends `LinkResolve` |
| `NetService` | abstract specification of the std/net lifecycle | |
| `NetLifecycle` | `stdlib/std/net.mettle`, `net_posix.mettle`, spin lock of `thread.mettle` | refines `NetService` |
| `IRCode` | `src/src/ir/ir.h` and what running IR means | |
| `IRLower` | lowering of integer expressions and structured statements | `IRCode` |
| `IRPasses` | 14 passes of `ir_optimize.c` | `IRCode` |
| `OptDriver` | the round loop of `ir_optimize_function`, for arbitrary passes | |
| `Optimizer` | driver and passes together | `OptDriver`, `IRPasses` |
| `ImportPaths` | path resolution in `import_resolver.c` | |
| `ImportResolve` | recursion, filters, renaming in `import_resolver.c` | `ImportPaths` |
| `Lexer`, `Parser` | `lexer.c`, `parser.c` | `Parser` extends `Lexer` |
| `Syntax` | the text of a tree as the documents write the language: the parser's reference | `Parser` |
| `SymbolTable`, `TypeChecker` | `symbol_table.c`, `type_checker.c` | `TypeChecker` extends `SymbolTable` |
| `TypedRuns` | what an accepted function can do when it runs: the checker's reference | `TypeChecker` |
| `Monomorphize` | `monomorphize.c` | |
| `X86` | the machine and the two platforms' conventions (external) | `IRCode` |
| `BackendFrame` | `codegen/binary/abi_spec.c`, `abi.c`: argument layout, frame, register homes | `X86` |
| `BackendEmit` | `codegen/binary/emit.c`, `peephole.c`: code of one or several IR instructions | `BackendFrame` |
| `Backend` | `emit_binary_function` in `codegen/binary/driver.c`, and the meaning of its input | `BackendEmit` |
| `*Proofs` | theorems about the module of that name | `PeImageProofs` extends `LinkResolveProofs` |
| `FiniteFacts` | counting up, sums and listings of finite sets, sequences: lemmas the proofs share | |
| `MC*` | instances for TLC | |

Some definitions stand directly behind a variant of themselves with a suffix (`CallSpace`
and `CallSpaceUnaligned`): the variant is a plausible mistake, and `PROJECT.json` lists under
`mutants` which property notices when it takes the definition's place.

### 2.1 ProfileRuntime

Each function of `profile.c` is an action: `Enter` is `EnterCounted`, or `EnterDropped`
when a table cannot grow; `Exit` has the two early returns and `PopFrame`; `Op`; `Report`.
`Tick` lets time pass between them. `stack`, `overflow`, `stats`, `edges` and the
capacities are the static variables of the file; `live` is the truth the profiler tries
to follow, the bodies the program is really in. `mettle_profile_now_ns` multiplies
before it divides, in 64 bits: `NowNs` keeps the wrap at `Word`. `Report` reads up to
`mettle_profile_name_count` whatever the capacity of `g_stats` is: what lies behind the
end is any record of `Garbage`.

### 2.2 DeferLowering

A behaviour has two halves. In the first, statements are chosen one by one and lowered as
`ir_lower_statement_with_defers`, `ir_lower_switch_statement`, `ir_lower_match_statement`
and `ir_lower_function` lower them; `open` is the C recursion, `scopes` the chain of
`IRDeferScope`, `frames` the control stack. In the second the emitted code runs, every
branch both ways. Marks in the code that generate nothing (a block's begin and end, the
place of a defer statement) let the run keep `pending`, the defers that are due, without
looking at what the lowering did. `Runs` unrolls the defers of a scope as a recursive function, so
that it can be reasoned about. A deferred statement is a call, an assignment or a block (`Bodies`): what a
block does is one instruction `run`, and a return, break or continue at its end a second one (`Exit`),
which the code lowers anew wherever the cleanup is emitted, in a scope without a parent and with the control
stack of that place. A cleanup whose jump has no target there gives the function up (`Reject`).
`abandoned` are the defers that ran for a return which such a jump undid. `OnlyDueDefersRun` has two halves, of which the one about errdefers has
a name of its own, `ErrdefersRunOnError`.

### 2.3 LinkResolve and PeImage

`LinkResolve` has one action per turn of each loop of `link_resolution_build`; `at` is the
loops' cursor. Bytes are not kept; `writes` says which ranges were written by whom.
`PeImage` goes on from a resolution with `pe_emit_executable`: import libraries, DLLs to
probe, the import plan, the import tables and thunks, layout, relocation and the file.
Values that are stored in the image are kept in `tables` and `patches`. A file that could
not be flushed is "partial" although the link succeeds: the code does not look at what
`fclose` returns.

### 2.4 NetService and NetLifecycle

`NetLifecycle` takes a step for every access to the lock word or the count, every call to
malloc or Winsock and every turn of the spin loop. `count = count + 1` is a load and a
store. `Winsock` chooses between the two variants of the file. The history variables
`held`, `extra` and `leaks` say who owns what. `NetService` is the promise: each call
takes effect in one indivisible step between its call and its return. The refinement
mapping shows the counts as they were when the lock was taken until it is released.

### 2.5 IRCode, IRLower, IRPasses, OptDriver, Optimizer

`IRCode` gives IR a meaning: a run yields the calls it makes with their arguments and what
the callee can see, the result, and memory that outlives the function; a division the
language does not define is "undefined" and constrains nothing. `IRLower` produces the
optimizer's input from source statements the way the lowering does, so that passes see
shapes that occur. `IRPasses` has passes 1, 2, 9, 10, 11, 13, 14, 16 to 21 and 23 of the
table, each a function from code to code. `OptDriver` is the loop around them with
`version`, `clean` (a pass is skipped when it has already dealt with this version) and the
features that are collected once per round; passes, conditions and features are
parameters, which is what makes it provable. `Optimizer` puts the passes in.

### 2.6 ImportPaths and ImportResolve

`Candidates` is the order in which `resolve_import_path` tries the standard library, the
`mettle.deps` files on the way up, the importing file's directory, the `-I` directories
and the working directory. In `ImportResolve`, `frames` are the calls of
`process_imports_recursive` and `ctxs` their `ImportContext`s, of which a namespaced import
gets a child. A declaration is its file, its place there, its name and its references; a
reference knows, for the properties only, which file's declaration the programmer meant.
The worklist of the export filter (`Expand`) and the sweeps of the selective one (`Sweep`) are recursive
functions of the number of turns. `IsProject` says what a project is: a root file that parses, files that
are sequences of imports and of their own declarations, imports that lead to a file of the project or
nowhere. An `import_str` is its path and whether the walk for it gets there (`Embed`): one in a node that
`process_import_strs_in_node` does not enter is neither read nor reported. An embedded file that is not found from the
file that asks for it is an error, and is then looked for once more from the importer's directory:
`TextsFromOwnDirectory` speaks of resolutions without an error and of the embedded files the walk gets to.

### 2.7 Lexer, Parser and Syntax

A text is a sequence of characters in which a word is one element; `NextToken` is the lexer with its
depth of open parentheses (a newline inside them ends nothing). The parse functions are operators
on the parser's record `s`: the current and the next token, the error flags, and `s.go`, which turns
the rest of a function that has decided to return NULL into no-ops. Actions are the turns of
`parser_parse_program`: `SkipEmptyStatement` and `ParseDeclaration`, recovery included. The loop takes
the parse function as the constant operator `ParseFunction`, which the instance binds to `Declaration`.
A call through
an expression, `(e)(args)`, frees what it has built and an argument twice; whether the allocator
notices is `Abort`. A generic enum is read through a null pointer (`ps.null`) and ends the process. `Accepted`
is what the driver asks for: no error in the parser and none in the reporter. `Syntax` prints trees, with parentheses only where the precedence table of
`docs/expressions.md` needs them, and knows nothing of how the parser reads.

### 2.8 SymbolTable, TypeChecker and TypedRuns

`SymbolTable` has types with their layout, scopes and the hash index that replaces the scan of a
scope once it has `SYMBOL_NAME_INDEX_MIN_SYMBOLS` symbols. `TypeChecker` has one operator per function
of the checker; its state is the scope stack, the tracker of unassigned locals with its snapshots
around branches, loops and cases, the known extents of buffers and the warnings. Its actions are the
turns of the three passes of `type_checker_check_program`; what a pass makes of a declaration is the
constant operator `CheckerPass`, which the instance binds to `PassOver`. `TypedRuns` runs a function on kinds of values
instead of values, every branch both ways; it takes from the checker only what a type's name means.

### 2.9 Monomorphize

The actions are the steps of `monomorphize_program`: definitions, impl methods, uses, one turn of the
loop over `ctx.instances`, rewriting, method calls, removal. A type is its text. The three walks over
the tree differ from one another in what they enter, which the field `walked` of a node keeps.
`InstantiateStale` is the turn in which the table of instances moves while a pointer into it is in
use: what is read through it is arbitrary. `from` and `binds` are what the properties compare with.

### 2.10 X86, BackendFrame, BackendEmit, Backend

`Backend` compiles one function under one convention: `ctx` is `BinaryFunctionContext` with slots,
aliases, promoted registers and saved registers; the walk over the IR tries the peepholes in the order
of the code and falls back to the instruction's own emitter; then the epilogue, the return values
and the jumps. Machine code is a sequence of abstract instructions (`<<"ld", r, base, offset>>`)
which `X86` runs. Words have `W` bits and an immediate half as many. `X86` states the two platforms'
conventions by themselves, and the caller and the callees in it hold the code to them: they pass
arguments where the platform says, leave junk in every register they may change and in the shadow
space, and look at the preserved registers and the stack on return. `IROutcome` is the IR's own
meaning, with structs, floats and addresses of locals on top of `IRCode`.

## 3. Runs

"States" are distinct states. The longest run takes about two minutes with two workers.

| Run | States | Result |
|---|---|---|
| `profile` | 1,234,506 | pass |
| `defer` | 3,726,287 | pass |
| `link` | 5,966 | pass |
| `pe` | 22,860 | pass |
| `net` | 22,322 | pass, with fairness |
| `optimizer` | 118,824 | pass |
| `imports` | 191,868 | pass |
| `parser` | 77,466 | pass |
| `types` | 236,943 | pass |
| `mono` | 23,329 | pass |
| `backend` | 102,294 | pass |
| `backend_alias` | | violation, see section 5 |

**profile.** Two functions that may call each other and themselves, at most 4 calls, 3
deep, on a stack of 2 frames, so that one body overflows, on top of a recursion or not. The
tables start with room for one function and one edge, so that each of them grows, and any
allocation may fail. The word has 32 values, the clock's product is counter * 3 and the
counter starts at 0 or 9: from 9, two ticks take the product past 32, so that the clock
wraps inside a call. Checked: frames nest in time while the clock is exact
(`FrameTimesNested`), the stack mirrors the calls (`FramesMirrorCalls`), the report is complete
(`ReportComplete`), and the tables agree (`TablesAgree`): self times add up to the time of the root
calls, wrapped or not, the call graph accounts for the flat table, and operations belong to the body
that executed them.

**defer.** Every function body of weight at most 19, where break weighs 2, block, defer and return 3, while 4,
errdefer and if 7 and the others 9: all of two statements, six defers, or a loop with a block, two defers,
a jump and a return; run on every path up to 30 instructions. Loops with and without a label, for
with and without a condition, switch and match with one or two cases and with and without a
default. A deferred body is plain, returns, breaks, may continue or may break a labelled loop. The interesting
shapes (a defer in a loop body left by a labelled break, a return between two defers, an unbraced body that is
a defer) need three statements, and five where a deferred jump meets a return inside a loop. Checked: code is
well formed (`CodeWellFormed`), the order is last in, first out (`LastInFirstOut`), nothing
runs that is not due (`OnlyDueDefersRun`), and what is due runs (`DefersRunAtExit`), the last
two with the exceptions of section 5 spelt out, so that another exception would be noticed.

**link.** All command lines of one to three of seven object files: references before and after
definitions, alignments 1 to 16, a .bss sized by its auxiliary record or by its symbols,
sections that are not merged, absolute symbols, a duplicate definition, a symbol that refers
outside the section table, a file that cannot be read. Three files are enough for a
reference, a definition and something in front that moves both. Checked: placement
(`ContributionsPlaced`), symbols move with their section (`SymbolsFollowTheirSection`), and
success or failure and the symbol table are what the files alone dictate, in whatever order
they come (`OutcomeAsSpecified`).

**pe.** The same for nine other object files, two import libraries that offer one name twice
and three DLLs, one of which does not load; all four relocation types, a 16-bit stand-in for
32-bit fields so that a large .bss makes displacements overflow. Checked: layout
(`ImageLayoutSound`), import tables and thunks (`ImportTablesSound`), what is imported and
from where, with nothing unresolved in a finished image (`ImportsExactlyMissing`), where each
relocated field leads, judged from the final layout alone (`RelocationsHit`), and every byte is
written once (`BytesWrittenOnce`).

**net.** Two threads, two references each, one failing WSACleanup, int32 with 256 values:
enough for a thread to be at each point of its call while the other is at each point of its
own. Checked: exclusion and no forgotten unlock (`MutualExclusion`), no lost or doubled
reference, start or stop, and Winsock up for everyone with a reference (`ReferencesAccounted`),
refinement of `NetService` (`ImplementsService`), progress (`LockProgress`).

**optimizer.** 3228 functions, lowered by `IRLower`: every operator on pairs of literals and
variables, all triples of 14 kinds of assignment, load, store and call, 324 branches with
short circuits, loops. Integers of 4 bits, so that overflow, signed division and shifts are at
their limits within a few values; 32 inputs per function; at most 8 rounds as in the code,
which are never used up. Checked: each pass keeps the meaning
(`PassesKeepMeaning`; a jump without its label has none), and the driver's promises
(`SkippedPassesAreIdle`, `StopsAtFixpoint`, `EnabledPassesAreDone`).

**imports.** 10368 projects of four files in three directories: two imports in main (plain,
selective, under an alias, by a second spelling, of a missing file), the other files
importing one another in chains and cycles, with and without exports, one of them possibly
unparsable; a forward declaration, a name that two files share, a private name that is selected, embedded
texts of one name in two directories, and some that the walk does not reach. Checked: the recursion ends, and plain imports
are taken over once and not lost (`EachFileOnce`), the filters compute the least closed set
(`TakesWhatIsNeeded`), flattening and renaming are hygienic and an embedded text comes from the
directory of the file that asked for it (`FlatteningKeepsMeaning`).

**parser.** Printed programs: every operator over every other on either side, every postfix form
over and under unary and binary ones, comparisons that begin like a list of type arguments, every statement alone and inside every kind of block, every
declaration, with ';' and with newlines. Texts: all of up to three of fifteen spellings (parentheses,
brackets, braces, minus, comma, '<', a newline, return, if, else), alone, as an argument, as an index
and as a body, and `(a) op b` for every operator; three are enough for an opening spelling, something
and the wrong ending. Broken declarations: each with one element lost or doubled and a
good one behind it. Checked: the tree comes back from its text and nothing of an accepted text is dropped
(`TreesMatchTexts`), recovery does not swallow the next declaration (`LaterDeclarationsFound`), and
every turn of the loop reads on, so that parsing ends (`ReadsOn`).

**types.** Every operator on each pair of kinds of values; pairs of statements around an unassigned
local (assignments, branches, loops, switch, match, defer, errdefer, blocks, inner names, calls through an
unassigned pointer, jumps); structs and tagged enums of three members of any size; three functions that call each
other, in every order, with none, one or two instances of a generic enum; straight-line code on buffers. The index starts at 3 symbols and 8 buckets with a hash that collides, so that scopes of
these programs get one and it is rebuilt; literals have limits 5, 9 and 20 in place of those of 32 and 64 bits.
Checked: an accepted function never goes wrong in `TypedRuns`, but for the six kinds of body of section 5
(`AcceptedProgramsGoRight`), functions may come in any order that leaves the bare constructors of a generic enum
with the same instance (`FunctionsInAnyOrder`), layouts are sound (`LayoutsSound`), the warnings about memcpy and
recv are given exactly where a buffer is overrun (`WarnsExactlyOfOverruns`), and the index finds
what a scan would (`IndexFindsFirst`).

**mono.** About 3000 programs of six generics (structs and functions that use one another, one of
them growing), two traits, their impls and a function of one or two nodes. `MaxInstances` is 14,
more than the distinct uses any of these programs has, so only a program that never ends reaches it.
Checked: a use names the instance the source means (`UsesKeepTheirMeaning`), bounds and method calls
are decided by the impls of the type (`ImplsFoundByType`), and the instances are finite unless a
generic grows (`InstancesAreFinite`).

**backend.** All pairs of 43 fragments (arithmetic, compares and branches, conditional moves,
scaled and struct addressing, calls with and without stack arguments, structs by value, floats, loops,
rotations), leaf functions, functions with as many parameters as registers and more, and with struct
results: about 1900, under both conventions, run on every combination of the argument words. Pairs
are enough for one fragment's value to be live across another's code. `W = 12`: immediates have 6
bits, so that some literals do not fit; the stack is 1600 bytes, no function comes near; `Fuel = 40`
transfers, which the loops do not use up. Checked: the regions of the frame are disjoint, inside and aligned
(`FrameSound`), and code and IR make the same calls and give the same result, under the convention
(`CompiledMeansIR`).

**Deadlock** is checked in `net`, `imports` and `mono`. The other models end: a profile is reported, a
link succeeds or fails, a function returns, a driver is done. They say `CHECK_DEADLOCK FALSE`.

**Fairness** is assumed in `net` only: weak fairness of each thread's `Step`, which is what an
operating system gives a thread that can run. Calls themselves are not fair: nobody has to
call. A thread that spins can always run, so it keeps trying; it may lose each time, so
`LockProgress` says that some thread gets the lock while any waits, and that the one who has
it comes to its return, not that every waiter is served: the lock is not starvation-free.

### The models against the compiler

Two models were compared with the compiler built from this source. The optimizer model, with
W = 14, produced the same IR as `mettle -O --dump-ir` for 3200 of 3200 generated functions. The
import model predicted the outcome (success, or which declaration is missing or duplicated) of
1500 of 1500 generated projects. The counterexamples of section 5 that concern the parser, the type checker,
the monomorphizer and the backend were reproduced with it too, unless they say otherwise.

## 4. Proofs

| Theorem | States | For every |
|---|---|---|
| `NetLifecycleProofs!LifecycleTyping`, `Exclusion` | types; mutual exclusion, lock word = someone inside | set of threads, variant, int width, bounds |
| `NetLifecycleProofs!Refinement` | `Spec => ImplementsService` | the same |
| `NetLifecycleProofs!Accounting` | no reference and no start of Winsock is lost or doubled (`ReferencesAccounted`) | the same, if all references fit an int32 |
| `LinkResolveProofs!Placed` | contributions are disjoint, inside their section, aligned | set of object files, their number and order, fallback alignment |
| `LinkResolveProofs!WrittenOnce` | every byte of merged data is written exactly once | the same |
| `LinkResolveProofs!LinkTyping` | types; a defined symbol has a merged section | the same |
| `LinkResolveProofs!SymbolsPlaced` | symbols move with their section (`SymbolsFollowTheirSection`) | the same |
| `LinkResolveProofs!OutcomeProved` | the outcome and the symbol table are what the files dictate (`OutcomeAsSpecified`) | the same |
| `PeImageProofs!LayoutProved` | sections and headers disjoint in memory and file, aligned (`ImageLayoutSound`) | object files, import libraries, DLLs, alignments, base and widths |
| `PeImageProofs!TablesProved` | import tables and thunks (`ImportTablesSound`) | the same |
| `PeImageProofs!ImportsProved` | what is imported and from where, nothing unresolved in an image (`ImportsExactlyMissing`) | the same |
| `PeImageProofs!RelocationsProved` | each relocated field leads to what it names (`RelocationsHit`) | the same |
| `PeImageProofs!ImageWrittenOnce` | every byte of the finished sections is written once (`BytesWrittenOnce`) | the same |
| `ProfileRuntimeProofs!Typing`, `FrameTimes` | types and the stack's bound; frames nest in time | number of functions, stack limit, word, clock, bounds |
| `ProfileRuntimeProofs!FramesAreCalls` | the stack mirrors the calls (`FramesMirrorCalls`) | the same |
| `ProfileRuntimeProofs!TablesConsistent` | the three tables agree (`TablesAgree`) | the same |
| `ProfileRuntimeProofs!ReportIsComplete` | the report is complete (`ReportComplete`) | the same |
| `OptDriverProofs!TypeCorrect`, `SkippingIsSound`, `ReachesFixpoint` | the driver's bookkeeping; a pass skipped as clean is idle; a driver that stops by itself is at a fixpoint | passes, conditions, features, table, number of rounds |
| `DeferLoweringProofs!LoweredCodeIsWellFormed` | every jump target placed once, control stack and scopes balanced, no way off the end (`CodeWellFormed`) | size and nesting of the function, loop labels, weights and bounds |
| `DeferLoweringProofs!ErrdefersOnlyOnError` | errdefers run only before a return of a nonzero value (`ErrdefersRunOnError`, half of `OnlyDueDefersRun`) | the same |
| `ImportResolveProofs!ResolvesEachFileOnce` | no file inside itself, the chain is the chain of calls, nothing twice and nothing lost (`EachFileOnce`) | number of files, their imports, cycles, aliases, filters, search paths |
| `ImportResolveProofs!ImportsTakeWhatIsNeeded` | the filters end with the least closed set (`TakesWhatIsNeeded`) | the same |
| `ImportResolveProofs!TextsAreFromOwnDirectory` | the embedded files the walk gets to come from next to the file that embeds them, none of these is left (half of `FlatteningKeepsMeaning`) | the same |

So every property of the runs `profile`, `link` and `pe` is proved, every one of `net` but liveness, and
of `imports` all but the half of `FlatteningKeepsMeaning` about names.
The typing theorems stand for the type invariants of their modules; the runs do not check these again.
The assumptions are the named `ASSUME`s of the modules (positive sizes and widths; what the
object reader guarantees of the files it accepts; the fields of import libraries and DLLs; of the two
alignments of the image, powers of two in the code, that the smaller divides the larger; that a project is
one, `IsProject`; that the label of an unlabelled loop is no loop's label), which TLC
evaluates in each run. TLC also checked the inductive invariants on the runs' instances, all but
`LayoutInv` and `StoredInv`, which say that something exists without saying where to look for it.

**FiniteFacts** holds what several proofs need and no library theorem gives. The provers cannot use
an induction theorem, whose parameter is an operator; they can use the fact that a set of numbers
that is not empty has a least member (`LeastNat`), and counting up to it (`CountUp`). So a property of
a recursive *function* is proved by looking at the first number where it would fail, and
that such a function exists at all by growing chains of its values (`ChainExists`). Sums of functions
over finite sets, which the accounts of the profiler and of std/net are, and the listings of a finite set
in order are treated there in the same way. `IsSequence` stands for sequences over whatever their elements
are, with what Append, concatenation, prefixes and EXCEPT make of them: code, frames and declarations
mix records of several shapes, for which no set of values has to be named.

**NetLifecycle.** Exclusion is inductive with types alone: the lock word is 1 exactly when
someone is inside, so a compare-and-swap that wins finds nobody. Refinement needs to know how far
the thread inside has got: `IInv` adds to types and exclusion, for each thread,
`Progress`, which ties the count, Winsock's count and the register to the snapshot `atLock` at each
step of the call. An unlock then is the effect `NetService` allows, and each step between is
invisible. It holds with wrapping counts, which is why `NetService` wraps too. `Accounting` adds
who owns what (`Owned`), that the count is the sum of what is held plus the step under way
(`CountsHeld`), and that Winsock is started exactly while there is a reference (`StartedOnce`). Its
hypothesis `Fits`, finitely many threads whose references together stay below 2^31, is one the code
does not check: beyond it the count wraps and the statement is false. It holds in the run's instance.

**LinkResolve.** `SectionSound` says of one merged section that contributions lie below its
virtual size in order, aligned, and that its writes are consecutive from 0 to its size. The
size never exceeds the virtual size: without this fact the padding in front of the next
contribution would be unaccounted for. `ContributeSound` shows that one contribution keeps
it, from what `AlignUp` does; `MergeInv` carries it through the loops. `TypeInv` adds
where sections were placed, which the symbols rest on. `FollowInv` adds that a place is the start of the
section's own contribution (`PlacedInParts`). `OutcomeInv` says how much of the answer is known at each
turn of the loops: the files read so far could be read, sections passed have a place exactly if they are
merged, symbols passed are resolved, and the table of names is what the symbols passed so far say
(`TableSays`: no other name, none twice, the one definition of each); a link that has failed could not
have succeeded with any later step.

**PeImage.** `PeInv` carries the facts of the first half into the second, where `pe_emit_import_storage`
changes the sections again: sections are sound (`PeTypes`), symbols stay as they were (`SettledInv`) and
the table is the one the files ask for, with imports bound in it from the storage on (`HandedInv`, `StoredInv`);
the tables lie one behind the other in .rdata with an entry more than each DLL has imports
(`TablesPlaced`), and what is stored in them is what the final layout says (`FinalInv`). `LayoutInv` says
that the layout is the running sum of aligned sizes; `ImageLayoutSound` asks that the image's end does
not wrap around 32 bits, as in the run. For relocations, `AddressInv` says that the addresses are those of the final
layout from `pe_apply_layout_to_resolution` on, and `RelocInv` that a section passed has all its patches.
For imports, `LibsInv` says that the given libraries come first, that the libraries made of probed DLLs hold only
names no given one has, each from the first DLL that exports it, and that none was missed;
`PlanInv` that the plan is what the names passed so far ask for; `ExactInv` and `DefinedInv` keep
both true to the end.

**ProfileRuntime.** Nesting needs types (the stack is a sequence of frames over words) and a
monotone clock: while the product is exact, so was every earlier one, and division keeps the
order (`ClockMonotone`). Popping a frame charges its caller with a time that lies between the
caller's last charge and now (`ChargeFits`, `PopNested`). That the stack mirrors the calls needs
`OverflowMeansFull`: bodies above the limit are counted only while the stack is full. The tables agree
because each of the three sums moves with the one it is compared to, modulo the word; an open frame's
time is in the sum of its caller's children until it is popped. The call graph reaches every edge from
the roots because every set that holds the roots and is closed under edges holds the frames (`PathInv`),
the set the recursion of the report visits among them.

**OptDriver.** `IInv`: no clean version is ahead of the function's (`CleanIsPast`), a clean
pass is idle (`SkippedPassesAreIdle`), in a round that has changed nothing the passes behind
`next` are clean (`BehindIsClean`), and the stages fit the counters (`StagesFit`). The
pass before the first round changes the function without a new version: this is sound only
because no pass can be clean yet, which is what `CleanIsPast` says of the stage "before".

**ImportResolve.** `ResolveInv` has five parts. `Shape`: the frames are calls, each made by the next item
of the one below, in contexts that only grow. `Stacked`: no two frames have one file, and a context's
active files and its chain are those of the frames it has seen; the file of a namespaced import is known to
the importer's context and to the child's. `Single`: a declaration no filter has touched
is of a resolved file or of the part already seen of a file that is being taken over whole
(`Accounted`), so the next one taken over cannot be there yet. `Kept`: each item behind the cursor is
collected, and each item of a resolved file is collected by a frame of the context or among those
left out. `Read`: without an error, what was taken over has only embedded files left that the walk does
not get to. The filters are proved
by themselves: the worklist holds each declaration at most once and so runs empty, a sweep that
changes nothing is closed, one that changes something adds a declaration, so there are at most as many as
declarations; and neither takes anything that a closed set could do without.

**DeferLowering.** `DeferInv`, while statements are lowered: the code emitted jumps only to labels that are
placed or owed (`CodeOK`), each placed once; every open statement owes labels of its own, that no other
owes and that are not placed yet, and stands for its frames and scopes (`Stack`); break and continue
lead to such labels (`FramesOK`), and so do the jumps of deferred bodies, wherever a cleanup is emitted
(`TargetsLive`, `Cleanup`). So the end of the last statement finds nothing owed, and
balance is a matter of counting. While the code runs: control is not behind the last return, which no
label follows. An else, a case or an arm is the same piece of code put together in another order
(`PieceJoined`), so each statement form is one lemma. `ErrInv`: every errdefer in the code stands behind the
test of the returned value with only cleanup in between (`Armed`, `CleanupOps`), so no label lets a
jump in; and control that is there has a nonzero value. The scopes hold declared
defers only (`Declared`), so what is emitted from them is known when it is emitted.

**Model-checked only.** Liveness (`LockProgress`): outside the prover's reach. What is built on
`RECURSIVE` operators over trees and code (meaning of IR, passes and `EnabledPassesAreDone`, parser, type
checker, monomorphizer, backend): the prover loses its arithmetic where one is in sight.
`LastInFirstOut`, `DefersRunAtExit` and the other half of `OnlyDueDefersRun` compare the run with what
is pending at each instruction, on every path that leads to it; an inductive invariant needs that as a
function of the place in the code, which the lowering does not keep and whose construction is an
induction over the nesting of statements. `NamesKeepTheirMeaning` follows a name through filters,
renaming and the tables of aliases of nested contexts; no inductive invariant for it has been found yet.

## 5. Where documents and code disagree

One run ends in a counterexample, quoted in `findings`:

* `backend_alias`: a local that is a copy of a parameter shares its place, and reads the
  parameter's later value once that is assigned (with `-O` also by a rotation); the comment at
  `abi.c:412` says sharing is sound only if the target keeps the value while the local is live.

Other departures are part of the models. Where a property would fail they are excepted by name, so
that anything beyond them is still noticed.

**Deferred statements** (`DefersRunAtExit`, `OnlyDueDefersRun`)

* break and continue jump without running the deferred statements of the scopes they leave
  (`ir_lowering.c:4208`); `docs/control-flow.md:184` and `:276` say they run.
* A return inside a switch case runs no deferred statement (`ir_lowering.c:595` passes no scope);
  `docs/control-flow.md:312` says any return path does. A defer inside a switch case never runs.
* A defer or errdefer that is the unbraced body of an if, a loop or an arm belongs to the enclosing
  scope: it runs if not reached, and once however often it is reached.
* A return inside a deferred block runs none of the deferred statements that were still to come
  (`ir_lowering.c:1893` lowers the block in a scope without a parent); `docs/control-flow.md:312` says any return
  path runs them.
* A break or continue inside a deferred block means the loop around the exit whose cleanup is being emitted,
  not the one around the defer statement, and abandons the rest of the cleanup; if the exit was a return, the
  return is undone, and what ran for it runs again at the next one (`abandoned`). `docs/control-flow.md:208` has
  each deferred statement run when its scope exits. Where there is no loop around the exit the function does not compile.

**Optimizer** (`PassesKeepMeaning`)

* `StaleReuse`: in `x = x + 1; y = x + 1` the second sum becomes x (`ir_optimize.c:1221`): after
  coalescing, the expression just stored is about the old x. The same after a rotate.
* `CopyStillNeeded`: pass 23 drops the write of a variable that a call argument, a store's
  address, a rotate, the next writer or an outside observer still reads.

**Imports** (`FlatteningKeepsMeaning`, `EachFileOnce`, `TakesWhatIsNeeded`)

* A file without `export` that imports one with `export` loses its own declarations
  (`import_resolver.c:2792`); `docs/modules.md:40` and `docs/imports.md:7` say all are visible.
* References in types, defer, match, casts and methods are not followed by the filters; names of a
  file of which a filter has left something out; an alias of an import that was dropped because it
  closes a cycle stays unbound.
* A selective or namespaced import of a file that is imported plainly as well gives a second copy;
  a file resolved below a selective import counts as resolved though the filter left some of it out.
* The export filter follows the first declaration of a name, so a forward declaration is kept
  and its definition is not.
* `PrivatelySelected`: a selective import takes private names of a module that uses `export` (`import_resolver.c:2734`
  does not look at it); `docs/imports.md:48` says only exported names may be selected.
* `import_str` in methods, impl blocks, defer, match, casts, index and member expressions, arguments of calls through
  pointers and assignment targets is neither read nor reported (`import_resolver.c:2407`); `docs/imports.md:67` allows it
  anywhere. The type checker then stops with an error of its own, which does not name the file.

**Parser** (`TreesMatchTexts`)

* `(a) - b`, `(a) * b` and `(a) & b` are read as a cast of `-b`, `*b` or `&b` to type a
  (`parser.c:1690`); `docs/expressions.md:21` has parentheses for grouping. `Syntax` prints no name in
  parentheses, so the property is silent about it.
* A call through an expression, `(e)(args)`, is dropped without an error and frees its arguments
  twice (`parser.c:1977`): texts with one are excepted (`ps.dropped`).
* `GuessFails`: behind a name, `<` is tried as a list of type arguments (`parser.c:1739`). When that fails inside a type,
  as in `i < a[i]` or `i < j < k`, the parser takes its error back but the reporter keeps a copy, and the driver refuses the
  program (`main.c:2633`), although the tree is right.
* `ReadAsGenericCall`: `a < b > (e)` and, between arguments, `a < b, c > (e)` are read as generic calls.
* A generic enum ends the compiler: the cleanup behind its node walks `type_params`, which was set to NULL when the node took
  it (`parser.c:3036`); `docs/types.md:181` says "Tagged enums can also be generic". The later parts of the compiler
  are modelled as if they were given the tree.

**Type checker** (`AcceptedProgramsGoRight`)

* `AssignedInArm`: an assignment in one arm of a match counts as initialising (`type_checker.c:3216`);
  `docs/types.md:105` says locals must be assigned before their first read. The same holds for an assignment in a defer
  (`AssignedInDefer`) and for one to an inner struct variable of the same name (`HiddenByStruct`); calling an unassigned
  function pointer is accepted (`UnassignedPointerCalled`). The other way round, a match binding that hides
  an unassigned local is reported as unassigned.
* `UnorderedLess`, `MixedArms`: `<` on two values of one unordered type and a match expression with an
  integer arm before a float arm are accepted.
* The bare constructors of a generic enum are those of the first instance met (`type_checker.c:3116`), so with two
  instances in signatures the order of the functions decides which use is refused (`SameConstructors` in
  `FunctionsInAnyOrder`). Found on trees; the parser does not let a generic enum through.
* Accepted, and of no consequence to the property: the name of a function or struct as a value (the
  backend then stops with an internal error), the assignment in a for's increment, which is not
  checked, one tagged enum for another. `float32 + int64` is int64, though the comment there says
  "If either operand is floating-point, result is floating-point". A definition followed by
  a declaration without body is refused, the reverse is accepted.

**Monomorphizer** (`UsesKeepTheirMeaning`: `Handled`, `Clash`)

* Instances in struct fields outside generics, in arguments of instances, in casts, match arms and arrays do not
  become concrete (`monomorphize.c:1210`, `:1383`); `docs/types.md:208` says each is.
* Different arguments can get one mangled name ('<', '>' and ',' all become '_', `monomorphize.c:82`).
* The loop keeps a pointer into the table of instances while it adds to it (`monomorphize.c:2096`).

**Backend** (`CompiledMeansIR`)

* `StaleAlias`: the run above.
* `StructTempsShift`: copies of struct arguments lie where stack arguments and the shadow space
  belong; `docs/known-limitations.md:70` calls struct arguments safe.
* `VolatilePromotion`: RSI and RDI are given out as preserved registers on System V;
  `docs/known-limitations.md:71` says the convention is matched.
* `StaleComparison`: a diamond that looks back for the copy of its operand ignores writes in
  between (`peephole.c:855`).
* `StaleIndex`: a scaled index is computed again from a symbol that was written since
  (`peephole.c`, the scaled address matcher).
* `LosesRsiRdi`: copying a struct with `rep movsb` does not save RSI and RDI on Windows.
* By reading only: the call of `mettle_profile_exit` is made with the stack off by 8, and profile
  calls pass arguments in RCX and RDX on ELF too.

**Library and profiler**

* `ReferencesAccounted`: a net_cleanup without a net_init gives back another thread's reference if
  one is out; `docs/standard-library.md:132` says it is "treated as no-op".
* `TablesAgree`: above the stack limit operations count for the deepest frame.
* `ReportComplete` asks that the tables cover every registered function: otherwise the report
  reads behind the end of `g_stats`. It lists called functions only; the sample in
  `docs/compilation.md` has a row for one that was never called.
* By reading only: registering a source a second time frees the text that earlier reports point into
  (`error_reporter.c:219`).

## 6. Not modelled

`PROJECT.json` gives a reason for each component. In short: the assembly generator is a second
backend of the same shape as the modelled one; the inliner and the loop, array and SIMD idiom passes
each need a reference meaning of their own; instruction encodings, object file formats and debug
information are tables and append-only lists; the COFF reader validates input; the driver starts
processes; other wrappers of the standard library make one system call each. Out-of-memory exits of the
compiler end the compilation and are left out; those of the profiler are in, since it goes on.

Left out inside modelled parts: column formatting of the report; expressions in `DeferLowering`; floats,
casts, aggregates and inline assembly in the optimizer; in `PeImage` header fields, archive bytes, the contents of import
descriptors and the directory entries made of them, names too long for a buffer, and hosts other than Windows, where
a DLL to probe is an error; memo tables and local variables that hide a name in `ImportResolve`; message texts and source
positions in `Parser` and `TypeChecker`, and there the warning about constant returns under errdefer; in
`Monomorphize` the instances recorded while an impl is compared with its trait, which its methods record again;
in `LinkResolve` a link without an entry symbol, which no caller asks for; in the backend the preference for `__ptr_`
names of the pointer loops, and narrow widths and sign extension, float
arithmetic, strings, new, casts, indirect calls, inline assembly and SIMD, stack probes, profile and debug
tables, start-up code and encodings.

## 7. Plan

1. **Proofs**: `NamesKeepTheirMeaning` for plain imports, then with aliases; the order of deferred
   statements, from an account of what is pending at each instruction kept beside the code.
2. **Optimizer**: inliner, loop-invariant and array passes as further passes of the same run, under
   `PassesKeepMeaning`.
3. **Backend**: narrow integers with their extension, and the assembly generator against the same
   machine.
4. **Error reporter** (ownership of registered sources) and the **arena** of std/mem.

New properties replace weaker ones where a run already asks the same question: the aim is a short
list of properties, each of which could fail.
