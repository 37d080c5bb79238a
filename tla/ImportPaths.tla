---------------------------- MODULE ImportPaths ----------------------------
(***************************************************************************)
(* Where an import or import_str path leads (import_resolver.c, the part    *)
(* below resolve_import_path).  A file is the sequence of the segments of   *)
(* its canonical path; the extension that resolve_candidate_path may add is *)
(* left out, and so is the memo table, which only repeats earlier answers.  *)
(***************************************************************************)
EXTENDS Sequences, Naturals, SequencesExt

CONSTANTS
    Disk,         \* the files that can be opened
    StdlibDir,    \* options->stdlib_directory, <<>> when there is none
    ImportDirs,   \* the -I directories, in command-line order
    Deps,         \* directory -> the lines of its mettle.deps, [pkg, root]
    Cwd           \* the directory the compiler was started in

NotFound == <<>>

\* A path as it is written: absolute, or a sequence of segments.
Relative(segments) == [absolute |-> FALSE, segments |-> segments]
Absolute(segments) == [absolute |-> TRUE, segments |-> segments]

\* The directories from dir up to the root of the file system, dir first.
Upward(dir) == [i \in 1 .. Len(dir) |-> SubSeq(dir, 1, Len(dir) + 1 - i)]

\* The lines of every mettle.deps on the way up that name the package.
DepsLines(dir, pkg) ==
    LET lines(d) == IF d \in DOMAIN Deps THEN Deps[d] ELSE <<>>
        all == FlattenSeq([i \in 1 .. Len(dir) |-> lines(Upward(dir)[i])])
    IN SelectSeq(all, LAMBDA line : line.pkg = pkg)

DependencyCandidates(file, segments) ==
    LET lines == DepsLines(Front(file), Head(segments))
    IN [i \in DOMAIN lines |-> lines[i].root \o Tail(segments)]

StdlibCandidates(segments) ==
    IF StdlibDir # <<>> /\ Head(segments) = "std" THEN <<StdlibDir \o segments>> ELSE <<>>

\* Everything that is tried for a path written in file, in the order it is tried.
Candidates(file, path) ==
    IF path.absolute
    THEN <<path.segments>>
    ELSE StdlibCandidates(path.segments)
         \o DependencyCandidates(file, path.segments)
         \o <<Front(file) \o path.segments>>
         \o [i \in DOMAIN ImportDirs |-> ImportDirs[i] \o path.segments]
         \o <<Cwd \o path.segments>>

ResolveImportPath(file, path) ==
    LET found == SelectSeq(Candidates(file, path), LAMBDA c : c \in Disk)
    IN IF found = <<>> THEN NotFound ELSE Head(found)
=============================================================================
