------------------------------ MODULE OptDriver ------------------------------
(***************************************************************************)
(* The fixpoint driver of the optimizer: ir_optimize_function of           *)
(* src/ir/ir_optimize.c.  Rounds over the table of passes are made until a *)
(* round changes nothing or MaxRounds are over.  The code has a version    *)
(* that every change raises, and a pass is not run again on the version it *)
(* last left as it was.  Some passes run only if the function has certain  *)
(* features, and the features are those the function had when the round    *)
(* began.  The module knows nothing of the passes: they are parameters.    *)
(***************************************************************************)
EXTENDS Integers, Sequences

CONSTANTS
    Sources,        \* the functions handed to the optimizer
    Table,          \* the passes in the order a round takes them
    Always,         \* the passes driven by DRIVE_PASS, without a condition
    SkipList,       \* the passes METTLE_SKIP_PASS disables
    MaxRounds,      \* 8 in the code
    Before(_),      \* the pass that runs once before the first round
    Apply(_, _),    \* Apply(p, f): the code pass p makes of f
    Features(_),    \* ir_collect_function_features
    Gate(_, _)      \* Gate(p, fs): the condition of DRIVE_PASS_IF

Passes == {Table[i] : i \in DOMAIN Table}

ASSUME DriverAssumption ==
    /\ MaxRounds \in Nat \ {0}
    /\ Len(Table) \in Nat /\ DOMAIN Table = 1 .. Len(Table)
    /\ Always \subseteq Passes

VARIABLES
    source,     \* the function as it was handed over
    function,   \* the function as it is now
    stage,      \* "before", "between", "round" or "done"
    round,      \* rounds begun
    next,       \* index into Table of the pass that is due
    features,   \* of the function when the round began
    changed,    \* has a pass of this round changed the function
    version,    \* of the function
    clean       \* clean_version: per pass, the version it has dealt with

vars == <<source, function, stage, round, next, features, changed, version, clean>>

TypeOK ==
    /\ stage \in {"before", "between", "round", "done"}
    /\ round \in 0 .. MaxRounds
    /\ next \in 1 .. Len(Table) + 1
    /\ changed \in BOOLEAN
    /\ version \in Nat
    /\ clean \in [Passes -> Nat]

Init ==
    /\ source \in Sources
    /\ function = source
    /\ stage = "before"
    /\ round = 0
    /\ next = 1
    /\ features = Features(source)
    /\ changed = FALSE
    /\ version = 1
    /\ clean = [p \in Passes |-> 0]

----------------------------------------------------------------------------

\* The pass that runs before the first round; its change has no version.
RunBefore ==
    /\ stage = "before"
    /\ function' = Before(function)
    /\ stage' = "between"
    /\ UNCHANGED <<source, round, next, features, changed, version, clean>>

BeginRound ==
    /\ stage = "between"
    /\ stage' = "round"
    /\ round' = round + 1
    /\ next' = 1
    /\ features' = Features(function)
    /\ changed' = FALSE
    /\ UNCHANGED <<source, function, version, clean>>

Due == Table[next]
InRound == stage = "round" /\ next <= Len(Table)
MayRun(p) == (p \in Always \/ Gate(p, features)) /\ p \notin SkipList

\* DRIVE_PASS_IF with a condition that fails, or a pass on the skip list: the
\* pass counts as having dealt with this version.
PassOver ==
    /\ InRound /\ ~MayRun(Due)
    /\ clean' = [clean EXCEPT ![Due] = version]
    /\ next' = next + 1
    /\ UNCHANGED <<source, function, stage, round, features, changed, version>>

\* The pass has seen this version before.
SkipClean ==
    /\ InRound /\ MayRun(Due) /\ clean[Due] = version
    /\ next' = next + 1
    /\ UNCHANGED <<source, function, stage, round, features, changed, version, clean>>

\* Mutant: a pass that changed the function counts as clean at once.
RunPassMarksClean ==
    /\ InRound /\ MayRun(Due) /\ clean[Due] # version
    /\ function' = Apply(Due, function)
    /\ IF function' # function
       THEN changed' = TRUE /\ version' = version + 1 ELSE changed' = changed /\ version' = version
    /\ clean' = [clean EXCEPT ![Due] = version']
    /\ next' = next + 1
    /\ UNCHANGED <<source, stage, round, features>>

\* Mutant: the driver does not hear of the change.
RunPassForgetsChange ==
    /\ InRound /\ MayRun(Due) /\ clean[Due] # version
    /\ function' = Apply(Due, function)
    /\ IF function' # function
       THEN version' = version + 1 /\ clean' = clean
       ELSE version' = version /\ clean' = [clean EXCEPT ![Due] = version]
    /\ next' = next + 1
    /\ UNCHANGED <<source, stage, round, features, changed>>

\* Mutant: a change does not raise the version.
RunPassKeepsVersion ==
    /\ InRound /\ MayRun(Due) /\ clean[Due] # version
    /\ function' = Apply(Due, function)
    /\ IF function' # function
       THEN changed' = TRUE /\ clean' = clean
       ELSE changed' = changed /\ clean' = [clean EXCEPT ![Due] = version]
    /\ next' = next + 1
    /\ UNCHANGED <<source, stage, round, features, version>>

\* The pass runs; only a pass that left the function as it was is clean.
RunPass ==
    /\ InRound /\ MayRun(Due) /\ clean[Due] # version
    /\ function' = Apply(Due, function)
    /\ IF function' # function
       THEN changed' = TRUE /\ version' = version + 1 /\ clean' = clean
       ELSE changed' = changed /\ version' = version /\ clean' = [clean EXCEPT ![Due] = version]
    /\ next' = next + 1
    /\ UNCHANGED <<source, stage, round, features>>

EndRound ==
    /\ stage = "round" /\ next = Len(Table) + 1
    /\ stage' = IF changed /\ round < MaxRounds THEN "between" ELSE "done"
    /\ UNCHANGED <<source, function, round, next, features, changed, version, clean>>

Next == RunBefore \/ BeginRound \/ PassOver \/ SkipClean \/ RunPass \/ EndRound

Spec == Init /\ [][Next]_vars

----------------------------------------------------------------------------
(* What the driver promises, whatever the passes do.                       *)

\* "a skipped pass would have reported no change": a pass without a condition
\* that is taken to be clean would leave the function as it is.
SkippedPassesAreIdle ==
    \A p \in Always \ SkipList : clean[p] = version => Apply(p, function) = function

\* If the driver stops because a round changed nothing, the function is a
\* fixpoint of every pass that has no condition.
StopsAtFixpoint ==
    stage = "done" /\ ~changed => \A p \in Always \ SkipList : Apply(p, function) = function
=============================================================================
