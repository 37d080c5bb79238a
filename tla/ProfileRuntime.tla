--------------------------- MODULE ProfileRuntime ---------------------------
(***************************************************************************)
(* The opt-in runtime profiler, src/src/runtime/profile.c.  The compiler   *)
(* inserts mettle_profile_enter(id) at the start of every function body    *)
(* and mettle_profile_exit() before every return (src/src/ir/ir_profile.c);*)
(* the start-up code calls mettle_profile_report() once main has returned. *)
(*                                                                         *)
(* The running program is the environment: `live' is the list of function  *)
(* bodies it is really executing.  Everything else is the state of         *)
(* profile.c.  uint64_t arithmetic is arithmetic modulo Word.              *)
(***************************************************************************)
EXTENDS Integers, Sequences, FiniteSets, SequencesExt

CONSTANTS
  NameCount,        \* mettle_profile_name_count
  MaxStack,         \* METTLE_PROFILE_MAX_STACK
  InitialCapacity,  \* METTLE_PROFILE_INITIAL_CAPACITY
  InitialEdges,     \* first capacity of g_edges
  OpClasses,        \* MettleProfileOpClass
  AlwaysShown,      \* METTLE_PROFILE_OP_POPCNT, METTLE_PROFILE_OP_SIMD
  Main,             \* the id registered for "main"
  Word,             \* 2^64
  NsPerSec,         \* 1000000000
  Frequency,        \* QueryPerformanceFrequency
  Starts,           \* what the performance counter may read when the program starts
  AllocMayFail,     \* whether realloc and calloc may return NULL
  Garbage,          \* records a read past the end of g_stats may yield
  MaxTicks, MaxCalls, MaxDepth, MaxOps   \* bounds of the model

ASSUME ConstantsAssumption ==
  /\ NameCount \in Nat \ {0}
  /\ MaxStack \in Nat \ {0}
  /\ InitialCapacity \in Nat \ {0}
  /\ InitialEdges \in Nat \ {0}
  /\ Word \in Nat \ {0}
  /\ NsPerSec \in Nat \ {0}
  /\ Frequency \in Nat \ {0}
  /\ MaxTicks \in Nat /\ MaxCalls \in Nat /\ MaxDepth \in Nat /\ MaxOps \in Nat

ASSUME ChoicesAssumption ==
  /\ AlwaysShown \subseteq OpClasses
  /\ AllocMayFail \in BOOLEAN
  /\ Main \in Int
  /\ Starts \subseteq Nat

Fn == 0 .. NameCount - 1
UInt == 0 .. Word - 1

VARIABLES
  counter,     \* QueryPerformanceCounter
  phase,       \* "running" until the report, then "reported"
  stats,       \* g_stats (zero above statsCap)
  statsCap,    \* g_stats_capacity
  opStats,     \* g_op_stats
  opCap,       \* g_op_stats_capacity
  stack,       \* g_stack[0 .. g_stack_depth-1]
  overflow,    \* g_stack_overflow_exits
  edges,       \* g_edges: (caller, callee) -> counts
  edgeCap,     \* g_edge_capacity
  report,      \* what mettle_profile_report wrote
  \* what really happened, for the properties
  live,        \* the bodies the program is executing, outermost first
  entered,     \* calls made so far
  dropped,     \* an enter returned early because memory ran out
  lostEdge,    \* an edge update was skipped because memory ran out
  skewed,      \* some body ran above MaxStack
  rootCalls,   \* calls counted with an empty profiler stack
  rootTime,    \* time of frames popped to an empty profiler stack
  trueOps      \* operations each body really executed

runtime == <<stats, statsCap, opStats, opCap, stack, overflow, edges, edgeCap>>
ghosts == <<live, entered, dropped, lostEdge, skewed, rootCalls, rootTime, trueOps>>
vars == <<counter, phase, runtime, report, ghosts>>

ZeroStats == [calls |-> 0, total |-> 0, self |-> 0, max |-> 0]
Stats == [calls : Nat, total : UInt, self : UInt, max : UInt]
Frame == [fn : Fn, start : UInt, child : UInt]
NoReport == [printed |-> FALSE, rows |-> <<>>, root |-> 0,
             graph |-> {}, ops |-> {}, short |-> FALSE]

Plus(a, b) == (a + b) % Word
Minus(a, b) == (a - b) % Word

\* mettle_profile_now_ns: the product is a 64-bit multiplication.
NowNs == ((counter * NsPerSec) % Word) \div Frequency

\* METTLE_PROFILE_ENSURE_CAPACITY: the capacity (exactly one) a successful call
\* leaves, the current one or the first doubling of it that covers f.
EnsuredCaps(cap, f) ==
  LET needed == f + 1
      base == IF cap = 0 THEN InitialCapacity ELSE cap
  IN  IF needed <= cap THEN {cap}
      ELSE {c \in needed .. 2 * needed + InitialCapacity :
              /\ \E k \in 0 .. needed : c = base * 2^k
              /\ c = base \/ c < 2 * needed}

-----------------------------------------------------------------------------
Init ==
  /\ counter \in Starts /\ phase = "running"
  /\ stats = [f \in Fn |-> ZeroStats] /\ statsCap = 0
  /\ opStats = [f \in Fn |-> [c \in OpClasses |-> 0]] /\ opCap = 0
  /\ stack = <<>> /\ overflow = 0
  /\ edges = [e \in {} |-> 0] /\ edgeCap = 0
  /\ report = NoReport
  /\ live = <<>> /\ entered = 0
  /\ dropped = FALSE /\ lostEdge = FALSE /\ skewed = FALSE
  /\ rootCalls = [f \in Fn |-> 0] /\ rootTime = [f \in Fn |-> 0]
  /\ trueOps = [f \in Fn |-> [c \in OpClasses |-> 0]]

\* A new edge with its first addition.
NewEdge(calls, time) == [calls |-> calls, time |-> time]

\* mettle_profile_ensure_edge followed by the addition its caller makes: an
\* existing edge is updated, a new one is appended when there is room or when
\* realloc succeeds, and otherwise the update is silently skipped.
NoteEdge(e, calls, time) ==
  LET full == Cardinality(DOMAIN edges) >= edgeCap
      asked == IF edgeCap = 0 THEN InitialEdges ELSE edgeCap * 2
  IN  \/ /\ e \in DOMAIN edges
         /\ edges' = [edges EXCEPT ![e] = [calls |-> @.calls + calls,
                                           time |-> Plus(@.time, time)]]
         /\ UNCHANGED <<edgeCap, lostEdge>>
      \/ /\ e \notin DOMAIN edges
         /\ edges' = [x \in DOMAIN edges \cup {e} |->
                        IF x = e THEN NewEdge(calls, time) ELSE edges[x]]
         /\ edgeCap' = IF full THEN asked ELSE edgeCap
         /\ UNCHANGED lostEdge
      \/ /\ e \notin DOMAIN edges /\ full /\ AllocMayFail
         /\ lostEdge' = TRUE
         /\ UNCHANGED <<edges, edgeCap>>

\* mettle_profile_enter when ensure_stats or ensure_op_stats fails: nothing is
\* pushed, yet the body will still call mettle_profile_exit.
EnterDropped(f) ==
  /\ AllocMayFail
  /\ \/ f >= statsCap /\ UNCHANGED statsCap
     \/ f >= opCap /\ statsCap' \in EnsuredCaps(statsCap, f)
  /\ dropped' = TRUE
  /\ UNCHANGED <<stats, opStats, opCap, stack, overflow, edges, edgeCap,
                 lostEdge, skewed, rootCalls>>

StackFull == Len(stack) >= MaxStack

\* mettle_profile_enter when the tables cover f: the edge from the frame on
\* top, the call count, then a frame, or one more overflow exit to ignore.
EnterCounted(f) ==
  /\ statsCap' \in EnsuredCaps(statsCap, f)
  /\ opCap' \in EnsuredCaps(opCap, f)
  /\ IF stack # <<>>
     THEN /\ NoteEdge(<<stack[Len(stack)].fn, f>>, 1, 0)
          /\ UNCHANGED rootCalls
     ELSE /\ rootCalls' = [rootCalls EXCEPT ![f] = @ + 1]
          /\ UNCHANGED <<edges, edgeCap, lostEdge>>
  /\ stats' = [stats EXCEPT ![f].calls = @ + 1]
  /\ IF StackFull
     THEN overflow' = overflow + 1 /\ skewed' = TRUE /\ UNCHANGED stack
     ELSE /\ stack' = Append(stack, [fn |-> f, start |-> NowNs, child |-> 0])
          /\ UNCHANGED <<overflow, skewed>>
  /\ UNCHANGED <<opStats, dropped>>

Enter(f) ==
  /\ phase = "running" /\ Len(live) < MaxDepth /\ entered < MaxCalls
  /\ EnterDropped(f) \/ EnterCounted(f)
  /\ live' = Append(live, f)
  /\ entered' = entered + 1
  /\ UNCHANGED <<counter, phase, report, rootTime, trueOps>>

OpOwner == stack[Len(stack)].fn

\* mettle_profile_op(op_class, 1): charged to the frame on top of the stack.
Op(c) ==
  /\ phase = "running" /\ live # <<>>
  /\ \A f \in Fn, d \in OpClasses : trueOps[f][d] < MaxOps
  /\ trueOps' = [trueOps EXCEPT ![live[Len(live)]][c] = @ + 1]
  /\ opStats' = IF stack = <<>> THEN opStats
                ELSE [opStats EXCEPT ![OpOwner][c] = @ + 1]
  /\ UNCHANGED <<counter, phase, stats, statsCap, opCap, stack, overflow, edges,
                 edgeCap, report, live, entered, dropped, lostEdge, skewed,
                 rootCalls, rootTime>>

Elapsed(frame) == Minus(NowNs, frame.start)

SelfShare(frame, elapsed) == Minus(elapsed, frame.child)

\* g_stack after the pop: the caller, if any, is charged the callee's time.
PoppedUncharged(elapsed) == SubSeq(stack, 1, Len(stack) - 1)
PoppedChargedTwice(elapsed) ==
  [i \in 1 .. Len(stack) - 1 |->
     IF i = Len(stack) - 1 THEN [stack[i] EXCEPT !.child = Plus(@, 2 * elapsed)]
     ELSE stack[i]]
Popped(elapsed) ==
  [i \in 1 .. Len(stack) - 1 |->
     IF i = Len(stack) - 1 THEN [stack[i] EXCEPT !.child = Plus(@, elapsed)]
     ELSE stack[i]]

\* The part of mettle_profile_exit after the two early returns.
PopFrame ==
  LET n == Len(stack)
      frame == stack[n]
      elapsed == Elapsed(frame)
  IN  /\ stats' = [stats EXCEPT
                     ![frame.fn].total = Plus(@, elapsed),
                     ![frame.fn].self = Plus(@, SelfShare(frame, elapsed)),
                     ![frame.fn].max = IF elapsed > @ THEN elapsed ELSE @]
      /\ stack' = Popped(elapsed)
      /\ IF n > 1
         THEN /\ NoteEdge(<<stack[n - 1].fn, frame.fn>>, 0, elapsed)
              /\ UNCHANGED rootTime
         ELSE /\ rootTime' = [rootTime EXCEPT ![frame.fn] = Plus(@, elapsed)]
              /\ UNCHANGED <<edges, edgeCap, lostEdge>>
      /\ UNCHANGED overflow

\* An exit that belongs to a body for which no frame was pushed.
ExitIgnoredNever == FALSE
ExitIgnored == overflow > 0

\* mettle_profile_exit: nothing to pop, an overflowed body, or a frame.
Exit ==
  /\ phase = "running" /\ live # <<>>
  /\ live' = SubSeq(live, 1, Len(live) - 1)
  /\ \/ /\ stack = <<>>
        /\ UNCHANGED <<stats, stack, overflow, edges, edgeCap, rootTime, lostEdge>>
     \/ /\ stack # <<>> /\ ExitIgnored
        /\ overflow' = overflow - 1
        /\ UNCHANGED <<stats, stack, edges, edgeCap, rootTime, lostEdge>>
     \/ /\ stack # <<>> /\ ~ExitIgnored
        /\ PopFrame
  /\ UNCHANGED <<counter, phase, statsCap, opStats, opCap, report, entered,
                 dropped, skewed, rootCalls, trueOps>>

\* Time passes between two calls of the profiler.
Tick ==
  /\ phase = "running"
  /\ \E s \in Starts : counter \in s .. s + MaxTicks - 1
  /\ counter' = counter + 1
  /\ UNCHANGED <<phase, runtime, report, ghosts>>

-----------------------------------------------------------------------------
\* mettle_profile_sort_desc: by inclusive time, then by id.
SortDesc(seen, a, b) ==
  \/ seen[a].total > seen[b].total
  \/ seen[a].total = seen[b].total /\ a < b

\* The entries after qsort: the called functions in that order.
Sorted(seen, active) ==
  LET rank == 1 .. Cardinality(active)
  IN  CHOOSE r \in [rank -> active] :
        \A i, j \in rank : i < j => SortDesc(seen, r[i], r[j])

\* mettle_profile_find_root_id: main if it ran, else the last function with the
\* largest inclusive time.
RootId(seen, active) ==
  IF Main \in active THEN Main
  ELSE CHOOSE f \in active : \A g \in active :
         \/ seen[g].total < seen[f].total
         \/ seen[g].total = seen[f].total /\ g <= f

GraphLinesOfRoot(root, noMemory) ==
  {e \in DOMAIN edges : edges[e].calls > 0 /\ e[1] = root /\ root \notin noMemory}

\* The lines mettle_profile_report_callgraph_node writes below the root: every
\* counted edge out of a function the recursion visits.  A visited function
\* whose children array (or, for the root, whose visited array) could not be
\* allocated writes nothing.
GraphLines(root, noMemory) ==
  LET counted == {e \in DOMAIN edges : edges[e].calls > 0 /\ e[1] \notin noMemory}
      closed(S) == \A e \in counted : e[1] \in S => e[2] \in S
      visited == {f \in Fn : \A S \in SUBSET Fn : root \in S /\ closed(S) => f \in S}
  IN  {e \in counted : e[1] \in visited}

\* mettle_profile_report_operations: the zero rows of two classes are kept.
\* junk holds the cells past g_op_stats_capacity that happen not to be zero.
OperationRows(active, junk) ==
  LET used == {r \in active \X OpClasses :
                 IF r[1] < opCap THEN opStats[r[1]][r[2]] # 0 ELSE r \in junk}
  IN  IF used = {} THEN {} ELSE used \cup (active \X AlwaysShown)

\* The records the report reads.  The loop runs to mettle_profile_name_count,
\* whatever g_stats_capacity is: those past the capacity are whatever memory holds.
Seen(beyond) == [f \in Fn |-> IF f < statsCap THEN stats[f] ELSE beyond[f]]
Active(seen) == {f \in Fn : seen[f].calls > 0}

\* The three tables: the sorted functions, the call graph and the operations.
Written(seen, junk, noMemory) ==
  LET root == RootId(seen, Active(seen))
  IN  [printed |-> TRUE,
       rows |-> Sorted(seen, Active(seen)),
       root |-> root,
       graph |-> GraphLines(root, noMemory),
       ops |-> OperationRows(Active(seen), junk),
       short |-> noMemory # {}]

\* mettle_profile_report, called by the start-up code after main returned.
Report ==
  /\ phase = "running" /\ live = <<>> /\ entered > 0
  /\ phase' = "reported"
  /\ \E beyond \in [statsCap .. NameCount - 1 -> Garbage],
        junk \in SUBSET ((opCap .. NameCount - 1) \X OpClasses),
        noMemory \in IF AllocMayFail THEN SUBSET Fn ELSE {{}},
        noEntries \in IF AllocMayFail THEN BOOLEAN ELSE {FALSE} :
       LET seen == Seen(beyond)
       IN  report' = IF \/ statsCap = 0 \/ noEntries
                        \/ \A f \in Active(seen) : seen[f].total = 0
                     THEN NoReport
                     ELSE Written(seen, junk, noMemory)
  /\ UNCHANGED <<counter, runtime, ghosts>>

Next ==
  \/ \E f \in Fn : Enter(f)
  \/ \E c \in OpClasses : Op(c)
  \/ Exit
  \/ Tick
  \/ Report

Spec == Init /\ [][Next]_vars

-----------------------------------------------------------------------------
\* The recorded calls of f, and what is recorded of each call.
EdgesInto(f) == {e \in DOMAIN edges : e[2] = f}
EdgeCalls == [e \in DOMAIN edges |-> edges[e].calls]
EdgeTimes == [e \in DOMAIN edges |-> edges[e].time]

TypeOK ==
  /\ counter \in Nat /\ phase \in {"running", "reported"}
  /\ stats \in [Fn -> Stats] /\ statsCap \in Nat
  /\ opStats \in [Fn -> [OpClasses -> Nat]] /\ opCap \in Nat
  /\ stack \in Seq(Frame) /\ Len(stack) <= MaxStack /\ overflow \in Nat
  /\ DOMAIN edges \subseteq Fn \X Fn
  /\ edges \in [DOMAIN edges -> [calls : Nat, time : UInt]]
  /\ edgeCap \in Nat
  /\ live \in Seq(Fn) /\ entered \in Nat
  /\ dropped \in BOOLEAN /\ lostEdge \in BOOLEAN /\ skewed \in BOOLEAN
  /\ rootCalls \in [Fn -> Nat] /\ rootTime \in [Fn -> UInt]
  /\ trueOps \in [Fn -> [OpClasses -> Nat]]

\* The 64-bit product in mettle_profile_now_ns has not wrapped yet.
ClockExact == counter * NsPerSec < Word

\* While the clock is exact, a frame starts only after the time its caller has
\* already charged to earlier callees, and the innermost frame's charged time
\* lies in the past: neither `now - frame.start_ns' nor `elapsed -
\* frame.child_ns' in mettle_profile_exit can wrap below zero, however calls,
\* overflowed bodies and failed allocations interleave.
FrameTimesNested ==
  ClockExact =>
    \A i \in 1 .. Len(stack) :
      stack[i].start + stack[i].child <=
        (IF i < Len(stack) THEN stack[i + 1].start ELSE NowNs)

\* The profiler's stack and overflow counter mirror the program's calls: frames
\* are the outermost MaxStack bodies and the overflow counts the rest.  A
\* dropped enter makes later exits pop a caller's frame too early, but never
\* leaves a frame behind: the profiler is never deeper than the program, so
\* when main has returned nothing is left on the stack.
FramesMirrorCalls ==
  /\ Len(stack) + overflow <= Len(live)
  /\ ~dropped =>
       /\ Len(stack) + overflow = Len(live)
       /\ overflow > 0 => Len(stack) = MaxStack
       /\ \A i \in 1 .. Len(stack) : stack[i].fn = live[i]

\* Every nanosecond of a root call is charged to exactly one function: the self
\* times add up to the time of the root frames plus what finished callees have
\* charged to frames still open (modulo 2^64), in every interleaving, also when
\* frames were dropped or the clock wrapped.
SelfTimeConserved ==
  SumFunction([f \in Fn |-> stats[f].self]) % Word =
    (SumFunction(rootTime) +
     SumFunction([i \in 1 .. Len(stack) |-> stack[i].child])) % Word

\* The flat table and the call graph agree: the calls (and the time) of a
\* function are those of the edges into it plus those made at the root, unless
\* memory for an edge ran out.
EdgesAccountForStats ==
  lostEdge \/ \A f \in Fn :
    /\ stats[f].calls = rootCalls[f] + SumFunctionOnSet(EdgeCalls, EdgesInto(f))
    /\ stats[f].total =
         (rootTime[f] + SumFunctionOnSet(EdgeTimes, EdgesInto(f))) % Word

\* Operations are charged to the function that executed them unless a body ran
\* above MaxStack or an enter was dropped; in those cases none is invented.
OpsChargedToTheirBody ==
  /\ ~(skewed \/ dropped) => opStats = trueOps
  /\ \A c \in OpClasses :
       SumFunction([f \in Fn |-> opStats[f][c]]) <= SumFunction([f \in Fn |-> trueOps[f][c]])

\* When the tables cover every registered function and memory did not run out,
\* the report lists exactly the called functions, and its graph contains every
\* recorded call if main is the only root.
ReportComplete ==
  (report.printed /\ NameCount <= statsCap) =>
    /\ {report.rows[i] : i \in 1 .. Len(report.rows)} = {f \in Fn : stats[f].calls > 0}
    /\ (~report.short /\ ~lostEdge /\ \A f \in Fn \ {report.root} : rootCalls[f] = 0) =>
         report.graph = DOMAIN edges

\* The tables tell one story of the run, in every interleaving of calls,
\* returns, failed growth and overflow: the call graph adds up to the flat
\* table, the self times to the time of the roots, and operations are charged
\* to the function that executed them.
TablesAgree == EdgesAccountForStats /\ SelfTimeConserved /\ OpsChargedToTheirBody
=============================================================================
