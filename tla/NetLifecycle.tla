---------------------------- MODULE NetLifecycle ----------------------------
(***************************************************************************)
(* The lifecycle of std/net (stdlib/std/net.mettle) and of its POSIX twin  *)
(* (stdlib/std/net_posix.mettle), over the spin lock of std/thread:        *)
(* threads call net_init, net_cleanup and net_is_initialized, which guard  *)
(* the plain int32 net_ref_count with net_ref_lock.  One step is one       *)
(* access to shared memory, one call of the C library or of Winsock, or    *)
(* one turn of the spin loop.                                              *)
(***************************************************************************)
EXTENDS Integers, FiniteSets, Functions

CONSTANTS
  Threads,     \* the threads that call into std/net
  Winsock,     \* TRUE for std/net (Winsock), FALSE for std/net_posix
  Half,        \* an int32 lies in -Half .. Half - 1
  MaxHeld,     \* bound: references one thread takes
  MaxLeaks     \* bound: WSACleanup calls that fail

ASSUME ThreadsAssumption ==
  /\ Half \in Nat \ {0, 1}
  /\ MaxHeld \in Nat /\ MaxLeaks \in Nat

ASSUME VariantAssumption == Winsock \in BOOLEAN

VARIABLES
  lock,      \* net_ref_lock
  count,     \* net_ref_count
  wsa,       \* Winsock's own count of startups not yet cleaned up
  pc,        \* per thread: the step it takes next
  op,        \* per thread: the call it is in
  reg,       \* per thread: net_ref_count as last loaded into a register
  answer,    \* per thread: what the call will return
  held,      \* history: references a thread took and has not given back
  extra,     \* history: some thread called net_cleanup without a reference
  leaks,     \* history: WSACleanup calls that failed
  atLock     \* history: <<count, wsa>> when net_ref_lock was taken, while it is

shared == <<lock, count, wsa>>
history == <<held, extra, leaks, atLock>>
vars == <<lock, count, wsa, pc, op, reg, answer, held, extra, leaks, atLock>>

\* The steps of a call that run with net_ref_lock taken.
Inside == {"test", "load", "store", "malloc", "startup", "set_one", "last",
           "shutdown", "unlock"}
Waiting == {"spin", "yield"}
Int32 == -Half .. Half - 1

(***************************************************************************)
(* The refinement mapping: a call takes effect when it unlocks.  Until     *)
(* then the outside sees the counts as they were when the lock was taken.  *)
(***************************************************************************)
Locked == \E t \in Threads : pc[t] \in Inside

Phase(t) ==
  CASE pc[t] = "idle" -> "idle"
    [] pc[t] = "return" -> answer[t]
    [] OTHER -> op[t]

Service == INSTANCE NetService WITH
  refs <- IF Locked THEN atLock[1] ELSE count,
  startups <- IF Locked THEN atLock[2] ELSE wsa,
  phase <- [t \in Threads |-> Phase(t)]

Ops == {"init", "cleanup", "query"}
Answers == {"ok", "failed", "yes", "no"}

\* int32 arithmetic wraps (two's complement).
Wrap32(n) == ((n + Half) % (2 * Half)) - Half

TypeOK ==
  /\ lock \in {0, 1}
  /\ count \in Int32
  /\ wsa \in Int
  /\ pc \in [Threads -> {"idle", "return"} \cup Waiting \cup Inside]
  /\ op \in [Threads -> Ops]
  /\ reg \in [Threads -> Int32]
  /\ answer \in [Threads -> Answers]
  /\ held \in [Threads -> Nat]
  /\ extra \in BOOLEAN
  /\ leaks \in Nat
  /\ atLock \in Int32 \X Int

Init ==
  /\ lock = 0
  /\ count = 0
  /\ wsa = 0
  /\ pc = [t \in Threads |-> "idle"]
  /\ op = [t \in Threads |-> "query"]
  /\ reg = [t \in Threads |-> 0]
  /\ answer = [t \in Threads |-> "ok"]
  /\ held = [t \in Threads |-> 0]
  /\ extra = FALSE
  /\ leaks = 0
  /\ atLock = <<0, 0>>

Goto(t, l) == pc' = [pc EXCEPT ![t] = l]
Reply(t, a) == answer' = [answer EXCEPT ![t] = a]

\* A thread calls one of the three functions.
Call(t, o) ==
  /\ pc[t] = "idle"
  /\ o = "init" => held[t] < MaxHeld
  /\ Goto(t, "spin")
  /\ op' = [op EXCEPT ![t] = o]
  /\ extra' = (extra \/ (o = "cleanup" /\ held[t] = 0))
  /\ UNCHANGED <<shared, reg, answer, held, leaks, atLock>>

\* Mutant: a plain store where the compare-and-swap is.
TryLockWithoutCas(t) ==
  /\ pc[t] = "spin"
  /\ lock' = 1
  /\ Goto(t, IF ~Winsock /\ op[t] = "init" THEN "load" ELSE "test")
  /\ atLock' = <<count, wsa>>
  /\ UNCHANGED <<count, wsa, op, reg, answer, held, extra, leaks>>

\* spin_try_lock: compare-and-swap 0 to 1; spin_lock goes on when it won.
SpinTryLock(t) ==
  /\ pc[t] = "spin"
  /\ IF lock = 0
       THEN /\ lock' = 1
            /\ Goto(t, IF ~Winsock /\ op[t] = "init" THEN "load" ELSE "test")
            /\ atLock' = <<count, wsa>>
       ELSE /\ Goto(t, "yield")
            /\ UNCHANGED <<lock, atLock>>
  /\ UNCHANGED <<count, wsa, op, reg, answer, held, extra, leaks>>

\* Sleep(0) or posix_yield(), then the loop tries again.
SpinYield(t) ==
  /\ pc[t] = "yield"
  /\ Goto(t, "spin")
  /\ UNCHANGED <<shared, op, reg, answer, history>>

\* net_init finds a count: it will add one; else it allocates the WSADATA.
TestInit(t) ==
  /\ pc[t] = "test" /\ op[t] = "init"
  /\ Goto(t, IF count > 0 THEN "load" ELSE "malloc")
  /\ UNCHANGED <<shared, op, reg, answer, history>>

\* net_cleanup without a count is a no-op; else it will take one off.
TestCleanup(t) ==
  /\ pc[t] = "test" /\ op[t] = "cleanup"
  /\ IF count <= 0 THEN Goto(t, "unlock") /\ Reply(t, "ok")
                   ELSE Goto(t, "load") /\ UNCHANGED answer
  /\ UNCHANGED <<shared, op, reg, history>>

\* net_is_initialized reads the count.
TestQuery(t) ==
  /\ pc[t] = "test" /\ op[t] = "query"
  /\ Goto(t, "unlock")
  /\ Reply(t, IF count > 0 THEN "yes" ELSE "no")
  /\ UNCHANGED <<shared, op, reg, history>>

\* count = count + 1 and count = count - 1: a load ...
Load(t) ==
  /\ pc[t] = "load"
  /\ Goto(t, "store")
  /\ reg' = [reg EXCEPT ![t] = count]
  /\ UNCHANGED <<shared, op, answer, history>>

\* ... and a store of the register, plus or minus one.
Store(t) ==
  /\ pc[t] = "store"
  /\ count' = Wrap32(IF op[t] = "init" THEN reg[t] + 1 ELSE reg[t] - 1)
  /\ Goto(t, IF Winsock /\ op[t] = "cleanup" THEN "last" ELSE "unlock")
  /\ Reply(t, "ok")
  /\ UNCHANGED <<lock, wsa, op, reg, history>>

\* Mutant: net_init returns -1 without unlocking.
MallocKeepsLock(t) ==
  /\ pc[t] = "malloc"
  /\ \/ Goto(t, "startup") /\ UNCHANGED answer
     \/ Goto(t, "return") /\ Reply(t, "failed")
  /\ UNCHANGED <<shared, op, reg, history>>

\* malloc(408) may fail; net_init then returns -1.
Malloc(t) ==
  /\ pc[t] = "malloc"
  /\ \/ Goto(t, "startup") /\ UNCHANGED answer
     \/ Goto(t, "unlock") /\ Reply(t, "failed")
  /\ UNCHANGED <<shared, op, reg, history>>

\* Mutant: net_init counts the reference whatever WSAStartup answered.
StartupCountsFailure(t) ==
  /\ pc[t] = "startup"
  /\ \/ Goto(t, "set_one") /\ wsa' = wsa + 1 /\ UNCHANGED <<answer, count>>
     \/ Goto(t, "unlock") /\ Reply(t, "failed") /\ count' = 1 /\ UNCHANGED wsa
  /\ UNCHANGED <<lock, op, reg, history>>

\* WSAStartup may fail; net_init then returns its error.
Startup(t) ==
  /\ pc[t] = "startup"
  /\ \/ Goto(t, "set_one") /\ wsa' = wsa + 1 /\ UNCHANGED answer
     \/ Goto(t, "unlock") /\ Reply(t, "failed") /\ UNCHANGED wsa
  /\ UNCHANGED <<lock, count, op, reg, history>>

SetOne(t) ==
  /\ pc[t] = "set_one"
  /\ count' = 1
  /\ Goto(t, "unlock")
  /\ Reply(t, "ok")
  /\ UNCHANGED <<lock, wsa, op, reg, history>>

\* net_cleanup reads the count again to see whether it took the last one.
TestLast(t) ==
  /\ pc[t] = "last"
  /\ Goto(t, IF count > 0 THEN "unlock" ELSE "shutdown")
  /\ UNCHANGED <<shared, op, reg, answer, history>>

\* Mutant: net_cleanup takes its reference back when WSACleanup fails.
ShutdownRestores(t) ==
  /\ pc[t] = "shutdown"
  /\ Goto(t, "unlock")
  /\ \/ wsa' = wsa - 1 /\ Reply(t, "ok") /\ UNCHANGED <<leaks, count>>
     \/ leaks < MaxLeaks /\ leaks' = leaks + 1 /\ Reply(t, "failed")
        /\ count' = 1 /\ UNCHANGED wsa
  /\ UNCHANGED <<lock, op, reg, held, extra, atLock>>

\* WSACleanup may fail; its result is returned and nothing is undone.
Shutdown(t) ==
  /\ pc[t] = "shutdown"
  /\ Goto(t, "unlock")
  /\ \/ wsa' = wsa - 1 /\ Reply(t, "ok") /\ UNCHANGED leaks
     \/ leaks < MaxLeaks /\ leaks' = leaks + 1 /\ Reply(t, "failed") /\ UNCHANGED wsa
  /\ UNCHANGED <<lock, count, op, reg, held, extra, atLock>>

\* What a finished call means for the references its caller owns.
HeldAfter(t) ==
  CASE op[t] = "init" /\ answer[t] = "ok" -> held[t] + 1
    [] op[t] = "cleanup" /\ held[t] > 0 -> held[t] - 1
    [] OTHER -> held[t]

\* spin_unlock: exchange the lock word with 0.
SpinUnlock(t) ==
  /\ pc[t] = "unlock"
  /\ lock' = 0
  /\ Goto(t, "return")
  /\ held' = [held EXCEPT ![t] = HeldAfter(t)]
  /\ atLock' = <<0, 0>>
  /\ UNCHANGED <<count, wsa, op, reg, answer, extra, leaks>>

\* The call returns and its locals are gone.
Return(t) ==
  /\ pc[t] = "return"
  /\ Goto(t, "idle")
  /\ op' = [op EXCEPT ![t] = "query"]
  /\ reg' = [reg EXCEPT ![t] = 0]
  /\ answer' = [answer EXCEPT ![t] = "ok"]
  /\ UNCHANGED <<shared, history>>

Step(t) ==
  \/ SpinTryLock(t) \/ SpinYield(t)
  \/ TestInit(t) \/ TestCleanup(t) \/ TestQuery(t)
  \/ Load(t) \/ Store(t)
  \/ Malloc(t) \/ Startup(t) \/ SetOne(t)
  \/ TestLast(t) \/ Shutdown(t)
  \/ SpinUnlock(t) \/ Return(t)

Next == \E t \in Threads : Step(t) \/ \E o \in Ops : Call(t, o)

Spec == Init /\ [][Next]_vars

\* The operating system schedules every thread that can run.
FairSpec == Spec /\ \A t \in Threads : WF_vars(Step(t))

-----------------------------------------------------------------------------
(***************************************************************************)
(* Properties.                                                             *)
(***************************************************************************)

\* The spin lock (thread.mettle 96-112) excludes: at most one thread is
\* between taking net_ref_lock and releasing it, and the lock word is 1
\* exactly then, so no return path forgets to unlock.
MutualExclusion ==
  /\ \A s, t \in Threads : pc[s] \in Inside /\ pc[t] \in Inside => s = t
  /\ lock = 1 <=> Locked

\* Between calls the references net_init and net_cleanup count are the
\* references the callers own, unless one gave back what it never took, and
\* Winsock has been started once if a reference is out and not at all if none
\* is, plus once for each WSACleanup that failed: no increment, decrement,
\* start or stop is lost or made twice between two threads.  And
\* a thread that has a reference and is not giving it back can use sockets,
\* whatever the other threads are in the middle of, as long as every
\* net_cleanup so far had its net_init.
ReferencesAccounted ==
  /\ ~Locked =>
       /\ ~extra => count = SumFunction(held)
       /\ Winsock => wsa = leaks + (IF count > 0 THEN 1 ELSE 0)
  /\ \A t \in Threads : Winsock /\ ~extra /\ held[t] > 0 /\ (pc[t] = "idle" \/ op[t] # "cleanup")
                        => wsa > 0

\* The interleaved calls behave as indivisible ones.
ImplementsService == Service!SSpec

\* While threads wait for the lock, some thread keeps getting it, and a thread
\* that has it gets to its return: no thread leaves a call with the lock taken,
\* and no two wait on each other.  (A given thread may lose every race: the
\* spin lock is not starvation-free.)
LockProgress ==
  /\ (\E t \in Threads : pc[t] \in Waiting) ~> Locked
  /\ \A t \in Threads : pc[t] \in Inside ~> pc[t] = "idle"
=============================================================================
