----------------------------- MODULE NetService -----------------------------
(***************************************************************************)
(* What std/net promises about its lifecycle calls: net_init, net_cleanup  *)
(* and net_is_initialized behave as if each of them took effect in one     *)
(* indivisible step between its call and its return.  NetLifecycle, which  *)
(* interleaves the loads, stores and compare-and-swaps of the code, is     *)
(* shown to implement this module.                                         *)
(***************************************************************************)
EXTENDS Integers

CONSTANTS
  Threads,   \* the threads that call into std/net
  Winsock,   \* TRUE for std/net (Winsock), FALSE for std/net_posix
  Half       \* an int32 lies in -Half .. Half - 1

VARIABLES
  refs,      \* references the library believes are out
  startups,  \* WSAStartup calls that no WSACleanup has undone
  phase      \* per thread: idle, the call it waits on, or its answer

svars == <<refs, startups, phase>>

\* The outcomes of a call, by name.
Ops == {"init", "cleanup", "query"}
Answers == {"ok", "failed", "yes", "no"}

\* int32 addition wraps (two's complement).
Wrap32(n) == ((n + Half) % (2 * Half)) - Half

SInit ==
  /\ refs = 0
  /\ startups = 0
  /\ phase = [t \in Threads |-> "idle"]

Invoke(t, o) ==
  /\ phase[t] = "idle"
  /\ phase' = [phase EXCEPT ![t] = o]
  /\ UNCHANGED <<refs, startups>>

Answer(t, a) == phase' = [phase EXCEPT ![t] = a]

\* A net_init that finds the library up, or needs no library, adds a reference.
TakeReference(t) ==
  /\ phase[t] = "init"
  /\ Winsock => refs > 0
  /\ refs' = Wrap32(refs + 1)
  /\ Answer(t, "ok")
  /\ UNCHANGED startups

\* The first net_init starts the library.
StartLibrary(t) ==
  /\ phase[t] = "init"
  /\ Winsock /\ refs <= 0
  /\ refs' = 1
  /\ startups' = startups + 1
  /\ Answer(t, "ok")

\* A net_init that cannot start the library leaves no trace.
InitFails(t) ==
  /\ phase[t] = "init"
  /\ Winsock /\ refs <= 0
  /\ Answer(t, "failed")
  /\ UNCHANGED <<refs, startups>>

\* A net_cleanup with no reference out changes nothing.
ExtraCleanup(t) ==
  /\ phase[t] = "cleanup"
  /\ refs <= 0
  /\ Answer(t, "ok")
  /\ UNCHANGED <<refs, startups>>

\* A net_cleanup that is not the last only drops a reference.
DropReference(t) ==
  /\ phase[t] = "cleanup"
  /\ refs > 0 /\ (Winsock => refs > 1)
  /\ refs' = refs - 1
  /\ Answer(t, "ok")
  /\ UNCHANGED startups

\* The last net_cleanup stops the library, or reports that it could not: the
\* reference is gone either way.
StopLibrary(t) ==
  /\ phase[t] = "cleanup"
  /\ Winsock /\ refs = 1
  /\ refs' = 0
  /\ \/ startups' = startups - 1 /\ Answer(t, "ok")
     \/ startups' = startups /\ Answer(t, "failed")

\* net_is_initialized tells whether a reference is out.
Report(t) ==
  /\ phase[t] = "query"
  /\ Answer(t, IF refs > 0 THEN "yes" ELSE "no")
  /\ UNCHANGED <<refs, startups>>

Return(t) ==
  /\ phase[t] \in Answers
  /\ phase' = [phase EXCEPT ![t] = "idle"]
  /\ UNCHANGED <<refs, startups>>

Effect(t) ==
  \/ TakeReference(t) \/ StartLibrary(t) \/ InitFails(t)
  \/ ExtraCleanup(t) \/ DropReference(t) \/ StopLibrary(t)
  \/ Report(t)

SNext == \E t \in Threads : Effect(t) \/ Return(t) \/ \E o \in Ops : Invoke(t, o)

SSpec == SInit /\ [][SNext]_svars
=============================================================================
