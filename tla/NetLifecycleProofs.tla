------------------------- MODULE NetLifecycleProofs -------------------------
(***************************************************************************)
(* Proofs about NetLifecycle, for any set of threads, any int32 width, and *)
(* both the Winsock and the POSIX variant: the spin lock excludes, and the *)
(* interleaved calls implement the indivisible ones of NetService.         *)
(***************************************************************************)
EXTENDS NetLifecycle, FiniteFacts

(***************************************************************************)
(* The inductive invariant: besides types and exclusion, how far the       *)
(* shared state has moved from what it was when the lock was taken, step   *)
(* by step.                                                                *)
(***************************************************************************)
Same == count = atLock[1] /\ wsa = atLock[2]

Done(t) ==
  \/ /\ op[t] = "init" /\ answer[t] = "ok"
     /\ Winsock => atLock[1] > 0
     /\ count = Wrap32(atLock[1] + 1) /\ wsa = atLock[2]
  \/ /\ op[t] = "init" /\ answer[t] = "ok"
     /\ Winsock /\ atLock[1] <= 0
     /\ count = 1 /\ wsa = atLock[2] + 1
  \/ /\ op[t] = "init" /\ answer[t] = "failed"
     /\ Winsock /\ atLock[1] <= 0
     /\ Same
  \/ /\ op[t] = "cleanup" /\ answer[t] = "ok"
     /\ atLock[1] <= 0
     /\ Same
  \/ /\ op[t] = "cleanup" /\ answer[t] = "ok"
     /\ atLock[1] > 0 /\ (Winsock => atLock[1] > 1)
     /\ count = atLock[1] - 1 /\ wsa = atLock[2]
  \/ /\ op[t] = "cleanup"
     /\ Winsock /\ atLock[1] = 1
     /\ count = 0
     /\ \/ wsa = atLock[2] - 1 /\ answer[t] = "ok"
        \/ wsa = atLock[2] /\ answer[t] = "failed"
  \/ /\ op[t] = "query"
     /\ answer[t] = (IF atLock[1] > 0 THEN "yes" ELSE "no")
     /\ Same

Counting(t) ==
  /\ Same
  /\ \/ op[t] = "init" /\ (Winsock => count > 0)
     \/ op[t] = "cleanup" /\ count > 0

Progress(t) ==
  /\ pc[t] = "test" => Same /\ (op[t] = "init" => Winsock)
  /\ pc[t] = "load" => Counting(t)
  /\ pc[t] = "store" => Counting(t) /\ reg[t] = count
  /\ pc[t] \in {"malloc", "startup"} =>
       Same /\ op[t] = "init" /\ Winsock /\ count <= 0
  /\ pc[t] = "set_one" =>
       /\ op[t] = "init" /\ Winsock
       /\ count = atLock[1] /\ count <= 0 /\ wsa = atLock[2] + 1
  /\ pc[t] \in {"last", "shutdown"} =>
       /\ op[t] = "cleanup" /\ Winsock /\ answer[t] = "ok"
       /\ atLock[1] > 0 /\ count = atLock[1] - 1 /\ wsa = atLock[2]
  /\ pc[t] = "shutdown" => count = 0
  /\ pc[t] = "unlock" => Done(t)

IInv == TypeOK /\ MutualExclusion /\ \A t \in Threads : Progress(t)

-----------------------------------------------------------------------------
(***************************************************************************)
(* int32 arithmetic.                                                       *)
(***************************************************************************)

\* Wrapping gives an int32.
LEMMA WrapRange == ASSUME NEW n \in Int PROVE Wrap32(n) \in Int32
<1>1. 2 * Half \in Nat \ {0}
  BY ThreadsAssumption
<1>2. (n + Half) % (2 * Half) \in 0 .. (2 * Half) - 1
  BY <1>1, ThreadsAssumption
<1> QED
  BY <1>2, ThreadsAssumption DEF Wrap32, Int32

\* Wrapping leaves an int32 alone.
LEMMA WrapSame == ASSUME NEW n \in Int32 PROVE Wrap32(n) = n
<1>1. n \in Int /\ n + Half \in 0 .. (2 * Half) - 1
  BY ThreadsAssumption DEF Int32
<1>2. \A m \in Nat \ {0} : \A k \in 0 .. m - 1 : k % m = k
  OBVIOUS
<1>3. 2 * Half \in Nat \ {0}
  BY ThreadsAssumption
<1>4. (n + Half) % (2 * Half) = n + Half
  BY <1>1, <1>2, <1>3
<1> QED
  BY <1>1, <1>4, ThreadsAssumption DEF Wrap32

-----------------------------------------------------------------------------
(***************************************************************************)
(* The invariant is inductive.                                             *)
(***************************************************************************)

\* It holds initially.
LEMMA InitInv == Init => IInv
<1> SUFFICES ASSUME Init PROVE IInv
  OBVIOUS
<1>1. TypeOK
  <2>1. 0 \in Int32
    BY ThreadsAssumption DEF Int32
  <2>2. extra \in BOOLEAN
    BY DEF Init
  <2> QED
    BY <2>1, <2>2 DEF Init, TypeOK, Ops, Answers
<1>2. MutualExclusion
  BY DEF Init, MutualExclusion, Locked, Inside
<1>3. \A t \in Threads : Progress(t)
  BY DEF Init, Progress
<1> QED
  BY <1>1, <1>2, <1>3 DEF IInv

\* Types: one action at a time.
LEMMA TypeStep == TypeOK /\ [Next]_vars => TypeOK'
<1> SUFFICES ASSUME TypeOK, [Next]_vars PROVE TypeOK'
  OBVIOUS
<1> DEFINE Labels == {"idle", "return"} \cup Waiting \cup Inside
<1>0. ASSUME NEW t \in Threads, NEW l \in Labels, Goto(t, l)
      PROVE pc' \in [Threads -> Labels]
  BY <1>0 DEF TypeOK, Goto
<1>1. ASSUME NEW t \in Threads, NEW a \in Answers, Reply(t, a)
      PROVE answer' \in [Threads -> Answers]
  BY <1>1 DEF TypeOK, Reply
<1>2. ASSUME NEW t \in Threads, NEW o \in Ops, Call(t, o) PROVE TypeOK'
  BY <1>2, <1>0 DEF TypeOK, Call, Waiting, shared, history
<1>3. ASSUME NEW t \in Threads, SpinTryLock(t) PROVE TypeOK'
  BY <1>3, <1>0 DEF TypeOK, SpinTryLock, Waiting, Inside
<1>4. ASSUME NEW t \in Threads, SpinYield(t) PROVE TypeOK'
  BY <1>4, <1>0 DEF TypeOK, SpinYield, Waiting, shared, history
<1>5. ASSUME NEW t \in Threads, TestInit(t) PROVE TypeOK'
  BY <1>5, <1>0 DEF TypeOK, TestInit, Inside, shared, history
<1>6. ASSUME NEW t \in Threads, TestCleanup(t) PROVE TypeOK'
  BY <1>6, <1>0, <1>1 DEF TypeOK, TestCleanup, Inside, Answers, shared, history
<1>7. ASSUME NEW t \in Threads, TestQuery(t) PROVE TypeOK'
  BY <1>7, <1>0, <1>1 DEF TypeOK, TestQuery, Inside, Answers, shared, history
<1>8. ASSUME NEW t \in Threads, Load(t) PROVE TypeOK'
  BY <1>8, <1>0 DEF TypeOK, Load, Inside, shared, history
<1>9. ASSUME NEW t \in Threads, Store(t) PROVE TypeOK'
  <2>1. reg[t] + 1 \in Int /\ reg[t] - 1 \in Int
    BY ThreadsAssumption DEF TypeOK, Int32
  <2>2. count' \in Int32
    BY <1>9, <2>1, WrapRange DEF Store
  <2> QED
    BY <1>9, <1>0, <1>1, <2>2 DEF TypeOK, Store, Inside, Answers, history
<1>10. ASSUME NEW t \in Threads, Malloc(t) PROVE TypeOK'
  BY <1>10, <1>0, <1>1 DEF TypeOK, Malloc, Inside, Answers, shared, history
<1>11. ASSUME NEW t \in Threads, Startup(t) PROVE TypeOK'
  BY <1>11, <1>0, <1>1 DEF TypeOK, Startup, Inside, Answers, history
<1>12. ASSUME NEW t \in Threads, SetOne(t) PROVE TypeOK'
  <2>1. 1 \in Int32
    BY ThreadsAssumption DEF Int32
  <2> QED
    BY <1>12, <1>0, <1>1, <2>1 DEF TypeOK, SetOne, Inside, Answers, history
<1>13. ASSUME NEW t \in Threads, TestLast(t) PROVE TypeOK'
  BY <1>13, <1>0 DEF TypeOK, TestLast, Inside, shared, history
<1>14. ASSUME NEW t \in Threads, Shutdown(t) PROVE TypeOK'
  BY <1>14, <1>0, <1>1 DEF TypeOK, Shutdown, Inside, Answers
<1>15. ASSUME NEW t \in Threads, SpinUnlock(t) PROVE TypeOK'
  <2>1. HeldAfter(t) \in Nat
    BY DEF TypeOK, HeldAfter
  <2>2. 0 \in Int32
    BY ThreadsAssumption DEF Int32
  <2> QED
    BY <1>15, <1>0, <2>1, <2>2 DEF TypeOK, SpinUnlock
<1>16. ASSUME NEW t \in Threads, Return(t) PROVE TypeOK'
  <2>1. 0 \in Int32
    BY ThreadsAssumption DEF Int32
  <2> QED
    BY <1>16, <1>0, <2>1 DEF TypeOK, Return, Ops, Answers, shared, history
<1>17. CASE UNCHANGED vars
  BY <1>17 DEF TypeOK, vars
<1> QED
  BY <1>2, <1>3, <1>4, <1>5, <1>6, <1>7, <1>8, <1>9, <1>10, <1>11, <1>12,
     <1>13, <1>14, <1>15, <1>16, <1>17 DEF Next, Step

(***************************************************************************)
(* What a step of thread t does to the lock, by where it starts and ends.  *)
(***************************************************************************)
Moves(t, l) == pc' = [pc EXCEPT ![t] = l]

Outside(t) == pc[t] \notin Inside /\ lock' = lock
              /\ count' = count /\ wsa' = wsa /\ atLock' = atLock
              /\ \E l : l \notin Inside /\ Moves(t, l)
Within(t) == pc[t] \in Inside /\ lock' = lock /\ \E l \in Inside : Moves(t, l)
Enters(t) == pc[t] \notin Inside /\ lock = 0 /\ lock' = 1
             /\ \E l \in Inside : Moves(t, l)
Leaves(t) == pc[t] \in Inside /\ lock' = 0 /\ \E l : l \notin Inside /\ Moves(t, l)

\* Every step is one of these.
LEMMA StepKinds ==
  ASSUME TypeOK, NEW t \in Threads, Step(t) \/ \E o \in Ops : Call(t, o)
  PROVE  Outside(t) \/ Within(t) \/ Enters(t) \/ Leaves(t)
<1>1. ASSUME NEW o \in Ops, Call(t, o) PROVE Outside(t)
  BY <1>1 DEF Call, Outside, Inside, Moves, Goto, shared, history
<1>2. ASSUME SpinTryLock(t) PROVE Outside(t) \/ Enters(t)
  <2>1. CASE lock = 0
    BY <1>2, <2>1 DEF SpinTryLock, Enters, Inside, Moves, Goto
  <2>2. CASE lock # 0
    BY <1>2, <2>2 DEF SpinTryLock, Outside, Inside, Moves, Goto
  <2> QED
    BY <2>1, <2>2
<1>3. ASSUME SpinYield(t) \/ Return(t) PROVE Outside(t)
  BY <1>3 DEF SpinYield, Return, Outside, Inside, Moves, Goto, shared, history
<1>4. ASSUME TestInit(t) \/ TestCleanup(t) \/ TestQuery(t) PROVE Within(t)
  BY <1>4 DEF TestInit, TestCleanup, TestQuery, Within, Inside, Moves, Goto, shared
<1>5. ASSUME Load(t) \/ Store(t) PROVE Within(t)
  BY <1>5 DEF Load, Store, Within, Inside, Moves, Goto, shared
<1>6. ASSUME Malloc(t) \/ Startup(t) \/ SetOne(t) PROVE Within(t)
  BY <1>6 DEF Malloc, Startup, SetOne, Within, Inside, Moves, Goto, shared
<1>7. ASSUME TestLast(t) \/ Shutdown(t) PROVE Within(t)
  BY <1>7 DEF TestLast, Shutdown, Within, Inside, Moves, Goto, shared
<1>8. ASSUME SpinUnlock(t) PROVE Leaves(t)
  BY <1>8 DEF SpinUnlock, Leaves, Inside, Moves, Goto
<1> QED
  BY <1>1, <1>2, <1>3, <1>4, <1>5, <1>6, <1>7, <1>8 DEF Step

\* Exclusion is preserved: a thread enters only when nobody is inside, and
\* the lock word is cleared only by the thread that is.
LEMMA ExclusionStep == TypeOK /\ MutualExclusion /\ [Next]_vars => MutualExclusion'
<1> SUFFICES ASSUME TypeOK, MutualExclusion, [Next]_vars PROVE MutualExclusion'
  OBVIOUS
<1>1. ASSUME UNCHANGED vars PROVE MutualExclusion'
  BY <1>1 DEF MutualExclusion, Locked, vars
<1>2. ASSUME NEW t \in Threads, Step(t) \/ \E o \in Ops : Call(t, o)
      PROVE  MutualExclusion'
  <2>0. pc \in [Threads -> {"idle", "return"} \cup Waiting \cup Inside]
    BY DEF TypeOK
  <2>1. ASSUME NEW l, Moves(t, l)
        PROVE  pc'[t] = l /\ \A s \in Threads : s # t => pc'[s] = pc[s]
    BY <2>0, <2>1 DEF Moves
  <2>2. CASE Outside(t)
    BY <2>1, <2>2 DEF Outside, MutualExclusion, Locked
  <2>3. CASE Within(t)
    BY <2>1, <2>3 DEF Within, MutualExclusion, Locked
  <2>4. CASE Enters(t)
    BY <2>1, <2>4 DEF Enters, MutualExclusion, Locked
  <2>5. CASE Leaves(t)
    BY <2>1, <2>5 DEF Leaves, MutualExclusion, Locked
  <2> QED
    BY <1>2, <2>2, <2>3, <2>4, <2>5, StepKinds
<1> QED
  BY <1>1, <1>2 DEF Next

\* A step of one thread leaves what another has done so far alone.
LEMMA OthersProgress ==
  ASSUME TypeOK, MutualExclusion, NEW t \in Threads, NEW s \in Threads, s # t,
         Step(t) \/ \E o \in Ops : Call(t, o), Progress(s)
  PROVE  Progress(s)'
<1>1. pc'[s] = pc[s] /\ op'[s] = op[s] /\ reg'[s] = reg[s] /\ answer'[s] = answer[s]
  <2>0. pc \in [Threads -> {"idle", "return"} \cup Waiting \cup Inside]
        /\ op \in [Threads -> Ops] /\ reg \in [Threads -> Int32]
        /\ answer \in [Threads -> Answers]
    BY DEF TypeOK
  <2>1. ASSUME NEW o \in Ops, Call(t, o)
        PROVE pc'[s] = pc[s] /\ op'[s] = op[s] /\ reg'[s] = reg[s] /\ answer'[s] = answer[s]
    BY <2>0, <2>1 DEF Call, Goto, Reply, shared, history
  <2>2. ASSUME Step(t)
        PROVE pc'[s] = pc[s] /\ op'[s] = op[s] /\ reg'[s] = reg[s] /\ answer'[s] = answer[s]
    BY <2>0, <2>2 DEF Step, SpinTryLock, SpinYield, TestInit, TestCleanup, TestQuery,
       Load, Store, Malloc, Startup, SetOne, TestLast, Shutdown, SpinUnlock, Return,
       Goto, Reply, shared, history
  <2> QED
    BY <2>1, <2>2
<1>2. CASE pc[s] \notin Inside
  BY <1>1, <1>2 DEF Progress, Inside
<1>3. CASE pc[s] \in Inside
  <2>1. pc[t] \notin Inside /\ lock # 0
    BY <1>3 DEF MutualExclusion, Locked
  <2>2. Outside(t)
    BY <2>1, StepKinds DEF Outside, Within, Enters, Leaves
  <2> QED
    BY <1>1, <2>2 DEF Outside, Progress, Done, Counting, Same
<1> QED
  BY <1>2, <1>3

\* A step of a thread moves its own call on as the invariant says.
LEMMA OwnProgress ==
  ASSUME TypeOK, MutualExclusion, NEW t \in Threads,
         Step(t) \/ \E o \in Ops : Call(t, o), Progress(t)
  PROVE  Progress(t)'
<1>0. pc \in [Threads -> {"idle", "return"} \cup Waiting \cup Inside]
      /\ op \in [Threads -> Ops] /\ reg \in [Threads -> Int32]
      /\ answer \in [Threads -> Answers] /\ count \in Int32 /\ wsa \in Int
  BY DEF TypeOK
<1>a. count \in Int
  BY <1>0, ThreadsAssumption DEF Int32
<1>1. ASSUME NEW o \in Ops, Call(t, o) PROVE Progress(t)'
  BY <1>0, <1>1 DEF Call, Goto, Progress
<1>2. ASSUME SpinTryLock(t) PROVE Progress(t)'
  <2>1. CASE lock = 0
    <3>1. atLock' = <<count, wsa>> /\ count' = count /\ wsa' = wsa /\ op' = op
          /\ pc'[t] = IF ~Winsock /\ op[t] = "init" THEN "load" ELSE "test"
      BY <1>0, <1>2, <2>1 DEF SpinTryLock, Goto
    <3>2. Same'
      BY <3>1 DEF Same
    <3> QED
      BY <3>1, <3>2, VariantAssumption DEF Progress, Counting
  <2>2. CASE lock # 0
    BY <1>0, <1>2, <2>2 DEF SpinTryLock, Goto, Progress
  <2> QED
    BY <2>1, <2>2
<1>3. ASSUME SpinYield(t) \/ Return(t) \/ SpinUnlock(t) PROVE Progress(t)'
  BY <1>0, <1>3 DEF SpinYield, Return, SpinUnlock, Goto, Progress
<1>4. ASSUME TestInit(t) PROVE Progress(t)'
  BY <1>0, <1>a, <1>4 DEF TestInit, Goto, Progress, Counting, Same, shared, history
<1>5. ASSUME TestCleanup(t) PROVE Progress(t)'
  BY <1>0, <1>a, <1>5 DEF TestCleanup, Goto, Reply, Progress, Counting, Same, Done,
     Answers, shared, history
<1>6. ASSUME TestQuery(t) PROVE Progress(t)'
  BY <1>0, <1>a, <1>6 DEF TestQuery, Goto, Reply, Progress, Same, Done, Answers, shared,
     history
<1>7. ASSUME Load(t) PROVE Progress(t)'
  BY <1>0, <1>7 DEF Load, Goto, Progress, Counting, Same, shared, history
<1>8. ASSUME Store(t) PROVE Progress(t)'
  <2>1. Counting(t) /\ reg[t] = count
    BY <1>8 DEF Store, Progress
  <2>2. CASE op[t] = "init"
    BY <1>0, <1>8, <2>1, <2>2 DEF Store, Goto, Reply, Progress, Counting, Same, Done,
       Answers, history
  <2>3. CASE op[t] = "cleanup"
    <3>1. count > 0 /\ count - 1 \in Int32
      BY <1>0, <2>1, <2>3, ThreadsAssumption DEF Counting, Int32
    <3>2. count' = count - 1
      BY <1>8, <2>1, <2>3, <3>1, WrapSame DEF Store
    <3>3. /\ op' = op /\ atLock' = atLock /\ wsa' = wsa /\ answer'[t] = "ok"
          /\ pc'[t] = IF Winsock THEN "last" ELSE "unlock"
      BY <1>0, <1>8, <2>3 DEF Store, Goto, Reply, history
    <3>4. count = atLock[1] /\ wsa = atLock[2]
      BY <2>1 DEF Counting, Same
    <3> QED
      BY <1>a, <2>3, <3>1, <3>2, <3>3, <3>4, VariantAssumption DEF Progress, Done
  <2> QED
    BY <2>1, <2>2, <2>3 DEF Counting
<1>9. ASSUME Malloc(t) PROVE Progress(t)'
  BY <1>0, <1>9 DEF Malloc, Goto, Reply, Progress, Same, Done, Answers, shared, history
<1>10. ASSUME Startup(t) PROVE Progress(t)'
  BY <1>0, <1>10 DEF Startup, Goto, Reply, Progress, Same, Done, Answers, history
<1>11. ASSUME SetOne(t) PROVE Progress(t)'
  BY <1>0, <1>11 DEF SetOne, Goto, Reply, Progress, Done, Answers, history
<1>12. ASSUME TestLast(t) PROVE Progress(t)'
  <2>1. op[t] = "cleanup" /\ Winsock /\ answer[t] = "ok"
        /\ atLock[1] > 0 /\ count = atLock[1] - 1 /\ wsa = atLock[2]
    BY <1>12 DEF TestLast, Progress
  <2>2. /\ op' = op /\ answer' = answer /\ atLock' = atLock /\ count' = count
        /\ wsa' = wsa /\ pc'[t] = IF count > 0 THEN "unlock" ELSE "shutdown"
    BY <1>0, <1>12 DEF TestLast, Goto, shared, history
  <2>3. atLock[1] \in Int
    BY ThreadsAssumption DEF TypeOK, Int32
  <2>4. IF count > 0 THEN atLock[1] > 1 ELSE count = 0
    BY <1>a, <2>1, <2>3
  <2> QED
    BY <2>1, <2>2, <2>4 DEF Progress, Done
<1>13. ASSUME Shutdown(t) PROVE Progress(t)'
  <2>1. op[t] = "cleanup" /\ Winsock /\ answer[t] = "ok"
        /\ atLock[1] > 0 /\ count = atLock[1] - 1 /\ wsa = atLock[2] /\ count = 0
    BY <1>13 DEF Shutdown, Progress
  <2>2. /\ op' = op /\ atLock' = atLock /\ count' = count /\ pc'[t] = "unlock"
        /\ \/ wsa' = wsa - 1 /\ answer'[t] = "ok"
           \/ wsa' = wsa /\ answer'[t] = "failed"
    BY <1>0, <1>13 DEF Shutdown, Goto, Reply, Answers
  <2>3. atLock[1] \in Int
    BY ThreadsAssumption DEF TypeOK, Int32
  <2>4. atLock[1] = 1
    BY <2>1, <2>3
  <2> QED
    BY <2>1, <2>2, <2>4 DEF Progress, Done
<1> QED
  BY <1>1, <1>2, <1>3, <1>4, <1>5, <1>6, <1>7, <1>8, <1>9, <1>10, <1>11, <1>12,
     <1>13 DEF Step

\* The invariant is preserved by every step.
LEMMA StepInv == IInv /\ [Next]_vars => IInv'
<1> SUFFICES ASSUME IInv, [Next]_vars PROVE IInv'
  OBVIOUS
<1>1. TypeOK /\ MutualExclusion /\ \A t \in Threads : Progress(t)
  BY DEF IInv
<1>2. TypeOK' /\ MutualExclusion'
  BY <1>1, TypeStep, ExclusionStep
<1>3. \A s \in Threads : Progress(s)'
  <2>1. CASE UNCHANGED vars
    BY <1>1, <2>1 DEF vars, Progress, Done, Counting, Same
  <2>2. ASSUME NEW t \in Threads, Step(t) \/ \E o \in Ops : Call(t, o)
        PROVE  \A s \in Threads : Progress(s)'
    BY <1>1, <2>2, OwnProgress, OthersProgress
  <2> QED
    BY <2>1, <2>2 DEF Next
<1> QED
  BY <1>2, <1>3 DEF IInv

\* Types of the lifecycle state: lock word, int32 counts, per-thread locals.
THEOREM LifecycleTyping == Spec => []TypeOK
<1>1. IInv => TypeOK
  BY DEF IInv
<1> QED
  BY InitInv, StepInv, <1>1, PTL DEF Spec

\* For any number of threads and any mix of calls, at most one thread is
\* between spin_lock and spin_unlock and the lock word says so.
THEOREM Exclusion == Spec => []MutualExclusion
<1>1. IInv => MutualExclusion
  BY DEF IInv
<1> QED
  BY InitInv, StepInv, <1>1, PTL DEF Spec

-----------------------------------------------------------------------------
(***************************************************************************)
(* Refinement.                                                             *)
(***************************************************************************)
Refs == IF Locked THEN atLock[1] ELSE count
Startups == IF Locked THEN atLock[2] ELSE wsa
Phases == [t \in Threads |-> Phase(t)]

\* Nothing the caller can see has changed.
Unseen == Refs' = Refs /\ Startups' = Startups /\ Phases' = Phases

\* A step that changes neither the visible counts nor a phase is a stutter.
LEMMA UnseenStutters == Unseen => UNCHANGED Service!svars
BY DEF Unseen, Refs, Startups, Phases, Service!svars

\* Only the phase of the thread that steps can change.
LEMMA PhaseOnly ==
  ASSUME IInv, NEW t \in Threads, Step(t) \/ \E o \in Ops : Call(t, o)
  PROVE  Phases' = [Phases EXCEPT ![t] = Phase(t)']
<1>1. \A s \in Threads : s # t => pc'[s] = pc[s] /\ op'[s] = op[s] /\ answer'[s] = answer[s]
  <2>0. pc \in [Threads -> {"idle", "return"} \cup Waiting \cup Inside]
        /\ op \in [Threads -> Ops] /\ answer \in [Threads -> Answers]
    BY DEF IInv, TypeOK
  <2>1. ASSUME NEW o \in Ops, Call(t, o)
        PROVE \A s \in Threads : s # t => pc'[s] = pc[s] /\ op'[s] = op[s] /\ answer'[s] = answer[s]
    BY <2>0, <2>1 DEF Call, Goto, Reply, shared, history
  <2>2. ASSUME Step(t)
        PROVE \A s \in Threads : s # t => pc'[s] = pc[s] /\ op'[s] = op[s] /\ answer'[s] = answer[s]
    BY <2>0, <2>2 DEF Step, SpinTryLock, SpinYield, TestInit, TestCleanup, TestQuery,
       Load, Store, Malloc, Startup, SetOne, TestLast, Shutdown, SpinUnlock, Return,
       Goto, Reply, shared, history
  <2> QED
    BY <2>1, <2>2
<1>2. \A s \in Threads : s # t => Phase(s)' = Phase(s)
  BY <1>1 DEF Phase
<1> QED
  BY <1>2 DEF Phases

\* Whether the lock is taken changes only when a thread enters or leaves.
LEMMA LockedAfter ==
  ASSUME IInv, IInv', NEW t \in Threads
  PROVE  /\ Outside(t) => (Locked' <=> Locked)
         /\ Within(t) => Locked /\ Locked'
         /\ Enters(t) => ~Locked /\ Locked'
         /\ Leaves(t) => Locked /\ ~Locked'
<1>1. lock = 1 <=> Locked
  BY DEF IInv, MutualExclusion
<1>2. lock' = 1 <=> Locked'
  BY DEF IInv, MutualExclusion
<1>3. Within(t) \/ Leaves(t) => Locked
  BY DEF Within, Leaves, Locked
<1> QED
  BY <1>1, <1>2, <1>3 DEF Outside, Within, Enters, Leaves

\* A call starts: NetService sees it.
LEMMA CallRefines ==
  ASSUME IInv, IInv', NEW t \in Threads, NEW o \in Ops, Call(t, o)
  PROVE  Service!Invoke(t, o)
<1>0. pc \in [Threads -> {"idle", "return"} \cup Waiting \cup Inside]
      /\ op \in [Threads -> Ops]
  BY DEF IInv, TypeOK
<1>1. Phase(t) = "idle" /\ Phase(t)' = o
  BY <1>0 DEF Call, Goto, Phase
<1>2. Phases' = [Phases EXCEPT ![t] = o]
  BY <1>1, PhaseOnly
<1>3. Outside(t)
  BY DEF Call, Outside, Inside, Moves, Goto, shared, history
<1>4. Refs' = Refs /\ Startups' = Startups
  BY <1>3, LockedAfter DEF Outside, Refs, Startups
<1> QED
  BY <1>1, <1>2, <1>4 DEF Service!Invoke, Phases, Refs, Startups

\* A call returns: NetService sees it.
LEMMA ReturnRefines ==
  ASSUME IInv, IInv', NEW t \in Threads, Return(t)
  PROVE  Service!Return(t)
<1>0. pc \in [Threads -> {"idle", "return"} \cup Waiting \cup Inside]
      /\ answer \in [Threads -> Answers]
  BY DEF IInv, TypeOK
<1>1. Phase(t) \in Answers /\ Phase(t)' = "idle"
  BY <1>0 DEF Return, Goto, Phase
<1>2. Phases' = [Phases EXCEPT ![t] = "idle"]
  BY <1>1, PhaseOnly DEF Step
<1>3. Outside(t)
  BY DEF Return, Outside, Inside, Moves, Goto, shared, history
<1>4. Refs' = Refs /\ Startups' = Startups
  BY <1>3, LockedAfter DEF Outside, Refs, Startups
<1> QED
  BY <1>1, <1>2, <1>4 DEF Service!Return, Service!Answers, Answers, Phases, Refs, Startups

\* Everything between the call and the unlock is invisible.
LEMMA MiddleUnseen ==
  ASSUME IInv, IInv', NEW t \in Threads, Step(t), ~SpinUnlock(t), ~Return(t)
  PROVE  Unseen
<1>0. pc \in [Threads -> {"idle", "return"} \cup Waiting \cup Inside]
      /\ op \in [Threads -> Ops]
  BY DEF IInv, TypeOK
<1>1. op' = op /\ pc[t] \notin {"idle", "return"} /\ pc'[t] \notin {"idle", "return"}
  BY <1>0 DEF Step, SpinTryLock, SpinYield, TestInit, TestCleanup, TestQuery,
     Load, Store, Malloc, Startup, SetOne, TestLast, Shutdown, Goto
<1>2. Phase(t)' = Phase(t)
  BY <1>1 DEF Phase
<1>3. Phases' = Phases
  BY <1>2, PhaseOnly DEF Phases
<1>4. CASE SpinTryLock(t) /\ lock = 0
  <2>1. Enters(t) /\ atLock' = <<count, wsa>>
    BY <1>4 DEF SpinTryLock, Enters, Inside, Moves, Goto
  <2> QED
    BY <1>3, <2>1, LockedAfter DEF Unseen, Refs, Startups
<1>5. CASE ~(SpinTryLock(t) /\ lock = 0)
  <2>1. atLock' = atLock
    BY <1>5 DEF Step, SpinTryLock, SpinYield, TestInit, TestCleanup, TestQuery,
       Load, Store, Malloc, Startup, SetOne, TestLast, Shutdown, history
  <2>2. Outside(t) \/ Within(t)
    <3>1. CASE SpinTryLock(t)
      BY <1>5, <3>1 DEF SpinTryLock, Outside, Inside, Moves, Goto
    <3>2. CASE ~SpinTryLock(t)
      <4>1. lock' = lock
        BY <3>2 DEF Step, SpinYield, TestInit, TestCleanup, TestQuery,
           Load, Store, Malloc, Startup, SetOne, TestLast, Shutdown, shared
      <4>2. ~Leaves(t)
        <5>1. lock = 1 \/ ~Leaves(t)
          BY DEF IInv, MutualExclusion, Leaves, Locked
        <5> QED
          BY <4>1, <5>1 DEF Leaves
      <4> QED
        BY <4>1, <4>2, StepKinds DEF Enters, IInv
    <3> QED
      BY <3>1, <3>2
  <2> QED
    BY <1>3, <2>1, <2>2, LockedAfter DEF Unseen, Outside, Refs, Startups
<1> QED
  BY <1>4, <1>5

\* A call takes effect when it unlocks.
LEMMA UnlockRefines ==
  ASSUME IInv, IInv', NEW t \in Threads, SpinUnlock(t)
  PROVE  Service!Effect(t)
<1>0. pc \in [Threads -> {"idle", "return"} \cup Waiting \cup Inside]
  BY DEF IInv, TypeOK
<1>1. Phase(t) = op[t] /\ Phase(t)' = answer[t]
  BY <1>0 DEF SpinUnlock, Goto, Phase
<1>2. Phases' = [Phases EXCEPT ![t] = answer[t]] /\ Phases[t] = op[t]
  BY <1>1, PhaseOnly DEF Step, Phases
<1>3. Leaves(t)
  BY DEF SpinUnlock, Leaves, Inside, Moves, Goto
<1>4. Refs = atLock[1] /\ Startups = atLock[2] /\ Refs' = count /\ Startups' = wsa
  BY <1>3, LockedAfter DEF Refs, Startups, SpinUnlock
<1>5. Done(t)
  BY DEF IInv, Progress, SpinUnlock
<1>6. \A n : Service!Wrap32(n) = Wrap32(n)
  BY DEF Service!Wrap32, Wrap32
<1> QED
  BY <1>2, <1>4, <1>5, <1>6 DEF Done, Same, Refs, Startups, Phases, Service!Effect,
     Service!TakeReference, Service!StartLibrary, Service!InitFails,
     Service!ExtraCleanup, Service!DropReference, Service!StopLibrary,
     Service!Report, Service!Answer

\* std/net and std/net_posix implement NetService: whatever the interleaving,
\* each call behaves as one indivisible step.
THEOREM Refinement == Spec => ImplementsService
<1>1. Init => Service!SInit
  BY DEF Init, Service!SInit, Locked, Inside, Phase
<1>2. IInv /\ IInv' /\ [Next]_vars => [Service!SNext]_(Service!svars)
  <2> SUFFICES ASSUME IInv, IInv', [Next]_vars
               PROVE  [Service!SNext]_(Service!svars)
    OBVIOUS
  <2>1. CASE UNCHANGED vars
    <3>1. Unseen
      BY <2>1 DEF vars, Unseen, Refs, Startups, Phases, Locked, Phase
    <3> QED
      BY <3>1, UnseenStutters
  <2>2. ASSUME NEW t \in Threads, NEW o \in Ops, Call(t, o)
        PROVE  Service!SNext
    BY <2>2, CallRefines DEF Service!SNext, Service!Ops, Ops
  <2>3. ASSUME NEW t \in Threads, Step(t) PROVE [Service!SNext]_(Service!svars)
    <3>1. CASE SpinUnlock(t)
      BY <3>1, UnlockRefines DEF Service!SNext
    <3>2. CASE Return(t)
      BY <3>2, ReturnRefines DEF Service!SNext
    <3>3. CASE ~SpinUnlock(t) /\ ~Return(t)
      BY <2>3, <3>3, MiddleUnseen, UnseenStutters
    <3> QED
      BY <3>1, <3>2, <3>3
  <2> QED
    BY <2>1, <2>2, <2>3 DEF Next
<1> QED
  BY <1>1, <1>2, InitInv, StepInv, PTL DEF Spec, ImplementsService, Service!SSpec

-----------------------------------------------------------------------------
(***************************************************************************)
(* References are accounted for, as long as the references the threads may *)
(* take fit an int32.                                                      *)
(***************************************************************************)
HeldSum == SumFunctionOnSet(held, Threads)
Running(t) == pc[t] \in Waiting \cup Inside

\* How many references a thread owns while it is in a call.
Owned ==
  \A t \in Threads :
    /\ held[t] <= MaxHeld
    /\ Running(t) /\ op[t] = "init" => held[t] < MaxHeld
    /\ Running(t) /\ op[t] = "cleanup" /\ ~extra => held[t] > 0

\* The visible count never exceeds the references owned, and is their number
\* unless a thread gave back what it never took.
CountsHeld == 0 <= Refs /\ Refs <= HeldSum /\ (~extra => Refs = HeldSum)

\* Winsock's startups for the visible count, and while a call is under way for
\* the count it started from or, once it is about to unlock, arrived at.
Started(n, w) == w = leaks + (IF n > 0 THEN 1 ELSE 0)
StartedOnce ==
  Winsock =>
    /\ ~Locked => Started(count, wsa)
    /\ \A t \in Threads :
         /\ pc[t] = "unlock" => Started(count, wsa)
         /\ pc[t] \in Inside \ {"unlock"} => Started(atLock[1], atLock[2])

Accounts == IInv /\ Owned /\ CountsHeld /\ StartedOnce

Fits == IsFiniteSet(Threads) /\ Cardinality(Threads) * MaxHeld < Half

LEMMA HeldSums ==
  ASSUME Fits, NEW h \in [Threads -> Nat], \A t \in Threads : h[t] <= MaxHeld
  PROVE  /\ SumFunctionOnSet(h, Threads) \in Nat
         /\ SumFunctionOnSet(h, Threads) <= Cardinality(Threads) * MaxHeld
         /\ Cardinality(Threads) * MaxHeld \in Nat
         /\ SumFunction(h) = SumFunctionOnSet(h, Threads)
         /\ \A t \in Threads : h[t] <= SumFunctionOnSet(h, Threads)
         /\ \A s, t \in Threads : s # t => h[s] + h[t] <= SumFunctionOnSet(h, Threads)
<1>1. h \in [Threads -> Int] /\ Threads \in SUBSET Threads /\ MaxHeld \in Nat
      /\ \A t \in Threads : 0 <= h[t] /\ h[t] <= MaxHeld
  BY ThreadsAssumption
<1>2. SumFunctionOnSet(h, Threads) \in Int
  BY <1>1, SumInt DEF Fits
<1>3. /\ 0 <= SumFunctionOnSet(h, Threads)
      /\ SumFunctionOnSet(h, Threads) <= Cardinality(Threads) * MaxHeld
  BY <1>1, SumBounds DEF Fits
<1>4. Cardinality(Threads) \in Nat
  BY FS_CardinalityType DEF Fits
<1>5. Cardinality(Threads) * MaxHeld \in Nat
  BY <1>1, <1>4
<1>6. SumFunction(h) = SumFunctionOnSet(h, Threads)
  <2>1. DOMAIN h = Threads
    OBVIOUS
  <2> QED BY <2>1 DEF SumFunction
<1>7. /\ \A t \in Threads : h[t] <= SumFunctionOnSet(h, Threads)
      /\ \A s, t \in Threads : s # t => h[s] + h[t] <= SumFunctionOnSet(h, Threads)
  BY <1>1, SumOfParts DEF Fits
<1> QED BY <1>2, <1>3, <1>5, <1>6, <1>7

\* One thread's references change.
LEMMA HeldChange ==
  ASSUME Fits, NEW h \in [Threads -> Nat], NEW k \in [Threads -> Nat], NEW t \in Threads,
         \A s \in Threads \ {t} : h[s] = k[s]
  PROVE  SumFunctionOnSet(k, Threads) = SumFunctionOnSet(h, Threads) - h[t] + k[t]
<1>1. h \in [Threads -> Int] /\ k \in [Threads -> Int] /\ Threads \in SUBSET Threads
  OBVIOUS
<1> QED BY <1>1, SumChange DEF Fits

LEMMA HeldFacts ==
  ASSUME Fits, TypeOK, Owned
  PROVE  /\ HeldSum \in Nat /\ HeldSum < Half /\ Half \in Nat
         /\ SumFunction(held) = HeldSum
         /\ \A t \in Threads : held[t] \in Nat /\ held[t] <= HeldSum
         /\ \A s, t \in Threads : s # t => held[s] + held[t] <= HeldSum
<1>1. held \in [Threads -> Nat] /\ \A t \in Threads : held[t] <= MaxHeld
  BY DEF TypeOK, Owned
<1>2. Cardinality(Threads) * MaxHeld < Half /\ Half \in Nat
  BY ThreadsAssumption DEF Fits
<1> DEFINE c == Cardinality(Threads) * MaxHeld
<1>3. /\ HeldSum \in Nat /\ c \in Nat /\ HeldSum <= c /\ c < Half
      /\ SumFunction(held) = HeldSum
      /\ \A t \in Threads : held[t] <= HeldSum
      /\ \A s, t \in Threads : s # t => held[s] + held[t] <= HeldSum
  BY <1>1, <1>2, HeldSums DEF HeldSum
<1> HIDE DEF c
<1> QED BY <1>1, <1>2, <1>3

\* There is room in an int32 for the reference a net_init is about to take.
LEMMA RoomForOne ==
  ASSUME Fits, TypeOK, Owned, NEW t \in Threads, held[t] < MaxHeld
  PROVE  HeldSum + 1 < Half
<1> DEFINE k == [held EXCEPT ![t] = @ + 1]
           c == Cardinality(Threads) * MaxHeld
<1>1. held \in [Threads -> Nat] /\ \A s \in Threads : held[s] <= MaxHeld
  BY DEF TypeOK, Owned
<1>2. /\ k \in [Threads -> Nat] /\ \A s \in Threads : k[s] <= MaxHeld
      /\ \A s \in Threads \ {t} : held[s] = k[s]
      /\ k[t] = held[t] + 1
  BY <1>1, ThreadsAssumption
<1> HIDE DEF k
<1>3. SumFunctionOnSet(k, Threads) = HeldSum - held[t] + k[t]
  BY <1>1, <1>2, HeldChange DEF HeldSum
<1>4. SumFunctionOnSet(k, Threads) <= c /\ c \in Nat /\ c < Half
  BY <1>2, HeldSums DEF Fits
<1>5. HeldSum \in Nat /\ held[t] \in Nat /\ Half \in Nat
  BY HeldFacts
<1> HIDE DEF c
<1> QED BY <1>2, <1>3, <1>4, <1>5

\* What the thread about to unlock owns afterwards.
LEMMA UnlockHeld ==
  ASSUME Fits, Accounts, NEW t \in Threads, SpinUnlock(t)
  PROVE  /\ held'[t] = HeldAfter(t) /\ HeldAfter(t) \in Nat
         /\ \A s \in Threads \ {t} : held'[s] = held[s]
         /\ HeldSum' = HeldSum - held[t] + HeldAfter(t)
<1>1. held \in [Threads -> Nat] /\ held' = [held EXCEPT ![t] = HeldAfter(t)]
  BY DEF Accounts, IInv, TypeOK, SpinUnlock
<1>2. HeldAfter(t) \in Nat
  BY <1>1 DEF HeldAfter
<1>3. /\ held'[t] = HeldAfter(t) /\ \A s \in Threads \ {t} : held'[s] = held[s]
      /\ held' \in [Threads -> Nat]
  BY <1>1, <1>2
<1>4. HeldSum' = HeldSum - held[t] + HeldAfter(t)
  <2> DEFINE h == held
             k == held'
  <2>1. h \in [Threads -> Nat] /\ k \in [Threads -> Nat] /\ \A s \in Threads \ {t} : h[s] = k[s]
    BY <1>1, <1>3
  <2>2. SumFunctionOnSet(k, Threads) = SumFunctionOnSet(h, Threads) - h[t] + k[t]
    <3> HIDE DEF h, k
    <3> QED BY <2>1, HeldChange
  <2> QED BY <1>3, <2>2 DEF HeldSum
<1> QED BY <1>2, <1>3, <1>4

\* A call is under way in a thread between its call and its return.
LEMMA OwnedStep ==
  ASSUME Fits, Accounts, NEW t \in Threads, Step(t) \/ \E o \in Ops : Call(t, o)
  PROVE  Owned'
<1>0. /\ pc \in [Threads -> {"idle", "return"} \cup Waiting \cup Inside]
      /\ op \in [Threads -> Ops] /\ held \in [Threads -> Nat] /\ MaxHeld \in Nat
      /\ Owned
  BY ThreadsAssumption DEF Accounts, IInv, TypeOK
<1>1. ASSUME NEW o \in Ops, Call(t, o) PROVE Owned'
  <2>1. /\ held' = held /\ (extra => extra')
        /\ o = "init" => held[t] < MaxHeld
        /\ o = "cleanup" /\ ~extra' => held[t] # 0
    <3>1. held' = held /\ (o = "init" => held[t] < MaxHeld)
      BY <1>1 DEF Call
    <3>2. (extra => extra') /\ (o = "cleanup" /\ ~extra' => held[t] # 0)
      BY <1>1 DEF Call
    <3> QED BY <3>1, <3>2
  <2>2. /\ op'[t] = o /\ \A s \in Threads \ {t} : op'[s] = op[s] /\ pc'[s] = pc[s]
    BY <1>0, <1>1 DEF Call, Goto
  <2>3. ASSUME NEW s \in Threads PROVE
          /\ held'[s] <= MaxHeld
          /\ Running(s)' /\ op'[s] = "init" => held'[s] < MaxHeld
          /\ Running(s)' /\ op'[s] = "cleanup" /\ ~extra' => held'[s] > 0
    <3>1. CASE s = t
      BY <1>0, <2>1, <2>2, <3>1 DEF Owned
    <3>2. CASE s # t
      BY <1>0, <2>1, <2>2, <3>2 DEF Owned, Running
    <3> QED BY <3>1, <3>2
  <2> QED BY <2>3 DEF Owned
<1>2. ASSUME Step(t), ~SpinUnlock(t) PROVE Owned'
  <2>1. held' = held /\ extra' = extra
    BY <1>2 DEF Step, SpinTryLock, SpinYield, TestInit, TestCleanup, TestQuery,
       Load, Store, Malloc, Startup, SetOne, TestLast, Shutdown, Return, history
  <2>2. \A s \in Threads : /\ Running(s)' => Running(s)
                           /\ op'[s] = op[s] \/ ~Running(s)'
    <3>1. CASE Return(t)
      BY <1>0, <3>1 DEF Return, Goto, Running, Waiting, Inside
    <3>2. CASE ~Return(t)
      <4>1. op' = op
        BY <1>2, <3>2 DEF Step, SpinTryLock, SpinYield, TestInit, TestCleanup, TestQuery,
           Load, Store, Malloc, Startup, SetOne, TestLast, Shutdown
      <4>2. /\ pc[t] \notin {"idle", "return"}
            /\ \A s \in Threads \ {t} : pc'[s] = pc[s]
        BY <1>0, <1>2, <3>2 DEF Step, SpinTryLock, SpinYield, TestInit, TestCleanup, TestQuery,
           Load, Store, Malloc, Startup, SetOne, TestLast, Shutdown, Goto
      <4>3. Running(t)
        BY <1>0, <4>2 DEF Running
      <4> QED BY <4>1, <4>2, <4>3 DEF Running
    <3> QED BY <3>1, <3>2
  <2> QED BY <1>0, <2>1, <2>2 DEF Owned
<1>3. ASSUME SpinUnlock(t) PROVE Owned'
  <2>1. /\ held'[t] = HeldAfter(t) /\ \A s \in Threads \ {t} : held'[s] = held[s]
    BY <1>3, UnlockHeld
  <2>2. /\ op' = op /\ extra' = extra
        /\ \A s \in Threads \ {t} : pc'[s] = pc[s]
        /\ pc[t] = "unlock" /\ ~Running(t)'
    BY <1>0, <1>3 DEF SpinUnlock, Goto, Running, Waiting, Inside
  <2>3. Running(t)
    BY <2>2 DEF Running, Inside
  <2>4. HeldAfter(t) <= MaxHeld
    BY <1>0, <2>3 DEF HeldAfter, Owned
  <2> QED BY <1>0, <2>1, <2>2, <2>4 DEF Owned, Running
<1> QED BY <1>1, <1>2, <1>3

\* The visible count moves with the references owned.
LEMMA CountStep ==
  ASSUME Fits, Accounts, IInv', Owned', NEW t \in Threads, Step(t) \/ \E o \in Ops : Call(t, o)
  PROVE  CountsHeld'
<1>0. IInv /\ CountsHeld /\ TypeOK /\ Owned
  BY DEF Accounts, IInv
<1>1. ASSUME Refs' = Refs, held' = held, extra => extra' PROVE CountsHeld'
  BY <1>0, <1>1 DEF CountsHeld, HeldSum
<1>2. ASSUME NEW o \in Ops, Call(t, o) PROVE CountsHeld'
  <2>1. Outside(t) /\ held' = held
    BY <1>2 DEF Call, Outside, Inside, Moves, Goto, shared, history
  <2>2. Refs' = Refs
    BY <1>0, <2>1, LockedAfter DEF Outside, Refs
  <2>3. extra => extra'
    BY <1>2 DEF Call
  <2> QED BY <1>1, <2>1, <2>2, <2>3
<1>3. ASSUME Return(t) PROVE CountsHeld'
  <2>1. Outside(t) /\ held' = held /\ extra' = extra
    BY <1>3 DEF Return, Outside, Inside, Moves, Goto, shared, history
  <2>2. Refs' = Refs
    BY <1>0, <2>1, LockedAfter DEF Outside, Refs
  <2> QED BY <1>1, <2>1, <2>2
<1>4. ASSUME Step(t), ~SpinUnlock(t), ~Return(t) PROVE CountsHeld'
  <2>1. held' = held /\ extra' = extra
    BY <1>4 DEF Step, SpinTryLock, SpinYield, TestInit, TestCleanup, TestQuery,
       Load, Store, Malloc, Startup, SetOne, TestLast, Shutdown, history
  <2>2. Refs' = Refs
    BY <1>0, <1>4, MiddleUnseen DEF Unseen
  <2> QED BY <1>1, <2>1, <2>2
<1>5. ASSUME SpinUnlock(t) PROVE CountsHeld'
  <2> DEFINE a == atLock[1]
             H == HeldSum
  <2>1. Leaves(t)
    BY <1>5 DEF SpinUnlock, Leaves, Inside, Moves, Goto
  <2>2. Refs = a /\ Refs' = count /\ extra' = extra
    BY <1>0, <1>5, <2>1, LockedAfter DEF Refs, SpinUnlock
  <2>3. Done(t)
    BY <1>0, <1>5 DEF IInv, Progress, SpinUnlock
  <2>4. /\ H \in Nat /\ H < Half /\ Half \in Nat /\ held[t] \in Nat /\ held[t] <= H
    BY <1>0, HeldFacts
  <2>5. a \in Int /\ 0 <= a /\ a <= H /\ (~extra => a = H)
    BY <1>0, <2>2, ThreadsAssumption DEF TypeOK, Int32, CountsHeld
  <2>6. Running(t)
    BY <1>5 DEF SpinUnlock, Running, Inside
  <2>7. HeldSum' = H - held[t] + HeldAfter(t) /\ HeldAfter(t) \in Nat
    BY <1>5, UnlockHeld
  <2>8. /\ op[t] = "init" => H + 1 < Half
        /\ op[t] = "cleanup" /\ ~extra => held[t] > 0
    BY <1>0, <2>6, RoomForOne DEF Owned
  <2>9. op[t] = "init" => Wrap32(a + 1) = a + 1
    <3>1. op[t] = "init" => a + 1 \in Int32
      BY <2>4, <2>5, <2>8 DEF Int32
    <3> QED BY <3>1, WrapSame
  <2>10. /\ op[t] = "init" /\ answer[t] = "ok" => HeldAfter(t) = held[t] + 1
         /\ op[t] = "init" /\ answer[t] = "failed" => HeldAfter(t) = held[t]
         /\ op[t] = "cleanup" => HeldAfter(t) = IF held[t] > 0 THEN held[t] - 1 ELSE held[t]
         /\ op[t] = "query" => HeldAfter(t) = held[t]
    BY DEF HeldAfter
  <2>11. CASE op[t] = "init" /\ answer[t] = "ok"
    <3>1. count = a + 1
      BY <2>3, <2>5, <2>9, <2>11 DEF Done, Same
    <3>2. HeldSum' = H + 1
      BY <2>4, <2>7, <2>10, <2>11
    <3> HIDE DEF a, H
    <3> QED BY <2>2, <2>4, <2>5, <3>1, <3>2 DEF CountsHeld
  <2>12. CASE (op[t] = "init" /\ answer[t] # "ok") \/ op[t] = "query"
    <3>1. count = a /\ HeldAfter(t) = held[t]
      BY <2>3, <2>10, <2>12 DEF Done, Same
    <3>2. HeldSum' = H
      BY <2>4, <2>7, <3>1
    <3> HIDE DEF a, H
    <3> QED BY <2>2, <2>4, <2>5, <3>1, <3>2 DEF CountsHeld
  <2>13. CASE op[t] = "cleanup"
    <3>1. IF a <= 0 THEN count = a ELSE count = a - 1
      BY <2>3, <2>5, <2>13 DEF Done, Same
    <3>2. HeldSum' = IF held[t] > 0 THEN H - 1 ELSE H
      BY <2>4, <2>7, <2>10, <2>13
    <3> HIDE DEF a, H
    <3> QED BY <2>2, <2>4, <2>5, <2>8, <2>13, <3>1, <3>2 DEF CountsHeld
  <2> QED BY <2>3, <2>11, <2>12, <2>13 DEF Done
<1> QED BY <1>2, <1>3, <1>4, <1>5

\* While a thread is inside, only its own place matters for StartedOnce.
LEMMA InsideAlone ==
  ASSUME MutualExclusion, NEW t \in Threads, pc[t] \in Inside
  PROVE  Locked /\ \A s \in Threads : pc[s] \in Inside => s = t
BY DEF MutualExclusion, Locked

\* Steps inside the lock keep Winsock's startups tied to the count.
LEMMA StartedWithin ==
  ASSUME Fits, Accounts, NEW t \in Threads, Winsock, Step(t), pc[t] \in Inside \ {"unlock"}
  PROVE  /\ pc'[t] = "unlock" => Started(count, wsa)'
         /\ pc'[t] # "unlock" => Started(atLock[1], atLock[2])'
<1>0. /\ pc \in [Threads -> {"idle", "return"} \cup Waiting \cup Inside]
      /\ count \in Int /\ wsa \in Int /\ leaks \in Nat
      /\ atLock[1] \in Int /\ atLock[2] \in Int /\ TypeOK
  BY ThreadsAssumption DEF Accounts, IInv, TypeOK, Int32
<1>1. Started(atLock[1], atLock[2]) /\ Progress(t)
  BY DEF Accounts, StartedOnce, IInv
<1>2. ASSUME leaks' = leaks, atLock' = atLock, Same'
      PROVE  Started(count, wsa)' /\ Started(atLock[1], atLock[2])'
  BY <1>1, <1>2 DEF Started, Same
<1>3. CASE TestInit(t) \/ TestCleanup(t) \/ TestQuery(t) \/ Load(t) \/ Malloc(t)
  <2>1. Same
    BY <1>1, <1>3 DEF Progress, Counting, TestInit, TestCleanup, TestQuery, Load, Malloc
  <2>2. leaks' = leaks /\ atLock' = atLock /\ count' = count /\ wsa' = wsa
    BY <1>3 DEF TestInit, TestCleanup, TestQuery, Load, Malloc, shared, history
  <2>3. Same'
    BY <2>1, <2>2 DEF Same
  <2> QED BY <1>2, <2>2, <2>3
<1>4. CASE Store(t)
  <2>1. Counting(t) /\ reg[t] = count
    BY <1>1, <1>4 DEF Progress, Store
  <2>2. /\ leaks' = leaks /\ atLock' = atLock /\ wsa' = wsa
        /\ pc'[t] = IF op[t] = "cleanup" THEN "last" ELSE "unlock"
        /\ op[t] = "init" => count' = Wrap32(count + 1)
    BY <1>0, <1>4, <2>1 DEF Store, Goto, history
  <2>3. CASE op[t] = "cleanup"
    BY <1>1, <2>2, <2>3 DEF Started
  <2>4. CASE op[t] = "init"
    <3>1. count > 0 /\ count = atLock[1] /\ wsa = atLock[2]
      BY <2>1, <2>4 DEF Counting, Same
    <3>2. count + 1 \in Int32
      <4>1. Running(t) /\ Owned
        BY <1>4 DEF Store, Running, Inside, Accounts
      <4>2. held[t] < MaxHeld
        BY <2>4, <4>1 DEF Owned
      <4>3. HeldSum + 1 < Half /\ HeldSum \in Nat /\ Half \in Nat
        BY <1>0, <4>1, <4>2, RoomForOne, HeldFacts
      <4>4. count <= HeldSum
        <5>1. Locked /\ CountsHeld
          BY InsideAlone DEF Accounts, IInv
        <5> QED BY <3>1, <5>1 DEF CountsHeld, Refs
      <4> QED BY <1>0, <3>1, <4>3, <4>4 DEF Int32
    <3>3. count' = count + 1
      BY <2>2, <2>4, <3>2, WrapSame
    <3> QED BY <1>0, <1>1, <2>2, <2>4, <3>1, <3>3 DEF Started
  <2> QED BY <2>1, <2>3, <2>4 DEF Counting
<1>5. CASE Startup(t)
  <2>1. Same
    BY <1>1, <1>5 DEF Progress, Startup
  <2>2. /\ leaks' = leaks /\ atLock' = atLock /\ count' = count
        /\ pc'[t] = "set_one" \/ (pc'[t] = "unlock" /\ wsa' = wsa)
    BY <1>0, <1>5 DEF Startup, Goto, history
  <2>3. CASE pc'[t] = "set_one"
    BY <1>1, <2>2, <2>3 DEF Started
  <2>4. CASE wsa' = wsa
    <3>1. Same'
      BY <2>1, <2>2, <2>4 DEF Same
    <3> QED BY <1>2, <2>2, <3>1
  <2> QED BY <2>2, <2>3, <2>4
<1>6. CASE SetOne(t)
  <2>1. count = atLock[1] /\ count <= 0 /\ wsa = atLock[2] + 1
    BY <1>1, <1>6 DEF Progress, SetOne
  <2>2. leaks' = leaks /\ count' = 1 /\ wsa' = wsa /\ pc'[t] = "unlock"
    BY <1>0, <1>6 DEF SetOne, Goto, history
  <2> QED BY <1>0, <1>1, <2>1, <2>2 DEF Started
<1>7. CASE TestLast(t)
  <2>1. atLock[1] > 0 /\ wsa = atLock[2]
    BY <1>1, <1>7 DEF Progress, TestLast
  <2>2. /\ leaks' = leaks /\ count' = count /\ wsa' = wsa /\ atLock' = atLock
        /\ pc'[t] = IF count > 0 THEN "unlock" ELSE "shutdown"
    BY <1>0, <1>7 DEF TestLast, Goto, shared, history
  <2> QED BY <1>0, <1>1, <2>1, <2>2 DEF Started
<1>8. CASE Shutdown(t)
  <2>1. count = 0 /\ atLock[1] > 0 /\ wsa = atLock[2]
    BY <1>1, <1>8 DEF Progress, Shutdown
  <2>2. /\ count' = count /\ pc'[t] = "unlock"
        /\ \/ wsa' = wsa - 1 /\ leaks' = leaks
           \/ wsa' = wsa /\ leaks' = leaks + 1
    BY <1>0, <1>8 DEF Shutdown, Goto
  <2> QED BY <1>0, <1>1, <2>1, <2>2 DEF Started
<1> QED BY <1>0, <1>3, <1>4, <1>5, <1>6, <1>7, <1>8
  DEF Step, SpinTryLock, SpinYield, SpinUnlock, Return, Inside

LEMMA StartedStep ==
  ASSUME Fits, Accounts, IInv', NEW t \in Threads, Step(t) \/ \E o \in Ops : Call(t, o)
  PROVE  StartedOnce'
<1> SUFFICES ASSUME Winsock
             PROVE  /\ ~Locked' => Started(count, wsa)'
                    /\ \A s \in Threads :
                         /\ pc'[s] = "unlock" => Started(count, wsa)'
                         /\ pc'[s] \in Inside \ {"unlock"} => Started(atLock[1], atLock[2])'
  BY DEF StartedOnce
<1>0. /\ pc \in [Threads -> {"idle", "return"} \cup Waiting \cup Inside]
      /\ MutualExclusion /\ IInv /\ TypeOK
  BY DEF Accounts, IInv, TypeOK
<1>1. /\ ~Locked => Started(count, wsa)
      /\ \A s \in Threads :
           /\ pc[s] = "unlock" => Started(count, wsa)
           /\ pc[s] \in Inside \ {"unlock"} => Started(atLock[1], atLock[2])
  BY DEF Accounts, StartedOnce
<1>2. ASSUME NEW l, Moves(t, l)
      PROVE  pc'[t] = l /\ \A s \in Threads : s # t => pc'[s] = pc[s]
  BY <1>0, <1>2 DEF Moves
<1>3. "unlock" \in Inside
  BY DEF Inside
<1>4. CASE Outside(t)
  <2>1. leaks' = leaks
    BY <1>3, <1>4 DEF Step, SpinTryLock, SpinYield, TestInit, TestCleanup, TestQuery, Call,
       Load, Store, Malloc, Startup, SetOne, TestLast, Shutdown, SpinUnlock, Return, history,
       Outside, Inside
  <2>2. pc'[t] \notin Inside /\ \A s \in Threads : s # t => pc'[s] = pc[s]
    BY <1>2, <1>4 DEF Outside
  <2>3. (Locked' <=> Locked) /\ count' = count /\ wsa' = wsa /\ atLock' = atLock
    BY <1>0, <1>4, LockedAfter DEF Outside
  <2> QED BY <1>1, <1>3, <2>1, <2>2, <2>3 DEF Started
<1>5. CASE Enters(t)
  <2>1. SpinTryLock(t) /\ lock = 0
    BY <1>5 DEF Enters, Step, SpinTryLock, SpinYield, TestInit, TestCleanup, TestQuery, Call,
       Load, Store, Malloc, Startup, SetOne, TestLast, Shutdown, SpinUnlock, Return, shared,
       Inside
  <2>2. /\ atLock' = <<count, wsa>> /\ leaks' = leaks
        /\ pc'[t] # "unlock" /\ \A s \in Threads : s # t => pc'[s] = pc[s]
    BY <1>0, <2>1 DEF SpinTryLock, Goto
  <2>3. ~Locked /\ Locked' /\ \A s \in Threads : pc[s] \notin Inside
    BY <1>0, <1>5, LockedAfter DEF Locked
  <2>4. Started(count, wsa)
    BY <1>1, <2>3
  <2>5. Started(atLock[1], atLock[2])'
    BY <2>2, <2>4 DEF Started
  <2> QED BY <1>3, <2>2, <2>3, <2>5
<1>6. CASE Within(t)
  <2>1. Locked' /\ pc[t] \in Inside /\ pc'[t] \in Inside
    BY <1>0, <1>2, <1>6, LockedAfter DEF Within
  <2>2. \A s \in Threads : pc'[s] \in Inside => s = t
    BY <2>1 DEF IInv, MutualExclusion
  <2>3. pc[t] # "unlock" /\ Step(t)
    <3>1. Step(t)
      BY <2>1 DEF Call, Inside
    <3>2. pc[t] = "unlock" => SpinUnlock(t)
      BY <3>1 DEF Step, SpinTryLock, SpinYield, TestInit, TestCleanup, TestQuery,
         Load, Store, Malloc, Startup, SetOne, TestLast, Shutdown, Return
    <3>3. ~SpinUnlock(t)
      BY <1>0, <2>1 DEF SpinUnlock, Goto, Inside
    <3> QED BY <3>1, <3>2, <3>3
  <2>4. /\ pc'[t] = "unlock" => Started(count, wsa)'
        /\ pc'[t] # "unlock" => Started(atLock[1], atLock[2])'
    BY <2>1, <2>3, StartedWithin
  <2> QED BY <1>3, <2>1, <2>2, <2>4
<1>7. CASE Leaves(t)
  <2>1. Locked /\ ~Locked' /\ pc[t] \in Inside
    BY <1>0, <1>7, LockedAfter DEF Leaves
  <2>2. SpinUnlock(t)
    <3>1. pc'[t] \notin Inside
      BY <1>2, <1>7 DEF Leaves
    <3>2. Step(t)
      BY <2>1 DEF Call, Inside
    <3> QED BY <1>0, <2>1, <3>1, <3>2 DEF Step, SpinTryLock, SpinYield, TestInit, TestCleanup,
         TestQuery, Load, Store, Malloc, Startup, SetOne, TestLast, Shutdown, Return, Goto,
         Inside, Waiting
  <2>3. pc[t] = "unlock" /\ count' = count /\ wsa' = wsa /\ leaks' = leaks
    BY <2>2 DEF SpinUnlock
  <2>4. Started(count, wsa)'
    BY <1>1, <2>3 DEF Started
  <2>5. \A s \in Threads : pc'[s] \notin Inside
    BY <2>1 DEF Locked
  <2> QED BY <1>3, <2>4, <2>5
<1> QED BY <1>0, <1>4, <1>5, <1>6, <1>7, StepKinds

\* The invariant gives the property.
LEMMA AccountsImply ==
  ASSUME Fits, Accounts
  PROVE  ReferencesAccounted
<1>0. /\ TypeOK /\ Owned /\ CountsHeld /\ StartedOnce /\ MutualExclusion
      /\ \A s \in Threads : Progress(s)
  BY DEF Accounts, IInv
<1>1. /\ HeldSum \in Nat /\ SumFunction(held) = HeldSum /\ Half \in Nat
      /\ \A s \in Threads : held[s] \in Nat /\ held[s] <= HeldSum
      /\ \A s, u \in Threads : s # u => held[s] + held[u] <= HeldSum
  BY <1>0, HeldFacts
<1>2. count \in Int /\ wsa \in Int /\ leaks \in Nat /\ atLock[1] \in Int /\ atLock[2] \in Int
  BY <1>0, ThreadsAssumption DEF TypeOK, Int32
<1>3. ASSUME ~Locked
      PROVE  /\ ~extra => count = SumFunction(held)
             /\ Winsock => wsa = leaks + (IF count > 0 THEN 1 ELSE 0)
  BY <1>0, <1>1, <1>3 DEF CountsHeld, StartedOnce, Started, Refs
<1>4. ASSUME NEW t \in Threads, Winsock, ~extra, held[t] > 0, pc[t] = "idle" \/ op[t] # "cleanup"
      PROVE  wsa > 0
  <2>1. Refs = HeldSum /\ Refs > 0
    BY <1>0, <1>1, <1>4 DEF CountsHeld
  <2>2. CASE ~Locked
    <3>1. wsa = leaks + (IF count > 0 THEN 1 ELSE 0) /\ count > 0
      BY <1>3, <1>4, <2>1, <2>2 DEF Refs
    <3> QED BY <1>2, <3>1
  <2>3. CASE Locked
    <3>1. atLock[1] = HeldSum /\ atLock[1] > 0
      BY <2>1, <2>3 DEF Refs
    <3>2. PICK s \in Threads : pc[s] \in Inside
      BY <2>3 DEF Locked
    <3>3. CASE pc[s] = "unlock"
      <4>1. wsa = leaks + (IF count > 0 THEN 1 ELSE 0)
        BY <1>0, <1>4, <3>3 DEF StartedOnce, Started
      <4>2. Done(s)
        BY <1>0, <3>3 DEF Progress
      <4>3. CASE op[s] = "init"
        <5>1. count = 1 \/ count = Wrap32(atLock[1] + 1)
          BY <1>2, <3>1, <4>2, <4>3 DEF Done
        <5>2. held[s] < MaxHeld
          BY <1>0, <3>2, <4>3 DEF Owned, Running
        <5>3. HeldSum + 1 < Half
          BY <1>0, <5>2, RoomForOne
        <5>4. atLock[1] + 1 \in Int32
          BY <1>1, <1>2, <3>1, <5>3 DEF Int32
        <5>5. Wrap32(atLock[1] + 1) = atLock[1] + 1
          BY <5>4, WrapSame
        <5>6. count > 0
          BY <1>2, <3>1, <5>1, <5>5
        <5> QED BY <1>2, <4>1, <5>6
      <4>4. CASE op[s] = "cleanup"
        <5>1. s # t
          BY <1>4, <3>2, <4>4 DEF Inside
        <5>2. held[s] > 0
          BY <1>0, <1>4, <3>2, <4>4 DEF Owned, Running
        <5>3. atLock[1] >= 2
          BY <1>1, <1>2, <1>4, <3>1, <5>1, <5>2
        <5>4. count = atLock[1] - 1
          BY <1>2, <4>2, <4>4, <5>3 DEF Done
        <5> QED BY <1>2, <4>1, <5>3, <5>4
      <4>5. CASE op[s] = "query"
        <5>1. count = atLock[1]
          BY <4>2, <4>5 DEF Done, Same
        <5> QED BY <1>2, <3>1, <4>1, <5>1
      <4> QED BY <4>2, <4>3, <4>4, <4>5 DEF Done
    <3>4. CASE pc[s] # "unlock"
      <4>1. atLock[2] = leaks + (IF atLock[1] > 0 THEN 1 ELSE 0)
        BY <1>0, <1>4, <3>2, <3>4 DEF StartedOnce, Started
      <4>2. wsa = atLock[2] \/ wsa = atLock[2] + 1
        BY <1>0, <3>2, <3>4 DEF Progress, Inside, Counting, Same
      <4> QED BY <1>2, <3>1, <4>1, <4>2
    <3> QED BY <3>3, <3>4
  <2> QED BY <2>2, <2>3
<1> QED BY <1>3, <1>4 DEF ReferencesAccounted

\* No reference and no start of Winsock is lost or made twice, for any number
\* of threads: as long as all the references the threads may take fit an int32,
\* net_ref_count is the number of references out whenever the lock is free, the
\* library is started once while there is one, and a thread that holds one can
\* use sockets in the middle of any other thread's call.
THEOREM Accounting == ASSUME Fits PROVE Spec => []ReferencesAccounted
<1>1. Init => Accounts
  <2> SUFFICES ASSUME Init PROVE Accounts
    OBVIOUS
  <2>1. IInv
    BY InitInv
  <2>2. ~Locked /\ Owned
    BY ThreadsAssumption DEF Init, Locked, Inside, Owned, Running, Waiting
  <2>3. HeldSum = 0
    <3>1. held \in [Threads -> Int] /\ \A t \in Threads : held[t] = 0
      BY DEF Init
    <3> QED BY <3>1, SumOfZeros DEF HeldSum, Fits
  <2>4. CountsHeld
    BY <2>2, <2>3 DEF CountsHeld, Refs, Init
  <2>5. StartedOnce
    BY DEF StartedOnce, Started, Init, Inside
  <2> QED BY <2>1, <2>2, <2>4, <2>5 DEF Accounts
<1>2. Accounts /\ [Next]_vars => Accounts'
  <2> SUFFICES ASSUME Accounts, [Next]_vars PROVE Accounts'
    OBVIOUS
  <2>1. IInv'
    BY StepInv DEF Accounts
  <2>2. ASSUME UNCHANGED vars PROVE Accounts'
    <3>1. Owned' /\ StartedOnce'
      BY <2>2 DEF Accounts, vars, Owned, StartedOnce, Started, Running, Locked
    <3>2. CountsHeld'
      BY <2>2 DEF Accounts, vars, CountsHeld, Refs, HeldSum, Locked
    <3> QED BY <2>1, <3>1, <3>2 DEF Accounts
  <2>3. ASSUME NEW t \in Threads, Step(t) \/ \E o \in Ops : Call(t, o) PROVE Accounts'
    <3>1. Owned'
      BY <2>3, OwnedStep
    <3>2. CountsHeld'
      BY <2>1, <2>3, <3>1, CountStep
    <3>3. StartedOnce'
      BY <2>1, <2>3, StartedStep
    <3> QED BY <2>1, <3>1, <3>2, <3>3 DEF Accounts
  <2> QED BY <2>2, <2>3 DEF Next
<1>3. Accounts => ReferencesAccounted
  BY AccountsImply
<1> QED BY <1>1, <1>2, <1>3, PTL DEF Spec
=============================================================================
