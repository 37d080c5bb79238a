--------------------------- MODULE OptDriverProofs ---------------------------
(***************************************************************************)
(* Proofs about the driver, for all passes, all conditions and every       *)
(* number of rounds.                                                       *)
(*                                                                         *)
(* A pass is skipped when its clean version is the version of the          *)
(* function.  That this is sound needs three facts together: versions only *)
(* grow, no pass is clean for a version that does not exist yet, and the   *)
(* code does not change while the version stays, the pass before the first *)
(* round excepted, when no pass is clean.  For the fixpoint, a round that  *)
(* has changed nothing must also have left every pass it went past clean.  *)
(***************************************************************************)
EXTENDS OptDriver, TLAPS

\* No pass is clean for a version to come, and none before the first round.
CleanIsPast ==
    \A p \in Passes : clean[p] <= version /\ (stage = "before" => clean[p] # version)

\* In a round that has changed nothing so far, the passes behind next are
\* clean; so are all of them when the round is over.
BehindIsClean ==
    ~changed /\ stage \in {"round", "done"} =>
        \A i \in 1 .. next - 1 : clean[Table[i]] = version

\* The driver stops at the end of the table, and goes on only while it may.
StagesFit ==
    /\ stage = "done" => next = Len(Table) + 1
    /\ stage \in {"before", "between"} => round < MaxRounds

IInv == TypeOK /\ CleanIsPast /\ SkippedPassesAreIdle /\ BehindIsClean /\ StagesFit

\* The pass that is due is one of the table's.
LEMMA DueIsPass == ASSUME TypeOK, InRound PROVE Due \in Passes /\ next \in 1 .. Len(Table)
  BY DriverAssumption DEF TypeOK, InRound, Due, Passes

\* Init establishes the invariant.
LEMMA InitIInv == ASSUME Init PROVE IInv
<1>1. TypeOK /\ StagesFit
  <2>1. /\ stage = "before" /\ changed = FALSE /\ clean \in [Passes -> Nat]
        /\ round = 0 /\ next = 1 /\ version = 1
    BY DEF Init
  <2>2. 0 \in 0 .. MaxRounds /\ 0 < MaxRounds /\ 1 \in 1 .. Len(Table) + 1 /\ 1 \in Nat
    BY DriverAssumption
  <2> QED BY <2>1, <2>2, Zenon DEF TypeOK, StagesFit
<1>2. CleanIsPast /\ SkippedPassesAreIdle
  BY DriverAssumption DEF Init, CleanIsPast, SkippedPassesAreIdle
<1>3. BehindIsClean
  BY DEF Init, BehindIsClean
<1> QED BY <1>1, <1>2, <1>3 DEF IInv

\* Every step keeps it, one case per action of the driver.
LEMMA StepIInv == ASSUME IInv, [Next]_vars PROVE IInv'
<1> USE DriverAssumption
<1> TypeOK /\ CleanIsPast /\ SkippedPassesAreIdle /\ BehindIsClean /\ StagesFit
  BY DEF IInv
<1>1. CASE RunBefore
  <2>1. TypeOK' /\ StagesFit'
    BY <1>1 DEF RunBefore, TypeOK, StagesFit
  <2>2. CleanIsPast' /\ SkippedPassesAreIdle'
    BY <1>1 DEF RunBefore, CleanIsPast, SkippedPassesAreIdle
  <2>3. BehindIsClean'
    BY <1>1 DEF RunBefore, BehindIsClean
  <2> QED BY <2>1, <2>2, <2>3 DEF IInv
<1>2. CASE BeginRound
  <2>1. TypeOK' /\ StagesFit'
    <3>1. round < MaxRounds /\ round \in 0 .. MaxRounds
      BY <1>2 DEF BeginRound, TypeOK, StagesFit
    <3>2. round' \in 0 .. MaxRounds /\ next' \in 1 .. Len(Table) + 1
      BY <1>2, <3>1 DEF BeginRound
    <3>3. changed' \in BOOLEAN /\ stage' = "round" /\ UNCHANGED <<version, clean>>
      BY <1>2 DEF BeginRound
    <3> QED BY <3>2, <3>3 DEF TypeOK, StagesFit
  <2>2. CleanIsPast' /\ SkippedPassesAreIdle'
    BY <1>2 DEF BeginRound, CleanIsPast, SkippedPassesAreIdle
  <2>3. BehindIsClean'
    BY <1>2 DEF BeginRound, BehindIsClean
  <2> QED BY <2>1, <2>2, <2>3 DEF IInv
<1>3. CASE PassOver
  <2>1. Due \in Passes /\ next \in 1 .. Len(Table)
    BY <1>3, DueIsPass DEF PassOver
  <2>2. TypeOK' /\ StagesFit'
    BY <1>3, <2>1 DEF PassOver, InRound, TypeOK, StagesFit
  <2>3. CleanIsPast'
    BY <1>3, <2>1 DEF PassOver, InRound, CleanIsPast, TypeOK
  <2>4. Due \notin Always \ SkipList
    BY <1>3 DEF PassOver, MayRun
  <2>5. SkippedPassesAreIdle'
    BY <1>3, <2>1, <2>4 DEF PassOver, SkippedPassesAreIdle, TypeOK
  <2>6. BehindIsClean'
    BY <1>3, <2>1 DEF PassOver, InRound, BehindIsClean, TypeOK, Due, Passes
  <2> QED BY <2>2, <2>3, <2>5, <2>6 DEF IInv
<1>4. CASE SkipClean
  <2>1. Due \in Passes /\ next \in 1 .. Len(Table)
    BY <1>4, DueIsPass DEF SkipClean
  <2>2. TypeOK' /\ StagesFit'
    BY <1>4, <2>1 DEF SkipClean, InRound, TypeOK, StagesFit
  <2>3. CleanIsPast' /\ SkippedPassesAreIdle'
    BY <1>4 DEF SkipClean, InRound, CleanIsPast, SkippedPassesAreIdle
  <2>4. BehindIsClean'
    BY <1>4, <2>1 DEF SkipClean, InRound, BehindIsClean, TypeOK, Due
  <2> QED BY <2>2, <2>3, <2>4 DEF IInv
<1>5. CASE RunPass
  <2>1. Due \in Passes /\ next \in 1 .. Len(Table)
    BY <1>5, DueIsPass DEF RunPass
  <2>2. CASE function' # function
    <3>1. TypeOK' /\ StagesFit'
      BY <1>5, <2>1, <2>2 DEF RunPass, InRound, TypeOK, StagesFit
    <3>2. CleanIsPast' /\ \A p \in Passes : clean'[p] # version'
      BY <1>5, <2>2 DEF RunPass, InRound, CleanIsPast, TypeOK
    <3>3. SkippedPassesAreIdle'
      BY <3>2 DEF SkippedPassesAreIdle
    <3>4. BehindIsClean'
      BY <1>5, <2>2 DEF RunPass, BehindIsClean
    <3> QED BY <3>1, <3>2, <3>3, <3>4 DEF IInv
  <2>3. CASE function' = function
    <3>1. TypeOK' /\ StagesFit'
      BY <1>5, <2>1, <2>3 DEF RunPass, InRound, TypeOK, StagesFit
    <3>2. CleanIsPast'
      BY <1>5, <2>1, <2>3 DEF RunPass, InRound, CleanIsPast, TypeOK
    <3>3. Apply(Due, function') = function'
      BY <1>5, <2>3 DEF RunPass
    <3>4. SkippedPassesAreIdle'
      BY <1>5, <2>1, <2>3, <3>3 DEF RunPass, SkippedPassesAreIdle, TypeOK
    <3>5. BehindIsClean'
      BY <1>5, <2>1, <2>3 DEF RunPass, InRound, BehindIsClean, TypeOK, Due, Passes
    <3> QED BY <3>1, <3>2, <3>4, <3>5 DEF IInv
  <2> QED BY <2>2, <2>3
<1>6. CASE EndRound
  <2>1. TypeOK' /\ StagesFit'
    BY <1>6 DEF EndRound, TypeOK, StagesFit
  <2>2. CleanIsPast' /\ SkippedPassesAreIdle'
    BY <1>6 DEF EndRound, CleanIsPast, SkippedPassesAreIdle
  <2>3. BehindIsClean'
    BY <1>6 DEF EndRound, BehindIsClean
  <2> QED BY <2>1, <2>2, <2>3 DEF IInv
<1>7. CASE UNCHANGED vars
  BY <1>7 DEF vars, IInv, TypeOK, CleanIsPast, SkippedPassesAreIdle, BehindIsClean, StagesFit
<1> QED BY <1>1, <1>2, <1>3, <1>4, <1>5, <1>6, <1>7 DEF Next

\* The invariant holds always.
THEOREM Invariant == Spec => []IInv
  BY InitIInv, StepIInv, PTL DEF Spec

\* The bookkeeping of ir_optimize_function stays within its bounds: rounds,
\* the index into the pass table and the clean versions.
THEOREM TypeCorrect == Spec => []TypeOK
<1>1. IInv => TypeOK
  BY DEF IInv
<1> QED BY <1>1, Invariant, PTL

\* DRIVE_PASS skips only what would change nothing: the comment above it says
\* so, and it holds whatever the passes are.
THEOREM SkippingIsSound == Spec => []SkippedPassesAreIdle
<1>1. IInv => SkippedPassesAreIdle
  BY DEF IInv
<1> QED BY <1>1, Invariant, PTL

\* A driver that stops before its rounds are over has reached a fixpoint of all
\* the passes that have no condition.
THEOREM ReachesFixpoint == Spec => []StopsAtFixpoint
<1>1. ASSUME IInv PROVE StopsAtFixpoint
  <2>1. SUFFICES ASSUME stage = "done", ~changed, NEW p \in Always \ SkipList
                 PROVE Apply(p, function) = function
    BY DEF StopsAtFixpoint
  <2>2. PICK i \in DOMAIN Table : p = Table[i]
    BY DriverAssumption DEF Passes
  <2>3. i \in 1 .. next - 1
    BY <1>1, <2>1, DriverAssumption DEF IInv, StagesFit
  <2>4. clean[p] = version
    BY <1>1, <2>1, <2>2, <2>3 DEF IInv, BehindIsClean
  <2> QED BY <1>1, <2>4 DEF IInv, SkippedPassesAreIdle
<1> QED BY <1>1, Invariant, PTL
=============================================================================
