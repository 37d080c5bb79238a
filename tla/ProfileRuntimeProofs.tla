------------------------ MODULE ProfileRuntimeProofs ------------------------
(***************************************************************************)
(* Machine-checked facts about ProfileRuntime, for every number of         *)
(* functions, stack limit, word size and clock rate.                       *)
(***************************************************************************)
EXTENDS ProfileRuntime, FiniteFacts, SequenceTheorems

\* The clock of mettle_profile_now_ns is a machine word.
LEMMA NowIsWord ==
  ASSUME counter \in Nat
  PROVE  NowNs \in UInt
<1>1. counter * NsPerSec \in Nat
  BY ConstantsAssumption
<1>2. (counter * NsPerSec) % Word \in 0 .. Word - 1
  BY <1>1, ConstantsAssumption
<1>3. \A y \in Nat : y \div Frequency \in Nat /\ y \div Frequency <= y
  <2>1. SUFFICES ASSUME NEW y \in Nat
                 PROVE  y \div Frequency \in Nat /\ y \div Frequency <= y
    OBVIOUS
  <2>2. PICK F \in Nat \ {0} : F = Frequency
    BY ConstantsAssumption
  <2>3. y \div F \in Int
    BY <2>2
  <2>4. y = F * (y \div F) + (y % F) /\ 0 <= y % F /\ y % F < F
    BY <2>2
  <2> QED BY <2>2, <2>3, <2>4
<1> QED BY <1>2, <1>3, ConstantsAssumption DEF NowNs, UInt

\* Division by the clock frequency keeps the order.
LEMMA DivMonotone ==
  ASSUME NEW a \in Nat, NEW b \in Nat, a <= b, NEW F \in Nat \ {0}
  PROVE  a \div F <= b \div F
<1> DEFINE p == a \div F
           q == b \div F
<1>1. p \in Int /\ q \in Int
  OBVIOUS
<1>2. a = F * p + (a % F) /\ 0 <= a % F /\ a % F < F
  OBVIOUS
<1>3. b = F * q + (b % F) /\ 0 <= b % F /\ b % F < F
  OBVIOUS
<1> HIDE DEF p, q
<1>4. ASSUME q + 1 <= p PROVE FALSE
  <2>1. F * (q + 1) <= F * p
    BY <1>1, <1>4
  <2>2. F * (q + 1) = F * q + F
    BY <1>1
  <2> QED BY <1>1, <1>2, <1>3, <2>1, <2>2
<1>5. p <= q
  BY <1>1, <1>4
<1> QED BY <1>5 DEF p, q

\* While the 64-bit product is exact, the profiler's clock never goes back.
LEMMA ClockMonotone ==
  ASSUME counter \in Nat, counter' = counter + 1, ClockExact'
  PROVE  ClockExact /\ NowNs <= NowNs'
<1>1. PICK S \in Nat \ {0} : S = NsPerSec
  BY ConstantsAssumption
<1>2. PICK W \in Nat \ {0} : W = Word
  BY ConstantsAssumption
<1>3. counter * S \in Nat /\ (counter + 1) * S \in Nat
  OBVIOUS
<1>4. (counter + 1) * S = counter * S + S
  OBVIOUS
<1>5. counter * S < W /\ (counter + 1) * S < W
  BY <1>1, <1>2, <1>3, <1>4 DEF ClockExact
<1>6. (counter * S) % W = counter * S /\ ((counter + 1) * S) % W = (counter + 1) * S
  BY <1>3, <1>5
<1>7. (counter * S) \div Frequency <= ((counter + 1) * S) \div Frequency
  BY <1>3, <1>4, DivMonotone, ConstantsAssumption
<1> QED BY <1>1, <1>2, <1>5, <1>6, <1>7 DEF ClockExact, NowNs

LEMMA WordArithmetic ==
  /\ \A a, b \in Int : Plus(a, b) \in UInt /\ Minus(a, b) \in UInt
  /\ \A a, b \in Int : a + b \in UInt => Plus(a, b) = a + b
  /\ \A a, b \in Int : a - b \in UInt => Minus(a, b) = a - b
BY ConstantsAssumption DEF Plus, Minus, UInt

-----------------------------------------------------------------------------
\* An edge update keeps the edge table well typed.
LEMMA NoteEdgeType ==
  ASSUME TypeOK, NEW e \in Fn \X Fn, NEW n \in Nat, NEW t \in UInt,
         NoteEdge(e, n, t)
  PROVE  /\ DOMAIN edges' \subseteq Fn \X Fn
         /\ edges' \in [DOMAIN edges' -> [calls : Nat, time : UInt]]
         /\ edgeCap' \in Nat
         /\ lostEdge' \in BOOLEAN
<1> DEFINE Rec == [calls : Nat, time : UInt]
<1>1. CASE /\ e \in DOMAIN edges
           /\ edges' = [edges EXCEPT ![e] = [calls |-> @.calls + n,
                                             time |-> Plus(@.time, t)]]
           /\ UNCHANGED <<edgeCap, lostEdge>>
  <2>1. edges[e].calls \in Nat /\ edges[e].time \in UInt
    BY <1>1 DEF TypeOK
  <2>2. Plus(edges[e].time, t) \in UInt
    <3>1. edges[e].time \in Int /\ t \in Int
      BY <2>1 DEF UInt
    <3> QED BY <3>1, WordArithmetic
  <2>3. DOMAIN edges' = DOMAIN edges
    BY <1>1
  <2>4. edges' \in [DOMAIN edges -> Rec]
    BY <1>1, <2>1, <2>2 DEF TypeOK
  <2> QED BY <1>1, <2>3, <2>4 DEF TypeOK
<1>2. CASE /\ e \notin DOMAIN edges
           /\ edges' = [x \in DOMAIN edges \cup {e} |->
                          IF x = e THEN [calls |-> n, time |-> t] ELSE edges[x]]
           /\ edgeCap' \in {edgeCap, InitialEdges, edgeCap * 2}
           /\ UNCHANGED lostEdge
  <2>1. edgeCap' \in Nat
    <3>1. edgeCap \in Nat
      BY DEF TypeOK
    <3>2. edgeCap * 2 \in Nat /\ InitialEdges \in Nat
      BY <3>1, ConstantsAssumption
    <3> QED BY <1>2, <3>1, <3>2, Zenon
  <2>2. DOMAIN edges' \subseteq Fn \X Fn
    BY <1>2 DEF TypeOK
  <2>3. edges' \in [DOMAIN edges' -> Rec]
    BY <1>2 DEF TypeOK
  <2> QED BY <1>2, <2>1, <2>2, <2>3 DEF TypeOK
<1>3. CASE lostEdge' = TRUE /\ UNCHANGED <<edges, edgeCap>>
  BY <1>3 DEF TypeOK
<1> QED BY <1>1, <1>2, <1>3 DEF NoteEdge, NewEdge

LEMMA FunctionIsSeq ==
  ASSUME NEW S, NEW m \in Nat, NEW g \in [1 .. m -> S]
  PROVE  g \in Seq(S) /\ Len(g) = m
OBVIOUS

LEMMA FrameAt ==
  ASSUME stack \in Seq(Frame), NEW i \in 1 .. Len(stack)
  PROVE  /\ stack[i] \in Frame
         /\ stack[i].fn \in Fn
         /\ stack[i].start \in UInt
         /\ stack[i].child \in UInt
<1>1. stack[i] \in Frame
  OBVIOUS
<1> QED BY <1>1 DEF Frame

LEMMA TopIsFrame ==
  ASSUME stack \in Seq(Frame), stack # <<>>
  PROVE  Len(stack) \in 1 .. Len(stack)
OBVIOUS

LEMMA EnsuredCapsType ==
  ASSUME NEW cap \in Nat, NEW f \in Fn, NEW c \in EnsuredCaps(cap, f)
  PROVE  c \in Nat
BY ConstantsAssumption DEF EnsuredCaps, Fn

\* The initial state and every step keep the types.
LEMMA TypeInit == Init => TypeOK
<1> SUFFICES ASSUME Init PROVE TypeOK
  OBVIOUS
<1>1. 0 \in UInt
  BY ConstantsAssumption DEF UInt
<1>2. ZeroStats \in Stats
  BY <1>1 DEF ZeroStats, Stats
<1>3. /\ stack \in Seq(Frame) /\ Len(stack) = 0 /\ overflow \in Nat
      /\ live \in Seq(Fn) /\ entered \in Nat
  BY DEF Init
<1>4. DOMAIN edges = {} /\ edges \in [{} -> [calls : Nat, time : UInt]] /\ edgeCap \in Nat
  BY DEF Init
<1>5. /\ stats \in [Fn -> Stats] /\ statsCap \in Nat /\ opCap \in Nat
      /\ rootCalls \in [Fn -> Nat] /\ rootTime \in [Fn -> UInt]
      /\ opStats \in [Fn -> [OpClasses -> Nat]]
      /\ trueOps \in [Fn -> [OpClasses -> Nat]]
  BY <1>1, <1>2 DEF Init
<1>6. /\ counter \in Nat /\ phase \in {"running", "reported"}
      /\ dropped \in BOOLEAN /\ lostEdge \in BOOLEAN /\ skewed \in BOOLEAN
  BY ChoicesAssumption DEF Init
<1> QED BY <1>3, <1>4, <1>5, <1>6, ConstantsAssumption DEF TypeOK

LEMMA EnterType ==
  ASSUME TypeOK, NEW f \in Fn, Enter(f)
  PROVE  TypeOK'
<1>1. live' \in Seq(Fn) /\ entered' \in Nat
  BY DEF Enter, TypeOK
<1>2. CASE EnterDropped(f)
  <2>1. statsCap' \in Nat
    BY <1>2, EnsuredCapsType DEF EnterDropped, TypeOK
  <2> QED BY <1>1, <1>2, <2>1 DEF Enter, EnterDropped, TypeOK
<1>3. CASE EnterCounted(f)
  <2>1. statsCap' \in Nat /\ opCap' \in Nat
    BY <1>3, EnsuredCapsType DEF EnterCounted, TypeOK
  <2>2. stats' \in [Fn -> Stats]
    <3>1. stats \in [Fn -> Stats]
      BY DEF TypeOK
    <3>2. stats' = [stats EXCEPT ![f].calls = @ + 1]
      BY <1>3 DEF EnterCounted
    <3> QED BY <3>1, <3>2 DEF Stats
  <2>3. stack' \in Seq(Frame) /\ Len(stack') <= MaxStack /\ overflow' \in Nat
    <3>1. [fn |-> f, start |-> NowNs, child |-> 0] \in Frame
      <4>1. counter \in Nat
        BY DEF TypeOK
      <4>2. 0 \in UInt
        BY ConstantsAssumption DEF UInt
      <4> QED BY <4>1, <4>2, NowIsWord DEF Frame
    <3>2. CASE Len(stack) >= MaxStack
      BY <1>3, <3>2 DEF EnterCounted, StackFull, TypeOK
    <3>3. CASE ~(Len(stack) >= MaxStack)
      <4>1. stack' = Append(stack, [fn |-> f, start |-> NowNs, child |-> 0])
            /\ overflow' = overflow
        BY <1>3, <3>3 DEF EnterCounted, StackFull
      <4>2. stack \in Seq(Frame) /\ Len(stack) \in Nat /\ overflow \in Nat
        BY DEF TypeOK
      <4>3. stack' \in Seq(Frame) /\ Len(stack') = Len(stack) + 1
        BY <3>1, <4>1, <4>2
      <4> QED BY <3>3, <4>1, <4>2, <4>3, ConstantsAssumption
    <3> QED BY <3>2, <3>3
  <2>4. /\ DOMAIN edges' \subseteq Fn \X Fn
        /\ edges' \in [DOMAIN edges' -> [calls : Nat, time : UInt]]
        /\ edgeCap' \in Nat
        /\ lostEdge' \in BOOLEAN
        /\ rootCalls' \in [Fn -> Nat]
    <3>1. CASE stack # <<>>
      <4>1. <<stack[Len(stack)].fn, f>> \in Fn \X Fn
        <5>1. stack \in Seq(Frame)
          BY DEF TypeOK
        <5> QED BY <3>1, <5>1, TopIsFrame, FrameAt
      <4>2. NoteEdge(<<stack[Len(stack)].fn, f>>, 1, 0) /\ UNCHANGED rootCalls
        BY <1>3, <3>1 DEF EnterCounted
      <4>3. 0 \in UInt
        BY ConstantsAssumption DEF UInt
      <4>4. rootCalls' \in [Fn -> Nat]
        BY <4>2 DEF TypeOK
      <4> QED BY <4>1, <4>2, <4>3, <4>4, NoteEdgeType
    <3>2. CASE stack = <<>>
      <4>1. rootCalls' = [rootCalls EXCEPT ![f] = @ + 1]
            /\ UNCHANGED <<edges, edgeCap, lostEdge>>
        BY <1>3, <3>2 DEF EnterCounted
      <4>2. rootCalls' \in [Fn -> Nat]
        BY <4>1 DEF TypeOK
      <4> QED BY <4>1, <4>2 DEF TypeOK
    <3> QED BY <3>1, <3>2
  <2>5. skewed' \in BOOLEAN
    <3>1. skewed' \in {TRUE, skewed}
      BY <1>3 DEF EnterCounted
    <3> QED BY <3>1, Zenon DEF TypeOK
  <2>6. UNCHANGED <<counter, phase, rootTime, trueOps, opStats, dropped>>
    BY <1>3 DEF Enter, EnterCounted
  <2> QED BY <1>1, <2>1, <2>2, <2>3, <2>4, <2>5, <2>6 DEF TypeOK
<1> QED BY <1>2, <1>3 DEF Enter

\* The stack and the times PopFrame leaves.
LEMMA PopType ==
  ASSUME TypeOK, stack # <<>>, PopFrame
  PROVE  /\ stats' \in [Fn -> Stats]
         /\ rootTime' \in [Fn -> UInt]
         /\ stack' \in Seq(Frame)
         /\ Len(stack') = Len(stack) - 1
         /\ DOMAIN edges' \subseteq Fn \X Fn
         /\ edges' \in [DOMAIN edges' -> [calls : Nat, time : UInt]]
         /\ edgeCap' \in Nat
         /\ lostEdge' \in BOOLEAN
<1> DEFINE n == Len(stack)
           frame == stack[n]
           elapsed == Elapsed(frame)
<1>1. stack \in Seq(Frame) /\ n \in 1 .. n /\ n \in Nat
  BY TopIsFrame DEF TypeOK
<1>0. n \in Nat /\ n >= 1
  BY <1>1
<1>2. frame.fn \in Fn /\ frame.start \in UInt /\ frame.child \in UInt
  BY <1>1, FrameAt
<1>3. NowNs \in UInt /\ UInt \subseteq Int
  BY NowIsWord DEF TypeOK, UInt
<1>4. elapsed \in UInt
  BY <1>2, <1>3, WordArithmetic DEF Elapsed
<1> HIDE DEF elapsed
<1>5. stats' \in [Fn -> Stats]
  <2>1. stats \in [Fn -> Stats]
    BY DEF TypeOK
  <2>2. stats[frame.fn].total \in UInt /\ stats[frame.fn].self \in UInt
        /\ stats[frame.fn].max \in UInt
    BY <1>2, <2>1 DEF Stats
  <2>3. Plus(stats[frame.fn].total, elapsed) \in UInt
        /\ Plus(stats[frame.fn].self, SelfShare(frame, elapsed)) \in UInt
    <3>1. SelfShare(frame, elapsed) \in UInt
      BY <1>2, <1>3, <1>4, WordArithmetic DEF SelfShare
    <3> QED BY <1>3, <1>4, <2>2, <3>1, WordArithmetic
  <2>4. stats' = [stats EXCEPT
                     ![frame.fn].total = Plus(@, elapsed),
                     ![frame.fn].self = Plus(@, SelfShare(frame, elapsed)),
                     ![frame.fn].max = IF elapsed > @ THEN elapsed ELSE @]
    BY DEF PopFrame, elapsed
  <2>5. (IF elapsed > stats[frame.fn].max THEN elapsed ELSE stats[frame.fn].max) \in UInt
    BY <1>4, <2>2
  <2> DEFINE s1 == [stats EXCEPT ![frame.fn].total = Plus(@, elapsed)]
             s2 == [s1 EXCEPT ![frame.fn].self = Plus(@, SelfShare(frame, elapsed))]
  <2>6. /\ s1 \in [Fn -> Stats] /\ s1[frame.fn].self = stats[frame.fn].self
        /\ s1[frame.fn].max = stats[frame.fn].max
    BY <1>2, <2>1, <2>3 DEF Stats
  <2>7. stats' = [s2 EXCEPT ![frame.fn].max = IF elapsed > @ THEN elapsed ELSE @]
    BY <2>4, Zenon
  <2> HIDE DEF s1
  <2>8. s2 \in [Fn -> Stats] /\ s2[frame.fn].max = stats[frame.fn].max
    BY <1>2, <2>3, <2>6 DEF Stats
  <2> HIDE DEF s2
  <2> QED BY <1>2, <2>5, <2>7, <2>8 DEF Stats
<1>6. stack' \in Seq(Frame) /\ Len(stack') = n - 1
  <2>1. stack' = Popped(elapsed)
    BY DEF PopFrame, elapsed
  <2>2. \A i \in 1 .. n - 1 : stack[i] \in Frame /\ stack[i].child \in UInt
    BY <1>1, FrameAt
  <2>3. \A i \in 1 .. n - 1 : Plus(stack[i].child, elapsed) \in UInt
    BY <1>3, <1>4, <2>2, WordArithmetic
  <2>4. \A i \in 1 .. n - 1 : [stack[i] EXCEPT !.child = Plus(@, elapsed)] \in Frame
    BY <2>2, <2>3 DEF Frame
  <2>5. stack' \in [1 .. n - 1 -> Frame]
    BY <2>1, <2>2, <2>4 DEF Popped
  <2>6. n - 1 \in Nat
    BY <1>1
  <2> QED BY <2>5, <2>6, FunctionIsSeq
<1>7. CASE n > 1
  <2>1. NoteEdge(<<stack[n - 1].fn, frame.fn>>, 0, elapsed) /\ UNCHANGED rootTime
    BY <1>7 DEF PopFrame, elapsed
  <2>2. n - 1 \in 1 .. n
    BY <1>1, <1>7
  <2>3. <<stack[n - 1].fn, frame.fn>> \in Fn \X Fn
    BY <1>1, <1>2, <2>2, FrameAt
  <2>4. rootTime' \in [Fn -> UInt]
    BY <2>1 DEF TypeOK
  <2> QED BY <1>4, <1>5, <1>6, <2>1, <2>3, <2>4, NoteEdgeType
<1>8. CASE ~(n > 1)
  <2>1. /\ rootTime' = [rootTime EXCEPT ![frame.fn] = Plus(@, elapsed)]
        /\ UNCHANGED <<edges, edgeCap, lostEdge>>
    BY <1>8 DEF PopFrame, elapsed
  <2>2. rootTime \in [Fn -> UInt]
    BY DEF TypeOK
  <2>3. Plus(rootTime[frame.fn], elapsed) \in UInt
    BY <1>2, <1>3, <1>4, <2>2, WordArithmetic
  <2>4. rootTime' \in [Fn -> UInt]
    BY <2>1, <2>2, <2>3
  <2> QED BY <1>5, <1>6, <2>1, <2>4 DEF TypeOK
<1> QED BY <1>7, <1>8

LEMMA ExitType == TypeOK /\ Exit => TypeOK'
<1> SUFFICES ASSUME TypeOK, Exit PROVE TypeOK'
  OBVIOUS
<1>1. live' \in Seq(Fn)
  BY DEF Exit, TypeOK
<1>2. UNCHANGED <<counter, phase, entered, dropped, skewed, rootCalls, trueOps,
                  statsCap, opStats, opCap>>
  BY DEF Exit
<1>3. CASE UNCHANGED <<stats, stack, overflow, edges, edgeCap, rootTime, lostEdge>>
  BY <1>1, <1>2, <1>3 DEF TypeOK
<1>4. CASE /\ ExitIgnored
           /\ overflow' = overflow - 1
           /\ UNCHANGED <<stats, stack, edges, edgeCap, rootTime, lostEdge>>
  <2>1. overflow' \in Nat
    BY <1>4 DEF TypeOK, ExitIgnored
  <2> QED BY <1>1, <1>2, <1>4, <2>1 DEF TypeOK
<1>5. CASE stack # <<>> /\ PopFrame
  <2>1. overflow' = overflow
    BY <1>5 DEF PopFrame
  <2>2. Len(stack') <= MaxStack
    <3>1. stack \in Seq(Frame) /\ Len(stack) <= MaxStack /\ MaxStack \in Nat
      BY ConstantsAssumption DEF TypeOK
    <3>2. Len(stack') = Len(stack) - 1
      BY <1>5, PopType
    <3> QED BY <3>1, <3>2
  <2> QED BY <1>1, <1>2, <1>5, <2>1, <2>2, PopType DEF TypeOK
<1> QED BY <1>3, <1>4, <1>5 DEF Exit

LEMMA OpType == ASSUME TypeOK, NEW c \in OpClasses, Op(c) PROVE TypeOK'
<1>1. live[Len(live)] \in Fn
  BY DEF TypeOK, Op
<1>2. trueOps' \in [Fn -> [OpClasses -> Nat]]
  <2>1. trueOps \in [Fn -> [OpClasses -> Nat]]
    BY DEF TypeOK
  <2>2. trueOps' = [trueOps EXCEPT ![live[Len(live)]][c] = @ + 1]
    BY DEF Op
  <2> QED BY <1>1, <2>1, <2>2
<1>3. opStats' \in [Fn -> [OpClasses -> Nat]]
  <2>1. CASE stack = <<>>
    BY <2>1 DEF TypeOK, Op
  <2>2. CASE stack # <<>>
    <3>1. stack[Len(stack)].fn \in Fn
      BY <2>2, TopIsFrame, FrameAt DEF TypeOK
    <3>2. opStats' = [opStats EXCEPT ![stack[Len(stack)].fn][c] = @ + 1]
      BY <2>2 DEF Op, OpOwner
    <3>3. opStats \in [Fn -> [OpClasses -> Nat]]
      BY DEF TypeOK
    <3> QED BY <3>1, <3>2, <3>3
  <2> QED BY <2>1, <2>2
<1> QED BY <1>2, <1>3 DEF TypeOK, Op

\* The type invariant of the profiler.
THEOREM Typing == Spec => []TypeOK
<1>1. TypeOK /\ [Next]_vars => TypeOK'
  <2> SUFFICES ASSUME TypeOK, [Next]_vars PROVE TypeOK'
    OBVIOUS
  <2>1. ASSUME NEW f \in Fn, Enter(f) PROVE TypeOK'
    BY <2>1, EnterType
  <2>2. ASSUME NEW c \in OpClasses, Op(c) PROVE TypeOK'
    BY <2>2, OpType
  <2>3. CASE Exit
    BY <2>3, ExitType
  <2>4. CASE Tick
    BY <2>4 DEF Tick, TypeOK, runtime, ghosts
  <2>5. CASE Report
    <3>1. phase' = "reported" /\ UNCHANGED <<counter, runtime, ghosts>>
      BY <2>5, Zenon DEF Report
    <3> QED BY <3>1 DEF TypeOK, runtime, ghosts
  <2>6. CASE UNCHANGED vars
    BY <2>6 DEF vars, runtime, ghosts, TypeOK
  <2> QED BY <2>1, <2>2, <2>3, <2>4, <2>5, <2>6 DEF Next
<1> QED BY <1>1, TypeInit, PTL DEF Spec

-----------------------------------------------------------------------------
\* FrameTimesNested restated as a fact about one state.
Nested(now, s) ==
  \A i \in 1 .. Len(s) :
    s[i].start + s[i].child <= (IF i < Len(s) THEN s[i + 1].start ELSE now)

\* Pushing a frame that starts now keeps the times nested.
LEMMA PushNested ==
  ASSUME NEW s \in Seq(Frame), NEW now \in UInt, Nested(now, s), NEW f \in Fn
  PROVE  Nested(now, Append(s, [fn |-> f, start |-> now, child |-> 0]))
<1> DEFINE t == Append(s, [fn |-> f, start |-> now, child |-> 0])
<1>1. Len(t) = Len(s) + 1 /\ Len(s) \in Nat
  OBVIOUS
<1>2. \A i \in 1 .. Len(s) : t[i] = s[i]
  OBVIOUS
<1>3. t[Len(s) + 1] = [fn |-> f, start |-> now, child |-> 0]
  OBVIOUS
<1> HIDE DEF t
<1>4. now \in Int
  BY DEF UInt
<1>5. \A i \in 1 .. Len(s) :
        t[i].start + t[i].child <= t[i + 1].start
  BY <1>1, <1>2, <1>3 DEF Nested
<1>6. t[Len(s) + 1].start + t[Len(s) + 1].child <= now
  BY <1>3, <1>4
<1>7. \A i \in 1 .. Len(t) :
        t[i].start + t[i].child <= (IF i < Len(t) THEN t[i + 1].start ELSE now)
  BY <1>1, <1>5, <1>6
<1> QED BY <1>7 DEF Nested, t

\* Charging a callee's time to its caller stays in the past and in a word.
LEMMA ChargeFits ==
  ASSUME NEW start \in UInt, NEW child \in UInt, NEW from \in UInt, NEW now \in UInt,
         start + child <= from, from <= now
  PROVE  child + (now - from) \in UInt /\ start + (child + (now - from)) <= now
BY ConstantsAssumption DEF UInt

\* Popping the innermost frame into its caller keeps the times nested, and
\* neither subtraction of mettle_profile_exit wraps.
LEMMA PopNested ==
  ASSUME TypeOK, stack # <<>>, Nested(NowNs, stack), PopFrame
  PROVE  Nested(NowNs, stack')
<1> DEFINE n == Len(stack)
           frame == stack[n]
           elapsed == Elapsed(frame)
<1>1. stack \in Seq(Frame) /\ n \in 1 .. n /\ n \in Nat
  BY TopIsFrame DEF TypeOK
<1>2. frame.start \in UInt /\ frame.child \in UInt
  BY <1>1, FrameAt
<1>3. NowNs \in UInt /\ UInt \subseteq Nat
  BY NowIsWord DEF TypeOK, UInt
<1>4. frame.start + frame.child <= NowNs
  BY <1>1 DEF Nested
<1>5. elapsed = NowNs - frame.start /\ elapsed \in UInt
  <2>1. NowNs - frame.start \in UInt
    BY <1>2, <1>3, <1>4, ConstantsAssumption DEF UInt
  <2>2. NowNs \in Int /\ frame.start \in Int
    BY <1>2, <1>3 DEF UInt
  <2> QED BY <2>1, <2>2, WordArithmetic DEF Elapsed
<1> HIDE DEF elapsed
<1>6. CASE n > 1
  <2>1. stack' = [i \in 1 .. n - 1 |->
                    IF i = n - 1
                    THEN [stack[i] EXCEPT !.child = Plus(@, elapsed)]
                    ELSE stack[i]]
    BY DEF PopFrame, Popped, elapsed
  <2>2. n - 1 \in 1 .. n /\ n - 1 \in Nat
    BY <1>1, <1>6
  <2>3. stack[n - 1] \in Frame /\ stack[n - 1].start \in UInt /\ stack[n - 1].child \in UInt
    BY <1>1, <2>2, FrameAt
  <2>4. stack[n - 1].start + stack[n - 1].child <= frame.start
    BY <1>1, <1>6, <2>2 DEF Nested
  <2>11. frame.start <= NowNs
    BY <1>2, <1>3, <1>4 DEF UInt
  <2>5. Plus(stack[n - 1].child, elapsed) = stack[n - 1].child + elapsed
    <3>1. stack[n - 1].child + elapsed \in UInt
      BY <1>2, <1>3, <1>5, <2>3, <2>4, <2>11, ChargeFits
    <3>2. stack[n - 1].child \in Int /\ elapsed \in Int
      BY <1>5, <2>3 DEF UInt
    <3> QED BY <3>1, <3>2, WordArithmetic
  <2>6. Len(stack') = n - 1
    BY <2>1, <2>2
  <2>7. /\ stack'[n - 1].start = stack[n - 1].start
        /\ stack'[n - 1].child = stack[n - 1].child + elapsed
    BY <1>6, <2>1, <2>2, <2>3, <2>5 DEF Frame
  <2>8. stack'[n - 1].start + stack'[n - 1].child <= NowNs
    BY <1>2, <1>3, <1>5, <2>3, <2>4, <2>7, <2>11, ChargeFits
  <2>9. \A i \in 1 .. n - 2 :
          stack'[i].start + stack'[i].child <= stack'[i + 1].start
    <3> SUFFICES ASSUME NEW i \in 1 .. n - 2
                 PROVE  stack'[i].start + stack'[i].child <= stack'[i + 1].start
      OBVIOUS
    <3>1. stack'[i] = stack[i] /\ i \in 1 .. n /\ i < n /\ i + 1 \in 1 .. n - 1
      BY <1>1, <2>1
    <3>2. stack'[i + 1].start = stack[i + 1].start
      BY <1>1, <2>1, <2>7, <3>1
    <3>3. stack[i].start + stack[i].child <= stack[i + 1].start
      BY <3>1 DEF Nested
    <3> QED BY <3>1, <3>2, <3>3
  <2> HIDE DEF n
  <2>10. \A i \in 1 .. n - 1 :
           stack'[i].start + stack'[i].child <=
             (IF i < n - 1 THEN stack'[i + 1].start ELSE NowNs)
    BY <1>1, <2>8, <2>9
  <2> QED BY <2>6, <2>10 DEF Nested
<1>7. CASE n = 1
  <2>1. Len(stack') = 0
    BY <1>7, PopType
  <2> QED BY <2>1 DEF Nested
<1>8. n \in Nat /\ n >= 1
  BY <1>1
<1>9. \A k \in Nat : k >= 1 => k > 1 \/ k = 1
  OBVIOUS
<1> QED BY <1>6, <1>7, <1>8, <1>9, Zenon

\* The times of the open frames nest in every reachable state, so the two
\* unsigned subtractions of mettle_profile_exit never wrap while the clock is
\* exact: for any number of functions, any stack limit, any failing allocation.
THEOREM FrameTimes == Spec => []FrameTimesNested
<1>1. Init => FrameTimesNested
  BY DEF Init, FrameTimesNested
<1>2. TypeOK /\ FrameTimesNested /\ [Next]_vars => FrameTimesNested'
  <2> SUFFICES ASSUME TypeOK, FrameTimesNested, [Next]_vars, ClockExact'
               PROVE  Nested(NowNs', stack')
    BY DEF FrameTimesNested, Nested
  <2>1. ClockExact => Nested(NowNs, stack)
    BY DEF FrameTimesNested, Nested
  <2>2. counter' = counter => (ClockExact' <=> ClockExact) /\ NowNs' = NowNs
    BY DEF ClockExact, NowNs
  <2>3. ASSUME counter' = counter, stack' = stack PROVE Nested(NowNs', stack')
    BY <2>1, <2>2, <2>3
  <2>4. ASSUME NEW f \in Fn, Enter(f) PROVE Nested(NowNs', stack')
    <3>1. counter' = counter
      BY <2>4 DEF Enter
    <3>2. CASE EnterDropped(f)
      BY <2>3, <3>1, <3>2 DEF EnterDropped
    <3>3. CASE EnterCounted(f) /\ stack' = stack
      BY <2>3, <3>1, <3>3
    <3>4. CASE EnterCounted(f)
               /\ stack' = Append(stack, [fn |-> f, start |-> NowNs, child |-> 0])
      <4>1. stack \in Seq(Frame) /\ NowNs \in UInt
        BY NowIsWord DEF TypeOK
      <4> QED BY <2>1, <2>2, <3>1, <3>4, <4>1, PushNested
    <3> QED BY <2>4, <3>2, <3>3, <3>4 DEF Enter, EnterCounted
  <2>5. ASSUME NEW c \in OpClasses, Op(c) PROVE Nested(NowNs', stack')
    BY <2>3, <2>5 DEF Op
  <2>6. CASE Exit
    <3>1. counter' = counter
      BY <2>6 DEF Exit
    <3>2. CASE stack' = stack
      BY <2>3, <3>1, <3>2
    <3>3. CASE stack # <<>> /\ PopFrame
      BY <2>1, <2>2, <3>1, <3>3, PopNested
    <3> QED BY <2>6, <3>2, <3>3 DEF Exit
  <2>7. CASE Tick
    <3>1. counter \in Nat /\ counter' = counter + 1 /\ stack' = stack
      BY <2>7 DEF Tick, TypeOK, runtime
    <3>2. ClockExact /\ NowNs <= NowNs'
      BY <3>1, ClockMonotone
    <3>3. NowNs \in Int /\ NowNs' \in Int
      <4>1. counter' \in Nat
        BY <3>1
      <4>2. (counter' * NsPerSec) % Word \in Int
        BY <4>1, ConstantsAssumption
      <4>3. NowNs' \in Int
        BY <4>2, ConstantsAssumption DEF NowNs
      <4> QED BY <3>1, <4>3, NowIsWord DEF UInt
    <3>4. Nested(NowNs, stack) /\ stack \in Seq(Frame)
      BY <2>1, <3>2 DEF TypeOK
    <3>5. \A i \in 1 .. Len(stack) : stack[i].start \in Nat /\ stack[i].child \in Nat
      BY <3>4, FrameAt DEF UInt
    <3>6. Nested(NowNs', stack)
      BY <3>2, <3>3, <3>4, <3>5 DEF Nested
    <3> QED BY <3>1, <3>6
  <2>8. CASE Report
    <3>1. UNCHANGED <<counter, runtime, ghosts>>
      BY <2>8, Zenon DEF Report
    <3> QED BY <2>3, <3>1 DEF runtime
  <2>9. CASE UNCHANGED vars
    BY <2>3, <2>9 DEF vars, runtime
  <2> QED BY <2>4, <2>5, <2>6, <2>7, <2>8, <2>9 DEF Next
<1> QED BY <1>1, <1>2, Typing, PTL DEF Spec
-----------------------------------------------------------------------------
\* What makes FramesMirrorCalls inductive: a body is over the limit only while
\* the stack is full, and then some body has run above MaxStack; also when an
\* enter was dropped, which FramesMirrorCalls says nothing about.
OverflowMeansFull == overflow > 0 => Len(stack) = MaxStack /\ skewed
Mirror == TypeOK /\ FramesMirrorCalls /\ OverflowMeansFull

LEMMA MirrorNumbers ==
  ASSUME TypeOK
  PROVE  /\ Len(stack) \in Nat /\ Len(live) \in Nat /\ overflow \in Nat
         /\ MaxStack \in Nat /\ MaxStack >= 1 /\ Len(stack) <= MaxStack
         /\ stack # <<>> <=> Len(stack) > 0
         /\ live # <<>> <=> Len(live) > 0
<1>1. stack \in Seq(Frame) /\ live \in Seq(Fn) /\ overflow \in Nat /\ Len(stack) <= MaxStack
  BY DEF TypeOK
<1>2. MaxStack \in Nat /\ MaxStack >= 1
  BY ConstantsAssumption
<1>3. \A S : \A q \in Seq(S) : Len(q) \in Nat /\ (q # <<>> <=> Len(q) > 0)
  OBVIOUS
<1> QED BY <1>1, <1>2, <1>3

LEMMA DropLast ==
  ASSUME NEW S, NEW q \in Seq(S), q # <<>>
  PROVE  /\ Len(SubSeq(q, 1, Len(q) - 1)) = Len(q) - 1
         /\ \A i \in 1 .. Len(q) - 1 : SubSeq(q, 1, Len(q) - 1)[i] = q[i]
<1>1. Len(q) - 1 \in Nat /\ 1 \in Int /\ \A i \in 1 .. Len(q) - 1 : q[i] \in S
  OBVIOUS
<1> DEFINE n == Len(q) - 1
<1> HIDE DEF n
<1>2. /\ Len(SubSeq(q, 1, n)) = IF 1 <= n THEN n - 1 + 1 ELSE 0
      /\ \A i \in 1 .. n - 1 + 1 : SubSeq(q, 1, n)[i] = q[1 + i - 1]
  <2>1. n \in Int /\ \A i \in 1 .. n : q[i] \in S
    BY <1>1 DEF n
  <2> QED BY <2>1, SubSeqProperties
<1>3. n \in Nat /\ n - 1 + 1 = n /\ \A i \in 1 .. n : 1 + i - 1 = i
  BY <1>1 DEF n
<1>4. Len(SubSeq(q, 1, n)) = n /\ \A i \in 1 .. n : SubSeq(q, 1, n)[i] = q[i]
  BY <1>2, <1>3
<1> QED BY <1>4 DEF n

\* A frame's owner survives a pop: only the charged time of a frame changes.
LEMMA PopKeepsOwners ==
  ASSUME TypeOK, stack # <<>>, PopFrame
  PROVE  \A i \in 1 .. Len(stack) - 1 : stack'[i].fn = stack[i].fn
<1> SUFFICES ASSUME NEW i \in 1 .. Len(stack) - 1 PROVE stack'[i].fn = stack[i].fn
  OBVIOUS
<1>1. stack \in Seq(Frame) /\ i \in 1 .. Len(stack)
  BY DEF TypeOK
<1>2. stack[i] \in Frame
  BY <1>1, FrameAt
<1> DEFINE el == Elapsed(stack[Len(stack)])
<1>3. stack'[i] = IF i = Len(stack) - 1
                  THEN [stack[i] EXCEPT !.child = Plus(@, el)] ELSE stack[i]
  BY DEF PopFrame, Popped
<1> HIDE DEF el
<1> QED BY <1>2, <1>3 DEF Frame

LEMMA EnterMirror ==
  ASSUME Mirror, NEW f \in Fn, Enter(f)
  PROVE  FramesMirrorCalls' /\ OverflowMeansFull'
<1> USE MirrorNumbers
<1>1. Len(live') = Len(live) + 1 /\ live'[Len(live) + 1] = f
      /\ \A i \in 1 .. Len(live) : live'[i] = live[i]
  BY DEF Enter, Mirror, TypeOK
<1>2. CASE EnterDropped(f)
  <2>1. dropped' = TRUE /\ UNCHANGED <<stack, overflow, skewed>>
    BY <1>2 DEF EnterDropped
  <2> QED BY <1>1, <2>1 DEF Mirror, FramesMirrorCalls, OverflowMeansFull
<1>3. CASE EnterCounted(f) /\ StackFull
  <2>1. overflow' = overflow + 1 /\ skewed' = TRUE /\ UNCHANGED <<stack, dropped>>
    BY <1>3 DEF EnterCounted
  <2>2. Len(stack) = MaxStack
    BY <1>3 DEF StackFull, Mirror
  <2>3. Len(stack') + overflow' <= Len(live')
    BY <1>1, <2>1 DEF Mirror, FramesMirrorCalls
  <2>4. ASSUME ~dropped' PROVE /\ Len(stack') + overflow' = Len(live')
                              /\ \A i \in 1 .. Len(stack') : stack'[i].fn = live'[i]
    <3>1. /\ Len(stack) + overflow = Len(live)
          /\ \A i \in 1 .. Len(stack) : stack[i].fn = live[i] /\ i \in 1 .. Len(live)
      BY <2>1, <2>4 DEF Mirror, FramesMirrorCalls
    <3> QED BY <1>1, <2>1, <3>1 DEF Mirror
  <2> QED BY <2>1, <2>2, <2>3, <2>4 DEF FramesMirrorCalls, OverflowMeansFull
<1>4. CASE EnterCounted(f) /\ ~StackFull
  <2>1. /\ stack' = Append(stack, [fn |-> f, start |-> NowNs, child |-> 0])
        /\ UNCHANGED <<overflow, skewed, dropped>>
    BY <1>4 DEF EnterCounted
  <2>2. stack \in Seq(Frame)
    BY DEF Mirror, TypeOK
  <2>3. /\ Len(stack') = Len(stack) + 1
        /\ stack'[Len(stack) + 1].fn = f
        /\ \A i \in 1 .. Len(stack) : stack'[i] = stack[i]
    BY <2>1, <2>2
  <2>4. overflow = 0
    BY <1>4 DEF Mirror, OverflowMeansFull, StackFull
  <2>5. Len(stack') + overflow' <= Len(live')
    BY <1>1, <2>1, <2>3, <2>4 DEF Mirror, FramesMirrorCalls
  <2>6. ASSUME ~dropped' PROVE /\ Len(stack') + overflow' = Len(live')
                              /\ \A i \in 1 .. Len(stack') : stack'[i].fn = live'[i]
    <3>1. ~dropped
      BY <2>1, <2>6
    <3>2. Len(stack) = Len(live) /\ \A i \in 1 .. Len(stack) : stack[i].fn = live[i]
      BY <2>4, <3>1 DEF Mirror, FramesMirrorCalls
    <3>3. ASSUME NEW i \in 1 .. Len(stack') PROVE stack'[i].fn = live'[i]
      <4>1. CASE i = Len(stack) + 1
        BY <1>1, <2>3, <3>2, <4>1
      <4>2. CASE i # Len(stack) + 1
        <5>1. i \in 1 .. Len(stack)
          BY <2>3, <4>2 DEF Mirror
        <5> QED BY <1>1, <2>3, <3>2, <5>1
      <4> QED BY <4>1, <4>2
    <3> QED BY <1>1, <2>1, <2>3, <2>4, <3>2, <3>3 DEF Mirror
  <2>7. ~(overflow' > 0)
    BY <2>1, <2>4
  <2> QED BY <2>5, <2>6, <2>7 DEF FramesMirrorCalls, OverflowMeansFull
<1> QED BY <1>2, <1>3, <1>4 DEF Enter

LEMMA ExitMirror ==
  ASSUME Mirror, Exit
  PROVE  FramesMirrorCalls' /\ OverflowMeansFull'
<1> USE MirrorNumbers
<1>1. /\ Len(live) > 0 /\ Len(live') = Len(live) - 1
      /\ \A i \in 1 .. Len(live) - 1 : live'[i] = live[i]
      /\ UNCHANGED <<dropped, skewed>>
  <2>1. live \in Seq(Fn) /\ live # <<>> /\ live' = SubSeq(live, 1, Len(live) - 1)
    BY DEF Exit, Mirror, TypeOK
  <2>2. UNCHANGED <<dropped, skewed>>
    BY DEF Exit
  <2>3. Len(live) > 0
    BY <2>1 DEF Mirror
  <2> QED BY <2>1, <2>2, <2>3, DropLast
<1>2. CASE stack = <<>> /\ UNCHANGED <<stack, overflow>>
  <2>1. Len(stack) = 0 /\ overflow = 0
    BY <1>2 DEF Mirror, OverflowMeansFull
  <2> QED BY <1>1, <1>2, <2>1 DEF Mirror, FramesMirrorCalls, OverflowMeansFull
<1>3. CASE /\ ExitIgnored /\ overflow' = overflow - 1 /\ UNCHANGED stack
  <2>1. overflow > 0
    BY <1>3 DEF ExitIgnored
  <2>2. Len(stack) <= Len(live) - 1
    BY <2>1 DEF Mirror, FramesMirrorCalls
  <2>3. \A i \in 1 .. Len(stack) : live'[i] = live[i]
    BY <1>1, <2>2 DEF Mirror
  <2>4. Len(stack') + overflow' <= Len(live')
    BY <1>1, <1>3 DEF Mirror, FramesMirrorCalls
  <2>5. ASSUME ~dropped' PROVE /\ Len(stack') + overflow' = Len(live')
                              /\ \A i \in 1 .. Len(stack') : stack'[i].fn = live'[i]
    <3>1. /\ Len(stack) + overflow = Len(live)
          /\ \A i \in 1 .. Len(stack) : stack[i].fn = live[i]
      BY <1>1, <2>5 DEF Mirror, FramesMirrorCalls
    <3> QED BY <1>1, <1>3, <2>3, <3>1 DEF Mirror
  <2>6. Len(stack') = MaxStack /\ skewed'
    BY <1>1, <1>3, <2>1 DEF Mirror, OverflowMeansFull
  <2> QED BY <2>4, <2>5, <2>6 DEF FramesMirrorCalls, OverflowMeansFull
<1>4. CASE stack # <<>> /\ ~ExitIgnored /\ PopFrame
  <2>1. overflow = 0 /\ overflow' = 0
    BY <1>4 DEF PopFrame, ExitIgnored, Mirror
  <2>2. Len(stack') = Len(stack) - 1 /\ \A i \in 1 .. Len(stack) - 1 : stack'[i].fn = stack[i].fn
    BY <1>4, PopType, PopKeepsOwners DEF Mirror
  <2>3. Len(stack') + overflow' <= Len(live')
    BY <1>1, <2>1, <2>2 DEF Mirror, FramesMirrorCalls
  <2>4. ASSUME ~dropped' PROVE /\ Len(stack') + overflow' = Len(live')
                              /\ \A i \in 1 .. Len(stack') : stack'[i].fn = live'[i]
    <3>1. Len(stack) = Len(live) /\ \A i \in 1 .. Len(stack) : stack[i].fn = live[i]
      BY <1>1, <2>1, <2>4 DEF Mirror, FramesMirrorCalls
    <3>2. ASSUME NEW i \in 1 .. Len(stack') PROVE stack'[i].fn = live'[i]
      <4>1. i \in 1 .. Len(stack) - 1 /\ i \in 1 .. Len(live) - 1 /\ i \in 1 .. Len(stack)
        BY <2>2, <3>1, <3>2 DEF Mirror
      <4> QED BY <1>1, <2>2, <3>1, <4>1
    <3> QED BY <1>1, <2>1, <2>2, <3>1, <3>2 DEF Mirror
  <2> QED BY <2>1, <2>3, <2>4 DEF FramesMirrorCalls, OverflowMeansFull
<1> QED BY <1>2, <1>3, <1>4 DEF Exit

LEMMA MirrorInductive == Spec => []Mirror
<1>1. Init => FramesMirrorCalls /\ OverflowMeansFull
  BY DEF Init, FramesMirrorCalls, OverflowMeansFull
<1>2. Mirror /\ [Next]_vars => FramesMirrorCalls' /\ OverflowMeansFull'
  <2> SUFFICES ASSUME Mirror, [Next]_vars PROVE FramesMirrorCalls' /\ OverflowMeansFull'
    OBVIOUS
  <2>1. ASSUME UNCHANGED <<stack, overflow, live, dropped, skewed>>
        PROVE  FramesMirrorCalls' /\ OverflowMeansFull'
    BY <2>1 DEF Mirror, FramesMirrorCalls, OverflowMeansFull
  <2>2. CASE Tick
    BY <2>1, <2>2 DEF Tick, runtime, ghosts
  <2>3. CASE Report
    <3>1. UNCHANGED <<counter, runtime, ghosts>>
      BY <2>3, Zenon DEF Report
    <3> QED BY <2>1, <3>1 DEF runtime, ghosts
  <2>4. ASSUME NEW c \in OpClasses, Op(c) PROVE FramesMirrorCalls' /\ OverflowMeansFull'
    BY <2>1, <2>4 DEF Op
  <2>5. CASE UNCHANGED vars
    BY <2>1, <2>5 DEF vars, runtime, ghosts
  <2> QED BY <2>2, <2>3, <2>4, <2>5, EnterMirror, ExitMirror DEF Next
<1> QED BY <1>1, <1>2, Typing, PTL DEF Spec, Mirror

\* The profiler's stack mirrors the program's calls in every reachable state:
\* mettle_profile_enter and mettle_profile_exit stay paired for any depth of
\* recursion and any stack limit, and a dropped enter never leaves a frame.
THEOREM FramesAreCalls == Spec => []FramesMirrorCalls
BY MirrorInductive, PTL DEF Mirror
-----------------------------------------------------------------------------
(***************************************************************************)
(* The tables agree.                                                       *)
(***************************************************************************)
\* Remainders are unique, so they may be taken early or late.
LEMMA RemainderUnique ==
  ASSUME NEW W \in Nat \ {0}, NEW q \in Int, NEW r \in 0 .. W - 1
  PROVE  (W * q + r) % W = r
<1> DEFINE y == W * q + r
           d == y \div W
<1>1. y \in Int /\ d \in Int
  OBVIOUS
<1>2. y = W * d + (y % W) /\ y % W \in 0 .. W - 1
  BY <1>1
<1>3. W * q + r = W * d + (y % W)
  BY <1>2
<1> HIDE DEF y, d
<1>4. ASSUME q >= d + 1 PROVE FALSE
  <2>1. W * q >= W * (d + 1)
    BY <1>1, <1>4
  <2>2. W * (d + 1) = W * d + W
    BY <1>1
  <2> QED BY <1>1, <1>2, <1>3, <2>1, <2>2
<1>5. ASSUME d >= q + 1 PROVE FALSE
  <2>1. W * d >= W * (q + 1)
    BY <1>1, <1>5
  <2>2. W * (q + 1) = W * q + W
    BY <1>1
  <2> QED BY <1>1, <1>2, <1>3, <2>1, <2>2
<1>6. q = d
  BY <1>1, <1>4, <1>5
<1>7. y % W = r
  BY <1>1, <1>2, <1>3, <1>6
<1> QED BY <1>7 DEF y

LEMMA AddRemainder ==
  ASSUME NEW a \in Int, NEW b \in Int
  PROVE  (a + (b % Word)) % Word = (a + b) % Word
<1>1. PICK W \in Nat \ {0} : W = Word
  BY ConstantsAssumption
<1>2. PICK q \in Int, r \in 0 .. W - 1 : b = W * q + r /\ b % W = r
  <2>1. b = W * (b \div W) + (b % W) /\ b \div W \in Int /\ b % W \in 0 .. W - 1
    OBVIOUS
  <2> QED BY <2>1
<1>3. a + r \in Int
  OBVIOUS
<1>4. PICK p \in Int, m \in 0 .. W - 1 : a + r = W * p + m /\ (a + r) % W = m
  <2> DEFINE c == a + r
  <2>1. c = W * (c \div W) + (c % W) /\ c \div W \in Int /\ c % W \in 0 .. W - 1
    BY <1>3
  <2> QED BY <2>1
<1>5. a + b = W * (p + q) + m
  <2>1. W * (p + q) = W * p + W * q
    OBVIOUS
  <2> QED BY <1>2, <1>4, <2>1
<1>6. (W * (p + q) + m) % W = m
  <2>1. p + q \in Int
    OBVIOUS
  <2> QED BY <2>1, RemainderUnique
<1> QED BY <1>1, <1>2, <1>4, <1>5, <1>6

LEMMA FiniteTables ==
  /\ IsFiniteSet(Fn)
  /\ TypeOK => IsFiniteSet(DOMAIN edges)
<1>1. IsFiniteSet(Fn)
  <2>1. 0 \in Int /\ NameCount - 1 \in Int
    BY ConstantsAssumption
  <2> QED BY <2>1, FS_Interval DEF Fn
<1>2. IsFiniteSet(Fn \X Fn)
  BY <1>1, FS_Product
<1>3. ASSUME TypeOK PROVE IsFiniteSet(DOMAIN edges)
  <2>1. DOMAIN edges \in SUBSET (Fn \X Fn)
    BY <1>3 DEF TypeOK
  <2> QED BY <1>2, <2>1, FS_Subset
<1> QED BY <1>1, <1>3

LEMMA SumOfFunction ==
  ASSUME NEW D, NEW h \in [D -> Int]
  PROVE  SumFunction(h) = SumFunctionOnSet(h, D)
<1>1. DOMAIN h = D
  OBVIOUS
<1> QED BY <1>1 DEF SumFunction

LEMMA EdgeTables ==
  ASSUME TypeOK, NEW f
  PROVE  /\ EdgeCalls \in [DOMAIN edges -> Int] /\ EdgeTimes \in [DOMAIN edges -> Int]
         /\ SumFunctionOnSet(EdgeCalls, EdgesInto(f)) \in Int
         /\ SumFunctionOnSet(EdgeTimes, EdgesInto(f)) \in Int
<1>1. \A e \in DOMAIN edges : edges[e].calls \in Int /\ edges[e].time \in Int
  <2>1. \A e \in DOMAIN edges : edges[e].calls \in Nat /\ edges[e].time \in UInt
    BY DEF TypeOK
  <2> QED BY <2>1 DEF UInt
<1>2. EdgeCalls \in [DOMAIN edges -> Int] /\ EdgeTimes \in [DOMAIN edges -> Int]
  BY <1>1 DEF EdgeCalls, EdgeTimes
<1>3. EdgesInto(f) \in SUBSET DOMAIN edges
  BY DEF EdgesInto
<1> QED BY <1>2, <1>3, FiniteTables, SumInt

\* An edge update that is not lost adds its calls and its time to the sums of
\* the callee, and to no other.
LEMMA NoteEdgeSums ==
  ASSUME TypeOK, NEW a \in Fn, NEW b \in Fn, NEW n \in Nat, NEW t \in UInt,
         NoteEdge(<<a, b>>, n, t), ~lostEdge', NEW f \in Fn
  PROVE  /\ SumFunctionOnSet(EdgeCalls', EdgesInto(f)') =
              SumFunctionOnSet(EdgeCalls, EdgesInto(f)) + (IF f = b THEN n ELSE 0)
         /\ \A r \in Int :
              (r + SumFunctionOnSet(EdgeTimes', EdgesInto(f)')) % Word =
                (r + SumFunctionOnSet(EdgeTimes, EdgesInto(f))
                   + (IF f = b THEN t ELSE 0)) % Word
<1> DEFINE x == <<a, b>>
           D == DOMAIN edges
<1>1. /\ DOMAIN edges' = D \cup {x}
      /\ \A e \in D \ {x} : edges'[e] = edges[e]
      /\ edges'[x] = IF x \in D THEN [calls |-> edges[x].calls + n,
                                      time |-> Plus(edges[x].time, t)]
                                ELSE [calls |-> n, time |-> t]
  <2>1. CASE /\ x \in D
             /\ edges' = [edges EXCEPT ![x] = [calls |-> @.calls + n,
                                               time |-> Plus(@.time, t)]]
    BY <2>1 DEF TypeOK
  <2>2. CASE /\ x \notin D
             /\ edges' = [e \in D \cup {x} |->
                            IF e = x THEN NewEdge(n, t) ELSE edges[e]]
    BY <2>2 DEF NewEdge
  <2> QED BY <2>1, <2>2 DEF NoteEdge
<1>2. x \in Fn \X Fn /\ x[2] = b
  OBVIOUS
<1>3. /\ DOMAIN edges' \subseteq Fn \X Fn
      /\ edges' \in [DOMAIN edges' -> [calls : Nat, time : UInt]]
  BY <1>2, NoteEdgeType
<1>4. /\ \A e \in D : edges[e].calls \in Nat /\ edges[e].time \in UInt
      /\ \A e \in D \cup {x} : edges'[e].calls \in Nat /\ edges'[e].time \in UInt
  BY <1>1, <1>3 DEF TypeOK
<1>5. UInt \subseteq Int
  BY DEF UInt
<1> DEFINE h == EdgeCalls
           k == EdgeCalls'
           u == EdgeTimes
           v == EdgeTimes'
<1>6. /\ h \in [D -> Int] /\ u \in [D -> Int]
      /\ k \in [D \cup {x} -> Int] /\ v \in [D \cup {x} -> Int]
      /\ \A e \in D \ {x} : k[e] = h[e] /\ v[e] = u[e]
      /\ k[x] = edges'[x].calls /\ v[x] = edges'[x].time
      /\ x \in D => h[x] = edges[x].calls /\ u[x] = edges[x].time
  BY <1>1, <1>4, <1>5 DEF EdgeCalls, EdgeTimes
<1>7. EdgesInto(f) = {e \in D : e[2] = f} /\ EdgesInto(f)' = {e \in D \cup {x} : e[2] = f}
  BY <1>1 DEF EdgesInto
<1>8. IsFiniteSet(D)
  BY FiniteTables
<1> DEFINE H == SumFunctionOnSet(EdgeCalls, EdgesInto(f))
           K == SumFunctionOnSet(EdgeCalls', EdgesInto(f)')
           U == SumFunctionOnSet(EdgeTimes, EdgesInto(f))
           V == SumFunctionOnSet(EdgeTimes', EdgesInto(f)')
<1>9. H \in Int /\ U \in Int
  BY EdgeTables
<1>10. /\ b # f => K = H /\ V = U
       /\ b = f /\ x \in D => K = H - h[x] + k[x] /\ V = U - u[x] + v[x]
       /\ b = f /\ x \notin D => K = H + k[x] /\ V = U + v[x]
  <2> DEFINE S == EdgesInto(f)
             T == EdgesInto(f)'
             E == D \cup {x}
  <2>1. /\ \A e : e \in S <=> e \in D /\ e[2] = f
        /\ \A e : e \in T <=> e \in E /\ e[2] = f
    BY <1>7
  <2>2. (\A e \in D \ {x} : k[e] = h[e]) /\ (\A e \in D \ {x} : v[e] = u[e])
    BY <1>6
  <2>3. /\ h \in [D -> Int] /\ u \in [D -> Int]
        /\ k \in [E -> Int] /\ v \in [E -> Int]
    BY <1>6
  <2>4. IsFiniteSet(E) /\ S \in SUBSET D /\ S \in SUBSET E /\ x \in E
    BY <1>8, <2>1, FS_AddElement
  <2>5. /\ K = SumFunctionOnSet(k, T) /\ H = SumFunctionOnSet(h, S)
        /\ V = SumFunctionOnSet(v, T) /\ U = SumFunctionOnSet(u, S)
    OBVIOUS
  <2>6. \A e \in D \ {x} : e \in E
    OBVIOUS
  <2>7. \A e \in E : e \in D \/ e = x
    OBVIOUS
  <2> HIDE DEF h, k, u, v, x, D, E, S, T, H, K, U, V
  <2>8. CASE b # f
    <3>1. T = S /\ (\A e \in S : h[e] = k[e]) /\ (\A e \in S : u[e] = v[e])
      BY <1>2, <2>1, <2>2, <2>6, <2>7, <2>8, ZenonT(40)
    <3>2. SumFunctionOnSet(h, S) = SumFunctionOnSet(k, S)
      BY <1>8, <2>3, <2>4, <3>1, SumSame
    <3>3. SumFunctionOnSet(u, S) = SumFunctionOnSet(v, S)
      BY <1>8, <2>3, <2>4, <3>1, SumSame
    <3> QED BY <2>5, <2>8, <3>1, <3>2, <3>3
  <2>9. CASE b = f /\ x \in D
    <3>1. /\ T = S /\ x \in S
          /\ (\A e \in S \ {x} : h[e] = k[e]) /\ (\A e \in S \ {x} : u[e] = v[e])
      <4>1. \A e : e \in T <=> e \in S
        BY <2>1, <2>7, <2>9, <2>4
      <4> QED BY <1>2, <2>1, <2>2, <2>9, <4>1
    <3>2. SumFunctionOnSet(k, S) = SumFunctionOnSet(h, S) - h[x] + k[x]
      BY <1>8, <2>3, <2>4, <3>1, SumChange
    <3>3. SumFunctionOnSet(v, S) = SumFunctionOnSet(u, S) - u[x] + v[x]
      BY <1>8, <2>3, <2>4, <3>1, SumChange
    <3> QED BY <2>5, <2>9, <3>1, <3>2, <3>3
  <2>10. CASE b = f /\ x \notin D
    <3>1. /\ T = S \cup {x} /\ x \notin S
          /\ (\A e \in S : h[e] = k[e]) /\ (\A e \in S : u[e] = v[e])
      <4>1. \A e : e \in T <=> e \in S \cup {x}
        BY <1>2, <2>1, <2>4, <2>7, <2>10, Zenon
      <4> QED BY <1>2, <2>1, <2>2, <2>10, <4>1
    <3>2. SumFunctionOnSet(k, S \cup {x}) = k[x] + SumFunctionOnSet(h, S)
      BY <1>8, <2>3, <2>4, <3>1, SumAdd
    <3>3. SumFunctionOnSet(v, S \cup {x}) = v[x] + SumFunctionOnSet(u, S)
      BY <1>8, <2>3, <2>4, <3>1, SumAdd
    <3>4. k[x] \in Int /\ v[x] \in Int
      BY <2>3, <2>4
    <3> QED BY <1>9, <2>5, <2>10, <3>1, <3>2, <3>3, <3>4
  <2> QED BY <2>8, <2>9, <2>10
<1>11. edges'[x].calls = (IF x \in D THEN h[x] ELSE 0) + n
  <2> HIDE DEF h
  <2> QED BY <1>1, <1>4, <1>6
<1>12. edges'[x].time = IF x \in D THEN Plus(u[x], t) ELSE t
  <2> HIDE DEF u
  <2> QED BY <1>1, <1>4, <1>6
<1> HIDE DEF h, k, u, v, H, K, U, V, x, D
<1>13. K = H + (IF f = b THEN n ELSE 0)
  BY <1>4, <1>6, <1>9, <1>10, <1>11
<1>14. ASSUME NEW r \in Int
       PROVE  (r + V) % Word = (r + U + (IF f = b THEN t ELSE 0)) % Word
  <2>0. t \in Int /\ (x \in D => u[x] \in Int)
    BY <1>5, <1>6
  <2>1. CASE f # b
    <3>1. V = U
      BY <1>9, <1>10, <2>1
    <3>2. r + V = r + U + 0
      BY <1>9, <3>1
    <3> QED BY <2>1, <3>2
  <2>2. CASE f = b /\ x \notin D
    <3>1. V = U + t
      BY <1>6, <1>9, <1>10, <1>12, <2>0, <2>2
    <3>2. r + V = r + U + t
      BY <1>9, <2>0, <3>1
    <3> QED BY <2>2, <3>2
  <2>3. CASE f = b /\ x \in D
    <3> DEFINE w == r + U - u[x]
               z == u[x] + t
    <3>1. w \in Int /\ z \in Int
      BY <1>9, <2>0, <2>3
    <3>2. V = U - u[x] + (z % Word)
      BY <1>6, <1>10, <1>12, <2>3 DEF Plus
    <3>3. z % Word \in Int
      BY <3>1, ConstantsAssumption
    <3>4. r + V = w + (z % Word) /\ w + z = r + U + t
      <4> DEFINE m == z % Word
      <4>1. V = U - u[x] + m /\ m \in Int
        BY <3>2, <3>3
      <4> HIDE DEF m
      <4>2. r + V = w + m /\ w + z = r + U + t
        BY <1>9, <2>0, <2>3, <4>1
      <4> QED BY <4>2 DEF m
    <3>5. (w + (z % Word)) % Word = (w + z) % Word
      <4> HIDE DEF w, z
      <4> QED BY <3>1, AddRemainder
    <3> QED BY <2>3, <3>4, <3>5
  <2> QED BY <2>1, <2>2, <2>3
<1> QED BY <1>13, <1>14 DEF H, K, U, V

\* The two equations of EdgesAccountForStats for one function.
LEMMA AccountOf ==
  ASSUME TypeOK, EdgesAccountForStats, ~lostEdge, NEW f \in Fn
  PROVE  /\ stats[f].calls = rootCalls[f] + SumFunctionOnSet(EdgeCalls, EdgesInto(f))
         /\ stats[f].total =
              (rootTime[f] + SumFunctionOnSet(EdgeTimes, EdgesInto(f))) % Word
         /\ stats[f].calls \in Int /\ stats[f].total \in Int
         /\ rootCalls[f] \in Int /\ rootTime[f] \in Int
<1>1. stats[f].calls \in Int /\ stats[f].total \in Int
  BY DEF TypeOK, Stats, UInt
<1>2. rootCalls[f] \in Int /\ rootTime[f] \in Int
  BY DEF TypeOK, UInt
<1> QED BY <1>1, <1>2 DEF EdgesAccountForStats

LEMMA NoteEdgeLost == ASSUME NEW e, NEW n, NEW t, NoteEdge(e, n, t), ~lostEdge' PROVE ~lostEdge
BY DEF NoteEdge

LEMMA EnterEdges ==
  ASSUME TypeOK, EdgesAccountForStats, NEW f \in Fn, Enter(f)
  PROVE  EdgesAccountForStats'
<1>1. rootTime' = rootTime
  BY DEF Enter
<1>2. CASE EnterDropped(f)
  <2>1. UNCHANGED <<stats, edges, lostEdge, rootCalls, rootTime>>
    BY <1>1, <1>2 DEF EnterDropped
  <2> QED BY <2>1 DEF EdgesAccountForStats, EdgeCalls, EdgeTimes, EdgesInto
<1>3. CASE EnterCounted(f)
  <2> SUFFICES ASSUME ~lostEdge', NEW g \in Fn
               PROVE  /\ stats'[g].calls =
                           rootCalls'[g] + SumFunctionOnSet(EdgeCalls', EdgesInto(g)')
                      /\ stats'[g].total =
                           (rootTime'[g] + SumFunctionOnSet(EdgeTimes', EdgesInto(g)')) % Word
    BY DEF EdgesAccountForStats
  <2>1. /\ stats'[g].calls = stats[g].calls + (IF g = f THEN 1 ELSE 0)
        /\ stats'[g].total = stats[g].total
    <3>1. stats \in [Fn -> Stats] /\ stats' = [stats EXCEPT ![f].calls = @ + 1]
      BY <1>3 DEF EnterCounted, TypeOK
    <3>2. stats[g].calls \in Int
      BY <3>1 DEF Stats
    <3> QED BY <3>1, <3>2 DEF Stats
  <2> DEFINE H == SumFunctionOnSet(EdgeCalls, EdgesInto(g))
             U == SumFunctionOnSet(EdgeTimes, EdgesInto(g))
             K == SumFunctionOnSet(EdgeCalls', EdgesInto(g)')
             V == SumFunctionOnSet(EdgeTimes', EdgesInto(g)')
  <2>2. H \in Int /\ U \in Int
    BY EdgeTables
  <2>3. CASE stack # <<>>
    <3>1. NoteEdge(<<stack[Len(stack)].fn, f>>, 1, 0) /\ rootCalls' = rootCalls
      BY <1>3, <2>3 DEF EnterCounted
    <3>2. ~lostEdge
      BY <3>1, NoteEdgeLost
    <3>3. stack[Len(stack)].fn \in Fn /\ 0 \in UInt /\ 1 \in Nat
      <4>1. stack[Len(stack)].fn \in Fn
        BY <2>3, TopIsFrame, FrameAt DEF TypeOK
      <4>2. 0 \in UInt
        BY ConstantsAssumption DEF UInt
      <4> QED BY <4>1, <4>2
    <3>4. /\ K = H + (IF g = f THEN 1 ELSE 0)
          /\ \A r \in Int : (r + V) % Word = (r + U + (IF g = f THEN 0 ELSE 0)) % Word
      <4> DEFINE a == stack[Len(stack)].fn
      <4>1. a \in Fn /\ NoteEdge(<<a, f>>, 1, 0)
        BY <3>1, <3>3
      <4> HIDE DEF a
      <4> QED BY <3>3, <4>1, NoteEdgeSums
    <3>5. /\ stats[g].calls = rootCalls[g] + H /\ stats[g].total = (rootTime[g] + U) % Word
          /\ rootCalls[g] \in Int /\ rootTime[g] \in Int
      BY <3>2, AccountOf
    <3> HIDE DEF H, U, K, V
    <3>6. stats'[g].calls = rootCalls'[g] + K
      <4>1. K = H + (IF g = f THEN 1 ELSE 0) /\ rootCalls'[g] = rootCalls[g]
        BY <3>1, <3>4
      <4> QED BY <2>1, <2>2, <3>5, <4>1
    <3>7. rootTime[g] + U + (IF g = f THEN 0 ELSE 0) = rootTime[g] + U
      BY <2>2, <3>5
    <3>8. stats'[g].total = (rootTime'[g] + V) % Word
      <4>1. (rootTime[g] + V) % Word = (rootTime[g] + U) % Word
        BY <3>4, <3>5, <3>7
      <4> QED BY <1>1, <2>1, <3>5, <4>1
    <3> QED BY <3>6, <3>8 DEF K, V
  <2>4. CASE stack = <<>>
    <3>1. /\ rootCalls' = [rootCalls EXCEPT ![f] = @ + 1]
          /\ UNCHANGED <<edges, lostEdge>>
      BY <1>3, <2>4 DEF EnterCounted
    <3>2. K = H /\ V = U
      BY <3>1 DEF EdgeCalls, EdgeTimes, EdgesInto
    <3>3. /\ stats[g].calls = rootCalls[g] + H /\ stats[g].total = (rootTime[g] + U) % Word
          /\ rootCalls[g] \in Int
      BY <3>1, AccountOf
    <3>4. rootCalls'[g] = rootCalls[g] + (IF g = f THEN 1 ELSE 0)
      BY <3>1, <3>3 DEF TypeOK
    <3> HIDE DEF H, U, K, V
    <3>5. stats'[g].calls = rootCalls'[g] + K
      BY <2>1, <2>2, <3>2, <3>3, <3>4
    <3>6. stats'[g].total = (rootTime'[g] + V) % Word
      BY <1>1, <2>1, <3>2, <3>3
    <3> QED BY <3>5, <3>6 DEF K, V
  <2> QED BY <2>3, <2>4
<1> QED BY <1>2, <1>3 DEF Enter

\* The frame mettle_profile_exit pops and what it adds to the tables.
LEMMA PopStats ==
  ASSUME TypeOK, stack # <<>>, PopFrame
  PROVE  LET top == stack[Len(stack)]
             el == Elapsed(top)
         IN  /\ top.fn \in Fn /\ el \in UInt /\ top.child \in UInt
             /\ SelfShare(top, el) = (el - top.child) % Word
             /\ \A g \in Fn :
                  /\ stats'[g].calls = stats[g].calls
                  /\ stats'[g].total = IF g = top.fn THEN (stats[g].total + el) % Word
                                       ELSE stats[g].total
                  /\ stats'[g].self = IF g = top.fn
                                      THEN (stats[g].self + SelfShare(top, el)) % Word
                                      ELSE stats[g].self
<1> DEFINE top == stack[Len(stack)]
           el == Elapsed(top)
           share == SelfShare(top, el)
<1>1. top.fn \in Fn /\ top.start \in UInt /\ top.child \in UInt
  BY TopIsFrame, FrameAt DEF TypeOK
<1>2. NowNs \in UInt /\ UInt \subseteq Int
  BY NowIsWord DEF TypeOK, UInt
<1>3. el \in UInt
  BY <1>1, <1>2, WordArithmetic DEF Elapsed
<1>4. share = (el - top.child) % Word
  BY DEF SelfShare, Minus
<1>5. stats' = [stats EXCEPT ![top.fn].total = Plus(@, el),
                             ![top.fn].self = Plus(@, share),
                             ![top.fn].max = IF el > @ THEN el ELSE @]
  BY DEF PopFrame
<1>6. stats \in [Fn -> Stats]
  BY DEF TypeOK
<1> HIDE DEF top, el, share
<1>7. ASSUME NEW g \in Fn
      PROVE  /\ stats'[g].calls = stats[g].calls
             /\ stats'[g].total = IF g = top.fn THEN (stats[g].total + el) % Word
                                  ELSE stats[g].total
             /\ stats'[g].self = IF g = top.fn THEN (stats[g].self + share) % Word
                                 ELSE stats[g].self
  BY <1>1, <1>5, <1>6 DEF Stats, Plus
<1> QED BY <1>1, <1>3, <1>4, <1>7 DEF top, el, share

LEMMA PopEdges ==
  ASSUME TypeOK, EdgesAccountForStats, stack # <<>>, PopFrame, rootCalls' = rootCalls
  PROVE  EdgesAccountForStats'
<1> DEFINE n == Len(stack)
           top == stack[n]
           el == Elapsed(top)
<1> SUFFICES ASSUME ~lostEdge', NEW g \in Fn
             PROVE  /\ stats'[g].calls =
                         rootCalls'[g] + SumFunctionOnSet(EdgeCalls', EdgesInto(g)')
                    /\ stats'[g].total =
                         (rootTime'[g] + SumFunctionOnSet(EdgeTimes', EdgesInto(g)')) % Word
  BY DEF EdgesAccountForStats
<1>1. /\ top.fn \in Fn /\ el \in UInt
      /\ stats'[g].calls = stats[g].calls
      /\ stats'[g].total = IF g = top.fn THEN (stats[g].total + el) % Word
                           ELSE stats[g].total
  BY PopStats
<1>2. el \in Int /\ stack \in Seq(Frame) /\ n \in Nat /\ n >= 1
  BY <1>1 DEF TypeOK, UInt
<1> DEFINE H == SumFunctionOnSet(EdgeCalls, EdgesInto(g))
           U == SumFunctionOnSet(EdgeTimes, EdgesInto(g))
           K == SumFunctionOnSet(EdgeCalls', EdgesInto(g)')
           V == SumFunctionOnSet(EdgeTimes', EdgesInto(g)')
<1>3. H \in Int /\ U \in Int
  BY EdgeTables
<1>4. CASE n > 1
  <2>1. NoteEdge(<<stack[n - 1].fn, top.fn>>, 0, el) /\ rootTime' = rootTime
    BY <1>4 DEF PopFrame
  <2>2. ~lostEdge
    BY <2>1, NoteEdgeLost
  <2>3. stack[n - 1].fn \in Fn
    <3>1. n - 1 \in 1 .. Len(stack)
      BY <1>2, <1>4
    <3> QED BY <1>2, <3>1, FrameAt
  <2>4. /\ K = H + (IF g = top.fn THEN 0 ELSE 0)
        /\ \A r \in Int : (r + V) % Word = (r + U + (IF g = top.fn THEN el ELSE 0)) % Word
    <3> DEFINE a == stack[n - 1].fn
               b == top.fn
    <3>1. a \in Fn /\ b \in Fn /\ 0 \in Nat /\ el \in UInt /\ NoteEdge(<<a, b>>, 0, el)
      BY <1>1, <2>1, <2>3
    <3>2. /\ K = H + (IF g = b THEN 0 ELSE 0)
          /\ \A r \in Int : (r + V) % Word = (r + U + (IF g = b THEN el ELSE 0)) % Word
      <4> HIDE DEF a, b, el
      <4> QED BY <3>1, NoteEdgeSums
    <3> QED BY <3>2
  <2>5. /\ stats[g].calls = rootCalls[g] + H /\ stats[g].total = (rootTime[g] + U) % Word
        /\ rootCalls[g] \in Int /\ rootTime[g] \in Int /\ stats[g].total \in Int
    BY <2>2, AccountOf
  <2> HIDE DEF H, U, K, V, el, top, n
  <2>6. K = H
    BY <1>3, <2>4
  <2>7. (rootTime[g] + V) % Word = (rootTime[g] + U + (IF g = top.fn THEN el ELSE 0)) % Word
    BY <2>4, <2>5
  <2>8. stats'[g].total = (rootTime[g] + V) % Word
    <3>1. CASE g = top.fn
      <4> DEFINE w == rootTime[g] + U
      <4>1. w \in Int /\ rootTime[g] + U + el = w + el /\ w + el = el + w
        BY <1>2, <1>3, <2>5
      <4>2. (el + (w % Word)) % Word = (el + w) % Word
        <5> HIDE DEF w
        <5> QED BY <1>2, <4>1, AddRemainder
      <4>3. stats[g].total + el = el + (w % Word)
        BY <1>2, <2>5
      <4> QED BY <1>1, <2>7, <3>1, <4>1, <4>2, <4>3
    <3>2. CASE g # top.fn
      <4>1. rootTime[g] + U + 0 = rootTime[g] + U
        BY <1>3, <2>5
      <4> QED BY <1>1, <2>5, <2>7, <3>2, <4>1
    <3> QED BY <3>1, <3>2
  <2>9. stats'[g].calls = rootCalls'[g] + K
    BY <1>1, <2>5, <2>6
  <2>10. stats'[g].total = (rootTime'[g] + V) % Word
    BY <2>1, <2>8
  <2> QED BY <2>9, <2>10 DEF K, V
<1>5. CASE ~(n > 1)
  <2>1. /\ rootTime' = [rootTime EXCEPT ![top.fn] = Plus(@, el)]
        /\ UNCHANGED <<edges, edgeCap, lostEdge>>
    BY <1>5 DEF PopFrame
  <2>2. K = H /\ V = U
    BY <2>1 DEF EdgeCalls, EdgeTimes, EdgesInto
  <2>3. /\ stats[g].calls = rootCalls[g] + H /\ stats[g].total = (rootTime[g] + U) % Word
        /\ rootCalls[g] \in Int /\ rootTime[g] \in Int /\ stats[g].total \in Int
    BY <2>1, AccountOf
  <2>4. rootTime \in [Fn -> UInt]
    BY DEF TypeOK
  <2> HIDE DEF H, U, K, V, el, top, n
  <2>5. rootTime'[g] = IF g = top.fn THEN (rootTime[g] + el) % Word ELSE rootTime[g]
    BY <1>1, <2>1, <2>4 DEF Plus
  <2>6. stats'[g].total = (rootTime'[g] + V) % Word
    <3>1. CASE g = top.fn
      <4> DEFINE w == rootTime[g] + U
                 z == rootTime[g] + el
      <4>1. w \in Int /\ z \in Int /\ U + z = el + w
        BY <1>2, <1>3, <2>3
      <4>2. (el + (w % Word)) % Word = (el + w) % Word
        <5> HIDE DEF w
        <5> QED BY <1>2, <4>1, AddRemainder
      <4>3. (U + (z % Word)) % Word = (U + z) % Word
        <5> HIDE DEF z
        <5> QED BY <1>3, <4>1, AddRemainder
      <4>4. stats[g].total + el = el + (w % Word)
        BY <1>2, <2>3
      <4>5. rootTime'[g] + V = U + (z % Word)
        <5>1. z % Word \in Int
          BY <4>1, ConstantsAssumption
        <5>2. rootTime'[g] = z % Word
          BY <2>5, <3>1
        <5> HIDE DEF z
        <5> QED BY <1>3, <2>2, <5>1, <5>2
      <4> QED BY <1>1, <3>1, <4>1, <4>2, <4>3, <4>4, <4>5
    <3>2. CASE g # top.fn
      BY <1>1, <2>2, <2>3, <2>5, <3>2
    <3> QED BY <3>1, <3>2
  <2>7. stats'[g].calls = rootCalls'[g] + K
    BY <1>1, <2>2, <2>3
  <2> QED BY <2>6, <2>7 DEF K, V
<1> QED BY <1>4, <1>5

\* The call graph adds up to the flat table in every reachable state.
LEMMA EdgesInductive == Spec => []EdgesAccountForStats
<1>1. Init => EdgesAccountForStats
  <2> SUFFICES ASSUME Init, NEW f \in Fn
               PROVE  /\ stats[f].calls = rootCalls[f] + SumFunctionOnSet(EdgeCalls, EdgesInto(f))
                      /\ stats[f].total =
                           (rootTime[f] + SumFunctionOnSet(EdgeTimes, EdgesInto(f))) % Word
    BY DEF EdgesAccountForStats
  <2>1. DOMAIN edges = {} /\ EdgesInto(f) = {}
    BY DEF Init, EdgesInto
  <2>2. EdgeCalls \in [{} -> Int] /\ EdgeTimes \in [{} -> Int]
    BY <2>1 DEF EdgeCalls, EdgeTimes
  <2>3. IsFiniteSet({}) /\ {} \in SUBSET {}
    BY FS_EmptySet
  <2>4. SumFunctionOnSet(EdgeCalls, {}) = 0 /\ SumFunctionOnSet(EdgeTimes, {}) = 0
    BY <2>2, <2>3, SumInt
  <2>5. stats[f].calls = 0 /\ stats[f].total = 0 /\ rootCalls[f] = 0 /\ rootTime[f] = 0
    BY DEF Init, ZeroStats
  <2>6. 0 % Word = 0
    BY ConstantsAssumption
  <2> QED BY <2>1, <2>4, <2>5, <2>6
<1>2. TypeOK /\ EdgesAccountForStats /\ [Next]_vars => EdgesAccountForStats'
  <2> SUFFICES ASSUME TypeOK, EdgesAccountForStats, [Next]_vars
               PROVE  EdgesAccountForStats'
    OBVIOUS
  <2>1. ASSUME UNCHANGED <<stats, edges, lostEdge, rootCalls, rootTime>>
        PROVE  EdgesAccountForStats'
    BY <2>1 DEF EdgesAccountForStats, EdgeCalls, EdgeTimes, EdgesInto
  <2>2. CASE Exit
    <3>1. rootCalls' = rootCalls
      BY <2>2 DEF Exit
    <3>2. CASE UNCHANGED <<stats, edges, lostEdge, rootTime>>
      BY <2>1, <3>1, <3>2
    <3>3. CASE stack # <<>> /\ PopFrame
      BY <3>1, <3>3, PopEdges
    <3> QED BY <2>2, <3>2, <3>3 DEF Exit
  <2>3. CASE Tick
    BY <2>1, <2>3 DEF Tick, runtime, ghosts
  <2>4. CASE Report
    <3>1. UNCHANGED <<counter, runtime, ghosts>>
      BY <2>4, Zenon DEF Report
    <3> QED BY <2>1, <3>1 DEF runtime, ghosts
  <2>5. ASSUME NEW c \in OpClasses, Op(c) PROVE EdgesAccountForStats'
    BY <2>1, <2>5 DEF Op
  <2>6. CASE UNCHANGED vars
    BY <2>1, <2>6 DEF vars, runtime, ghosts
  <2> QED BY <2>2, <2>3, <2>4, <2>5, <2>6, EnterEdges DEF Next
<1> QED BY <1>1, <1>2, Typing, PTL DEF Spec

-----------------------------------------------------------------------------
\* The three sums of SelfTimeConserved.
Selfs == [f \in Fn |-> stats[f].self]
Children == [i \in 1 .. Len(stack) |-> stack[i].child]
SelfSum == SumFunctionOnSet(Selfs, Fn)
RootSum == SumFunctionOnSet(rootTime, Fn)
ChildSum == SumFunctionOnSet(Children, 1 .. Len(stack))

LEMMA SelfSums ==
  ASSUME NEW st \in [Fn -> Stats], NEW rt \in [Fn -> UInt], NEW sk \in Seq(Frame)
  PROVE  LET self == [f \in Fn |-> st[f].self]
             child == [i \in 1 .. Len(sk) |-> sk[i].child]
         IN  /\ self \in [Fn -> Int] /\ rt \in [Fn -> Int] /\ child \in [1 .. Len(sk) -> Int]
             /\ IsFiniteSet(1 .. Len(sk))
             /\ SumFunctionOnSet(self, Fn) \in Int
             /\ SumFunctionOnSet(rt, Fn) \in Int
             /\ SumFunctionOnSet(child, 1 .. Len(sk)) \in Int
             /\ SumFunction(self) = SumFunctionOnSet(self, Fn)
             /\ SumFunction(rt) = SumFunctionOnSet(rt, Fn)
             /\ SumFunction(child) = SumFunctionOnSet(child, 1 .. Len(sk))
<1> DEFINE self == [f \in Fn |-> st[f].self]
           child == [i \in 1 .. Len(sk) |-> sk[i].child]
           I == 1 .. Len(sk)
<1>1. UInt \subseteq Int
  BY DEF UInt
<1>2. self \in [Fn -> Int]
  <2>1. \A f \in Fn : st[f].self \in Int
    BY <1>1 DEF Stats
  <2> QED BY <2>1
<1>3. rt \in [Fn -> Int]
  BY <1>1
<1>4. child \in [I -> Int]
  <2>1. \A i \in I : sk[i] \in Frame
    OBVIOUS
  <2>2. \A i \in I : sk[i].child \in Int
    BY <1>1, <2>1 DEF Frame
  <2> QED BY <2>2
<1>5. IsFiniteSet(I)
  BY FS_Interval
<1> HIDE DEF self, child, I
<1>6. Fn \in SUBSET Fn /\ I \in SUBSET I
  OBVIOUS
<1>7. /\ SumFunctionOnSet(self, Fn) \in Int /\ SumFunctionOnSet(rt, Fn) \in Int
      /\ SumFunctionOnSet(child, I) \in Int
  BY <1>2, <1>3, <1>4, <1>5, <1>6, FiniteTables, SumInt
<1>8. /\ SumFunction(self) = SumFunctionOnSet(self, Fn)
      /\ SumFunction(rt) = SumFunctionOnSet(rt, Fn)
      /\ SumFunction(child) = SumFunctionOnSet(child, I)
  BY <1>2, <1>3, <1>4, SumOfFunction
<1> QED BY <1>2, <1>3, <1>4, <1>5, <1>7, <1>8 DEF self, child, I

LEMMA ChildrenAreInts ==
  ASSUME NEW s \in Seq(Frame)
  PROVE  [i \in 1 .. Len(s) |-> s[i].child] \in [1 .. Len(s) -> Int]
<1>1. UInt \subseteq Int
  BY DEF UInt
<1>2. \A i \in 1 .. Len(s) : s[i] \in Frame
  OBVIOUS
<1>3. \A i \in 1 .. Len(s) : s[i].child \in Int
  BY <1>1, <1>2 DEF Frame
<1> QED BY <1>3

\* A new frame has been charged nothing.
LEMMA PushChildren ==
  ASSUME NEW s \in Seq(Frame), NEW r \in Frame, r.child = 0
  PROVE  LET t == Append(s, r)
         IN  SumFunctionOnSet([i \in 1 .. Len(t) |-> t[i].child], 1 .. Len(t)) =
               SumFunctionOnSet([i \in 1 .. Len(s) |-> s[i].child], 1 .. Len(s))
<1> DEFINE t == Append(s, r)
           n == Len(s)
           h == [i \in 1 .. Len(s) |-> s[i].child]
           k == [i \in 1 .. Len(t) |-> t[i].child]
           I == 1 .. n
           J == 1 .. n + 1
           x == n + 1
<1>1. t \in Seq(Frame) /\ Len(t) = n + 1 /\ n \in Nat
  OBVIOUS
<1>2. t[n + 1] = r /\ \A i \in 1 .. n : t[i] = s[i]
  OBVIOUS
<1>3. /\ J = I \cup {x} /\ x \notin I
      /\ I \in SUBSET I /\ I \in SUBSET J /\ x \in J
  BY <1>1
<1>4. h \in [I -> Int] /\ k \in [J -> Int]
  <2>1. h \in [I -> Int]
    BY ChildrenAreInts
  <2>2. k \in [J -> Int]
    <3> HIDE DEF t
    <3> QED BY <1>1, ChildrenAreInts
  <2> QED BY <2>1, <2>2
<1>5. k[x] = 0 /\ \A i \in I : h[i] = k[i]
  <2> HIDE DEF t
  <2> QED BY <1>1, <1>2, <1>3
<1>6. IsFiniteSet(I) /\ IsFiniteSet(J)
  BY <1>1, FS_Interval
<1>7. SumFunctionOnSet(k, J) = k[x] + SumFunctionOnSet(h, I)
  <2> HIDE DEF h, k, n, t, I, J, x
  <2> QED BY <1>3, <1>4, <1>5, <1>6, SumAdd
<1>8. SumFunctionOnSet(h, I) \in Int
  <2> HIDE DEF h, k, n, t, I, J, x
  <2> QED BY <1>3, <1>4, <1>6, SumInt
<1>9. SumFunctionOnSet(k, J) = SumFunctionOnSet(h, I)
  <2> HIDE DEF h, k, n, t, I, J, x
  <2> QED BY <1>5, <1>7, <1>8
<1> HIDE DEF t
<1> QED BY <1>1, <1>9 DEF t

\* The popped frame's charges go; its caller, if any, is charged its time.
LEMMA PopChildren ==
  ASSUME NEW I, NEW J, IsFiniteSet(I), IsFiniteSet(J),
         NEW n \in I, J \in SUBSET I, n \notin J, \A i \in I : i = n \/ i \in J,
         NEW h, NEW k, h \in [I -> Int], k \in [J -> Int],
         NEW y, \A i \in J \ {y} : h[i] = k[i]
  PROVE  LET old == SumFunctionOnSet(h, I)
             new == SumFunctionOnSet(k, J)
         IN  /\ y \in J => new = old - h[n] - h[y] + k[y]
             /\ J = {} => new = 0 /\ old = h[n]
<1> DEFINE new == SumFunctionOnSet(k, J)
           old == SumFunctionOnSet(h, I)
<1>1. I \in SUBSET I /\ {} \in SUBSET I /\ {} \in SUBSET J
  OBVIOUS
<1>2. ASSUME y \in J PROVE new = old - h[n] - h[y] + k[y]
  BY <1>2, SumDropAndChange
<1>3. ASSUME J = {} PROVE new = 0 /\ old = h[n]
  <2>1. old = h[n] + SumFunctionOnSet(h, I \ {n})
    BY <1>1, SumTakeOut
  <2>2. SumFunctionOnSet(h, {}) = 0
    BY <1>1, SumInt
  <2>3. SumFunctionOnSet(k, {}) = 0
    BY <1>1, SumInt
  <2>4. h[n] \in Int /\ I \ {n} = {}
    BY <1>3
  <2>5. new = 0 /\ old = h[n] + 0
    BY <1>3, <2>1, <2>2, <2>3, <2>4
  <2> HIDE DEF new, old
  <2> QED BY <2>4, <2>5
<1> QED BY <1>2, <1>3 DEF new, old

\* Changing one function's entry moves a sum over the functions by the difference.
LEMMA SumOverFn ==
  ASSUME NEW h \in [Fn -> Int], NEW k \in [Fn -> Int], NEW x \in Fn,
         \A g \in Fn \ {x} : h[g] = k[g]
  PROVE  SumFunctionOnSet(k, Fn) = SumFunctionOnSet(h, Fn) - h[x] + k[x]
<1>1. Fn \in SUBSET Fn
  OBVIOUS
<1> QED BY <1>1, FiniteTables, SumChange

\* The arithmetic of an exit: the self share, the popped charges and the new
\* charge (or root time) move both sides of SelfTimeConserved alike.
SelfAfter(A, s, el, c) == (A - s + ((s + ((el - c) % Word)) % Word)) % Word
RootAfter(B, p, el, c) == (B - c - p + ((p + el) % Word)) % Word

LEMMA SelfArithmetic ==
  ASSUME NEW A \in Int, NEW B \in Int, A % Word = B % Word,
         NEW el \in Int, NEW c \in Int, NEW s \in Int, NEW p \in Int
  PROVE  SelfAfter(A, s, el, c) = RootAfter(B, p, el, c)
<1> DEFINE m == (el - c) % Word
<1>1. m \in Int /\ A - s \in Int /\ el - c \in Int /\ B - c - p \in Int /\ p + el \in Int
  BY ConstantsAssumption
<1>2. (A - s + ((s + m) % Word)) % Word = (A + m) % Word
  <2> HIDE DEF m
  <2> DEFINE u == A - s
             v == s + m
  <2>1. u \in Int /\ v \in Int /\ u + v = A + m
    BY <1>1
  <2> HIDE DEF u, v
  <2>2. (u + (v % Word)) % Word = (u + v) % Word
    BY <2>1, AddRemainder
  <2> QED BY <2>1, <2>2 DEF u, v
<1>3. (A + m) % Word = (A + (el - c)) % Word
  BY <1>1, AddRemainder
<1>4. (A + (el - c)) % Word = (B + (el - c)) % Word
  <2> DEFINE d == el - c
  <2>1. d \in Int
    BY <1>1
  <2> HIDE DEF d
  <2>2. (d + (A % Word)) % Word = (d + A) % Word /\ (d + (B % Word)) % Word = (d + B) % Word
    BY <2>1, AddRemainder
  <2>3. d + A = A + d /\ d + B = B + d
    BY <2>1
  <2>4. (A + d) % Word = (B + d) % Word
    BY <2>2, <2>3
  <2> QED BY <2>4 DEF d
<1>5. (B - c - p + ((p + el) % Word)) % Word = (B + (el - c)) % Word
  <2> DEFINE u == B - c - p
             v == p + el
  <2>1. u \in Int /\ v \in Int /\ u + v = B + (el - c)
    BY <1>1
  <2> HIDE DEF u, v
  <2>2. (u + (v % Word)) % Word = (u + v) % Word
    BY <2>1, AddRemainder
  <2> QED BY <2>1, <2>2 DEF u, v
<1> QED BY <1>2, <1>3, <1>4, <1>5 DEF SelfAfter, RootAfter

\* SelfTimeConserved in terms of the three sums, now and after a step.
LEMMA Conserved ==
  ASSUME TypeOK
  PROVE  /\ SelfSum \in Int /\ RootSum \in Int /\ ChildSum \in Int
         /\ Selfs \in [Fn -> Int] /\ rootTime \in [Fn -> Int]
         /\ Children \in [1 .. Len(stack) -> Int]
         /\ SelfTimeConserved <=> SelfSum % Word = (RootSum + ChildSum) % Word
<1>1. stats \in [Fn -> Stats] /\ rootTime \in [Fn -> UInt] /\ stack \in Seq(Frame)
  BY DEF TypeOK
<1> QED BY <1>1, SelfSums
  DEF SelfTimeConserved, SelfSum, RootSum, ChildSum, Selfs, Children

LEMMA ConservedNext ==
  ASSUME TypeOK'
  PROVE  /\ SelfSum' \in Int /\ RootSum' \in Int /\ ChildSum' \in Int
         /\ Selfs' \in [Fn -> Int] /\ rootTime' \in [Fn -> Int]
         /\ Children' \in [1 .. Len(stack') -> Int]
         /\ SelfTimeConserved' <=> SelfSum' % Word = (RootSum' + ChildSum') % Word
<1>1. stats' \in [Fn -> Stats] /\ rootTime' \in [Fn -> UInt] /\ stack' \in Seq(Frame)
  BY DEF TypeOK
<1> QED BY <1>1, SelfSums
  DEF SelfTimeConserved, SelfSum, RootSum, ChildSum, Selfs, Children

LEMMA EnterSelf ==
  ASSUME TypeOK, TypeOK', SelfTimeConserved, NEW f \in Fn, Enter(f)
  PROVE  SelfTimeConserved'
<1>1. rootTime' = rootTime
  BY DEF Enter
<1>2. RootSum' = RootSum
  BY <1>1 DEF RootSum
<1>3. Selfs' = Selfs
  <2>1. CASE EnterDropped(f)
    BY <2>1 DEF EnterDropped, Selfs
  <2>2. CASE EnterCounted(f)
    <3>1. stats \in [Fn -> Stats] /\ stats' = [stats EXCEPT ![f].calls = @ + 1]
      BY <2>2 DEF EnterCounted, TypeOK
    <3>2. \A g \in Fn : stats'[g].self = stats[g].self
      BY <3>1 DEF Stats
    <3> QED BY <3>2 DEF Selfs
  <2> QED BY <2>1, <2>2 DEF Enter
<1>4. SelfSum' = SelfSum
  BY <1>3 DEF SelfSum
<1>5. ChildSum' = ChildSum
  <2>1. CASE stack' = stack
    BY <2>1 DEF ChildSum, Children
  <2>2. CASE stack' # stack
    <3> DEFINE r == [fn |-> f, start |-> NowNs, child |-> 0]
    <3>1. stack' = Append(stack, r)
      BY <2>2 DEF Enter, EnterDropped, EnterCounted
    <3>2. r \in Frame /\ r.child = 0 /\ stack \in Seq(Frame)
      <4>1. NowNs \in UInt /\ stack \in Seq(Frame)
        BY NowIsWord DEF TypeOK
      <4>2. 0 \in UInt
        BY ConstantsAssumption DEF UInt
      <4> QED BY <4>1, <4>2 DEF Frame
    <3> HIDE DEF r
    <3> QED BY <3>1, <3>2, PushChildren DEF ChildSum, Children
  <2> QED BY <2>1, <2>2
<1> QED BY <1>2, <1>4, <1>5, Conserved, ConservedNext

\* What an exit leaves of the frames' charges.
LEMMA PopFrames ==
  ASSUME TypeOK, stack # <<>>, PopFrame
  PROVE  LET n == Len(stack)
             el == Elapsed(stack[n])
         IN  /\ n \in Nat /\ n # 0 /\ Len(stack') = n - 1
             /\ \A i \in 1 .. n - 2 : Children'[i] = Children[i]
             /\ n > 1 => Children'[n - 1] = (Children[n - 1] + el) % Word
             /\ Children[n] = stack[n].child
<1> DEFINE n == Len(stack)
           el == Elapsed(stack[n])
<1>1. n \in Nat /\ n # 0 /\ stack \in Seq(Frame)
  BY DEF TypeOK
<1>2. stack' = [i \in 1 .. n - 1 |->
                  IF i = n - 1 THEN [stack[i] EXCEPT !.child = Plus(@, el)] ELSE stack[i]]
  BY DEF PopFrame, Popped
<1>3. \A i \in 1 .. n : stack[i] \in Frame
  BY <1>1
<1> HIDE DEF el
<1>4. Len(stack') = n - 1
  <2>1. DOMAIN stack' = 1 .. n - 1 /\ n - 1 \in Nat
    BY <1>1, <1>2
  <2>2. \A i \in 1 .. n - 1 : stack'[i] \in {stack'[j] : j \in 1 .. n - 1}
    OBVIOUS
  <2> HIDE DEF n
  <2> QED BY <1>2, <2>1
<1>5. ASSUME NEW i \in 1 .. n - 1
      PROVE  stack'[i].child = IF i = n - 1 THEN (stack[i].child + el) % Word ELSE stack[i].child
  <2>1. i \in 1 .. n
    BY <1>1
  <2> QED BY <1>2, <1>3, <2>1 DEF Frame, Plus
<1>6. /\ \A i \in 1 .. n - 1 : Children'[i] = stack'[i].child /\ Children[i] = stack[i].child
      /\ Children[n] = stack[n].child
  BY <1>1, <1>4 DEF Children
<1>7. \A i \in 1 .. n - 2 : i \in 1 .. n - 1 /\ i # n - 1
  BY <1>1
<1>8. n > 1 => n - 1 \in 1 .. n - 1
  BY <1>1
<1> HIDE DEF n
<1>9. \A i \in 1 .. n - 2 : Children'[i] = Children[i]
  BY <1>5, <1>6, <1>7
<1>10. n > 1 => Children'[n - 1] = (Children[n - 1] + el) % Word
  BY <1>5, <1>6, <1>8
<1> QED BY <1>1, <1>4, <1>6, <1>9, <1>10 DEF n, el

LEMMA PopSelf ==
  ASSUME TypeOK, TypeOK', SelfTimeConserved, stack # <<>>, PopFrame
  PROVE  SelfTimeConserved'
<1> DEFINE n == Len(stack)
           top == stack[n]
           b == top.fn
           el == Elapsed(top)
           share == SelfShare(top, el)
           c == top.child
           s == Selfs[b]
<1>1. /\ b \in Fn /\ el \in Int /\ c \in Int /\ share = (el - c) % Word
      /\ \A g \in Fn : stats'[g].self = IF g = b THEN (stats[g].self + share) % Word
                                        ELSE stats[g].self
  <2>1. \A u \in UInt : u \in Int
    BY DEF UInt
  <2> QED BY <2>1, PopStats
<1>2. SelfSum' = SelfSum - s + ((s + share) % Word) /\ s \in Int
  <2>1. Selfs \in [Fn -> Int] /\ Selfs' \in [Fn -> Int]
    BY Conserved, ConservedNext
  <2>2. \A g \in Fn \ {b} : Selfs[g] = Selfs'[g]
    BY <1>1 DEF Selfs
  <2>3. Selfs'[b] = (s + share) % Word
    BY <1>1 DEF Selfs
  <2> DEFINE h == Selfs
             k == Selfs'
  <2>4. SumFunctionOnSet(k, Fn) = SumFunctionOnSet(h, Fn) - h[b] + k[b]
    <3>1. h \in [Fn -> Int] /\ k \in [Fn -> Int] /\ b \in Fn /\ \A g \in Fn \ {b} : h[g] = k[g]
      BY <1>1, <2>1, <2>2
    <3> HIDE DEF h, k, b
    <3> QED BY <3>1, SumOverFn
  <2> QED BY <1>1, <2>1, <2>3, <2>4 DEF SelfSum
<1>3. /\ n \in Nat /\ n # 0 /\ Len(stack') = n - 1
      /\ \A i \in 1 .. n - 2 : Children[i] = Children'[i]
      /\ n > 1 => Children'[n - 1] = (Children[n - 1] + el) % Word
      /\ Children[n] = c
  BY PopFrames
<1>4. /\ Children \in [1 .. n -> Int] /\ Children' \in [1 .. n - 1 -> Int]
      /\ SelfSum \in Int /\ RootSum \in Int /\ ChildSum \in Int
      /\ SelfSum % Word = (RootSum + ChildSum) % Word
  BY <1>3, Conserved, ConservedNext
<1>5. /\ n > 1 => ChildSum' = ChildSum - c - Children[n - 1] + Children'[n - 1]
      /\ n = 1 => ChildSum' = 0 /\ ChildSum = c
  <2> DEFINE h == Children
             k == Children'
             I == 1 .. n
             J == 1 .. n - 1
             y == n - 1
  <2>1. /\ h \in [I -> Int] /\ k \in [J -> Int]
        /\ n \in I /\ J \in SUBSET I /\ n \notin J /\ \A i \in I : i = n \/ i \in J
    BY <1>3, <1>4
  <2>5. IsFiniteSet(I) /\ IsFiniteSet(J)
    BY <1>3, FS_Interval
  <2>6. (n > 1 => y \in J) /\ (n = 1 => J = {})
    BY <1>3
  <2>2. ChildSum' = SumFunctionOnSet(k, J) /\ ChildSum = SumFunctionOnSet(h, I)
    BY <1>3 DEF ChildSum
  <2>3. h[n] = c /\ \A i \in J \ {y} : h[i] = k[i]
    <3>1. \A i \in J \ {y} : i \in 1 .. n - 2
      BY <1>3
    <3> QED BY <1>3, <3>1
  <2> HIDE DEF h, k, n, c, I, J, y
  <2>4. LET old == SumFunctionOnSet(h, I)
            new == SumFunctionOnSet(k, J)
        IN  /\ y \in J => new = old - h[n] - h[y] + k[y]
            /\ J = {} => new = 0 /\ old = h[n]
    BY <2>1, <2>3, <2>5, PopChildren
  <2> QED BY <2>2, <2>3, <2>4, <2>6 DEF h, k, y
<1> DEFINE B == RootSum + ChildSum
<1>6. ASSUME NEW p \in Int, RootSum' + ChildSum' = B - c - p + ((p + el) % Word)
      PROVE  SelfTimeConserved'
  <2>1. B \in Int
    BY <1>4
  <2>2. SelfAfter(SelfSum, s, el, c) = RootAfter(B, p, el, c)
    <3>1. /\ SelfSum \in Int /\ s \in Int /\ el \in Int /\ c \in Int
          /\ SelfSum % Word = B % Word
      BY <1>1, <1>2, <1>4
    <3> HIDE DEF B, c, el, s
    <3> QED BY <2>1, <3>1, SelfArithmetic
  <2>3. SelfSum' % Word = (RootSum' + ChildSum') % Word
    BY <1>1, <1>2, <1>6, <2>2 DEF SelfAfter, RootAfter
  <2> QED BY <2>3, ConservedNext
<1>7. CASE n > 1
  <2> DEFINE p == Children[n - 1]
  <2>1. p \in Int
    <3>1. n - 1 \in 1 .. n
      BY <1>3, <1>7
    <3> QED BY <1>4, <3>1
  <2>2. rootTime' = rootTime
    BY <1>7 DEF PopFrame
  <2>3. RootSum' = RootSum
    BY <2>2 DEF RootSum
  <2>4. ChildSum' = ChildSum - c - p + ((p + el) % Word)
    BY <1>3, <1>5, <1>7
  <2>5. (p + el) % Word \in Int
    BY <1>1, <2>1, ConstantsAssumption
  <2>6. RootSum' + ChildSum' = B - c - p + ((p + el) % Word)
    <3> DEFINE q == (p + el) % Word
    <3>1. q \in Int /\ ChildSum' = ChildSum - c - p + q
      BY <2>4, <2>5
    <3> HIDE DEF q, c, p, el
    <3> QED BY <1>1, <1>4, <2>1, <2>3, <3>1 DEF q
  <2> QED BY <1>6, <2>1, <2>6
<1>8. CASE n = 1
  <2> DEFINE p == rootTime[b]
  <2>1. rootTime' = [rootTime EXCEPT ![b] = Plus(@, el)]
    BY <1>8 DEF PopFrame
  <2>2. rootTime \in [Fn -> Int] /\ rootTime' \in [Fn -> Int]
    BY Conserved, ConservedNext
  <2>3. p \in Int /\ rootTime'[b] = (p + el) % Word /\ \A g \in Fn \ {b} : rootTime[g] = rootTime'[g]
    BY <1>1, <2>1, <2>2 DEF Plus
  <2>4. RootSum' = RootSum - p + rootTime'[b]
    <3> DEFINE h == rootTime
               k == rootTime'
    <3>1. h \in [Fn -> Int] /\ k \in [Fn -> Int] /\ b \in Fn /\ \A g \in Fn \ {b} : h[g] = k[g]
      BY <1>1, <2>2, <2>3
    <3>2. SumFunctionOnSet(k, Fn) = SumFunctionOnSet(h, Fn) - h[b] + k[b]
      <4> HIDE DEF h, k, b
      <4> QED BY <3>1, SumOverFn
    <3> QED BY <3>2 DEF RootSum
  <2>5. (p + el) % Word \in Int
    BY <1>1, <2>3, ConstantsAssumption
  <2>6. RootSum' + ChildSum' = B - c - p + ((p + el) % Word)
    <3> DEFINE q == (p + el) % Word
    <3>1. q \in Int /\ RootSum' = RootSum - p + q /\ ChildSum' = 0 /\ ChildSum = c
      BY <1>5, <1>8, <2>3, <2>4, <2>5
    <3> HIDE DEF q, c, p, el
    <3> QED BY <1>1, <1>4, <2>3, <3>1 DEF q
  <2> QED BY <1>6, <2>3, <2>6
<1> QED BY <1>3, <1>7, <1>8

\* Self times add up to the time of the roots and of the frames still open.
LEMMA SelfInductive == Spec => []SelfTimeConserved
<1>1. Init => SelfTimeConserved
  <2> SUFFICES ASSUME Init PROVE SelfTimeConserved
    OBVIOUS
  <2>1. TypeOK
    BY TypeInit
  <2>2. SelfSum = 0 /\ RootSum = 0 /\ ChildSum = 0
    <3>1. /\ \A f \in Fn : Selfs[f] = 0 /\ rootTime[f] = 0
          /\ 1 .. Len(stack) = {}
      BY DEF Init, Selfs, ZeroStats
    <3>2. Selfs \in [Fn -> Int] /\ rootTime \in [Fn -> Int] /\ Children \in [1 .. Len(stack) -> Int]
      BY <2>1, Conserved
    <3>3. SelfSum = 0
      BY <3>1, <3>2, FiniteTables, SumOfZeros DEF SelfSum
    <3>4. RootSum = 0
      BY <3>1, <3>2, FiniteTables, SumOfZeros DEF RootSum
    <3>5. ChildSum = 0
      <4> DEFINE I == 1 .. Len(stack)
      <4>1. I = {} /\ IsFiniteSet(I) /\ Children \in [I -> Int] /\ \A i \in I : Children[i] = 0
        BY <3>1, <3>2, FS_EmptySet
      <4> HIDE DEF I
      <4>2. SumFunctionOnSet(Children, I) = 0
        BY <4>1, SumOfZeros
      <4> QED BY <4>2 DEF I, ChildSum
    <3> QED BY <3>3, <3>4, <3>5
  <2> QED BY <2>1, <2>2, Conserved
<1>2. TypeOK /\ TypeOK' /\ SelfTimeConserved /\ [Next]_vars => SelfTimeConserved'
  <2> SUFFICES ASSUME TypeOK, TypeOK', SelfTimeConserved, [Next]_vars PROVE SelfTimeConserved'
    OBVIOUS
  <2>1. UNCHANGED <<stats, rootTime, stack>> => SelfTimeConserved'
    BY DEF SelfTimeConserved
  <2>2. CASE Exit
    <3>1. CASE UNCHANGED <<stats, rootTime, stack>>
      BY <2>1, <3>1
    <3>2. CASE stack # <<>> /\ PopFrame
      BY <3>2, PopSelf
    <3> QED BY <2>2, <3>1, <3>2 DEF Exit
  <2>3. CASE Tick
    BY <2>1, <2>3 DEF Tick, runtime, ghosts
  <2>4. CASE Report
    <3>1. UNCHANGED <<counter, runtime, ghosts>>
      BY <2>4, Zenon DEF Report
    <3> QED BY <2>1, <3>1 DEF runtime, ghosts
  <2>5. ASSUME NEW k \in OpClasses, Op(k) PROVE SelfTimeConserved'
    BY <2>1, <2>5 DEF Op
  <2>6. CASE UNCHANGED vars
    BY <2>1, <2>6 DEF vars, runtime, ghosts
  <2> QED BY <2>2, <2>3, <2>4, <2>5, <2>6, EnterSelf DEF Next
<1> QED BY <1>1, <1>2, Typing, PTL DEF Spec

\* The operations of one class, by function, in a table shaped like g_op_stats.
OpTable == [Fn -> [OpClasses -> Nat]]
OpsOf(t, c) == [f \in Fn |-> t[f][c]]
OpSum(t, c) == SumFunction(OpsOf(t, c))

LEMMA OpSums ==
  ASSUME NEW t \in OpTable, NEW c \in OpClasses
  PROVE  /\ OpsOf(t, c) \in [Fn -> Int]
         /\ OpSum(t, c) = SumFunctionOnSet(OpsOf(t, c), Fn)
         /\ OpSum(t, c) \in Int
<1>1. OpsOf(t, c) \in [Fn -> Int]
  BY DEF OpTable, OpsOf
<1>2. Fn \in SUBSET Fn
  OBVIOUS
<1>3. OpSum(t, c) = SumFunctionOnSet(OpsOf(t, c), Fn)
  BY <1>1, SumOfFunction DEF OpSum
<1>4. SumFunctionOnSet(OpsOf(t, c), Fn) \in Int
  BY <1>1, <1>2, FiniteTables, SumInt
<1> QED BY <1>1, <1>3, <1>4

\* One more operation of class c in the row of x.
LEMMA OpCounted ==
  ASSUME NEW t \in OpTable, NEW x \in Fn, NEW c \in OpClasses, NEW d \in OpClasses
  PROVE  LET u == [t EXCEPT ![x][c] = @ + 1]
         IN  u \in OpTable /\ OpSum(u, d) = OpSum(t, d) + (IF d = c THEN 1 ELSE 0)
<1> DEFINE u == [t EXCEPT ![x][c] = @ + 1]
           h == OpsOf(t, d)
           k == OpsOf(u, d)
<1>1. u \in OpTable
  BY DEF OpTable
<1>2. h \in [Fn -> Int] /\ k \in [Fn -> Int]
  <2> HIDE DEF u
  <2> QED BY <1>1, OpSums
<1>3. /\ \A g \in Fn \ {x} : h[g] = k[g]
      /\ k[x] = h[x] + (IF d = c THEN 1 ELSE 0)
  BY DEF OpTable, OpsOf
<1>4. OpSum(t, d) = SumFunctionOnSet(h, Fn) /\ OpSum(u, d) = SumFunctionOnSet(k, Fn)
  <2> HIDE DEF u
  <2> QED BY <1>1, OpSums
<1>5. SumFunctionOnSet(h, Fn) \in Int /\ h[x] \in Int
  BY <1>2, <1>4, OpSums
<1>6. SumFunctionOnSet(k, Fn) = SumFunctionOnSet(h, Fn) - h[x] + k[x]
  <2> HIDE DEF h, k
  <2> QED BY <1>2, <1>3, SumOverFn
<1>7. SumFunctionOnSet(k, Fn) = SumFunctionOnSet(h, Fn) + (IF d = c THEN 1 ELSE 0)
  <2> HIDE DEF h, k
  <2> QED BY <1>3, <1>5, <1>6
<1> HIDE DEF u, h, k
<1> QED BY <1>1, <1>4, <1>7 DEF u

LEMMA OpCharged ==
  ASSUME Mirror, OpsChargedToTheirBody, NEW c \in OpClasses, Op(c)
  PROVE  OpsChargedToTheirBody'
<1> DEFINE x == live[Len(live)]
           y == stack[Len(stack)].fn
<1>1. opStats \in OpTable /\ trueOps \in OpTable /\ TypeOK
  BY DEF Mirror, TypeOK, OpTable
<1>2. /\ live # <<>> /\ trueOps' = [trueOps EXCEPT ![x][c] = @ + 1]
      /\ opStats' = IF stack = <<>> THEN opStats ELSE [opStats EXCEPT ![y][c] = @ + 1]
      /\ UNCHANGED <<skewed, dropped>>
  BY DEF Op, OpOwner
<1>3. x \in Fn
  BY <1>1, <1>2 DEF TypeOK
<1>4. stack # <<>> => y \in Fn
  BY <1>1, TopIsFrame, FrameAt DEF TypeOK
<1>5. ASSUME ~(skewed \/ dropped) PROVE stack # <<>> /\ y = x
  <2>1. /\ overflow = 0 /\ Len(stack) = Len(live)
        /\ \A i \in 1 .. Len(stack) : stack[i].fn = live[i]
    BY <1>1, <1>5, MirrorNumbers DEF Mirror, FramesMirrorCalls, OverflowMeansFull
  <2>2. Len(stack) \in 1 .. Len(stack) /\ stack # <<>>
    BY <1>1, <1>2, <2>1, MirrorNumbers
  <2> QED BY <2>1, <2>2
<1> HIDE DEF x, y
<1>6. ASSUME ~(skewed \/ dropped)' PROVE opStats' = trueOps'
  <2>1. opStats = trueOps /\ stack # <<>> /\ y = x
    BY <1>2, <1>5, <1>6 DEF OpsChargedToTheirBody
  <2> QED BY <1>2, <2>1
<1>7. ASSUME NEW d \in OpClasses PROVE OpSum(opStats', d) <= OpSum(trueOps', d)
  <2> DEFINE a == IF d = c THEN 1 ELSE 0
  <2>1. /\ OpSum(opStats, d) \in Int /\ OpSum(trueOps, d) \in Int
        /\ OpSum(opStats, d) <= OpSum(trueOps, d)
    BY <1>1, OpSums DEF OpsChargedToTheirBody, OpSum, OpsOf
  <2>2. OpSum(trueOps', d) = OpSum(trueOps, d) + a
    <3> DEFINE u == [trueOps EXCEPT ![x][c] = @ + 1]
    <3>1. OpSum(u, d) = OpSum(trueOps, d) + a
      BY <1>1, <1>3, OpCounted
    <3>2. trueOps' = u
      BY <1>2
    <3> HIDE DEF u
    <3> QED BY <3>1, <3>2
  <2>3. OpSum(opStats', d) = OpSum(opStats, d) \/ OpSum(opStats', d) = OpSum(opStats, d) + a
    <3>1. CASE stack = <<>>
      BY <1>2, <3>1
    <3>2. CASE stack # <<>>
      <4>1. opStats' = [opStats EXCEPT ![y][c] = @ + 1] /\ y \in Fn
        BY <1>2, <1>4, <3>2
      <4> QED BY <1>1, <4>1, OpCounted
    <3> QED BY <3>1, <3>2
  <2>4. a \in Int /\ a >= 0
    OBVIOUS
  <2> HIDE DEF a
  <2> QED BY <2>1, <2>2, <2>3, <2>4
<1> QED BY <1>6, <1>7 DEF OpsChargedToTheirBody, OpSum, OpsOf

LEMMA OpsInductive == Spec => []OpsChargedToTheirBody
<1>1. Init => OpsChargedToTheirBody
  <2> SUFFICES ASSUME Init PROVE OpsChargedToTheirBody
    OBVIOUS
  <2>1. opStats = trueOps /\ opStats \in OpTable
    BY DEF Init, OpTable
  <2>2. \A c \in OpClasses : OpSum(opStats, c) <= OpSum(trueOps, c)
    BY <2>1, OpSums
  <2> QED BY <2>1, <2>2 DEF OpsChargedToTheirBody, OpSum, OpsOf
<1>2. Mirror /\ OpsChargedToTheirBody /\ [Next]_vars => OpsChargedToTheirBody'
  <2> SUFFICES ASSUME Mirror, OpsChargedToTheirBody, [Next]_vars PROVE OpsChargedToTheirBody'
    OBVIOUS
  <2>1. ASSUME UNCHANGED <<opStats, trueOps>>, (skewed \/ dropped) => (skewed \/ dropped)'
        PROVE  OpsChargedToTheirBody'
    BY <2>1 DEF OpsChargedToTheirBody
  <2>2. CASE Exit
    BY <2>1, <2>2 DEF Exit
  <2>3. CASE Tick
    BY <2>1, <2>3 DEF Tick, runtime, ghosts
  <2>4. CASE Report
    <3>1. UNCHANGED <<counter, runtime, ghosts>>
      BY <2>4, Zenon DEF Report
    <3> QED BY <2>1, <3>1 DEF runtime, ghosts
  <2>5. ASSUME NEW f \in Fn, Enter(f) PROVE OpsChargedToTheirBody'
    <3>1. UNCHANGED <<opStats, trueOps>>
      BY <2>5 DEF Enter, EnterDropped, EnterCounted
    <3>2. (skewed \/ dropped) => (skewed \/ dropped)'
      BY <2>5, Zenon DEF Enter, EnterDropped, EnterCounted
    <3> QED BY <2>1, <3>1, <3>2
  <2>6. CASE UNCHANGED vars
    BY <2>1, <2>6 DEF vars, runtime, ghosts
  <2> QED BY <2>2, <2>3, <2>4, <2>5, <2>6, OpCharged DEF Next
<1> QED BY <1>1, <1>2, MirrorInductive, PTL DEF Spec

\* The three tables mettle_profile_report prints agree in every reachable state,
\* for every program, stack limit and clock, whatever allocations fail: the
\* call graph adds up to the flat table, self times to the time of the roots,
\* and operations are charged to the body that executed them.
THEOREM TablesConsistent == Spec => []TablesAgree
BY EdgesInductive, SelfInductive, OpsInductive, PTL DEF TablesAgree
-----------------------------------------------------------------------------
(***************************************************************************)
(* The report is complete.                                                 *)
(***************************************************************************)
\* As long as no edge was lost: every recorded edge was counted by an enter,
\* the frames are a path of recorded edges, and callers can be reached from the
\* functions that were called at the root.
Closed(S) == \A e \in DOMAIN edges : e[1] \in S => e[2] \in S
HoldsRoots(S) == \A f \in Fn : rootCalls[f] > 0 => f \in S
EdgesCounted == \A e \in DOMAIN edges : edges[e].calls > 0
StackIsPath ==
  \A i \in 1 .. Len(stack) - 1 : <<stack[i].fn, stack[i + 1].fn>> \in DOMAIN edges
CallersReached ==
  \A S \in SUBSET Fn : HoldsRoots(S) /\ Closed(S) =>
    /\ \A i \in 1 .. Len(stack) : stack[i].fn \in S
    /\ \A e \in DOMAIN edges : e[1] \in S
PathInv == lostEdge \/ (EdgesCounted /\ StackIsPath /\ CallersReached)

\* What noting a call, or its time, does to the set of edges.
LEMMA NoteEdgeKeeps ==
  ASSUME TypeOK, EdgesCounted, NEW a \in Fn, NEW b \in Fn, NEW n \in Nat, NEW t,
         NoteEdge(<<a, b>>, n, t), ~lostEdge', n > 0 \/ <<a, b>> \in DOMAIN edges
  PROVE  DOMAIN edges' = DOMAIN edges \cup {<<a, b>>} /\ EdgesCounted'
<1> DEFINE x == <<a, b>>
           D == DOMAIN edges
<1>1. edges \in [D -> [calls : Nat, time : UInt]]
  BY DEF TypeOK
<1>2. CASE /\ x \in D
           /\ edges' = [edges EXCEPT ![x] = [calls |-> @.calls + n,
                                             time |-> Plus(@.time, t)]]
  <2>1. DOMAIN edges' = D
    BY <1>2
  <2>2. \A e \in D : edges[e].calls \in Nat /\ edges[e].calls > 0
    BY <1>1 DEF EdgesCounted
  <2>3. \A e \in D : edges'[e].calls = IF e = x THEN edges[e].calls + n ELSE edges[e].calls
    BY <1>2
  <2>4. \A e \in D : edges'[e].calls > 0
    BY <2>2, <2>3
  <2>5. D = D \cup {x}
    BY <1>2
  <2> QED BY <2>1, <2>4, <2>5 DEF EdgesCounted
<1>3. CASE /\ x \notin D
           /\ edges' = [e \in D \cup {x} |->
                          IF e = x THEN NewEdge(n, t) ELSE edges[e]]
  BY <1>3 DEF NewEdge, EdgesCounted
<1> QED BY <1>2, <1>3 DEF NoteEdge

LEMMA EnterPath ==
  ASSUME TypeOK, PathInv, NEW f \in Fn, Enter(f)
  PROVE  PathInv'
<1> SUFFICES ASSUME ~lostEdge' PROVE EdgesCounted' /\ StackIsPath' /\ CallersReached'
  BY DEF PathInv
<1>1. CASE EnterDropped(f)
  <2>1. UNCHANGED <<stack, edges, lostEdge, rootCalls>>
    BY <1>1 DEF EnterDropped
  <2> QED BY <2>1 DEF PathInv, EdgesCounted, StackIsPath, CallersReached, Closed, HoldsRoots
<1>2. CASE EnterCounted(f)
  <2> DEFINE n == Len(stack)
             top == stack[n].fn
  <2>1. stack \in Seq(Frame) /\ n \in Nat /\ rootCalls \in [Fn -> Nat]
    BY DEF TypeOK
  <2>2. \/ stack' = stack
        \/ /\ Len(stack') = n + 1 /\ stack'[n + 1].fn = f
           /\ \A i \in 1 .. n : stack'[i] = stack[i]
    <3> DEFINE r == [fn |-> f, start |-> NowNs, child |-> 0]
    <3>1. stack' = stack \/ stack' = Append(stack, r)
      BY <1>2 DEF EnterCounted
    <3>2. r.fn = f
      OBVIOUS
    <3> HIDE DEF r
    <3> QED BY <2>1, <3>1, <3>2
  <2>3. CASE stack # <<>>
    <3>1. NoteEdge(<<top, f>>, 1, 0) /\ rootCalls' = rootCalls
      BY <1>2, <2>3 DEF EnterCounted
    <3>2. ~lostEdge
      BY <3>1, NoteEdgeLost
    <3>3. EdgesCounted /\ StackIsPath /\ CallersReached
      BY <3>2 DEF PathInv
    <3>4. top \in Fn /\ n \in 1 .. n
      BY <2>1, <2>3, TopIsFrame, FrameAt
    <3>5. DOMAIN edges' = DOMAIN edges \cup {<<top, f>>} /\ EdgesCounted'
      <4>1. 1 \in Nat /\ (1 > 0 \/ <<top, f>> \in DOMAIN edges)
        OBVIOUS
      <4>2. top \in Fn /\ NoteEdge(<<top, f>>, 1, 0)
        BY <3>1, <3>4
      <4> HIDE DEF top
      <4> QED BY <3>3, <4>1, <4>2, NoteEdgeKeeps
    <3>6. StackIsPath'
      <4> SUFFICES ASSUME NEW i \in 1 .. Len(stack') - 1
                   PROVE  <<stack'[i].fn, stack'[i + 1].fn>> \in DOMAIN edges'
        BY DEF StackIsPath
      <4>1. CASE stack' = stack
        BY <3>3, <3>5, <4>1 DEF StackIsPath
      <4>2. CASE stack' # stack /\ i = n
        BY <2>2, <3>4, <3>5, <4>2
      <4>3. CASE stack' # stack /\ i # n
        <5>1. i \in 1 .. n - 1 /\ i \in 1 .. n /\ i + 1 \in 1 .. n
          BY <2>1, <2>2, <4>3
        <5> QED BY <2>2, <3>3, <3>5, <4>3, <5>1 DEF StackIsPath
      <4> QED BY <4>1, <4>2, <4>3
    <3>7. CallersReached'
      <4> SUFFICES ASSUME NEW S \in SUBSET Fn, HoldsRoots(S)', Closed(S)'
                   PROVE  /\ \A i \in 1 .. Len(stack') : stack'[i].fn \in S
                          /\ \A e \in DOMAIN edges' : e[1] \in S
        BY DEF CallersReached
      <4>1. HoldsRoots(S) /\ Closed(S)
        BY <3>1, <3>5 DEF HoldsRoots, Closed
      <4>2. /\ \A i \in 1 .. n : stack[i].fn \in S
            /\ \A e \in DOMAIN edges : e[1] \in S
        BY <3>3, <4>1 DEF CallersReached
      <4>3. top \in S
        BY <3>4, <4>2
      <4>4. f \in S
        <5>1. <<top, f>>[1] = top /\ <<top, f>>[2] = f /\ <<top, f>> \in DOMAIN edges'
          BY <3>5
        <5> QED BY <4>3, <5>1 DEF Closed
      <4>5. \A e \in DOMAIN edges' : e[1] \in S
        BY <3>5, <4>2, <4>3
      <4>6. ASSUME NEW i \in 1 .. Len(stack') PROVE stack'[i].fn \in S
        <5>1. CASE stack' = stack
          BY <4>2, <5>1
        <5>2. CASE stack' # stack /\ i = n + 1
          BY <2>2, <4>4, <5>2
        <5>3. CASE stack' # stack /\ i # n + 1
          <6>1. i \in 1 .. n
            BY <2>1, <2>2, <5>3
          <6> QED BY <2>2, <4>2, <5>3, <6>1
        <5> QED BY <5>1, <5>2, <5>3
      <4> QED BY <4>5, <4>6
    <3> QED BY <3>5, <3>6, <3>7
  <2>4. CASE stack = <<>>
    <3>1. rootCalls' = [rootCalls EXCEPT ![f] = @ + 1] /\ UNCHANGED <<edges, lostEdge>>
      BY <1>2, <2>4 DEF EnterCounted
    <3>2. EdgesCounted /\ CallersReached /\ n = 0
      BY <2>4, <3>1 DEF PathInv
    <3>3. EdgesCounted' /\ StackIsPath'
      <4>1. Len(stack') = 0 \/ Len(stack') = 1
        BY <2>2, <3>2
      <4>2. 1 .. Len(stack') - 1 = {}
        <5>1. \A k : k = 0 \/ k = 1 => 1 .. k - 1 = {}
          OBVIOUS
        <5> QED BY <4>1, <5>1
      <4> QED BY <3>1, <3>2, <4>2 DEF EdgesCounted, StackIsPath
    <3>4. CallersReached'
      <4> SUFFICES ASSUME NEW S \in SUBSET Fn, HoldsRoots(S)', Closed(S)'
                   PROVE  /\ \A i \in 1 .. Len(stack') : stack'[i].fn \in S
                          /\ \A e \in DOMAIN edges' : e[1] \in S
        BY DEF CallersReached
      <4>1. /\ rootCalls'[f] > 0
            /\ \A g \in Fn : rootCalls[g] > 0 => rootCalls'[g] > 0
        BY <2>1, <3>1
      <4>2. HoldsRoots(S) /\ Closed(S) /\ f \in S
        BY <3>1, <4>1 DEF HoldsRoots, Closed
      <4>3. \A e \in DOMAIN edges : e[1] \in S
        BY <3>2, <4>2 DEF CallersReached
      <4>4. \A i \in 1 .. Len(stack') : stack'[i].fn \in S
        <5>1. \/ stack' = stack /\ 1 .. Len(stack) = {}
              \/ Len(stack') = 1 /\ stack'[1].fn = f
          BY <2>2, <3>2
        <5> QED BY <4>2, <5>1
      <4> QED BY <3>1, <4>3, <4>4
    <3> QED BY <3>3, <3>4
  <2> QED BY <2>3, <2>4
<1> QED BY <1>1, <1>2 DEF Enter

LEMMA PopPath ==
  ASSUME TypeOK, PathInv, stack # <<>>, PopFrame, rootCalls' = rootCalls
  PROVE  PathInv'
<1> SUFFICES ASSUME ~lostEdge' PROVE EdgesCounted' /\ StackIsPath' /\ CallersReached'
  BY DEF PathInv
<1> DEFINE n == Len(stack)
           el == Elapsed(stack[n])
           a == stack[n - 1].fn
           b == stack[n].fn
<1>1. /\ stack \in Seq(Frame) /\ n \in Nat /\ n # 0 /\ Len(stack') = n - 1
      /\ \A i \in 1 .. n - 1 : stack'[i].fn = stack[i].fn
  BY PopFrames, PopKeepsOwners DEF TypeOK
<1>2. ~lostEdge /\ DOMAIN edges' = DOMAIN edges /\ EdgesCounted'
  <2>1. CASE n > 1
    <3>1. NoteEdge(<<a, b>>, 0, el)
      BY <2>1 DEF PopFrame
    <3>2. ~lostEdge
      BY <3>1, NoteEdgeLost
    <3>3. a \in Fn /\ b \in Fn
      <4>1. n - 1 \in 1 .. n /\ n \in 1 .. n
        BY <1>1, <2>1
      <4> QED BY <1>1, <4>1, FrameAt
    <3>4. <<a, b>> \in DOMAIN edges /\ EdgesCounted
      <4>1. n - 1 \in 1 .. n - 1 /\ n - 1 + 1 = n
        BY <1>1, <2>1
      <4>2. StackIsPath /\ EdgesCounted
        BY <3>2 DEF PathInv
      <4>3. <<stack[n - 1].fn, stack[n - 1 + 1].fn>> \in DOMAIN edges
        BY <4>1, <4>2 DEF StackIsPath
      <4> QED BY <4>1, <4>2, <4>3
    <3>5. DOMAIN edges' = DOMAIN edges \cup {<<a, b>>} /\ EdgesCounted'
      <4> HIDE DEF a, b, el
      <4> QED BY <3>1, <3>3, <3>4, NoteEdgeKeeps
    <3> QED BY <3>2, <3>4, <3>5
  <2>2. CASE ~(n > 1)
    <3>1. UNCHANGED <<edges, lostEdge>>
      BY <2>2 DEF PopFrame
    <3> QED BY <3>1 DEF PathInv, EdgesCounted
  <2> QED BY <2>1, <2>2
<1>3. StackIsPath /\ CallersReached
  BY <1>2 DEF PathInv
<1>4. StackIsPath'
  <2> SUFFICES ASSUME NEW i \in 1 .. Len(stack') - 1
               PROVE  <<stack'[i].fn, stack'[i + 1].fn>> \in DOMAIN edges'
    BY DEF StackIsPath
  <2>1. i \in 1 .. n - 1 /\ i + 1 \in 1 .. n - 1
    BY <1>1
  <2> QED BY <1>1, <1>2, <1>3, <2>1 DEF StackIsPath
<1>5. CallersReached'
  <2> SUFFICES ASSUME NEW S \in SUBSET Fn, HoldsRoots(S)', Closed(S)'
               PROVE  /\ \A i \in 1 .. Len(stack') : stack'[i].fn \in S
                      /\ \A e \in DOMAIN edges' : e[1] \in S
    BY DEF CallersReached
  <2>1. HoldsRoots(S) /\ Closed(S)
    BY <1>2 DEF HoldsRoots, Closed
  <2>2. /\ \A i \in 1 .. n : stack[i].fn \in S
        /\ \A e \in DOMAIN edges : e[1] \in S
    BY <1>3, <2>1 DEF CallersReached
  <2>3. \A i \in 1 .. n - 1 : i \in 1 .. n
    BY <1>1
  <2> QED BY <1>1, <1>2, <2>2, <2>3
<1> QED BY <1>2, <1>4, <1>5

LEMMA PathInductive == Spec => []PathInv
<1>1. Init => PathInv
  <2> SUFFICES ASSUME Init PROVE EdgesCounted /\ StackIsPath /\ CallersReached
    BY DEF PathInv
  <2>1. DOMAIN edges = {} /\ 1 .. Len(stack) = {} /\ 1 .. Len(stack) - 1 = {}
    BY DEF Init
  <2> QED BY <2>1 DEF EdgesCounted, StackIsPath, CallersReached
<1>2. TypeOK /\ PathInv /\ [Next]_vars => PathInv'
  <2> SUFFICES ASSUME TypeOK, PathInv, [Next]_vars PROVE PathInv'
    OBVIOUS
  <2>1. ASSUME UNCHANGED <<stack, edges, lostEdge, rootCalls>> PROVE PathInv'
    <3>1. (EdgesCounted => EdgesCounted') /\ (StackIsPath => StackIsPath')
      BY <2>1 DEF EdgesCounted, StackIsPath
    <3>2. CallersReached => CallersReached'
      BY <2>1 DEF CallersReached, Closed, HoldsRoots
    <3> QED BY <2>1, <3>1, <3>2 DEF PathInv
  <2>2. CASE Exit
    <3>1. CASE UNCHANGED <<stack, edges, lostEdge, rootCalls>>
      BY <2>1, <3>1
    <3>2. CASE stack # <<>> /\ PopFrame /\ rootCalls' = rootCalls
      BY <3>2, PopPath
    <3> QED BY <2>2, <3>1, <3>2 DEF Exit
  <2>3. CASE Tick
    BY <2>1, <2>3 DEF Tick, runtime, ghosts
  <2>4. CASE Report
    <3>1. UNCHANGED <<counter, runtime, ghosts>>
      BY <2>4, Zenon DEF Report
    <3> QED BY <2>1, <3>1 DEF runtime, ghosts
  <2>5. ASSUME NEW c \in OpClasses, Op(c) PROVE PathInv'
    BY <2>1, <2>5 DEF Op
  <2>6. CASE UNCHANGED vars
    BY <2>1, <2>6 DEF vars, runtime, ghosts
  <2> QED BY <2>2, <2>3, <2>4, <2>5, <2>6, EnterPath DEF Next
<1> QED BY <1>1, <1>2, Typing, PTL DEF Spec

\* qsort with mettle_profile_sort_desc loses no entry: the comparison orders
\* any set of functions, so the rows are a listing of it.
LEMMA SortedRows ==
  ASSUME NEW seen \in [Fn -> Stats], NEW active \in SUBSET Fn
  PROVE  LET r == Sorted(seen, active)
         IN  {r[i] : i \in 1 .. Len(r)} = active
<1> DEFINE R == {e \in Fn \X Fn : SortDesc(seen, e[1], e[2])}
           n == Cardinality(active)
           rank == 1 .. n
           Good(r) == r \in [rank -> active] /\ \A i, j \in rank : i < j => SortDesc(seen, r[i], r[j])
           r == Sorted(seen, active)
<1>1. IsFiniteSet(active) /\ n \in Nat
  BY FiniteTables, FS_Subset, FS_CardinalityType
<1>2. \A f, g \in Fn : <<f, g>> \in R <=> SortDesc(seen, f, g)
  OBVIOUS
<1>3. \A f \in Fn : f \in Int /\ seen[f].total \in Int
  BY DEF Fn, Stats, UInt
<1>4. /\ \A f \in Fn : ~SortDesc(seen, f, f)
      /\ \A f, g \in Fn : f = g \/ SortDesc(seen, f, g) \/ SortDesc(seen, g, f)
  BY <1>3 DEF SortDesc
<1>5. \A f, g, h \in Fn : SortDesc(seen, f, g) /\ SortDesc(seen, g, h) => SortDesc(seen, f, h)
  BY <1>3 DEF SortDesc
<1> HIDE DEF R
<1>6. Orders(R, active)
  BY <1>2, <1>4, <1>5 DEF Orders
<1>7. \E q : Lists(R, active, n, q)
  <2> HIDE DEF n
  <2> QED BY <1>1, <1>6, SortedListing DEF n
<1>8. \E q \in [rank -> active] : \A i, j \in rank : i < j => SortDesc(seen, q[i], q[j])
  <2>1. PICK q : Lists(R, active, n, q)
    BY <1>7
  <2>2. q \in [rank -> active] /\ \A i, j \in rank : i < j => <<q[i], q[j]>> \in R
    BY <2>1 DEF Lists
  <2> HIDE DEF rank
  <2>3. \A i, j \in rank : i < j => SortDesc(seen, q[i], q[j])
    BY <1>2, <2>2
  <2> QED BY <2>2, <2>3
<1>9. r \in [rank -> active] /\ \A i, j \in rank : i < j => SortDesc(seen, r[i], r[j])
  BY <1>8 DEF Sorted
<1>10. Len(r) = n
  <2> HIDE DEF r
  <2> QED BY <1>1, <1>9
<1>11. r \in Injection(rank, active)
  <2>1. ASSUME NEW i \in rank, NEW j \in rank, r[i] = r[j] PROVE i = j
    <3>1. ~SortDesc(seen, r[i], r[j]) /\ ~SortDesc(seen, r[j], r[i])
      <4>1. r[i] \in Fn /\ r[j] = r[i]
        BY <1>9, <2>1
      <4> HIDE DEF r
      <4> QED BY <1>4, <4>1
    <3>2. ~(i < j) /\ ~(j < i)
      BY <1>9, <3>1
    <3> QED BY <1>1, <3>2
  <2> HIDE DEF r, rank
  <2> QED BY <1>9, <2>1 DEF Injection, IsInjective
<1>12. Cardinality(rank) = n
  <2> HIDE DEF n
  <2>1. \A k \in Nat : Cardinality(1 .. k) = k
    BY FS_Interval
  <2> QED BY <1>1, <2>1
<1>13. r \in Surjection(rank, active)
  <2> HIDE DEF r, rank
  <2> QED BY <1>1, <1>11, <1>12, FS_Injection
<1>14. {r[i] : i \in rank} = active
  <2> HIDE DEF r, rank
  <2> QED BY <1>13 DEF Surjection
<1> HIDE DEF r
<1> QED BY <1>10, <1>14 DEF r

\* The graph visits every caller once main is the only root.
LEMMA GraphComplete ==
  ASSUME TypeOK, EdgesCounted, CallersReached, NEW root, \A f \in Fn \ {root} : rootCalls[f] = 0
  PROVE  GraphLines(root, {}) = DOMAIN edges
<1> DEFINE counted == {e \in DOMAIN edges : edges[e].calls > 0 /\ e[1] \notin {}}
           closed(S) == \A e \in counted : e[1] \in S => e[2] \in S
           visited == {f \in Fn : \A S \in SUBSET Fn : root \in S /\ closed(S) => f \in S}
<1>1. counted = DOMAIN edges
  BY DEF EdgesCounted
<1>2. ASSUME NEW e \in DOMAIN edges PROVE e[1] \in visited
  <2>1. e[1] \in Fn
    BY DEF TypeOK
  <2>2. ASSUME NEW S \in SUBSET Fn, root \in S, closed(S) PROVE e[1] \in S
    <3>1. Closed(S)
      BY <1>1, <2>2 DEF Closed
    <3>2. HoldsRoots(S)
      <4>1. ASSUME NEW f \in Fn, f # root PROVE ~(rootCalls[f] > 0)
        BY <4>1
      <4> QED BY <2>2, <4>1 DEF HoldsRoots
    <3> QED BY <3>1, <3>2 DEF CallersReached
  <2> QED BY <2>1, <2>2
<1> HIDE DEF counted, visited
<1>3. {e \in counted : e[1] \in visited} = DOMAIN edges
  BY <1>1, <1>2
<1> QED BY <1>3 DEF GraphLines, counted, visited

LEMMA ReportMakes ==
  ASSUME TypeOK, PathInv, Report
  PROVE  ReportComplete'
<1> SUFFICES ASSUME report'.printed, NameCount <= statsCap'
             PROVE  ReportComplete'
  BY DEF ReportComplete
<1>1. PICK beyond \in [statsCap .. NameCount - 1 -> Garbage],
           junk \in SUBSET ((opCap .. NameCount - 1) \X OpClasses),
           noMemory \in IF AllocMayFail THEN SUBSET Fn ELSE {{}} :
             report' = NoReport \/ report' = Written(Seen(beyond), junk, noMemory)
  <2>1. PICK beyond \in [statsCap .. NameCount - 1 -> Garbage],
             junk \in SUBSET ((opCap .. NameCount - 1) \X OpClasses),
             noMemory \in IF AllocMayFail THEN SUBSET Fn ELSE {{}},
             noEntries \in IF AllocMayFail THEN BOOLEAN ELSE {FALSE} :
               report' = IF \/ statsCap = 0 \/ noEntries
                            \/ \A f \in Active(Seen(beyond)) : Seen(beyond)[f].total = 0
                         THEN NoReport
                         ELSE Written(Seen(beyond), junk, noMemory)
    BY Zenon DEF Report
  <2>2. report' = NoReport \/ report' = Written(Seen(beyond), junk, noMemory)
    BY <2>1, Zenon
  <2> QED BY <2>2, Zenon
<1> DEFINE seen == Seen(beyond)
           active == Active(seen)
           root == RootId(seen, active)
<1>2. UNCHANGED <<counter, runtime, ghosts>>
  BY Zenon DEF Report
<1>3. UNCHANGED <<stats, statsCap, edges, lostEdge, rootCalls>>
  BY <1>2 DEF runtime, ghosts
<1>4. seen = stats /\ stats \in [Fn -> Stats]
  <2>1. NameCount \in Nat /\ statsCap \in Nat /\ NameCount <= statsCap
    <3>1. statsCap \in Nat /\ statsCap' = statsCap
      BY <1>3 DEF TypeOK
    <3>2. NameCount <= statsCap'
      OBVIOUS
    <3> QED BY <3>1, <3>2, ConstantsAssumption
  <2>2. \A f \in Fn : f < statsCap
    BY <2>1 DEF Fn
  <2> QED BY <2>2 DEF Seen, TypeOK
<1>5. active = {f \in Fn : stats[f].calls > 0}
  BY <1>4 DEF Active
<1>6. /\ report'.rows = Sorted(seen, active) /\ report'.root = root
      /\ report'.graph = GraphLines(root, noMemory) /\ report'.short = (noMemory # {})
  <2>1. report' = Written(seen, junk, noMemory)
    BY <1>1 DEF NoReport
  <2> HIDE DEF seen
  <2> QED BY <2>1 DEF Written
<1>7. {report'.rows[i] : i \in 1 .. Len(report'.rows)} = {f \in Fn : stats'[f].calls > 0}
  <2>1. seen \in [Fn -> Stats] /\ active \in SUBSET Fn
    BY <1>4, <1>5
  <2> DEFINE q == Sorted(seen, active)
  <2> HIDE DEF seen, active
  <2>2. {q[i] : i \in 1 .. Len(q)} = active
    BY <2>1, SortedRows
  <2>3. report'.rows = q
    BY <1>6
  <2> HIDE DEF q
  <2>4. {report'.rows[i] : i \in 1 .. Len(report'.rows)} = active
    BY <2>2, <2>3
  <2> QED BY <1>3, <1>5, <2>4
<1>8. ASSUME ~report'.short, ~lostEdge', \A f \in Fn \ {report'.root} : rootCalls'[f] = 0
      PROVE  report'.graph = DOMAIN edges'
  <2>1. noMemory = {}
    BY <1>6, <1>8
  <2>2. EdgesCounted /\ CallersReached
    BY <1>3, <1>8 DEF PathInv
  <2>3. \A f \in Fn \ {root} : rootCalls[f] = 0
    BY <1>3, <1>6, <1>8
  <2> HIDE DEF root
  <2>4. GraphLines(root, {}) = DOMAIN edges
    BY <2>2, <2>3, GraphComplete
  <2> QED BY <1>3, <1>6, <2>1, <2>4
<1> QED BY <1>7, <1>8 DEF ReportComplete

\* Nothing changes once the report is written, and nothing is written before.
NothingBefore == phase = "running" => ~report.printed

\* Whatever was called appears in the report, and the call graph shows every
\* recorded call when main is the only root and memory lasted: for every
\* program, table capacity and order of calls, sorting loses no row and the
\* recursion of mettle_profile_report_callgraph_node no edge.
THEOREM ReportIsComplete == Spec => []ReportComplete
<1>1. Init => ReportComplete /\ NothingBefore
  BY DEF Init, ReportComplete, NothingBefore, NoReport
<1>2. TypeOK /\ PathInv /\ ReportComplete /\ NothingBefore /\ [Next]_vars
        => ReportComplete' /\ NothingBefore'
  <2> SUFFICES ASSUME TypeOK, PathInv, ReportComplete, NothingBefore, [Next]_vars
               PROVE  ReportComplete' /\ NothingBefore'
    OBVIOUS
  <2>1. ASSUME phase = "running", phase' = phase, report' = report
        PROVE  ReportComplete' /\ NothingBefore'
    BY <2>1 DEF ReportComplete, NothingBefore
  <2>2. CASE Exit
    BY <2>1, <2>2 DEF Exit
  <2>3. CASE Tick
    BY <2>1, <2>3 DEF Tick
  <2>4. CASE Report
    <3>1. phase' = "reported"
      BY <2>4, Zenon DEF Report
    <3> QED BY <2>4, <3>1, ReportMakes DEF NothingBefore
  <2>5. ASSUME NEW c \in OpClasses, Op(c) PROVE ReportComplete' /\ NothingBefore'
    BY <2>1, <2>5 DEF Op
  <2>6. ASSUME NEW f \in Fn, Enter(f) PROVE ReportComplete' /\ NothingBefore'
    BY <2>1, <2>6 DEF Enter
  <2>7. CASE UNCHANGED vars
    BY <2>7 DEF vars, runtime, ghosts, ReportComplete, NothingBefore
  <2> QED BY <2>2, <2>3, <2>4, <2>5, <2>6, <2>7 DEF Next
<1> QED BY <1>1, <1>2, Typing, PathInductive, PTL DEF Spec
=============================================================================
