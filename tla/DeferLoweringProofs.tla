------------------------ MODULE DeferLoweringProofs ------------------------
(***************************************************************************)
(* The lowering of function bodies, proved for bodies of every size: what  *)
(* it emits is well-formed code, however statements nest.                  *)
(***************************************************************************)
EXTENDS DeferLowering, FiniteFacts

-----------------------------------------------------------------------------
(* The labels of a piece of code.                                            *)

Marks == {"open", "close", "defer", "value"}
Jumps == {"jump", "branch", "brz", "bodyjump"}

Placed(s) == {s[i].arg : i \in {k \in 1 .. Len(s) : s[k].op = "label"}}
Targets(s) == {s[i].arg : i \in {k \in 1 .. Len(s) : s[k].op \in Jumps}}
PlacedOnce(s) ==
  \A i, j \in 1 .. Len(s) :
    s[i].op = "label" /\ s[j].op = "label" /\ s[i].arg = s[j].arg => i = j

\* The code s places the labels L, each once, and jumps only to labels of T.
Piece(s, L, T) == IsSequence(s) /\ Placed(s) = L /\ PlacedOnce(s) /\ Targets(s) \subseteq T

\* The code emitted so far, when m is the next new label and the labels of D
\* are still to be placed.
CodeOK(c, m, D) ==
  /\ Piece(c, Placed(c), Placed(c) \cup D)
  /\ m \in Nat \ {0} /\ Placed(c) \subseteq 1 .. m - 1 /\ D \subseteq 1 .. m - 1
  /\ Placed(c) \cap D = {}

-----------------------------------------------------------------------------
(* The statements being lowered.                                             *)

\* The labels that the end of a statement has still to place.
Owes(x) ==
  (IF x.kind \in {"arm", "else", "while", "for", "switch", "match"} THEN {x.end} ELSE {})
  \cup (IF x.kind = "arm" THEN {x.next} ELSE {})
  \cup (IF x.kind = "for" THEN {x.next + 1} ELSE {})
  \cup (IF x.kind \in {"switch", "match"} THEN x.next + 1 .. x.next + x.left ELSE {})
Owed(o) == UNION {Owes(o[i]) : i \in 1 .. Len(o)}

HasFrame(x) == x.kind \in {"while", "for", "switch"}
HasScope(x) == x.kind = "root" \/ (x.kind = "block" /\ x.ctx)
FrameItems(o) == {i \in 1 .. Len(o) : HasFrame(o[i])}
ScopeItems(o) == {i \in 1 .. Len(o) : HasScope(o[i])}

\* A statement, when the labels of P are placed.
ItemOK(x, P) ==
  /\ DOMAIN x = {"kind", "ctx", "depth", "left", "next", "end"}
  /\ x.ctx \in BOOLEAN /\ x.left \in Nat /\ x.next \in Nat /\ x.end \in Nat
  /\ x.kind = "arm" => x.next # x.end
  /\ x.kind = "for" => x.next + 1 # x.end
  /\ x.kind \in {"switch", "match"} => x.end < x.next
  /\ x.kind \in {"while", "for"} => x.next \in P

\* The body of a match arm is right inside its match, and nothing else is.
Nests(y, x) == x.kind # "root" /\ (x.kind = "body" <=> y.kind = "match")

StackOK(o, P) ==
  /\ IsSequence(o) /\ Len(o) >= 1
  /\ o[1].kind = "root" /\ o[1].left = 0
  /\ \A i \in 1 .. Len(o) : ItemOK(o[i], P)
  /\ \A i \in 2 .. Len(o) : Nests(o[i - 1], o[i])
  /\ \A i, j \in 1 .. Len(o) : i # j => Owes(o[i]) \cap Owes(o[j]) = {}

\* ... that owe the labels D and stand for nf control frames and ns scopes.
Stack(o, P, D, nf, ns) ==
  /\ StackOK(o, P) /\ Owed(o) = D
  /\ Cardinality(FrameItems(o)) = nf /\ Cardinality(ScopeItems(o)) = ns

\* Where break and continue go is placed or owed; only a switch has no continue.
FramesOK(fr, live) ==
  /\ IsSequence(fr)
  /\ \A i \in 1 .. Len(fr) :
       /\ fr[i].brk \in live
       /\ fr[i].cont = 0 \/ fr[i].cont \in live
       /\ fr[i].cont = 0 => fr[i].user = NoUserLabel
ScopesOK(sc) == IsSequence(sc) /\ \A n \in 1 .. Len(sc) : IsSequence(sc[n])

LowerInv(o, fr, sc, c, m) ==
  /\ Stack(o, Placed(c), Owed(o), Len(fr), Len(sc)) /\ o[Len(o)].kind # "match"
  /\ CodeOK(c, m, Owed(o))
  /\ FramesOK(fr, Placed(c) \cup Owed(o))
  /\ ScopesOK(sc)

\* Control cannot get behind the last return.
Stops(c, at) ==
  /\ at \in 1 .. Len(c) /\ Returns(c[at])
  /\ \A k \in at + 1 .. Len(c) : c[k].op \in Marks
RunInv(fr, sc, c, at) ==
  /\ fr = <<>> /\ Len(sc) = 1
  /\ Piece(c, Placed(c), Placed(c))
  /\ \E last \in 1 .. Len(c) : Stops(c, last) /\ at \in 1 .. last

DeferInv ==
  /\ phase = "lowering" => LowerInv(open, frames, scopes, code, labels) /\ pc = 1
  /\ phase = "running" => RunInv(frames, scopes, code, pc)
-----------------------------------------------------------------------------
(* Pieces of code put together.                                              *)

LEMMA PieceJoined ==
  ASSUME NEW s, NEW L, NEW T, Piece(s, L, T), NEW t, NEW M, NEW U, Piece(t, M, U),
         L \cap M = {}
  PROVE  Piece(s \o t, L \cup M, T \cup U)
<1> DEFINE c == s \o t
           a == Len(s)
           b == Len(t)
<1>1. IsSequence(s) /\ IsSequence(t) /\ a \in Nat /\ b \in Nat
  BY SeqTyped DEF Piece
<1>2. /\ IsSequence(c) /\ Len(c) = a + b
      /\ \A i \in 1 .. a : c[i] = s[i]
      /\ \A i \in 1 .. b : c[a + i] = t[i]
  BY <1>1, ConcatIs
<1>3. Placed(s) = L /\ Placed(t) = M /\ Targets(s) \subseteq T /\ Targets(t) \subseteq U
      /\ PlacedOnce(s) /\ PlacedOnce(t)
  BY DEF Piece
<1> HIDE DEF c, a, b
<1>4. ASSUME NEW i \in 1 .. Len(c)
      PROVE  \/ i \in 1 .. a /\ c[i] = s[i]
             \/ i - a \in 1 .. b /\ c[i] = t[i - a]
  <2>1. CASE i <= a
    BY <1>1, <1>2, <2>1
  <2>2. CASE i > a
    <3>1. i - a \in 1 .. b /\ a + (i - a) = i
      BY <1>1, <1>2, <2>2
    <3> QED BY <1>2, <3>1
  <2> QED BY <1>1, <2>1, <2>2
<1>5. \A i \in 1 .. a : i \in 1 .. Len(c) /\ c[i] = s[i]
  BY <1>1, <1>2
<1>6. \A i \in 1 .. b : a + i \in 1 .. Len(c) /\ c[a + i] = t[i]
  BY <1>1, <1>2
<1>7. Placed(c) = L \cup M
  <2>1. ASSUME NEW l \in Placed(c) PROVE l \in L \cup M
    <3>1. PICK i \in 1 .. Len(c) : c[i].op = "label" /\ c[i].arg = l
      BY DEF Placed
    <3> QED BY <1>3, <1>4, <3>1 DEF Placed, a, b
  <2>2. ASSUME NEW l \in L PROVE l \in Placed(c)
    <3>1. PICK i \in 1 .. a : s[i].op = "label" /\ s[i].arg = l
      BY <1>3 DEF Placed, a
    <3> QED BY <1>5, <3>1 DEF Placed
  <2>3. ASSUME NEW l \in M PROVE l \in Placed(c)
    <3>1. PICK i \in 1 .. b : t[i].op = "label" /\ t[i].arg = l
      BY <1>3 DEF Placed, b
    <3>2. a + i \in 1 .. Len(c) /\ c[a + i].op = "label" /\ c[a + i].arg = l
      BY <1>6, <3>1
    <3> QED BY <3>2 DEF Placed
  <2> QED BY <2>1, <2>2, <2>3
<1>8. Targets(c) \subseteq T \cup U
  <2> SUFFICES ASSUME NEW l \in Targets(c) PROVE l \in T \cup U
    OBVIOUS
  <2>1. PICK i \in 1 .. Len(c) : c[i].op \in Jumps /\ c[i].arg = l
    BY DEF Targets
  <2> QED BY <1>3, <1>4, <2>1 DEF Targets, a, b
<1>9. ASSUME NEW i \in 1 .. Len(c), NEW j \in 1 .. Len(c),
             c[i].op = "label", c[j].op = "label", c[i].arg = c[j].arg
      PROVE  i = j
  <2>1. CASE i \in 1 .. a /\ j \in 1 .. a
    BY <1>3, <1>5, <1>9, <2>1 DEF PlacedOnce, a
  <2>2. CASE i - a \in 1 .. b /\ j - a \in 1 .. b /\ c[i] = t[i - a] /\ c[j] = t[j - a]
    <3>1. i - a = j - a
      BY <1>3, <1>9, <2>2 DEF PlacedOnce, b
    <3> QED BY <1>1, <3>1
  <2>3. ASSUME NEW p \in 1 .. a, NEW q \in 1 .. b, c[p].op = "label", t[q].op = "label",
               c[p].arg = t[q].arg
        PROVE  FALSE
    <3>1. c[p].arg \in L
      BY <1>3, <1>5, <2>3 DEF Placed, a
    <3>2. t[q].arg \in M
      BY <1>3, <2>3 DEF Placed, b
    <3> QED BY <2>3, <3>1, <3>2
  <2> QED BY <1>4, <1>9, <2>1, <2>2, <2>3
<1>10. PlacedOnce(c)
  BY <1>9 DEF PlacedOnce
<1> QED BY <1>2, <1>7, <1>8, <1>10 DEF Piece, c

\* One instruction.
LEMMA OnePiece ==
  ASSUME NEW x
  PROVE  /\ x.op = "label" => Piece(<<x>>, {x.arg}, {})
         /\ x.op \in Jumps => Piece(<<x>>, {}, {x.arg})
         /\ (x.op # "label" /\ x.op \notin Jumps) => Piece(<<x>>, {}, {})
<1> DEFINE s == <<x>>
<1>1. s = [i \in 1 .. 1 |-> s[i]] /\ s[1] = x
  OBVIOUS
<1>2. IsSequence(s) /\ Len(s) = 1
  <2> HIDE DEF s
  <2> QED BY <1>1, SeqMade
<1>3. \A i \in 1 .. Len(s) : i = 1 /\ s[i] = x
  BY <1>2
<1>4. 1 \in 1 .. Len(s)
  BY <1>2
<1> HIDE DEF s
<1>5. PlacedOnce(s)
  BY <1>3 DEF PlacedOnce
<1>6. CASE x.op = "label"
  <2>1. Placed(s) = {x.arg} /\ Targets(s) = {}
    BY <1>3, <1>4, <1>6 DEF Placed, Targets, Jumps
  <2> QED BY <1>2, <1>5, <1>6, <2>1 DEF Piece, Jumps, s
<1>7. CASE x.op # "label"
  <2>1. Placed(s) = {} /\ Targets(s) \subseteq {x.arg} /\ (x.op \notin Jumps => Targets(s) = {})
    BY <1>3, <1>4, <1>7 DEF Placed, Targets
  <2> QED BY <1>2, <1>5, <1>7, <2>1 DEF Piece, s
<1> QED BY <1>6, <1>7

LEMMA NoPiece == Piece(<<>>, {}, {})
<1>1. <<>> \in Seq({}) /\ Len(<<>>) = 0
  OBVIOUS
<1>2. IsSequence(<<>>)
  BY <1>1, SeqIsSequence
<1> QED BY <1>1, <1>2 DEF Piece, Placed, Targets, PlacedOnce

LEMMA PieceMore ==
  ASSUME NEW s, NEW L, NEW T, Piece(s, L, T), NEW U, T \subseteq U
  PROVE  Piece(s, L, U)
BY DEF Piece

LEMMA PairJoined == ASSUME NEW x, NEW y PROVE <<x, y>> = <<x>> \o <<y>>
<1> DEFINE S == {x, y}
<1>1. <<x>> \in Seq(S) /\ <<y>> \in Seq(S) /\ <<x, y>> \in Seq(S)
      /\ Len(<<x>>) = 1 /\ Len(<<y>>) = 1 /\ Len(<<x, y>>) = 2
  OBVIOUS
<1> HIDE DEF S
<1>2. /\ <<x>> \o <<y>> \in Seq(S) /\ Len(<<x>> \o <<y>>) = 2
      /\ (<<x>> \o <<y>>)[1] = x /\ (<<x>> \o <<y>>)[2] = y
  BY <1>1
<1> DEFINE c == <<x>> \o <<y>>
           d == <<x, y>>
<1>3. d \in Seq(S) /\ Len(d) = 2 /\ d[1] = x /\ d[2] = y
  BY <1>1
<1>4. c \in Seq(S) /\ Len(c) = 2 /\ c[1] = x /\ c[2] = y
  BY <1>2
<1> HIDE DEF c, d
<1>5. c = d
  BY <1>3, <1>4
<1> QED BY <1>5 DEF c, d

LEMMA TripleJoined == ASSUME NEW x, NEW y, NEW z PROVE <<x, y, z>> = <<x, y>> \o <<z>>
<1> DEFINE S == {x, y, z}
<1>1. <<x, y>> \in Seq(S) /\ <<z>> \in Seq(S) /\ <<x, y, z>> \in Seq(S)
      /\ Len(<<x, y>>) = 2 /\ Len(<<z>>) = 1 /\ Len(<<x, y, z>>) = 3
  OBVIOUS
<1> HIDE DEF S
<1> QED BY <1>1

LEMMA TwoPieces ==
  ASSUME NEW x, NEW y, NEW L, NEW T, NEW M, NEW U, Piece(<<x>>, L, T), Piece(<<y>>, M, U),
         L \cap M = {}
  PROVE  Piece(<<x, y>>, L \cup M, T \cup U)
<1>1. Piece(<<x>> \o <<y>>, L \cup M, T \cup U)
  BY PieceJoined, Zenon
<1> QED BY <1>1, PairJoined, Zenon

LEMMA ThreePieces ==
  ASSUME NEW x, NEW y, NEW z, NEW L, NEW T, NEW M, NEW U, NEW N, NEW V,
         Piece(<<x>>, L, T), Piece(<<y>>, M, U), Piece(<<z>>, N, V),
         L \cap M = {}, (L \cup M) \cap N = {}
  PROVE  Piece(<<x, y, z>>, L \cup M \cup N, T \cup U \cup V)
<1>1. Piece(<<x, y>>, L \cup M, T \cup U)
  BY TwoPieces, Zenon
<1>2. Piece(<<x, y>> \o <<z>>, L \cup M \cup N, T \cup U \cup V)
  BY <1>1, PieceJoined, Zenon
<1> QED BY <1>2, TripleJoined, Zenon

-----------------------------------------------------------------------------
(* Code is appended to the function.                                         *)

\* What a statement emits: the labels it places were owed or are new, what it
\* refers to is placed or owed afterwards, and nothing owed is forgotten.
Emits(c, m, D, s, L, T, n, E) ==
  /\ Piece(s, L, T) /\ n \in Nat /\ m <= n
  /\ L \subseteq D \cup m .. n - 1 /\ L \cap E = {}
  /\ T \subseteq Placed(c) \cup L \cup E
  /\ D \subseteq E \cup L /\ E \subseteq D \cup m .. n - 1

LEMMA CodeGrows ==
  ASSUME NEW c, NEW m, NEW D, CodeOK(c, m, D),
         NEW s, NEW L, NEW T, NEW n, NEW E, Emits(c, m, D, s, L, T, n, E)
  PROVE  CodeOK(c \o s, n, E) /\ Placed(c \o s) = Placed(c) \cup L
<1> DEFINE P == Placed(c)
           e == c \o s
<1>1. /\ Piece(c, P, P \cup D) /\ m \in Nat \ {0} /\ P \subseteq 1 .. m - 1 /\ D \subseteq 1 .. m - 1
      /\ P \cap D = {}
  BY DEF CodeOK
<1>2. /\ Piece(s, L, T) /\ n \in Nat /\ m <= n
      /\ L \subseteq D \cup m .. n - 1 /\ L \cap E = {}
      /\ T \subseteq P \cup L \cup E
      /\ D \subseteq E \cup L /\ E \subseteq D \cup m .. n - 1
  BY DEF Emits
<1> HIDE DEF P
<1>3. \A k \in 1 .. m - 1 : k \notin m .. n - 1 /\ k \in 1 .. n - 1
  BY <1>1, <1>2
<1>4. \A k \in m .. n - 1 : k \in 1 .. n - 1
  BY <1>1, <1>2
<1>5. P \cap L = {} /\ P \cap E = {}
  BY <1>1, <1>2, <1>3
<1>6. Piece(e, P \cup L, P \cup D \cup T)
  BY <1>1, <1>2, <1>5, PieceJoined, Zenon
<1>7. Placed(e) = P \cup L /\ Piece(e, P \cup L, P \cup L \cup E)
  <2>1. P \cup D \cup T \subseteq P \cup L \cup E
    BY <1>2
  <2> QED BY <1>6, <2>1, PieceMore, Zenon DEF Piece
<1>8. P \cup L \subseteq 1 .. n - 1 /\ E \subseteq 1 .. n - 1 /\ (P \cup L) \cap E = {}
  BY <1>1, <1>2, <1>3, <1>4, <1>5
<1>9. n \in Nat \ {0}
  BY <1>1, <1>2
<1> HIDE DEF e
<1> QED BY <1>7, <1>8, <1>9 DEF CodeOK, P, e

-----------------------------------------------------------------------------
(* Statements are begun and finished.                                        *)

\* One more number to count.
LEMMA CountOneMore ==
  ASSUME NEW n \in Nat, NEW A, A \subseteq 1 .. n
  PROVE  /\ IsFiniteSet(A) /\ Cardinality(A) \in Nat
         /\ Cardinality(A \cup {n + 1}) = Cardinality(A) + 1
<1>1. IsFiniteSet(1 .. n)
  BY FS_Interval
<1>2. IsFiniteSet(A) /\ Cardinality(A) \in Nat
  BY <1>1, FS_Subset, FS_CardinalityType
<1>3. n + 1 \notin A
  <2>1. n + 1 \notin 1 .. n
    OBVIOUS
  <2> QED BY <2>1
<1> QED BY <1>2, <1>3, FS_AddElement

\* What a statement adds to the stack it is put on.
Adds(u, x, o) ==
  /\ Owed(o) = Owed(u) \cup Owes(x)
  /\ Cardinality(FrameItems(u)) \in Nat /\ Cardinality(ScopeItems(u)) \in Nat
  /\ Cardinality(FrameItems(o)) = Cardinality(FrameItems(u)) + (IF HasFrame(x) THEN 1 ELSE 0)
  /\ Cardinality(ScopeItems(o)) = Cardinality(ScopeItems(u)) + (IF HasScope(x) THEN 1 ELSE 0)

\* The stack o is u with x on it.
On(u, x, o) ==
  /\ IsSequence(u) /\ IsSequence(o) /\ Len(o) = Len(u) + 1
  /\ \A i \in 1 .. Len(u) : o[i] = u[i]
  /\ o[Len(u) + 1] = x

LEMMA OnAdds ==
  ASSUME NEW u, NEW x, NEW o, On(u, x, o)
  PROVE  Adds(u, x, o)
<1> DEFINE n == Len(u)
           A == FrameItems(u)
           B == ScopeItems(u)
<1>1. n \in Nat /\ Len(o) = n + 1 /\ o[n + 1] = x /\ \A i \in 1 .. n : o[i] = u[i]
  BY SeqTyped DEF On
<1> HIDE DEF n
<1>2. \A i \in 1 .. n + 1 : i \in 1 .. n \/ i = n + 1
  BY <1>1
<1>3. \A i \in 1 .. n : i \in 1 .. n + 1 /\ i # n + 1
  BY <1>1
<1>4. n + 1 \in 1 .. n + 1 /\ n + 1 \notin 1 .. n
  BY <1>1
<1>5. Owed(o) = Owed(u) \cup Owes(x)
  <2>1. ASSUME NEW l \in Owed(o) PROVE l \in Owed(u) \cup Owes(x)
    <3>1. PICK i \in 1 .. n + 1 : l \in Owes(o[i])
      BY <1>1 DEF Owed
    <3> QED BY <1>1, <1>2, <3>1 DEF Owed, n
  <2>2. ASSUME NEW l \in Owed(u) PROVE l \in Owed(o)
    <3>1. PICK i \in 1 .. n : l \in Owes(u[i])
      BY DEF Owed, n
    <3> QED BY <1>1, <1>3, <3>1 DEF Owed
  <2>3. ASSUME NEW l \in Owes(x) PROVE l \in Owed(o)
    BY <1>1, <1>4 DEF Owed
  <2> QED BY <2>1, <2>2, <2>3
<1>6. FrameItems(o) = IF HasFrame(x) THEN A \cup {n + 1} ELSE A
  <2>1. ASSUME NEW i \in 1 .. n PROVE i \in FrameItems(o) <=> i \in A
    BY <1>1, <1>3 DEF FrameItems, n
  <2>2. n + 1 \in FrameItems(o) <=> HasFrame(x)
    BY <1>1, <1>4 DEF FrameItems
  <2>3. FrameItems(o) \subseteq 1 .. n + 1 /\ A \subseteq 1 .. n
    BY <1>1 DEF FrameItems, n
  <2> QED BY <1>2, <1>4, <2>1, <2>2, <2>3
<1>7. ScopeItems(o) = IF HasScope(x) THEN B \cup {n + 1} ELSE B
  <2>1. ASSUME NEW i \in 1 .. n PROVE i \in ScopeItems(o) <=> i \in B
    BY <1>1, <1>3 DEF ScopeItems, n
  <2>2. n + 1 \in ScopeItems(o) <=> HasScope(x)
    BY <1>1, <1>4 DEF ScopeItems
  <2>3. ScopeItems(o) \subseteq 1 .. n + 1 /\ B \subseteq 1 .. n
    BY <1>1 DEF ScopeItems, n
  <2> QED BY <1>2, <1>4, <2>1, <2>2, <2>3
<1>8. A \subseteq 1 .. n /\ B \subseteq 1 .. n
  BY DEF FrameItems, ScopeItems, n
<1> HIDE DEF A, B
<1>9. /\ Cardinality(A) \in Nat /\ Cardinality(B) \in Nat
      /\ Cardinality(A \cup {n + 1}) = Cardinality(A) + 1
      /\ Cardinality(B \cup {n + 1}) = Cardinality(B) + 1
  BY <1>1, <1>8, CountOneMore, Zenon
<1>10. Cardinality(FrameItems(o)) = Cardinality(A) + (IF HasFrame(x) THEN 1 ELSE 0)
  <2>1. CASE HasFrame(x)
    BY <1>6, <1>9, <2>1
  <2>2. CASE ~ HasFrame(x)
    BY <1>6, <1>9, <2>2
  <2> QED BY <2>1, <2>2
<1>11. Cardinality(ScopeItems(o)) = Cardinality(B) + (IF HasScope(x) THEN 1 ELSE 0)
  <2>1. CASE HasScope(x)
    BY <1>7, <1>9, <2>1
  <2>2. CASE ~ HasScope(x)
    BY <1>7, <1>9, <2>2
  <2> QED BY <2>1, <2>2
<1> QED BY <1>5, <1>9, <1>10, <1>11, Zenon DEF Adds, A, B

LEMMA Pushed ==
  ASSUME NEW u, NEW P, StackOK(u, P), NEW x, ItemOK(x, P), Nests(u[Len(u)], x),
         Owes(x) \cap Owed(u) = {}
  PROVE  StackOK(Append(u, x), P) /\ Adds(u, x, Append(u, x))
         /\ Append(u, x)[Len(Append(u, x))] = x
<1> DEFINE o == Append(u, x)
           n == Len(u)
<1>1. IsSequence(u) /\ n \in Nat /\ n >= 1
  BY SeqTyped DEF StackOK
<1>2. /\ IsSequence(o) /\ Len(o) = n + 1 /\ \A i \in 1 .. n : o[i] = u[i]
      /\ o[n + 1] = x
  BY <1>1, AppendIs
<1> HIDE DEF o, n
<1>3. On(u, x, o)
  BY <1>1, <1>2, Zenon DEF On, n
<1>4. Adds(u, x, o)
  BY <1>3, OnAdds
<1>5. \A i \in 1 .. Len(o) : i \in 1 .. n \/ i = n + 1
  BY <1>1, <1>2
<1>6. \A i \in 1 .. Len(o) : ItemOK(o[i], P)
  BY <1>2, <1>5 DEF StackOK, n
<1>7. ASSUME NEW i \in 2 .. Len(o) PROVE Nests(o[i - 1], o[i])
  <2>1. CASE i = n + 1
    <3>1. i - 1 = n /\ n \in 1 .. n
      BY <1>1, <2>1
    <3> QED BY <1>2, <2>1, <3>1 DEF n
  <2>2. CASE i # n + 1
    <3>1. i \in 2 .. n /\ i \in 1 .. n /\ i - 1 \in 1 .. n
      BY <1>1, <1>2, <2>2
    <3>2. Nests(u[i - 1], u[i])
      BY <3>1, Zenon DEF StackOK, n
    <3> QED BY <1>2, <3>1, <3>2
  <2> QED BY <2>1, <2>2
<1>8. ASSUME NEW i \in 1 .. Len(o), NEW j \in 1 .. Len(o), i # j
      PROVE  Owes(o[i]) \cap Owes(o[j]) = {}
  <2>1. \A k \in 1 .. n : Owes(u[k]) \cap Owes(x) = {}
    BY DEF Owed, n
  <2>2. \A k, l \in 1 .. n : k # l => Owes(u[k]) \cap Owes(u[l]) = {}
    BY DEF StackOK, n
  <2>3. CASE i \in 1 .. n /\ j \in 1 .. n
    BY <1>2, <1>8, <2>2, <2>3
  <2>4. CASE i = n + 1 \/ j = n + 1
    BY <1>2, <1>5, <1>8, <2>1, <2>4
  <2> QED BY <1>5, <2>3, <2>4
<1>9. o[1].kind = "root" /\ o[1].left = 0 /\ Len(o) >= 1
  <2>1. 1 \in 1 .. n
    BY <1>1
  <2> QED BY <1>1, <1>2, <2>1 DEF StackOK
<1>10. StackOK(o, P)
  BY <1>2, <1>6, <1>7, <1>8, <1>9, Zenon DEF StackOK
<1> QED BY <1>2, <1>4, <1>10 DEF o

LEMMA Popped ==
  ASSUME NEW o, NEW P, StackOK(o, P), Len(o) > 1
  PROVE  LET u == SubSeq(o, 1, Len(o) - 1)
             x == o[Len(o)]
         IN  /\ StackOK(u, P) /\ Adds(u, x, o) /\ ItemOK(x, P) /\ Nests(u[Len(u)], x)
             /\ Owes(x) \cap Owed(u) = {}
             /\ Len(u) = Len(o) - 1 /\ u[Len(u)] = o[Len(o) - 1]
<1> DEFINE m == Len(o)
           n == m - 1
           u == SubSeq(o, 1, m - 1)
           x == o[m]
<1>1. IsSequence(o) /\ m \in Nat /\ n \in Nat /\ n >= 1 /\ n \in 0 .. Len(o) /\ m = n + 1
  BY SeqTyped DEF StackOK
<1>2. IsSequence(u) /\ Len(u) = n /\ \A i \in 1 .. n : u[i] = o[i]
  BY <1>1, PrefixIs
<1> HIDE DEF u, m
<1>3. On(u, x, o)
  BY <1>1, <1>2 DEF On, m
<1>4. Adds(u, x, o)
  BY <1>3, OnAdds
<1>5. n \in 1 .. n /\ 1 \in 1 .. n /\ m \in 1 .. m /\ m \in 2 .. m /\ m - 1 = n
  BY <1>1
<1>6. \A i \in 1 .. n : i \in 1 .. m /\ i # m
  BY <1>1
<1> HIDE DEF n
<1>7. ItemOK(x, P) /\ Nests(u[n], x)
  <2>1. ItemOK(o[m], P) /\ Nests(o[m - 1], o[m])
    BY <1>5, Zenon DEF StackOK, m
  <2> QED BY <1>2, <1>5, <2>1
<1>8. Owes(x) \cap Owed(u) = {}
  <2>1. \A i \in 1 .. n : Owes(o[m]) \cap Owes(o[i]) = {}
    BY <1>5, <1>6 DEF StackOK, m
  <2> QED BY <1>2, <2>1 DEF Owed
<1>9. StackOK(u, P)
  <2>1. u[1].kind = "root" /\ u[1].left = 0
    BY <1>2, <1>5 DEF StackOK
  <2>2. \A i \in 1 .. n : ItemOK(u[i], P)
    BY <1>2, <1>6 DEF StackOK, m
  <2>3. ASSUME NEW i \in 2 .. n PROVE Nests(u[i - 1], u[i])
    <3>1. i \in 2 .. m /\ i \in 1 .. n /\ i - 1 \in 1 .. n
      BY <1>1
    <3>2. Nests(o[i - 1], o[i])
      BY <3>1, Zenon DEF StackOK, m
    <3> QED BY <1>2, <3>1, <3>2
  <2>4. \A i, j \in 1 .. n : i # j => Owes(u[i]) \cap Owes(u[j]) = {}
    BY <1>2, <1>6 DEF StackOK, m
  <2> QED BY <1>1, <1>2, <2>1, <2>2, <2>3, <2>4 DEF StackOK
<1>10. Len(u) = m - 1 /\ u[Len(u)] = o[m - 1]
  BY <1>2, <1>5
<1>11. Nests(u[Len(u)], x)
  BY <1>2, <1>7
<1> QED BY <1>4, <1>7, <1>8, <1>9, <1>10, <1>11 DEF u, m

LEMMA StackMore ==
  ASSUME NEW o, NEW P, StackOK(o, P), NEW Q, P \subseteq Q
  PROVE  StackOK(o, Q)
<1>1. \A i \in 1 .. Len(o) : ItemOK(o[i], Q)
  BY DEF StackOK, ItemOK
<1> QED BY <1>1, Zenon DEF StackOK

-----------------------------------------------------------------------------
(* The deferred statements of a scope, and of all scopes.                    *)

LEMMA RunsIn ==
  ASSUME NEW stack, IsSequence(stack), NEW b, NEW X,
         \A n \in 1 .. Len(stack) :
           b \/ ~ decls[stack[n]].err => RunOf(stack[n]) \in Seq(X)
  PROVE  Runs(stack, b) \in Seq(X)
<1> DEFINE N == Len(stack)
           S == Seq(X)
           x == <<>>
           r(n) == RunOf(stack[n])
           After(n, g) == IF b \/ ~decls[stack[n]].err THEN r(n) \o g ELSE g
<1>0. N \in Nat
  BY SeqTyped
<1>1. x \in S
  OBVIOUS
<1>2. ASSUME NEW n \in 1 .. N, NEW g \in S PROVE After(n, g) \in S
  <2>1. CASE b \/ ~ decls[stack[n]].err
    <3>1. r(n) \in S
      BY <2>1
    <3> HIDE DEF r
    <3>2. r(n) \o g \in S
      BY <3>1
    <3> QED BY <2>1, <3>2
  <2> QED BY <2>1
<1> HIDE DEF S, x, r, N
<1> DEFINE step == [n \in 1 .. N |-> [g \in S |-> After(n, g)]]
           R(f) == [n \in 0 .. N |-> IF n = 0 THEN x ELSE After(n, f[n - 1])]
<1> HIDE DEF After
<1>3. step \in [1 .. N -> [S -> S]]
  BY <1>2
<1>4. PICK f : IsChain(f, N, S, x, step)
  <2> HIDE DEF step
  <2> QED BY <1>0, <1>1, <1>3, ChainExists
<1>5. f \in [0 .. N -> S] /\ f[0] = x /\ \A n \in 1 .. N : f[n] = step[n][f[n - 1]]
  BY <1>4, Zenon DEF IsChain
<1>6. f = R(f)
  <2>1. \A n \in 1 .. N : f[n - 1] \in S
    BY <1>0, <1>5
  <2>2. \A n \in 1 .. N : \A g \in S : step[n][g] = After(n, g)
    OBVIOUS
  <2> HIDE DEF step
  <2>3. \A n \in 1 .. N : f[n] = After(n, f[n - 1])
    BY <1>5, <2>1, <2>2, Zenon
  <2> QED BY <1>0, <1>5, <2>3
<1> DEFINE F == CHOOSE h : h = R(h)
<1>7. Runs(stack, b) = F[N]
  BY Zenon DEF Runs, x, After, r, N
<1> HIDE DEF R
<1>8. F = R(F)
  BY <1>6, Zenon
<1> HIDE DEF F
<1>9. F[0] = x /\ \A n \in 1 .. N : F[n] = After(n, F[n - 1])
  BY <1>0, <1>8 DEF R
<1>10. \A n \in 0 .. N : F[n] \in S
  <2>1. F[0] \in S /\ \A n \in 1 .. N : F[n - 1] \in S => F[n] \in S
    BY <1>1, <1>2, <1>9
  <2> QED BY <1>0, <2>1, ChainHolds
<1>11. N \in 0 .. N
  BY <1>0
<1> QED BY <1>7, <1>10, <1>11 DEF S

LEMMA ScopeRunsIn ==
  ASSUME ScopesOK(scopes), NEW b, NEW X,
         \A n \in 1 .. Len(scopes) : \A k \in 1 .. Len(scopes[n]) :
           b \/ ~ decls[scopes[n][k]].err => RunOf(scopes[n][k]) \in Seq(X)
  PROVE  ScopeRuns(b) \in Seq(X)
<1> DEFINE N == Len(scopes)
           S == Seq(X)
           x == <<>>
           r(n) == Runs(scopes[n], b)
           After(n, g) == r(n) \o g
<1>0. N \in Nat
  BY SeqTyped DEF ScopesOK
<1>1. x \in S
  OBVIOUS
<1>2. ASSUME NEW n \in 1 .. N, NEW g \in S PROVE After(n, g) \in S
  <2>1. IsSequence(scopes[n])
    BY DEF ScopesOK
  <2>2. r(n) \in S
    BY <2>1, RunsIn
  <2> HIDE DEF r
  <2> QED BY <2>2
<1> HIDE DEF S, x, r, N
<1> DEFINE step == [n \in 1 .. N |-> [g \in S |-> After(n, g)]]
           R(f) == [n \in 0 .. N |-> IF n = 0 THEN x ELSE After(n, f[n - 1])]
<1> HIDE DEF After
<1>3. step \in [1 .. N -> [S -> S]]
  BY <1>2
<1>4. PICK f : IsChain(f, N, S, x, step)
  <2> HIDE DEF step
  <2> QED BY <1>0, <1>1, <1>3, ChainExists
<1>5. f \in [0 .. N -> S] /\ f[0] = x /\ \A n \in 1 .. N : f[n] = step[n][f[n - 1]]
  BY <1>4, Zenon DEF IsChain
<1>6. f = R(f)
  <2>1. \A n \in 1 .. N : f[n - 1] \in S
    BY <1>0, <1>5
  <2>2. \A n \in 1 .. N : \A g \in S : step[n][g] = After(n, g)
    OBVIOUS
  <2> HIDE DEF step
  <2>3. \A n \in 1 .. N : f[n] = After(n, f[n - 1])
    BY <1>5, <2>1, <2>2, Zenon
  <2> QED BY <1>0, <1>5, <2>3
<1> DEFINE F == CHOOSE h : h = R(h)
<1>7. ScopeRuns(b) = F[N]
  BY Zenon DEF ScopeRuns, x, After, r, N
<1> HIDE DEF R
<1>8. F = R(F)
  BY <1>6, Zenon
<1> HIDE DEF F
<1>9. F[0] = x /\ \A n \in 1 .. N : F[n] = After(n, F[n - 1])
  BY <1>0, <1>8 DEF R
<1>10. \A n \in 0 .. N : F[n] \in S
  <2>1. F[0] \in S /\ \A n \in 1 .. N : F[n - 1] \in S => F[n] \in S
    BY <1>1, <1>2, <1>9
  <2> QED BY <1>0, <2>1, ChainHolds
<1>11. N \in 0 .. N
  BY <1>0
<1> QED BY <1>7, <1>10, <1>11 DEF S

\* What the cleanup of the deferred statements S is made of, when the jumps of
\* their bodies go to labels of T.
Cleanup(S, T) ==
  {Instr("run", d, FALSE) : d \in S}
  \cup {Instr("bodyreturn", 0, decls[d].body.sure) : d \in S}
  \cup UNION {{Instr("bodyjump", l, decls[d].body.sure) : l \in T} : d \in S}
\* Every jump with a target goes to a label of T.
TargetsLive(T) ==
  \A kind, user : TargetFrame(kind, user) # 0 => JumpTarget(kind, user) \in T

LEMMA RunOfIn ==
  ASSUME NEW S, NEW d \in S, NEW T, TargetsLive(T), Lowerable(d)
  PROVE  RunOf(d) \in Seq(Cleanup(S, T))
<1> DEFINE X == Cleanup(S, T)
           body == decls[d].body
           t == JumpTarget(body.exit, body.user)
           a == Instr("run", d, FALSE)
           r == Instr("bodyreturn", 0, body.sure)
           j == Instr("bodyjump", t, body.sure)
<1>1. a \in X /\ r \in X
  BY DEF Cleanup
<1>2. body.exit \notin {"none", "return"} => j \in X
  <2>1. body.exit \notin {"none", "return"} => t \in T
    BY DEF TargetsLive, Lowerable
  <2>2. ASSUME NEW l \in T PROVE Instr("bodyjump", l, decls[d].body.sure) \in X
    <3> DEFINE J == {Instr("bodyjump", k, decls[d].body.sure) : k \in T}
               U == UNION {{Instr("bodyjump", k, decls[c].body.sure) : k \in T} : c \in S}
    <3>1. Instr("bodyjump", l, decls[d].body.sure) \in J
      OBVIOUS
    <3>2. J \subseteq U
      OBVIOUS
    <3>3. U \subseteq X
      BY Zenon DEF Cleanup
    <3> HIDE DEF J, U, X
    <3> QED BY <3>1, <3>2, <3>3
  <2> QED BY <2>1, <2>2
<1>3. \/ body.exit = "none" /\ Exit(body) = <<>>
      \/ body.exit = "return" /\ Exit(body) = <<r>>
      \/ body.exit \notin {"none", "return"} /\ Exit(body) = <<j>>
  <2> DEFINE e == body.exit
             q == <<r>>
             w == <<j>>
             z == <<>>
  <2>1. Exit(body) = CASE e = "none" -> z [] e = "return" -> q [] OTHER -> w
    BY Zenon DEF Exit
  <2> HIDE DEF e, q, w, z
  <2>2. \/ e = "none" /\ Exit(body) = z
        \/ e = "return" /\ Exit(body) = q
        \/ e \notin {"none", "return"} /\ Exit(body) = w
    BY <2>1
  <2> QED BY <2>2, Zenon DEF e, q, w, z
<1>4. RunOf(d) = <<a>> \o Exit(body)
  BY Zenon DEF RunOf
<1> HIDE DEF X, a, r, j, body, t
<1>5. <<>> \in Seq(X) /\ <<a>> \in Seq(X) /\ <<r>> \in Seq(X) /\ (j \in X => <<j>> \in Seq(X))
  BY <1>1
<1>6. Exit(body) \in Seq(X)
  BY <1>2, <1>3, <1>5, Zenon
<1>7. <<a>> \o Exit(body) \in Seq(X)
  BY <1>5, <1>6
<1> QED BY <1>4, <1>7 DEF X

LEMMA CleanupIs ==
  ASSUME NEW S, NEW T, NEW r \in Cleanup(S, T)
  PROVE  /\ r.op \in CleanupOps
         /\ r.op = "bodyjump" => r.arg \in T
         /\ r.op = "run" => r.arg \in S
<1>1. CASE r \in {Instr("run", d, FALSE) : d \in S}
  BY <1>1 DEF Instr, CleanupOps
<1>2. CASE r \in {Instr("bodyreturn", 0, decls[d].body.sure) : d \in S}
  BY <1>2 DEF Instr, CleanupOps
<1>3. CASE r \in UNION {{Instr("bodyjump", l, decls[d].body.sure) : l \in T} : d \in S}
  <2>1. PICK d \in S : r \in {Instr("bodyjump", l, decls[d].body.sure) : l \in T}
    BY <1>3
  <2>2. PICK l \in T : r = Instr("bodyjump", l, decls[d].body.sure)
    BY <2>1
  <2> QED BY <2>2 DEF Instr, CleanupOps
<1> QED BY <1>1, <1>2, <1>3 DEF Cleanup

LEMMA CleanupSeq ==
  ASSUME NEW S, NEW T, NEW s \in Seq(Cleanup(S, T))
  PROVE  /\ IsSequence(s)
         /\ \A i \in 1 .. Len(s) : /\ s[i].op \in CleanupOps
                                   /\ s[i].op = "bodyjump" => s[i].arg \in T
                                   /\ s[i].op = "run" => s[i].arg \in S
<1> DEFINE X == Cleanup(S, T)
<1>1. \A r \in X : /\ r.op \in CleanupOps
                   /\ r.op = "bodyjump" => r.arg \in T
                   /\ r.op = "run" => r.arg \in S
  BY CleanupIs
<1> HIDE DEF X
<1>2. s \in Seq(X)
  BY DEF X
<1>3. IsSequence(s) /\ \A i \in 1 .. Len(s) : s[i] \in X
  BY <1>2, SeqIsSequence
<1> QED BY <1>1, <1>3

LEMMA CleanupPieces ==
  ASSUME NEW S, NEW T, NEW s \in Seq(Cleanup(S, T))
  PROVE  Piece(s, {}, T)
<1>1. /\ IsSequence(s)
      /\ \A i \in 1 .. Len(s) : s[i].op \in CleanupOps /\ (s[i].op = "bodyjump" => s[i].arg \in T)
  BY CleanupSeq
<1>2. Placed(s) = {} /\ PlacedOnce(s)
  BY <1>1 DEF Placed, PlacedOnce, CleanupOps
<1>3. Targets(s) \subseteq T
  BY <1>1 DEF Targets, Jumps, CleanupOps
<1> QED BY <1>1, <1>2, <1>3 DEF Piece

LEMMA RunsPiece ==
  ASSUME NEW stack, IsSequence(stack), NEW b, NEW T, TargetsLive(T), CanRun(stack, b)
  PROVE  Piece(Runs(stack, b), {}, T)
<1> DEFINE S == {stack[n] : n \in 1 .. Len(stack)}
<1>1. \A n \in 1 .. Len(stack) : stack[n] \in S
  OBVIOUS
<1> HIDE DEF S
<1>2. ASSUME NEW n \in 1 .. Len(stack), b \/ ~ decls[stack[n]].err
      PROVE  RunOf(stack[n]) \in Seq(Cleanup(S, T))
  <2>1. Lowerable(stack[n])
    BY <1>2 DEF CanRun
  <2> QED BY <1>1, <2>1, RunOfIn
<1>3. Runs(stack, b) \in Seq(Cleanup(S, T))
  BY <1>2, RunsIn
<1> QED BY <1>3, CleanupPieces

LEMMA ScopeRunsPiece ==
  ASSUME ScopesOK(scopes), NEW b, NEW T, TargetsLive(T),
         \A n \in 1 .. Len(scopes) : CanRun(scopes[n], b)
  PROVE  Piece(ScopeRuns(b), {}, T)
<1> DEFINE Of(n) == {scopes[n][k] : k \in 1 .. Len(scopes[n])}
           S == UNION {Of(n) : n \in 1 .. Len(scopes)}
<1>1. ASSUME NEW n \in 1 .. Len(scopes), NEW k \in 1 .. Len(scopes[n])
      PROVE  scopes[n][k] \in S
  <2>1. scopes[n][k] \in Of(n)
    OBVIOUS
  <2> HIDE DEF Of
  <2> QED BY <2>1
<1> HIDE DEF S
<1>2. ASSUME NEW n \in 1 .. Len(scopes), NEW k \in 1 .. Len(scopes[n]),
             b \/ ~ decls[scopes[n][k]].err
      PROVE  RunOf(scopes[n][k]) \in Seq(Cleanup(S, T))
  <2>1. Lowerable(scopes[n][k])
    BY <1>2 DEF CanRun
  <2> QED BY <1>1, <2>1, RunOfIn
<1>3. ScopeRuns(b) \in Seq(Cleanup(S, T))
  BY <1>2, ScopeRunsIn
<1> QED BY <1>3, CleanupPieces

LEMMA InstrPieces ==
  ASSUME NEW l, NEW f
  PROVE  /\ Piece(<<Label(l)>>, {l}, {})
         /\ Piece(<<Jump(l)>>, {}, {l}) /\ Piece(<<Branch(l)>>, {}, {l})
         /\ Piece(<<Instr("jump", l, f)>>, {}, {l}) /\ Piece(<<Instr("brz", l, f)>>, {}, {l})
         /\ Piece(<<Instr("open", l, f)>>, {}, {}) /\ Piece(<<Instr("close", l, f)>>, {}, {})
         /\ Piece(<<Instr("defer", l, f)>>, {}, {}) /\ Piece(<<Instr("value", l, f)>>, {}, {})
         /\ Piece(<<Instr("return", l, f)>>, {}, {})
<1> DEFINE I(op) == Instr(op, l, f)
<1>1. \A op : I(op).op = op /\ I(op).arg = l
  BY DEF Instr
<1>2. Label(l).op = "label" /\ Label(l).arg = l /\ Jump(l).op = "jump" /\ Jump(l).arg = l
      /\ Branch(l).op = "branch" /\ Branch(l).arg = l
  BY DEF Instr, Label, Jump, Branch
<1>3. "jump" \in Jumps /\ "branch" \in Jumps /\ "brz" \in Jumps
  BY DEF Jumps
<1>4. \A op \in {"open", "close", "defer", "value", "return"} : op # "label" /\ op \notin Jumps
  BY DEF Jumps
<1> HIDE DEF I
<1>5. Piece(<<Label(l)>>, {l}, {}) /\ Piece(<<Jump(l)>>, {}, {l}) /\ Piece(<<Branch(l)>>, {}, {l})
  BY <1>2, <1>3, OnePiece
<1>6. Piece(<<I("jump")>>, {}, {l}) /\ Piece(<<I("brz")>>, {}, {l})
  BY <1>1, <1>3, OnePiece
<1>7. \A op \in {"open", "close", "defer", "value", "return"} : Piece(<<I(op)>>, {}, {})
  BY <1>1, <1>4, OnePiece
<1> QED BY <1>5, <1>6, <1>7 DEF I

\* ir_emit_return_with_defers places its two labels and ends in the return.
EndsReturning(s) == IsSequence(s) /\ Len(s) >= 1 /\ s[Len(s)].op = "return"

LEMMA ReturnPiece ==
  ASSUME ScopesOK(scopes), labels \in Nat, NEW v, NEW T, TargetsLive(T)
  PROVE  /\ CanReturn(TRUE) =>
              /\ Piece(ReturnCode(v, TRUE), {labels, labels + 1}, {labels, labels + 1} \cup T)
              /\ EndsReturning(ReturnCode(v, TRUE))
         /\ Piece(ReturnCode(v, FALSE), {}, {})
<1> DEFINE ok == labels
           end == labels + 1
           a == <<Instr("value", v, FALSE), Instr("brz", ok, FALSE)>>
           b == ScopeRuns(TRUE)
           c == <<Jump(end), Label(ok)>>
           d == ScopeRuns(FALSE)
           e == <<Label(end), Instr("return", v, FALSE)>>
<1>1. ok # end
  OBVIOUS
<1>2. Piece(a, {}, {ok})
  <2>1. Piece(a, {} \cup {}, {} \cup {ok})
    <3> HIDE DEF ok
    <3> QED BY InstrPieces, TwoPieces, Zenon
  <2> QED BY <2>1
<1>3. CanReturn(TRUE) => Piece(b, {}, T) /\ Piece(d, {}, T)
  <2> SUFFICES ASSUME CanReturn(TRUE) PROVE Piece(b, {}, T) /\ Piece(d, {}, T)
    OBVIOUS
  <2>1. \A n \in 1 .. Len(scopes) : CanRun(scopes[n], TRUE) /\ CanRun(scopes[n], FALSE)
    BY DEF CanReturn, CanRun
  <2> QED BY <2>1, ScopeRunsPiece
<1>4. Piece(c, {ok}, {end})
  <2>1. Piece(c, {} \cup {ok}, {end} \cup {})
    <3> HIDE DEF ok, end
    <3> QED BY InstrPieces, TwoPieces, Zenon
  <2> QED BY <2>1
<1>5. Piece(e, {end}, {})
  <2>1. Piece(e, {end} \cup {}, {} \cup {})
    <3> HIDE DEF ok, end
    <3> QED BY InstrPieces, TwoPieces, Zenon
  <2> QED BY <2>1
<1>6. ReturnCode(v, TRUE) = a \o b \o c \o d \o e
  BY Zenon DEF ReturnCode
<1>7. Piece(ReturnCode(v, FALSE), {}, {})
  <2>1. Piece(<<Instr("value", v, FALSE), Instr("return", v, TRUE)>>, {} \cup {}, {} \cup {})
    BY InstrPieces, TwoPieces, Zenon
  <2> QED BY <2>1 DEF ReturnCode
<1>8. IsSequence(e) /\ Len(e) = 2 /\ e[2].op = "return"
  <2>1. Len(e) = 2 /\ e[2] = Instr("return", v, FALSE)
    OBVIOUS
  <2> QED BY <1>5, <2>1 DEF Piece, Instr
<1> HIDE DEF a, b, c, d, e, ok, end
<1> SUFFICES ASSUME CanReturn(TRUE)
             PROVE  /\ Piece(ReturnCode(v, TRUE), {ok, end}, {ok, end} \cup T)
                    /\ EndsReturning(ReturnCode(v, TRUE))
  BY <1>7 DEF ok, end
<1>9. Piece(a \o b \o c \o d, {ok}, {ok, end} \cup T)
  <2>1. Piece(a \o b, {}, {ok} \cup T)
    <3>1. Piece(a \o b, {} \cup {}, {ok} \cup T)
      BY <1>2, <1>3, PieceJoined, Zenon
    <3> QED BY <3>1
  <2>2. Piece(a \o b \o c, {ok}, {ok, end} \cup T)
    <3>1. Piece(a \o b \o c, {} \cup {ok}, ({ok} \cup T) \cup {end})
      BY <2>1, <1>4, PieceJoined, Zenon
    <3>2. {} \cup {ok} = {ok} /\ ({ok} \cup T) \cup {end} = {ok, end} \cup T
      OBVIOUS
    <3> QED BY <3>1, <3>2, Zenon
  <2>3. Piece(a \o b \o c \o d, {ok} \cup {}, ({ok, end} \cup T) \cup T)
    BY <1>3, <2>2, PieceJoined, Zenon
  <2>4. {ok} \cup {} = {ok} /\ ({ok, end} \cup T) \cup T = {ok, end} \cup T
    OBVIOUS
  <2> QED BY <2>3, <2>4, Zenon
<1>10. Piece(a \o b \o c \o d \o e, {ok, end}, {ok, end} \cup T)
  <2>1. /\ {ok} \cap {end} = {} /\ {ok} \cup {end} = {ok, end}
        /\ ({ok, end} \cup T) \cup {} = {ok, end} \cup T
    BY <1>1
  <2>2. Piece(a \o b \o c \o d \o e, {ok} \cup {end}, ({ok, end} \cup T) \cup {})
    BY <1>5, <1>9, <2>1, PieceJoined, Zenon
  <2> QED BY <2>1, <2>2, Zenon
<1>11. EndsReturning(a \o b \o c \o d \o e)
  <2> DEFINE h == a \o b \o c \o d
             w == h \o e
  <2>1. IsSequence(h)
    BY <1>9 DEF Piece
  <2>2. Len(h) \in Nat
    BY <2>1, SeqTyped
  <2> HIDE DEF h
  <2>3. IsSequence(w) /\ Len(w) = Len(h) + 2 /\ w[Len(h) + 2] = e[2]
    <3>1. IsSequence(w) /\ Len(w) = Len(h) + Len(e) /\ \A i \in 1 .. Len(e) : w[Len(h) + i] = e[i]
      <4>1. IsSequence(e)
        BY <1>8
      <4> QED BY <2>1, <4>1, ConcatIs
    <3>2. 2 \in 1 .. Len(e)
      BY <1>8
    <3> HIDE DEF w
    <3> QED BY <1>8, <3>1, <3>2
  <2> HIDE DEF w
  <2>4. EndsReturning(w)
    BY <1>8, <2>2, <2>3 DEF EndsReturning
  <2> QED BY <2>4 DEF w, h
<1> QED BY <1>6, <1>10, <1>11, Zenon

-----------------------------------------------------------------------------
(* A step of the lowering.                                                   *)

FrameOf(x) == IF HasFrame(x) THEN 1 ELSE 0
ScopeOf(x) == IF HasScope(x) THEN 1 ELSE 0
LastOf(o) == o[Len(o)]
Below(o) == SubSeq(o, 1, Len(o) - 1)

LEMMA PushedStack ==
  ASSUME NEW u, NEW P, NEW D, NEW nf, NEW ns, Stack(u, P, D, nf, ns),
         NEW x, ItemOK(x, P), Nests(LastOf(u), x), Owes(x) \cap D = {}
  PROVE  /\ Stack(Append(u, x), P, D \cup Owes(x), nf + FrameOf(x), ns + ScopeOf(x))
         /\ LastOf(Append(u, x)) = x
<1>1. StackOK(u, P) /\ Owed(u) = D /\ Nests(u[Len(u)], x)
      /\ Cardinality(FrameItems(u)) = nf /\ Cardinality(ScopeItems(u)) = ns
  BY Zenon DEF Stack, LastOf
<1> DEFINE o == Append(u, x)
<1>2. StackOK(o, P) /\ Adds(u, x, o) /\ o[Len(o)] = x
  BY <1>1, Pushed, Zenon
<1> HIDE DEF o
<1>3. Stack(o, P, D \cup Owes(x), nf + FrameOf(x), ns + ScopeOf(x))
  BY <1>1, <1>2, Zenon DEF Stack, Adds, FrameOf, ScopeOf
<1> QED BY <1>2, <1>3, Zenon DEF LastOf, o

LEMMA PoppedStack ==
  ASSUME NEW o, NEW P, NEW D, NEW nf, NEW ns, Stack(o, P, D, nf, ns), Len(o) > 1
  PROVE  LET x == LastOf(o)
         IN  /\ Stack(Below(o), P, D \ Owes(x), nf - FrameOf(x), ns - ScopeOf(x))
             /\ ItemOK(x, P) /\ Nests(LastOf(Below(o)), x) /\ Owes(x) \subseteq D
             /\ nf - FrameOf(x) \in Nat /\ ns - ScopeOf(x) \in Nat /\ nf \in Nat /\ ns \in Nat
             /\ Len(Below(o)) = Len(o) - 1
<1> DEFINE x == o[Len(o)]
           u == SubSeq(o, 1, Len(o) - 1)
           a == Cardinality(FrameItems(u))
           b == Cardinality(ScopeItems(u))
<1>1. StackOK(o, P) /\ Owed(o) = D
      /\ Cardinality(FrameItems(o)) = nf /\ Cardinality(ScopeItems(o)) = ns
  BY Zenon DEF Stack
<1>2. /\ StackOK(u, P) /\ Adds(u, x, o) /\ ItemOK(x, P) /\ Nests(u[Len(u)], x)
      /\ Owes(x) \cap Owed(u) = {} /\ Len(u) = Len(o) - 1
  BY <1>1, Popped
<1> HIDE DEF x, u
<1>3. /\ D = Owed(u) \cup Owes(x) /\ a \in Nat /\ b \in Nat
      /\ nf = a + FrameOf(x) /\ ns = b + ScopeOf(x)
  BY <1>1, <1>2, Zenon DEF Adds, FrameOf, ScopeOf
<1>4. FrameOf(x) \in {0, 1} /\ ScopeOf(x) \in {0, 1}
  BY DEF FrameOf, ScopeOf
<1> HIDE DEF a, b
<1>5. /\ a = nf - FrameOf(x) /\ b = ns - ScopeOf(x) /\ nf \in Nat /\ ns \in Nat
  BY <1>3, <1>4
<1>6. Owed(u) = D \ Owes(x) /\ Owes(x) \subseteq D
  BY <1>2, <1>3
<1>7. Stack(u, P, D \ Owes(x), nf - FrameOf(x), ns - ScopeOf(x))
  BY <1>2, <1>5, <1>6, Zenon DEF Stack, a, b
<1>8. nf - FrameOf(x) \in Nat /\ ns - ScopeOf(x) \in Nat
  BY <1>3, <1>5
<1> QED BY <1>2, <1>5, <1>6, <1>7, <1>8, Zenon DEF LastOf, Below, x, u

LEMMA StackMorePlaced ==
  ASSUME NEW o, NEW P, NEW D, NEW nf, NEW ns, Stack(o, P, D, nf, ns), NEW Q, P \subseteq Q
  PROVE  Stack(o, Q, D, nf, ns)
BY StackMore, Zenon DEF Stack

LEMMA FramesMore ==
  ASSUME NEW fr, NEW live, FramesOK(fr, live), NEW more, live \subseteq more
  PROVE  FramesOK(fr, more)
BY DEF FramesOK

\* The pieces of the invariant after a step.
LEMMA Lowered ==
  ASSUME NEW o, NEW fr, NEW sc, NEW c, NEW m, LowerInv(o, fr, sc, c, m),
         NEW s, NEW L, NEW T, NEW n, NEW E, Emits(c, m, Owed(o), s, L, T, n, E),
         NEW q, NEW gr, NEW tc, Stack(q, Placed(c) \cup L, E, Len(gr), Len(tc)),
         LastOf(q).kind # "match", FramesOK(gr, Placed(c) \cup L \cup E), ScopesOK(tc)
  PROVE  LowerInv(q, gr, tc, c \o s, n)
<1> DEFINE e == c \o s
<1>1. CodeOK(c, m, Owed(o))
  BY DEF LowerInv
<1>2. CodeOK(e, n, E) /\ Placed(e) = Placed(c) \cup L
  BY <1>1, CodeGrows, ZenonT(40)
<1> HIDE DEF e
<1>3. Owed(q) = E
  BY DEF Stack
<1> QED BY <1>2, <1>3, Zenon DEF LowerInv, LastOf, e

\* Everything live stays live: what is owed no more has been placed.
LEMMA StaysLive ==
  ASSUME NEW c, NEW m, NEW D, NEW s, NEW L, NEW T, NEW n, NEW E, Emits(c, m, D, s, L, T, n, E),
         NEW fr, FramesOK(fr, Placed(c) \cup D)
  PROVE  FramesOK(fr, Placed(c) \cup L \cup E)
<1>1. Placed(c) \cup D \subseteq Placed(c) \cup L \cup E
  BY DEF Emits
<1> QED BY <1>1, FramesMore, Zenon

\* The enclosing statement after a statement of its own was begun.
OuterOf(x) == [x EXCEPT !.left = IF x.kind = "block" THEN @ ELSE @ - 1]
Begun(o) == Append(Below(o), OuterOf(LastOf(o)))

LEMMA ChangedItem ==
  ASSUME NEW x, NEW P, ItemOK(x, P), NEW l
  PROVE  LET y == [x EXCEPT !.left = l]
         IN  /\ DOMAIN y = DOMAIN x /\ y.left = l /\ y.kind = x.kind /\ y.ctx = x.ctx
             /\ y.next = x.next /\ y.end = x.end
BY DEF ItemOK

LEMMA OuterItem ==
  ASSUME NEW x, NEW P, ItemOK(x, P), x.kind # "switch", x.kind # "match", x.left > 0
  PROVE  LET y == OuterOf(x)
         IN  /\ ItemOK(y, P) /\ Owes(y) = Owes(x) /\ y.kind = x.kind /\ y.ctx = x.ctx
             /\ FrameOf(y) = FrameOf(x) /\ ScopeOf(y) = ScopeOf(x)
<1> DEFINE l == IF x.kind = "block" THEN x.left ELSE x.left - 1
           y == [x EXCEPT !.left = l]
<1>1. x.left \in Nat /\ l \in Nat
  BY DEF ItemOK
<1>2. OuterOf(x) = y
  BY DEF OuterOf
<1> HIDE DEF l
<1>3. /\ DOMAIN y = DOMAIN x /\ y.left = l /\ y.kind = x.kind /\ y.ctx = x.ctx
      /\ y.next = x.next /\ y.end = x.end
  BY ChangedItem
<1> HIDE DEF y
<1>4. ItemOK(y, P)
  BY <1>1, <1>3 DEF ItemOK
<1>5. Owes(y) = Owes(x)
  BY <1>3 DEF Owes
<1>6. FrameOf(y) = FrameOf(x) /\ ScopeOf(y) = ScopeOf(x)
  BY <1>3, Zenon DEF FrameOf, ScopeOf, HasFrame, HasScope
<1> QED BY <1>2, <1>3, <1>4, <1>5, <1>6

LEMMA BegunStack ==
  ASSUME NEW o, NEW fr, NEW sc, NEW c, NEW m, LowerInv(o, fr, sc, c, m),
         LastOf(o).kind # "switch", LastOf(o).left > 0
  PROVE  /\ Stack(Begun(o), Placed(c), Owed(o), Len(fr), Len(sc))
         /\ LastOf(Begun(o)).kind = LastOf(o).kind /\ LastOf(o).kind # "match"
         /\ LastOf(o).ctx \in BOOLEAN
<1> DEFINE P == Placed(c)
           D == Owed(o)
           x == LastOf(o)
           y == OuterOf(x)
           u == Below(o)
           nf == Len(fr)
           ns == Len(sc)
<1>1. Stack(o, P, D, nf, ns) /\ x.kind # "match"
  BY Zenon DEF LowerInv, LastOf
<1>2. Len(o) > 1
  <2>1. Len(o) \in Nat /\ Len(o) >= 1 /\ o[1].left = 0
    BY <1>1, SeqTyped DEF Stack, StackOK
  <2> QED BY <2>1 DEF LastOf
<1>3. /\ Stack(u, P, D \ Owes(x), nf - FrameOf(x), ns - ScopeOf(x))
      /\ ItemOK(x, P) /\ Nests(LastOf(u), x) /\ Owes(x) \subseteq D
      /\ nf - FrameOf(x) \in Nat /\ ns - ScopeOf(x) \in Nat /\ nf \in Nat /\ ns \in Nat
  BY <1>1, <1>2, PoppedStack, Zenon
<1>4. /\ ItemOK(y, P) /\ Owes(y) = Owes(x) /\ y.kind = x.kind /\ y.ctx = x.ctx
      /\ FrameOf(y) = FrameOf(x) /\ ScopeOf(y) = ScopeOf(x)
  BY <1>1, <1>3, OuterItem
<1>5. x.ctx \in BOOLEAN
  BY <1>3 DEF ItemOK
<1> HIDE DEF P, D, x, y, u, nf, ns
<1>6. Nests(LastOf(u), y) /\ Owes(y) \cap (D \ Owes(x)) = {}
  BY <1>3, <1>4 DEF Nests
<1> DEFINE o2 == Append(u, y)
<1>7. /\ Stack(o2, P, (D \ Owes(x)) \cup Owes(y), nf - FrameOf(x) + FrameOf(y),
               ns - ScopeOf(x) + ScopeOf(y))
      /\ LastOf(o2) = y
  BY <1>3, <1>4, <1>6, PushedStack, ZenonT(40)
<1>8. /\ (D \ Owes(x)) \cup Owes(y) = D
      /\ nf - FrameOf(x) + FrameOf(y) = nf /\ ns - ScopeOf(x) + ScopeOf(y) = ns
  <2>1. FrameOf(x) \in {0, 1} /\ ScopeOf(x) \in {0, 1}
    BY DEF FrameOf, ScopeOf
  <2> QED BY <1>3, <1>4, <2>1
<1> HIDE DEF o2
<1>9. Stack(o2, P, D, nf, ns)
  BY <1>7, <1>8, Zenon
<1>10. o2 = Begun(o)
  BY Zenon DEF o2, Begun, u, y, x
<1> QED BY <1>1, <1>4, <1>5, <1>7, <1>9, <1>10, Zenon DEF P, D, x, nf, ns

\* A statement without statements of its own.
LEMMA SimpleStep ==
  ASSUME NEW o, NEW fr, NEW sc, NEW c, NEW m, LowerInv(o, fr, sc, c, m),
         LastOf(o).kind # "switch", LastOf(o).left > 0,
         NEW tc, ScopesOK(tc), Len(tc) = Len(sc),
         NEW s, NEW L, NEW T, NEW n, Emits(c, m, Owed(o), s, L, T, n, Owed(o))
  PROVE  LowerInv(Begun(o), fr, tc, c \o s, n)
<1>1. /\ Stack(Begun(o), Placed(c), Owed(o), Len(fr), Len(sc))
      /\ LastOf(Begun(o)).kind # "match"
  <2>1. /\ Stack(Begun(o), Placed(c), Owed(o), Len(fr), Len(sc))
        /\ LastOf(Begun(o)).kind = LastOf(o).kind /\ LastOf(o).kind # "match"
    BY BegunStack, Zenon
  <2> QED BY <2>1, Zenon
<1>2. Stack(Begun(o), Placed(c) \cup L, Owed(o), Len(fr), Len(tc))
  <2>1. Placed(c) \subseteq Placed(c) \cup L
    OBVIOUS
  <2>2. Stack(Begun(o), Placed(c) \cup L, Owed(o), Len(fr), Len(sc))
    BY <1>1, <2>1, StackMorePlaced, Zenon
  <2> QED BY <2>2, Zenon
<1>3. FramesOK(fr, Placed(c) \cup L \cup Owed(o))
  <2>1. FramesOK(fr, Placed(c) \cup Owed(o))
    BY Zenon DEF LowerInv
  <2> QED BY <2>1, StaysLive, Zenon
<1> QED BY <1>1, <1>2, <1>3, Lowered, Zenon

\* What is new is not owed yet.
LEMMA NewNotOwed ==
  ASSUME NEW o, NEW fr, NEW sc, NEW c, NEW m, LowerInv(o, fr, sc, c, m),
         NEW n \in Nat, NEW W, W \subseteq m .. n - 1
  PROVE  W \cap Owed(o) = {} /\ W \cap Placed(c) = {} /\ m \in Nat \ {0}
<1>1. /\ m \in Nat \ {0} /\ Placed(c) \subseteq 1 .. m - 1 /\ Owed(o) \subseteq 1 .. m - 1
  BY Zenon DEF LowerInv, CodeOK
<1>2. \A k \in 1 .. m - 1 : k \notin m .. n - 1
  BY <1>1
<1> QED BY <1>1, <1>2

\* A statement x with statements of its own.
LEMMA OpenStep ==
  ASSUME NEW o, NEW fr, NEW sc, NEW c, NEW m, LowerInv(o, fr, sc, c, m),
         LastOf(o).kind # "switch", LastOf(o).left > 0,
         NEW s, NEW L, NEW T, NEW n,
         NEW x, ItemOK(x, Placed(c) \cup L), x.kind \notin {"root", "body", "match"},
         Owes(x) \subseteq m .. n - 1,
         Emits(c, m, Owed(o), s, L, T, n, Owed(o) \cup Owes(x)),
         NEW gr, Len(gr) = Len(fr) + FrameOf(x),
         FramesOK(gr, Placed(c) \cup L \cup (Owed(o) \cup Owes(x))),
         NEW tc, Len(tc) = Len(sc) + ScopeOf(x), ScopesOK(tc)
  PROVE  LowerInv(Append(Begun(o), x), gr, tc, c \o s, n)
<1> DEFINE w == Begun(o)
           Q == Placed(c) \cup L
           D == Owed(o)
<1>1. Stack(w, Placed(c), D, Len(fr), Len(sc)) /\ LastOf(w).kind # "match"
  <2>1. /\ Stack(w, Placed(c), D, Len(fr), Len(sc))
        /\ LastOf(w).kind = LastOf(o).kind /\ LastOf(o).kind # "match"
    BY BegunStack, Zenon
  <2> QED BY <2>1, Zenon
<1>2. Stack(w, Q, D, Len(fr), Len(sc))
  <2>1. Placed(c) \subseteq Q
    OBVIOUS
  <2> QED BY <1>1, <2>1, StackMorePlaced, Zenon
<1>3. Owes(x) \cap D = {}
  <2>1. n \in Nat
    BY DEF Emits
  <2>2. Owes(x) \cap Owed(o) = {} /\ Owes(x) \cap Placed(c) = {} /\ m \in Nat \ {0}
    BY <2>1, NewNotOwed, ZenonT(40)
  <2> QED BY <2>2, Zenon
<1>4. Nests(LastOf(w), x) /\ x.kind # "match"
  <2>1. x.kind # "root" /\ x.kind # "body" /\ x.kind # "match"
    OBVIOUS
  <2> QED BY <1>1, <2>1, Zenon DEF Nests
<1> DEFINE q == Append(w, x)
<1> HIDE DEF w
<1>5. Stack(q, Q, D \cup Owes(x), Len(gr), Len(tc)) /\ LastOf(q) = x
  <2> HIDE DEF Q, D
  <2>1. ItemOK(x, Q)
    BY DEF Q
  <2>2. /\ Stack(q, Q, D \cup Owes(x), Len(fr) + FrameOf(x), Len(sc) + ScopeOf(x))
        /\ LastOf(q) = x
    BY <1>2, <1>3, <1>4, <2>1, PushedStack, Zenon
  <2> QED BY <2>2
<1>6. LastOf(q).kind # "match"
  BY <1>4, <1>5, Zenon
<1> HIDE DEF q
<1>7. LowerInv(q, gr, tc, c \o s, n)
  BY <1>5, <1>6, Lowered, Zenon
<1> QED BY <1>7 DEF q, w

\* The same, with what it needs as one formula.
Opens(o, fr, sc, c, m, s, L, T, n, x, gr, tc) ==
  /\ LowerInv(o, fr, sc, c, m)
  /\ LastOf(o).kind # "switch" /\ LastOf(o).left > 0
  /\ ItemOK(x, Placed(c) \cup L) /\ x.kind \notin {"root", "body", "match"}
  /\ Owes(x) \subseteq m .. n - 1
  /\ Emits(c, m, Owed(o), s, L, T, n, Owed(o) \cup Owes(x))
  /\ Len(gr) = Len(fr) + FrameOf(x)
  /\ FramesOK(gr, Placed(c) \cup L \cup (Owed(o) \cup Owes(x)))
  /\ Len(tc) = Len(sc) + ScopeOf(x) /\ ScopesOK(tc)

LEMMA Opened ==
  ASSUME NEW o, NEW fr, NEW sc, NEW c, NEW m, NEW s, NEW L, NEW T, NEW n, NEW x, NEW gr, NEW tc,
         Opens(o, fr, sc, c, m, s, L, T, n, x, gr, tc)
  PROVE  LowerInv(Append(Begun(o), x), gr, tc, c \o s, n)
BY OpenStep, Zenon DEF Opens

\* A statement x and its first part y, a block or an arm's body.
LEMMA OpenTwoStep ==
  ASSUME NEW o, NEW fr, NEW sc, NEW c, NEW m, LowerInv(o, fr, sc, c, m),
         LastOf(o).kind # "switch", LastOf(o).left > 0,
         NEW s, NEW L, NEW T, NEW n,
         NEW x, ItemOK(x, Placed(c) \cup L), x.kind \notin {"root", "body"},
         Owes(x) \subseteq m .. n - 1,
         NEW y, ItemOK(y, Placed(c) \cup L), Owes(y) = {}, Nests(x, y), y.kind # "match",
         Emits(c, m, Owed(o), s, L, T, n, Owed(o) \cup Owes(x)),
         NEW gr, Len(gr) = Len(fr) + FrameOf(x) + FrameOf(y),
         FramesOK(gr, Placed(c) \cup L \cup (Owed(o) \cup Owes(x))),
         NEW tc, Len(tc) = Len(sc) + ScopeOf(x) + ScopeOf(y), ScopesOK(tc)
  PROVE  LowerInv(Append(Append(Begun(o), x), y), gr, tc, c \o s, n)
<1> DEFINE w == Begun(o)
           Q == Placed(c) \cup L
           D == Owed(o)
<1>1. Stack(w, Placed(c), D, Len(fr), Len(sc)) /\ LastOf(w).kind # "match"
  <2>1. /\ Stack(w, Placed(c), D, Len(fr), Len(sc))
        /\ LastOf(w).kind = LastOf(o).kind /\ LastOf(o).kind # "match"
    BY BegunStack, Zenon
  <2> QED BY <2>1, Zenon
<1>2. Stack(w, Q, D, Len(fr), Len(sc))
  <2>1. Placed(c) \subseteq Q
    OBVIOUS
  <2> QED BY <1>1, <2>1, StackMorePlaced, Zenon
<1>3. Owes(x) \cap D = {}
  <2>1. n \in Nat
    BY DEF Emits
  <2>2. Owes(x) \cap Owed(o) = {} /\ Owes(x) \cap Placed(c) = {} /\ m \in Nat \ {0}
    BY <2>1, NewNotOwed, ZenonT(40)
  <2> QED BY <2>2, Zenon
<1>4. Nests(LastOf(w), x)
  <2>1. x.kind # "root" /\ x.kind # "body"
    OBVIOUS
  <2> QED BY <1>1, <2>1, Zenon DEF Nests
<1> DEFINE v == Append(w, x)
           q == Append(v, y)
<1> HIDE DEF w
<1>5. /\ Stack(v, Q, D \cup Owes(x), Len(fr) + FrameOf(x), Len(sc) + ScopeOf(x)) /\ LastOf(v) = x
  BY <1>2, <1>3, <1>4, PushedStack, ZenonT(40)
<1> HIDE DEF v
<1>6. Owes(y) \cap (D \cup Owes(x)) = {} /\ Nests(LastOf(v), y)
      /\ (D \cup Owes(x)) \cup Owes(y) = D \cup Owes(x)
  BY <1>5
<1>7. /\ Stack(q, Q, (D \cup Owes(x)) \cup Owes(y), Len(gr), Len(tc)) /\ LastOf(q) = y
  <2>1. /\ Stack(q, Q, (D \cup Owes(x)) \cup Owes(y), Len(fr) + FrameOf(x) + FrameOf(y),
                 Len(sc) + ScopeOf(x) + ScopeOf(y))
        /\ LastOf(q) = y
    BY <1>5, <1>6, PushedStack, Zenon
  <2> HIDE DEF q, Q, D
  <2> QED BY <2>1
<1>8. Stack(q, Q, D \cup Owes(x), Len(gr), Len(tc)) /\ LastOf(q).kind # "match"
  BY <1>6, <1>7, Zenon
<1> HIDE DEF q
<1>9. LowerInv(q, gr, tc, c \o s, n)
  BY <1>8, Lowered, Zenon
<1> QED BY <1>9 DEF q, v, w

OpensTwo(o, fr, sc, c, m, s, L, T, n, x, y, gr, tc) ==
  /\ LowerInv(o, fr, sc, c, m)
  /\ LastOf(o).kind # "switch" /\ LastOf(o).left > 0
  /\ ItemOK(x, Placed(c) \cup L) /\ x.kind \notin {"root", "body"}
  /\ Owes(x) \subseteq m .. n - 1
  /\ ItemOK(y, Placed(c) \cup L) /\ Owes(y) = {} /\ Nests(x, y) /\ y.kind # "match"
  /\ Emits(c, m, Owed(o), s, L, T, n, Owed(o) \cup Owes(x))
  /\ Len(gr) = Len(fr) + FrameOf(x) + FrameOf(y)
  /\ FramesOK(gr, Placed(c) \cup L \cup (Owed(o) \cup Owes(x)))
  /\ Len(tc) = Len(sc) + ScopeOf(x) + ScopeOf(y) /\ ScopesOK(tc)

LEMMA TwoOpened ==
  ASSUME NEW o, NEW fr, NEW sc, NEW c, NEW m, NEW s, NEW L, NEW T, NEW n, NEW x, NEW y,
         NEW gr, NEW tc, OpensTwo(o, fr, sc, c, m, s, L, T, n, x, y, gr, tc)
  PROVE  LowerInv(Append(Append(Begun(o), x), y), gr, tc, c \o s, n)
BY OpenTwoStep, Zenon DEF OpensTwo

\* The innermost statement, seen from the invariant.
LEMMA TopItem ==
  ASSUME NEW o, NEW fr, NEW sc, NEW c, NEW m, LowerInv(o, fr, sc, c, m),
         LastOf(o).kind # "root"
  PROVE  LET x == LastOf(o)
         IN  /\ Len(o) > 1 /\ ItemOK(x, Placed(c)) /\ x.kind # "match"
             /\ Owes(x) \subseteq Owed(o) /\ Nests(LastOf(Below(o)), x)
             /\ Stack(Below(o), Placed(c), Owed(o) \ Owes(x), Len(fr) - FrameOf(x),
                      Len(sc) - ScopeOf(x))
             /\ Len(fr) \in Nat /\ Len(sc) \in Nat
             /\ Len(fr) - FrameOf(x) \in Nat /\ Len(sc) - ScopeOf(x) \in Nat
<1>1. Stack(o, Placed(c), Owed(o), Len(fr), Len(sc)) /\ LastOf(o).kind # "match"
  BY Zenon DEF LowerInv, LastOf
<1>2. Len(o) > 1
  <2>1. Len(o) \in Nat /\ Len(o) >= 1 /\ o[1].kind = "root"
    BY <1>1, SeqTyped DEF Stack, StackOK
  <2> QED BY <2>1 DEF LastOf
<1> QED BY <1>1, <1>2, PoppedStack, Zenon

\* A statement is finished.
LEMMA CloseStep ==
  ASSUME NEW o, NEW fr, NEW sc, NEW c, NEW m, LowerInv(o, fr, sc, c, m),
         LastOf(o).kind \notin {"root", "body"},
         NEW s, NEW L, NEW T, Emits(c, m, Owed(o), s, L, T, m, Owed(o) \ Owes(LastOf(o))),
         NEW gr, Len(gr) = Len(fr) - FrameOf(LastOf(o)),
         FramesOK(gr, Placed(c) \cup L \cup (Owed(o) \ Owes(LastOf(o)))),
         NEW tc, Len(tc) = Len(sc) - ScopeOf(LastOf(o)), ScopesOK(tc)
  PROVE  LowerInv(Below(o), gr, tc, c \o s, m)
<1> DEFINE u == Below(o)
           x == LastOf(o)
           D == Owed(o) \ Owes(x)
<1>0. x.kind # "root" /\ x.kind # "body"
  OBVIOUS
<1>1. /\ Nests(LastOf(u), x)
      /\ Stack(u, Placed(c), D, Len(fr) - FrameOf(x), Len(sc) - ScopeOf(x))
  BY <1>0, TopItem, Zenon
<1>2. Stack(u, Placed(c) \cup L, D, Len(gr), Len(tc))
  <2>1. Placed(c) \subseteq Placed(c) \cup L
    OBVIOUS
  <2>2. Stack(u, Placed(c) \cup L, D, Len(fr) - FrameOf(x), Len(sc) - ScopeOf(x))
    BY <1>1, <2>1, StackMorePlaced, Zenon
  <2> QED BY <2>2, Zenon
<1>3. LastOf(u).kind # "match"
  BY <1>0, <1>1, Zenon DEF Nests
<1> QED BY <1>2, <1>3, Lowered, Zenon

-----------------------------------------------------------------------------
(* The statements, one after the other.                                      *)

Lowering == LowerInv(open, frames, scopes, code, labels)
Free == Top.kind # "switch" /\ Top.left > 0

LEMMA StackNames ==
  /\ Top = LastOf(open) /\ Under = Below(open) /\ Outer = OuterOf(LastOf(open))
  /\ Append(Under, Outer) = Begun(open)
BY Zenon DEF Top, Under, Outer, LastOf, Below, OuterOf, Begun

LEMMA ItemIs ==
  ASSUME NEW k, NEW b, NEW d, NEW l, NEW n, NEW e
  PROVE  LET x == Item(k, b, d, l, n, e)
         IN  /\ DOMAIN x = {"kind", "ctx", "depth", "left", "next", "end"}
             /\ x.kind = k /\ x.ctx = b /\ x.left = l /\ x.next = n /\ x.end = e
BY DEF Item

\* What is known of the state while statements are lowered.
LEMMA LoweringFacts ==
  ASSUME Lowering
  PROVE  /\ labels \in Nat \ {0} /\ Owed(open) \subseteq 1 .. labels - 1
         /\ FramesOK(frames, Placed(code) \cup Owed(open)) /\ ScopesOK(scopes)
         /\ IsSequence(frames) /\ IsSequence(scopes) /\ Len(frames) \in Nat /\ Len(scopes) \in Nat
         /\ ItemOK(Top, Placed(code))
<1>1. /\ labels \in Nat \ {0} /\ Owed(open) \subseteq 1 .. labels - 1
      /\ FramesOK(frames, Placed(code) \cup Owed(open)) /\ ScopesOK(scopes)
      /\ StackOK(open, Placed(code))
  BY Zenon DEF Lowering, LowerInv, CodeOK, Stack
<1>2. IsSequence(frames) /\ IsSequence(scopes)
  BY <1>1 DEF FramesOK, ScopesOK
<1>3. IsSequence(open) /\ Len(open) >= 1 /\ \A i \in 1 .. Len(open) : ItemOK(open[i], Placed(code))
  BY <1>1, Zenon DEF StackOK
<1>4. Len(open) \in 1 .. Len(open)
  BY <1>3, SeqTyped
<1>5. ItemOK(Top, Placed(code))
  BY <1>3, <1>4, Zenon DEF Top
<1> QED BY <1>1, <1>2, <1>5, SeqTyped

LEMMA FramePushed ==
  ASSUME NEW fr, NEW live, FramesOK(fr, live), NEW brk \in live, NEW cont, NEW user,
         cont = 0 \/ cont \in live, cont = 0 => user = NoUserLabel
  PROVE  LET gr == Append(fr, [brk |-> brk, cont |-> cont, user |-> user])
         IN  FramesOK(gr, live) /\ Len(gr) = Len(fr) + 1
<1> DEFINE r == [brk |-> brk, cont |-> cont, user |-> user]
           gr == Append(fr, r)
           n == Len(fr)
<1>1. IsSequence(fr) /\ n \in Nat
  BY SeqTyped DEF FramesOK
<1>2. r.brk = brk /\ r.cont = cont /\ r.user = user
  OBVIOUS
<1> HIDE DEF r
<1>3. IsSequence(gr) /\ Len(gr) = n + 1 /\ (\A i \in 1 .. n : gr[i] = fr[i]) /\ gr[n + 1] = r
  BY <1>1, AppendIs
<1> HIDE DEF gr, n
<1>4. ASSUME NEW i \in 1 .. Len(gr)
      PROVE  /\ gr[i].brk \in live
             /\ gr[i].cont = 0 \/ gr[i].cont \in live
             /\ gr[i].cont = 0 => gr[i].user = NoUserLabel
  <2>1. CASE i = n + 1
    BY <1>2, <1>3, <2>1
  <2>2. CASE i # n + 1
    <3>1. i \in 1 .. n
      BY <1>1, <1>3, <2>2
    <3> QED BY <1>3, <3>1 DEF FramesOK, n
  <2> QED BY <2>1, <2>2
<1>5. FramesOK(gr, live)
  BY <1>3, <1>4, Zenon DEF FramesOK
<1> QED BY <1>3, <1>5 DEF gr, r, n

LEMMA ScopePushed ==
  ASSUME NEW sc, ScopesOK(sc)
  PROVE  ScopesOK(Append(sc, <<>>)) /\ Len(Append(sc, <<>>)) = Len(sc) + 1
<1> DEFINE e == <<>>
           tc == Append(sc, e)
<1>1. IsSequence(sc) /\ Len(sc) \in Nat
  BY SeqTyped DEF ScopesOK
<1>2. e \in Seq({})
  OBVIOUS
<1> HIDE DEF e
<1>3. IsSequence(e)
  BY <1>2, SeqIsSequence
<1>4. /\ IsSequence(tc) /\ Len(tc) = Len(sc) + 1 /\ \A i \in 1 .. Len(sc) : tc[i] = sc[i]
      /\ tc[Len(sc) + 1] = e
  BY <1>1, AppendIs
<1> HIDE DEF tc
<1>5. \A i \in 1 .. Len(tc) : i \in 1 .. Len(sc) \/ i = Len(sc) + 1
  BY <1>1, <1>4
<1>6. \A i \in 1 .. Len(tc) : IsSequence(tc[i])
  BY <1>3, <1>4, <1>5 DEF ScopesOK
<1> QED BY <1>4, <1>6 DEF ScopesOK, tc, e

\* Code without labels that refers to nothing new.
LEMMA EmitsPlain ==
  ASSUME NEW c, NEW m \in Nat, NEW D, NEW s, NEW T, Piece(s, {}, T), T \subseteq Placed(c) \cup D
  PROVE  Emits(c, m, D, s, {}, T, m, D)
BY DEF Emits

LEMMA BlockIs ==
  ASSUME NEW b \in BOOLEAN, NEW d, NEW P
  PROVE  LET x == BlockItem(b, d)
         IN  /\ ItemOK(x, P) /\ Owes(x) = {} /\ x.kind = "block" /\ FrameOf(x) = 0
             /\ ScopeOf(x) = (IF b THEN 1 ELSE 0)
<1> DEFINE x == BlockItem(b, d)
<1>1. /\ DOMAIN x = {"kind", "ctx", "depth", "left", "next", "end"}
      /\ x.kind = "block" /\ x.ctx = b /\ x.left = 1 /\ x.next = 0 /\ x.end = 0
  BY ItemIs DEF BlockItem
<1> HIDE DEF x
<1>2. ItemOK(x, P) /\ Owes(x) = {} /\ FrameOf(x) = 0 /\ ScopeOf(x) = (IF b THEN 1 ELSE 0)
  BY <1>1 DEF ItemOK, Owes, FrameOf, ScopeOf, HasFrame, HasScope
<1> QED BY <1>1, <1>2 DEF x

LEMMA BlockLowered ==
  ASSUME Lowering, Free
  PROVE  LowerInv(Append(Append(Under, Outer), BlockItem(Ctx, Depth)), frames,
                  IF Ctx THEN Append(scopes, <<>>) ELSE scopes,
                  code \o <<Instr("open", 0, FALSE)>>, labels)
<1> DEFINE x == BlockItem(Ctx, Depth)
           tc == IF Ctx THEN Append(scopes, <<>>) ELSE scopes
           s == <<Instr("open", 0, FALSE)>>
           D == Owed(open)
<1>1. /\ labels \in Nat \ {0} /\ FramesOK(frames, Placed(code) \cup D) /\ ScopesOK(scopes)
      /\ Len(frames) \in Nat /\ Len(scopes) \in Nat /\ Ctx \in BOOLEAN
  BY LoweringFacts DEF ItemOK, Ctx
<1>3. ItemOK(x, Placed(code) \cup {}) /\ Owes(x) = {} /\ FrameOf(x) = 0
      /\ ScopeOf(x) = (IF Ctx THEN 1 ELSE 0) /\ x.kind \notin {"root", "body", "match"}
  BY <1>1, BlockIs
<1> HIDE DEF x
<1>4. Piece(s, {}, {})
  BY InstrPieces
<1> HIDE DEF s
<1>5. Emits(code, labels, D, s, {}, {}, labels, D \cup Owes(x)) /\ Owes(x) \subseteq labels .. labels - 1
  <2>1. D \cup Owes(x) = D /\ {} \subseteq Placed(code) \cup D /\ labels \in Nat
    BY <1>1, <1>3
  <2>2. Emits(code, labels, D, s, {}, {}, labels, D)
    BY <1>4, <2>1, EmitsPlain, Zenon
  <2> QED BY <1>3, <2>1, <2>2
<1>6. Len(tc) = Len(scopes) + ScopeOf(x) /\ ScopesOK(tc) /\ Len(frames) = Len(frames) + FrameOf(x)
  <2>1. CASE Ctx
    <3>1. tc = Append(scopes, <<>>)
      BY <2>1
    <3> QED BY <1>1, <1>3, <2>1, <3>1, ScopePushed
  <2>2. CASE ~ Ctx
    BY <1>1, <1>3, <2>2
  <2> QED BY <2>1, <2>2
<1> HIDE DEF tc
<1>7. FramesOK(frames, Placed(code) \cup {} \cup (D \cup Owes(x)))
  BY <1>1, <1>3
<1>8. LastOf(open).kind # "switch" /\ LastOf(open).left > 0
  BY StackNames DEF Free
<1>9. LowerInv(Append(Begun(open), x), frames, tc, code \o s, labels)
  BY <1>3, <1>5, <1>6, <1>7, <1>8, OpenStep, Zenon DEF Lowering
<1> QED BY <1>9, StackNames DEF x, tc, s

LEMMA IfLowered ==
  ASSUME Lowering, Free
  PROVE  LowerInv(Append(Append(Under, Outer), Item("arm", Ctx, Depth, 1, labels, labels + 1)),
                  frames, scopes, code \o <<Branch(labels)>>, labels + 2)
<1> DEFINE x == Item("arm", Ctx, Depth, 1, labels, labels + 1)
           s == <<Branch(labels)>>
           D == Owed(open)
           m == labels
<1>0. LowerInv(open, frames, scopes, code, m)
  BY DEF Lowering
<1>1. /\ m \in Nat \ {0} /\ FramesOK(frames, Placed(code) \cup D) /\ ScopesOK(scopes)
      /\ Len(frames) \in Nat /\ Len(scopes) \in Nat /\ Ctx \in BOOLEAN /\ m + 2 - 1 = m + 1
  BY LoweringFacts DEF ItemOK, Ctx
<1>2. /\ DOMAIN x = {"kind", "ctx", "depth", "left", "next", "end"}
      /\ x.kind = "arm" /\ x.ctx = Ctx /\ x.left = 1 /\ x.next = m /\ x.end = m + 1
  BY ItemIs
<1> HIDE DEF x
<1>3. ItemOK(x, Placed(code) \cup {}) /\ Owes(x) = {m, m + 1}
      /\ FrameOf(x) = 0 /\ ScopeOf(x) = 0 /\ x.kind \notin {"root", "body", "match"}
  BY <1>1, <1>2 DEF ItemOK, Owes, FrameOf, ScopeOf, HasFrame, HasScope
<1>4. Piece(s, {}, {m})
  BY InstrPieces
<1> HIDE DEF s, m, D
<1>5. Owes(x) \subseteq m .. m + 2 - 1
  BY <1>1, <1>3
<1>6. Emits(code, m, D, s, {}, {m}, m + 2, D \cup Owes(x))
  <2>1. m + 2 \in Nat /\ m <= m + 2
    BY <1>1
  <2> QED BY <1>3, <1>4, <1>5, <2>1 DEF Emits
<1>7. FramesOK(frames, Placed(code) \cup {} \cup (D \cup Owes(x)))
  BY <1>1, <1>6, StaysLive, ZenonT(40)
<1>8. LastOf(open).kind # "switch" /\ LastOf(open).left > 0
  BY StackNames DEF Free
<1>9. Len(scopes) = Len(scopes) + ScopeOf(x) /\ Len(frames) = Len(frames) + FrameOf(x)
  BY <1>1, <1>3
<1>10. Opens(open, frames, scopes, code, m, s, {}, {m}, m + 2, x, frames, scopes)
  BY <1>0, <1>1, <1>3, <1>5, <1>6, <1>7, <1>8, <1>9 DEF Opens, D
<1>11. LowerInv(Append(Begun(open), x), frames, scopes, code \o s, m + 2)
  BY <1>10, Opened, Zenon
<1> QED BY <1>11, StackNames DEF x, s, m

LEMMA WhileLowered ==
  ASSUME Lowering, Free, NEW user
  PROVE  LowerInv(Append(Append(Under, Outer), Item("while", Ctx, Depth, 1, labels, labels + 1)),
                  Append(frames, [brk |-> labels + 1, cont |-> labels, user |-> user]), scopes,
                  code \o <<Label(labels), Branch(labels + 1)>>, labels + 2)
<1> DEFINE x == Item("while", Ctx, Depth, 1, labels, labels + 1)
           s == <<Label(labels), Branch(labels + 1)>>
           gr == Append(frames, [brk |-> labels + 1, cont |-> labels, user |-> user])
           D == Owed(open)
           m == labels
           live == Placed(code) \cup {m} \cup (D \cup Owes(x))
<1>0. LowerInv(open, frames, scopes, code, m)
  BY DEF Lowering
<1>1. /\ m \in Nat \ {0} /\ FramesOK(frames, Placed(code) \cup D) /\ ScopesOK(scopes)
      /\ Len(frames) \in Nat /\ Len(scopes) \in Nat /\ Ctx \in BOOLEAN /\ D \subseteq 1 .. m - 1
  BY LoweringFacts DEF ItemOK, Ctx
<1>2. /\ DOMAIN x = {"kind", "ctx", "depth", "left", "next", "end"}
      /\ x.kind = "while" /\ x.ctx = Ctx /\ x.left = 1 /\ x.next = m /\ x.end = m + 1
  BY ItemIs
<1> HIDE DEF x
<1>3. ItemOK(x, Placed(code) \cup {m}) /\ Owes(x) = {m + 1}
      /\ FrameOf(x) = 1 /\ ScopeOf(x) = 0 /\ x.kind \notin {"root", "body", "match"}
  BY <1>1, <1>2 DEF ItemOK, Owes, FrameOf, ScopeOf, HasFrame, HasScope
<1>4. Piece(s, {m}, {m + 1})
  <2>1. Piece(s, {m} \cup {}, {} \cup {m + 1})
    BY InstrPieces, TwoPieces, Zenon
  <2> QED BY <2>1
<1> HIDE DEF s, m, D
<1>5. Owes(x) \subseteq m .. m + 2 - 1
  BY <1>1, <1>3
<1>6. Emits(code, m, D, s, {m}, {m + 1}, m + 2, D \cup Owes(x))
  <2>1. m + 2 \in Nat /\ m <= m + 2 /\ m \in m .. m + 2 - 1 /\ m # m + 1
    BY <1>1
  <2>2. m \notin D
    <3>1. m \notin 1 .. m - 1
      BY <1>1
    <3> QED BY <1>1, <3>1
  <2> QED BY <1>3, <1>4, <1>5, <2>1, <2>2 DEF Emits
<1>7. FramesOK(gr, live) /\ Len(gr) = Len(frames) + FrameOf(x)
  <2>1. FramesOK(frames, live)
    <3> DEFINE E == D \cup Owes(x)
    <3> HIDE DEF E
    <3>1. FramesOK(frames, Placed(code) \cup {m} \cup E)
      BY <1>1, <1>6, StaysLive DEF E
    <3> QED BY <3>1 DEF E
  <2>2. m + 1 \in live /\ m \in live /\ m # 0
    BY <1>1, <1>3
  <2> HIDE DEF live
  <2>3. FramesOK(gr, live) /\ Len(gr) = Len(frames) + 1
    BY <2>1, <2>2, FramePushed DEF m
  <2> QED BY <1>3, <2>3
<1>8. LastOf(open).kind # "switch" /\ LastOf(open).left > 0
  BY StackNames DEF Free
<1>9. Len(scopes) = Len(scopes) + ScopeOf(x)
  BY <1>1, <1>3
<1> HIDE DEF gr
<1>10. Opens(open, frames, scopes, code, m, s, {m}, {m + 1}, m + 2, x, gr, scopes)
  BY <1>0, <1>1, <1>3, <1>5, <1>6, <1>7, <1>8, <1>9 DEF Opens, D, live
<1>11. LowerInv(Append(Begun(open), x), gr, scopes, code \o s, m + 2)
  BY <1>10, Opened, Zenon
<1> QED BY <1>11, StackNames DEF x, s, gr, m

LEMMA ForLowered ==
  ASSUME Lowering, Free, NEW user, NEW hasCondition
  PROVE  LowerInv(Append(Append(Under, Outer), Item("for", Ctx, Depth, 1, labels, labels + 2)),
                  Append(frames, [brk |-> labels + 2, cont |-> labels + 1, user |-> user]), scopes,
                  code \o (IF hasCondition THEN <<Label(labels), Branch(labels + 2)>>
                           ELSE <<Label(labels)>>), labels + 3)
<1> DEFINE x == Item("for", Ctx, Depth, 1, labels, labels + 2)
           s == IF hasCondition THEN <<Label(labels), Branch(labels + 2)>> ELSE <<Label(labels)>>
           gr == Append(frames, [brk |-> labels + 2, cont |-> labels + 1, user |-> user])
           D == Owed(open)
           m == labels
           live == Placed(code) \cup {m} \cup (D \cup Owes(x))
<1>0. LowerInv(open, frames, scopes, code, m)
  BY DEF Lowering
<1>1. /\ m \in Nat \ {0} /\ FramesOK(frames, Placed(code) \cup D) /\ ScopesOK(scopes)
      /\ Len(frames) \in Nat /\ Len(scopes) \in Nat /\ Ctx \in BOOLEAN /\ D \subseteq 1 .. m - 1
  BY LoweringFacts DEF ItemOK, Ctx
<1>2. /\ DOMAIN x = {"kind", "ctx", "depth", "left", "next", "end"}
      /\ x.kind = "for" /\ x.ctx = Ctx /\ x.left = 1 /\ x.next = m /\ x.end = m + 2
  BY ItemIs
<1> HIDE DEF x
<1>3. ItemOK(x, Placed(code) \cup {m}) /\ Owes(x) = {m + 1, m + 2}
      /\ FrameOf(x) = 1 /\ ScopeOf(x) = 0 /\ x.kind \notin {"root", "body", "match"}
  BY <1>1, <1>2 DEF ItemOK, Owes, FrameOf, ScopeOf, HasFrame, HasScope
<1>4. Piece(s, {m}, {m + 2})
  <2>1. Piece(<<Label(m), Branch(m + 2)>>, {m} \cup {}, {} \cup {m + 2})
    BY InstrPieces, TwoPieces, Zenon
  <2>2. Piece(<<Label(m)>>, {m}, {})
    BY InstrPieces
  <2>3. Piece(<<Label(m)>>, {m}, {m + 2})
    BY <2>2, PieceMore
  <2>4. Piece(<<Label(m), Branch(m + 2)>>, {m}, {m + 2})
    BY <2>1
  <2> QED BY <2>3, <2>4
<1> HIDE DEF s, m, D
<1>5. Owes(x) \subseteq m .. m + 3 - 1
  BY <1>1, <1>3
<1>6. Emits(code, m, D, s, {m}, {m + 2}, m + 3, D \cup Owes(x))
  <2>1. m + 3 \in Nat /\ m <= m + 3 /\ m \in m .. m + 3 - 1 /\ m # m + 1 /\ m # m + 2
    BY <1>1
  <2>2. m \notin D
    <3>1. m \notin 1 .. m - 1
      BY <1>1
    <3> QED BY <1>1, <3>1
  <2> QED BY <1>3, <1>4, <1>5, <2>1, <2>2 DEF Emits
<1>7. FramesOK(gr, live) /\ Len(gr) = Len(frames) + FrameOf(x)
  <2>1. FramesOK(frames, live)
    <3> DEFINE E == D \cup Owes(x)
    <3> HIDE DEF E
    <3>1. FramesOK(frames, Placed(code) \cup {m} \cup E)
      BY <1>1, <1>6, StaysLive DEF E
    <3> QED BY <3>1 DEF E
  <2>2. m + 2 \in live /\ m + 1 \in live /\ m + 1 # 0
    BY <1>1, <1>3
  <2> HIDE DEF live
  <2>3. FramesOK(gr, live) /\ Len(gr) = Len(frames) + 1
    BY <2>1, <2>2, FramePushed DEF m
  <2> QED BY <1>3, <2>3
<1>8. LastOf(open).kind # "switch" /\ LastOf(open).left > 0
  BY StackNames DEF Free
<1>9. Len(scopes) = Len(scopes) + ScopeOf(x)
  BY <1>1, <1>3
<1> HIDE DEF gr
<1>10. Opens(open, frames, scopes, code, m, s, {m}, {m + 2}, m + 3, x, gr, scopes)
  BY <1>0, <1>1, <1>3, <1>5, <1>6, <1>7, <1>8, <1>9 DEF Opens, D, live
<1>11. LowerInv(Append(Begun(open), x), gr, scopes, code \o s, m + 3)
  BY <1>10, Opened, Zenon
<1> QED BY <1>11, StackNames DEF x, s, gr, m

\* The dispatch chain of a switch, the tests of a match.
LEMMA BranchesPiece ==
  ASSUME NEW k \in Nat, NEW m \in Nat
  PROVE  Piece([i \in 1 .. k |-> Branch(m + i)], {}, m + 1 .. m + k)
<1> DEFINE s == [i \in 1 .. k |-> Branch(m + i)]
<1>1. s = [i \in 1 .. k |-> s[i]]
  OBVIOUS
<1>2. ASSUME NEW i \in 1 .. k PROVE s[i].op = "branch" /\ s[i].arg = m + i
  BY DEF Branch, Instr
<1> HIDE DEF s
<1>3. IsSequence(s) /\ Len(s) = k
  BY <1>1, SeqMade
<1>4. Placed(s) = {}
  BY <1>2, <1>3 DEF Placed
<1>5. PlacedOnce(s)
  BY <1>2, <1>3 DEF PlacedOnce
<1>6. Targets(s) \subseteq m + 1 .. m + k
  <2>1. \A i \in 1 .. k : m + i \in m + 1 .. m + k
    OBVIOUS
  <2> QED BY <1>2, <1>3, <2>1 DEF Targets
<1> QED BY <1>3, <1>4, <1>5, <1>6 DEF Piece, s

\* The labels of n cases or arms: their end, and one each.
HasCases(x, m, n) ==
  /\ m \in Nat /\ n \in Nat /\ n >= 1 /\ x.kind \in {"switch", "match"}
  /\ x.end = m /\ x.next = m + 1 /\ x.left = n - 1

LEMMA CaseLabels ==
  ASSUME NEW m, NEW n, NEW x, HasCases(x, m, n), NEW D, D \subseteq 1 .. m - 1,
         NEW c, NEW s, Piece(s, {m + 1}, m .. m + n)
  PROVE  Emits(c, m, D, s, {m + 1}, m .. m + n, m + (n + 1), D \cup Owes(x))
         /\ Owes(x) \subseteq m .. m + (n + 1) - 1 /\ m \in Owes(x)
<1>0. /\ m \in Nat /\ n \in Nat /\ n >= 1 /\ x.kind \in {"switch", "match"}
      /\ x.end = m /\ x.next = m + 1 /\ x.left = n - 1
  BY DEF HasCases
<1>1. Owes(x) = {m} \cup (m + 1 + 1 .. m + 1 + (n - 1))
  BY <1>0 DEF Owes
<1>2. m + 1 + 1 .. m + 1 + (n - 1) = m + 2 .. m + n
  BY <1>0
<1>3. Owes(x) = {m} \cup (m + 2 .. m + n)
  BY <1>1, <1>2
<1>4. m .. m + (n + 1) - 1 = m .. m + n /\ m + 1 \notin {m} \cup (m + 2 .. m + n)
      /\ m .. m + n = {m} \cup (m + 2 .. m + n) \cup {m + 1}
  BY <1>0
<1>5. m + 1 \notin D
  <2>1. m + 1 \notin 1 .. m - 1
    BY <1>0
  <2> QED BY <2>1
<1>6. m + (n + 1) \in Nat /\ m <= m + (n + 1)
  BY <1>0
<1> DEFINE W == m + 2 .. m + n
           V == m .. m + n
<1> HIDE DEF W, V
<1>7. Owes(x) = {m} \cup W /\ V = {m} \cup W \cup {m + 1} /\ m + 1 \notin {m} \cup W
      /\ m .. m + (n + 1) - 1 = V
  BY <1>3, <1>4 DEF W, V
<1>8. /\ {m + 1} \subseteq D \cup V /\ {m + 1} \cap (D \cup Owes(x)) = {}
      /\ V \subseteq Placed(c) \cup {m + 1} \cup (D \cup Owes(x))
      /\ D \subseteq (D \cup Owes(x)) \cup {m + 1} /\ D \cup Owes(x) \subseteq D \cup V
      /\ Owes(x) \subseteq V /\ m \in Owes(x)
  BY <1>5, <1>7
<1>9. Piece(s, {m + 1}, V)
  BY DEF V
<1>10. Emits(c, m, D, s, {m + 1}, V, m + (n + 1), D \cup Owes(x))
  <2> DEFINE N == m + (n + 1)
  <2>0. N - 1 = m + (n + 1) - 1
    BY <1>0
  <2>1. N \in Nat /\ m <= N /\ m .. N - 1 = V
    BY <1>6, <1>7, <2>0
  <2> HIDE DEF N
  <2>2. Emits(c, m, D, s, {m + 1}, V, N, D \cup Owes(x))
    BY <1>8, <1>9, <2>1 DEF Emits
  <2> QED BY <2>2 DEF N
<1> QED BY <1>7, <1>8, <1>10 DEF V

LEMMA SwitchLowered ==
  ASSUME Lowering, Free, NEW n \in Nat, n >= 1, NEW hasDefault \in BOOLEAN
  PROVE  LowerInv(Append(Append(Append(Under, Outer),
                                Item("switch", Ctx, Depth, n - 1, labels + 1, labels)),
                         BlockItem(FALSE, Depth)),
                  Append(frames, [brk |-> labels, cont |-> 0, user |-> NoUserLabel]), scopes,
                  code \o ([i \in 1 .. n - (IF hasDefault THEN 1 ELSE 0) |-> Branch(labels + i)]
                           \o <<Jump(IF hasDefault THEN labels + n ELSE labels),
                                Label(labels + 1), Instr("open", 0, FALSE)>>),
                  labels + (n + 1))
<1> DEFINE x == Item("switch", Ctx, Depth, n - 1, labels + 1, labels)
           y == BlockItem(FALSE, Depth)
           k == n - (IF hasDefault THEN 1 ELSE 0)
           t == IF hasDefault THEN labels + n ELSE labels
           a == [i \in 1 .. k |-> Branch(labels + i)]
           b == <<Jump(t), Label(labels + 1), Instr("open", 0, FALSE)>>
           s == a \o b
           gr == Append(frames, [brk |-> labels, cont |-> 0, user |-> NoUserLabel])
           D == Owed(open)
           m == labels
           live == Placed(code) \cup {m + 1} \cup (D \cup Owes(x))
<1>0. LowerInv(open, frames, scopes, code, m)
  BY DEF Lowering
<1>1. /\ m \in Nat \ {0} /\ FramesOK(frames, Placed(code) \cup D) /\ ScopesOK(scopes)
      /\ Len(frames) \in Nat /\ Len(scopes) \in Nat /\ Ctx \in BOOLEAN /\ D \subseteq 1 .. m - 1
  BY LoweringFacts DEF ItemOK, Ctx
<1>2. /\ DOMAIN x = {"kind", "ctx", "depth", "left", "next", "end"}
      /\ x.kind = "switch" /\ x.ctx = Ctx /\ x.left = n - 1 /\ x.next = m + 1 /\ x.end = m
  BY ItemIs
<1>3. /\ ItemOK(y, Placed(code) \cup {m + 1}) /\ Owes(y) = {} /\ y.kind = "block"
      /\ FrameOf(y) = 0 /\ ScopeOf(y) = 0
  BY BlockIs
<1> HIDE DEF x, y
<1>4. ItemOK(x, Placed(code) \cup {m + 1})
      /\ FrameOf(x) = 1 /\ ScopeOf(x) = 0 /\ x.kind \notin {"root", "body"}
  BY <1>1, <1>2 DEF ItemOK, FrameOf, ScopeOf, HasFrame, HasScope
<1>5. ItemOK(y, Placed(code) \cup {m + 1}) /\ Owes(y) = {} /\ y.kind # "match"
      /\ FrameOf(y) = 0 /\ ScopeOf(y) = 0 /\ Nests(x, y)
  BY <1>2, <1>3 DEF Nests
<1>6. Piece(s, {m + 1}, m .. m + n)
  <2>1. k \in Nat /\ k <= n /\ t \in m .. m + n
    BY <1>1
  <2> HIDE DEF k, t
  <2>2. Piece(a, {}, m + 1 .. m + k)
    BY <1>1, <2>1, BranchesPiece
  <2>3. Piece(b, {} \cup {m + 1} \cup {}, {t} \cup {} \cup {})
    BY InstrPieces, ThreePieces, Zenon
  <2>4. Piece(b, {m + 1}, {t})
    BY <2>3
  <2> HIDE DEF a, b
  <2>5. Piece(s, {} \cup {m + 1}, (m + 1 .. m + k) \cup {t})
    BY <2>2, <2>4, PieceJoined
  <2>6. (m + 1 .. m + k) \cup {t} \subseteq m .. m + n /\ {} \cup {m + 1} = {m + 1}
    BY <1>1, <2>1
  <2> HIDE DEF s
  <2>7. Piece(s, {m + 1}, (m + 1 .. m + k) \cup {t})
    BY <2>5, <2>6
  <2> QED BY <2>6, <2>7, PieceMore
<1> HIDE DEF s, m, D
<1>7. /\ Emits(code, m, D, s, {m + 1}, m .. m + n, m + (n + 1), D \cup Owes(x))
      /\ Owes(x) \subseteq m .. m + (n + 1) - 1 /\ m \in Owes(x)
  <2>1. HasCases(x, m, n)
    BY <1>1, <1>2 DEF HasCases
  <2> QED BY <1>1, <1>6, <2>1, CaseLabels, Zenon
<1>8. FramesOK(gr, live) /\ Len(gr) = Len(frames) + 1
  <2>1. FramesOK(frames, live)
    <3> DEFINE E == D \cup Owes(x)
    <3> HIDE DEF E
    <3>1. FramesOK(frames, Placed(code) \cup {m + 1} \cup E)
      BY <1>1, <1>7, StaysLive DEF E
    <3> QED BY <3>1 DEF E
  <2>2. m \in live
    BY <1>7
  <2> HIDE DEF live
  <2> QED BY <2>1, <2>2, FramePushed DEF m
<1> HIDE DEF gr
<1>9. Len(gr) = Len(frames) + FrameOf(x) + FrameOf(y) /\ Len(scopes) = Len(scopes) + ScopeOf(x) + ScopeOf(y)
  BY <1>1, <1>4, <1>5, <1>8
<1>10. LastOf(open).kind # "switch" /\ LastOf(open).left > 0
  BY StackNames DEF Free
<1>11. OpensTwo(open, frames, scopes, code, m, s, {m + 1}, m .. m + n, m + (n + 1), x, y, gr, scopes)
  BY <1>0, <1>1, <1>4, <1>5, <1>7, <1>8, <1>9, <1>10 DEF OpensTwo, D, live
<1>12. LowerInv(Append(Append(Begun(open), x), y), gr, scopes, code \o s, m + (n + 1))
  BY <1>11, TwoOpened, Zenon
<1> QED BY <1>12, StackNames DEF x, y, s, gr, m

LEMMA MatchLowered ==
  ASSUME Lowering, Free, NEW n \in Nat, n >= 1, NEW hasDefault \in BOOLEAN
  PROVE  LowerInv(Append(Append(Append(Under, Outer),
                                Item("match", Ctx, Depth, n - 1, labels + 1, labels)),
                         Item("body", Ctx, Depth, 1, 0, 0)), frames, scopes,
                  code \o ([i \in 1 .. n - (IF hasDefault THEN 1 ELSE 0) |-> Branch(labels + i)]
                           \o <<Jump(IF hasDefault THEN labels + n ELSE labels),
                                Label(labels + 1)>>),
                  labels + (n + 1))
<1> DEFINE x == Item("match", Ctx, Depth, n - 1, labels + 1, labels)
           y == Item("body", Ctx, Depth, 1, 0, 0)
           k == n - (IF hasDefault THEN 1 ELSE 0)
           t == IF hasDefault THEN labels + n ELSE labels
           a == [i \in 1 .. k |-> Branch(labels + i)]
           b == <<Jump(t), Label(labels + 1)>>
           s == a \o b
           D == Owed(open)
           m == labels
           live == Placed(code) \cup {m + 1} \cup (D \cup Owes(x))
<1>0. LowerInv(open, frames, scopes, code, m)
  BY DEF Lowering
<1>1. /\ m \in Nat \ {0} /\ FramesOK(frames, Placed(code) \cup D) /\ ScopesOK(scopes)
      /\ Len(frames) \in Nat /\ Len(scopes) \in Nat /\ Ctx \in BOOLEAN /\ D \subseteq 1 .. m - 1
  BY LoweringFacts DEF ItemOK, Ctx
<1>2. /\ DOMAIN x = {"kind", "ctx", "depth", "left", "next", "end"}
      /\ x.kind = "match" /\ x.ctx = Ctx /\ x.left = n - 1 /\ x.next = m + 1 /\ x.end = m
  BY ItemIs
<1>3. /\ DOMAIN y = {"kind", "ctx", "depth", "left", "next", "end"}
      /\ y.kind = "body" /\ y.ctx = Ctx /\ y.left = 1 /\ y.next = 0 /\ y.end = 0
  BY ItemIs
<1> HIDE DEF x, y
<1>4. ItemOK(x, Placed(code) \cup {m + 1})
      /\ FrameOf(x) = 0 /\ ScopeOf(x) = 0 /\ x.kind \notin {"root", "body"}
  BY <1>1, <1>2 DEF ItemOK, FrameOf, ScopeOf, HasFrame, HasScope
<1>5. ItemOK(y, Placed(code) \cup {m + 1}) /\ Owes(y) = {} /\ y.kind # "match"
      /\ FrameOf(y) = 0 /\ ScopeOf(y) = 0 /\ Nests(x, y)
  BY <1>1, <1>2, <1>3 DEF ItemOK, Owes, FrameOf, ScopeOf, HasFrame, HasScope, Nests
<1>6. Piece(s, {m + 1}, m .. m + n)
  <2>1. k \in Nat /\ k <= n /\ t \in m .. m + n
    BY <1>1
  <2> HIDE DEF k, t
  <2>2. Piece(a, {}, m + 1 .. m + k)
    BY <1>1, <2>1, BranchesPiece
  <2>3. Piece(b, {} \cup {m + 1}, {t} \cup {})
    BY InstrPieces, TwoPieces, Zenon
  <2>4. Piece(b, {m + 1}, {t})
    BY <2>3
  <2> HIDE DEF a, b
  <2>5. Piece(s, {} \cup {m + 1}, (m + 1 .. m + k) \cup {t})
    BY <2>2, <2>4, PieceJoined
  <2>6. (m + 1 .. m + k) \cup {t} \subseteq m .. m + n /\ {} \cup {m + 1} = {m + 1}
    BY <1>1, <2>1
  <2> HIDE DEF s
  <2>7. Piece(s, {m + 1}, (m + 1 .. m + k) \cup {t})
    BY <2>5, <2>6
  <2> QED BY <2>6, <2>7, PieceMore
<1> HIDE DEF s, m, D
<1>7. /\ Emits(code, m, D, s, {m + 1}, m .. m + n, m + (n + 1), D \cup Owes(x))
      /\ Owes(x) \subseteq m .. m + (n + 1) - 1 /\ m \in Owes(x)
  <2>1. HasCases(x, m, n)
    BY <1>1, <1>2 DEF HasCases
  <2> QED BY <1>1, <1>6, <2>1, CaseLabels, Zenon
<1>8. FramesOK(frames, live)
  <2> DEFINE E == D \cup Owes(x)
  <2> HIDE DEF E
  <2>1. FramesOK(frames, Placed(code) \cup {m + 1} \cup E)
    BY <1>1, <1>7, StaysLive DEF E
  <2> QED BY <2>1 DEF E
<1>9. Len(frames) = Len(frames) + FrameOf(x) + FrameOf(y) /\ Len(scopes) = Len(scopes) + ScopeOf(x) + ScopeOf(y)
  BY <1>1, <1>4, <1>5
<1>10. LastOf(open).kind # "switch" /\ LastOf(open).left > 0
  BY StackNames DEF Free
<1>11. OpensTwo(open, frames, scopes, code, m, s, {m + 1}, m .. m + n, m + (n + 1), x, y, frames, scopes)
  BY <1>0, <1>1, <1>4, <1>5, <1>7, <1>8, <1>9, <1>10 DEF OpensTwo, D, live
<1>12. LowerInv(Append(Append(Begun(open), x), y), frames, scopes, code \o s, m + (n + 1))
  BY <1>11, TwoOpened, Zenon
<1> QED BY <1>12, StackNames DEF x, y, s, m

\* There is always a scope: the function's.
LEMMA HasRootScope == ASSUME Lowering PROVE Len(scopes) >= 1 /\ Len(scopes) \in 1 .. Len(scopes)
<1> DEFINE A == ScopeItems(open)
<1>1. /\ StackOK(open, Placed(code)) /\ Cardinality(A) = Len(scopes)
  BY Zenon DEF Lowering, LowerInv, Stack
<1>2. IsSequence(open) /\ Len(open) >= 1 /\ Len(open) \in Nat /\ open[1].kind = "root"
  BY <1>1, SeqTyped DEF StackOK
<1>3. 1 \in A /\ A \subseteq 1 .. Len(open)
  BY <1>2 DEF ScopeItems, HasScope
<1>4. IsFiniteSet(A) /\ Cardinality(A) \in Nat
  <2> HIDE DEF A
  <2> QED BY <1>2, <1>3, CountOneMore
<1>5. Cardinality(A) # 0
  <2> HIDE DEF A
  <2> QED BY <1>3, <1>4, FS_EmptySet
<1> QED BY <1>1, <1>4, <1>5

LEMMA DeferLowered ==
  ASSUME Lowering, Free, NEW d
  PROVE  LowerInv(Append(Under, Outer), frames,
                  IF Ctx THEN [scopes EXCEPT ![Len(scopes)] = Append(@, d)] ELSE scopes,
                  code \o <<Instr("defer", d, FALSE)>>, labels)
<1> DEFINE n == Len(scopes)
           e == Append(scopes[n], d)
           ex == [scopes EXCEPT ![n] = e]
           tc == IF Ctx THEN ex ELSE scopes
           s == <<Instr("defer", d, FALSE)>>
           D == Owed(open)
<1>1. labels \in Nat /\ ScopesOK(scopes)
  BY LoweringFacts
<1>2. IsSequence(scopes) /\ n \in 1 .. Len(scopes)
  BY <1>1, HasRootScope DEF ScopesOK
<1>3. IsSequence(e)
  <2>1. IsSequence(scopes[n])
    BY <1>1, <1>2 DEF ScopesOK
  <2> QED BY <2>1, AppendIs
<1>4. tc = IF Ctx THEN [scopes EXCEPT ![Len(scopes)] = Append(@, d)] ELSE scopes
  OBVIOUS
<1> HIDE DEF n, e
<1>5. /\ IsSequence(ex) /\ Len(ex) = Len(scopes) /\ ex[n] = e
      /\ \A i \in 1 .. Len(scopes) : i # n => ex[i] = scopes[i]
  BY <1>2, ExceptIs
<1> HIDE DEF ex
<1>6. ScopesOK(ex)
  BY <1>1, <1>3, <1>5 DEF ScopesOK
<1>7. ScopesOK(tc) /\ Len(tc) = Len(scopes)
  BY <1>1, <1>5, <1>6
<1>8. Piece(s, {}, {})
  BY InstrPieces
<1> HIDE DEF s, tc
<1>9. Emits(code, labels, D, s, {}, {}, labels, D)
  BY <1>1, <1>8, EmitsPlain
<1>10. LastOf(open).kind # "switch" /\ LastOf(open).left > 0
  BY StackNames DEF Free
<1>11. LowerInv(Begun(open), frames, tc, code \o s, labels)
  BY <1>7, <1>9, <1>10, SimpleStep, Zenon DEF Lowering
<1> QED BY <1>4, <1>11, StackNames DEF s

\* The frame that a break or continue refers to.
LEMMA TargetFound ==
  ASSUME Lowering, NEW kind, NEW user, NEW i, i = TargetFrame(kind, user), i # 0
  PROVE  /\ i \in 1 .. Len(frames)
         /\ IF user # NoUserLabel THEN frames[i].user = user
            ELSE kind = "break" \/ frames[i].cont # 0
<1> DEFINE fits(k) == IF user # NoUserLabel THEN frames[k].user = user
                      ELSE kind = "break" \/ frames[k].cont # 0
           N == Len(frames)
           found == {k \in 1 .. N : fits(k)}
<1>1. N \in Nat
  BY LoweringFacts
<1>2. TargetFrame(kind, user) = IF found = {} THEN 0
                                ELSE CHOOSE k \in found : \A j \in found : j <= k
  BY Zenon DEF TargetFrame
<1>3. \A k \in found : k \in 1 .. N /\ fits(k)
  OBVIOUS
<1>4. found \subseteq 1 .. N
  OBVIOUS
<1> HIDE DEF fits, found, N
<1>5. found # {} /\ i = CHOOSE k \in found : \A j \in found : j <= k
  BY <1>2
<1>6. \E k \in found : \A j \in found : j <= k
  <2> DEFINE R == {N - k : k \in found}
  <2>1. R \subseteq Nat /\ R # {}
    <3>1. \A k \in 1 .. N : N - k \in Nat
      BY <1>1
    <3>2. R \subseteq Nat
      BY <1>4, <3>1
    <3>3. PICK k \in found : TRUE
      BY <1>5
    <3>4. N - k \in R
      OBVIOUS
    <3> QED BY <3>2, <3>4
  <2>2. PICK r \in R : \A y \in R : r <= y
    <3> HIDE DEF R
    <3> QED BY <2>1, LeastNat
  <2>3. PICK k \in found : r = N - k
    OBVIOUS
  <2>4. ASSUME NEW j \in found PROVE j <= k
    <3>1. N - k <= N - j
      BY <2>2, <2>3
    <3>2. k \in Int /\ j \in Int
      BY <1>4
    <3> QED BY <1>1, <3>1, <3>2
  <2> QED BY <2>4
<1>7. i \in found
  BY <1>5, <1>6, Zenon
<1>8. i \in 1 .. N /\ fits(i)
  BY <1>3, <1>7
<1> QED BY <1>8 DEF fits, N

LEMMA TargetLive == ASSUME Lowering PROVE TargetsLive(Placed(code) \cup Owed(open))
<1> DEFINE live == Placed(code) \cup Owed(open)
<1> SUFFICES ASSUME NEW kind, NEW user, TargetFrame(kind, user) # 0
             PROVE  JumpTarget(kind, user) \in live
  BY DEF TargetsLive
<1> DEFINE i == TargetFrame(kind, user)
<1>1. FramesOK(frames, live)
  BY LoweringFacts
<1>2. i \in 1 .. Len(frames)
      /\ IF user # NoUserLabel THEN frames[i].user = user ELSE kind = "break" \/ frames[i].cont # 0
  BY TargetFound
<1>3. JumpTarget(kind, user) = IF kind = "break" THEN frames[i].brk ELSE frames[i].cont
  BY Zenon DEF JumpTarget
<1> HIDE DEF live, i
<1>4. /\ frames[i].brk \in live
      /\ frames[i].cont = 0 \/ frames[i].cont \in live
      /\ frames[i].cont = 0 => frames[i].user = NoUserLabel
  BY <1>1, <1>2 DEF FramesOK
<1> QED BY <1>2, <1>3, <1>4

LEMMA BreakLowered ==
  ASSUME Lowering, Free, NEW kind, NEW user, TargetFrame(kind, user) # 0
  PROVE  LowerInv(Append(Under, Outer), frames, scopes,
                  code \o <<Instr("jump", JumpTarget(kind, user), TRUE)>>, labels)
<1> DEFINE t == JumpTarget(kind, user)
           s == <<Instr("jump", t, TRUE)>>
           D == Owed(open)
<1>1. labels \in Nat /\ ScopesOK(scopes)
  BY LoweringFacts
<1>3. t \in Placed(code) \cup D
  BY TargetLive DEF TargetsLive
<1> HIDE DEF t
<1>4. Piece(s, {}, {t})
  BY InstrPieces
<1> HIDE DEF s
<1>5. Emits(code, labels, D, s, {}, {t}, labels, D)
  <2>1. {t} \subseteq Placed(code) \cup D
    BY <1>3
  <2> QED BY <1>1, <1>4, <2>1, EmitsPlain
<1>6. LastOf(open).kind # "switch" /\ LastOf(open).left > 0
  BY StackNames DEF Free
<1>7. LowerInv(Begun(open), frames, scopes, code \o s, labels)
  BY <1>1, <1>5, <1>6, SimpleStep, Zenon DEF Lowering
<1> QED BY <1>7, StackNames DEF s, t

\* The labels of a return.
LEMMA ReturnEmits ==
  ASSUME Lowering, NEW v, NEW b \in BOOLEAN, CanReturn(b)
  PROVE  \E L, T : Emits(code, labels, Owed(open), ReturnCode(v, b), L, T, labels + 2, Owed(open))
<1> DEFINE D == Owed(open)
           m == labels
           s == ReturnCode(v, b)
           W == {m, m + 1}
           live == Placed(code) \cup D
<1>1. m \in Nat \ {0} /\ ScopesOK(scopes) /\ D \subseteq 1 .. m - 1
  BY LoweringFacts
<1>2. /\ b => Piece(ReturnCode(v, TRUE), W, W \cup live)
      /\ Piece(ReturnCode(v, FALSE), {}, {})
  <2>1. b => CanReturn(TRUE)
    BY DEF CanReturn
  <2>2. TargetsLive(live)
    BY TargetLive
  <2> HIDE DEF live
  <2> QED BY <1>1, <2>1, <2>2, ReturnPiece
<1> HIDE DEF m, D
<1>3. m + 2 \in Nat /\ m <= m + 2 /\ W = m .. (m + 2) - 1 /\ \A k \in W : k \notin 1 .. m - 1
  BY <1>1
<1>4. CASE b
  <2>1. s = ReturnCode(v, TRUE)
    BY <1>4, Zenon
  <2> HIDE DEF s, W
  <2>2. Piece(s, W, W \cup live)
    BY <1>2, <1>4, <2>1, Zenon
  <2>3. Emits(code, m, D, s, W, W \cup live, m + 2, D)
    BY <1>1, <1>3, <2>2 DEF Emits
  <2> QED BY <2>3 DEF m, D, s
<1>5. CASE ~ b
  <2>1. s = ReturnCode(v, FALSE)
    BY <1>5, Zenon
  <2> HIDE DEF s, W
  <2>2. Piece(s, {}, {})
    BY <1>2, <2>1
  <2>3. Emits(code, m, D, s, {}, {}, m + 2, D)
    BY <1>1, <1>3, <2>2 DEF Emits
  <2> QED BY <2>3 DEF m, D, s
<1> QED BY <1>4, <1>5

LEMMA ReturnLowered ==
  ASSUME Lowering, Free, NEW v, CanReturn(Ctx)
  PROVE  LowerInv(Append(Under, Outer), frames, scopes, code \o ReturnCode(v, Ctx), labels + 2)
<1>1. ScopesOK(scopes) /\ Ctx \in BOOLEAN
  BY LoweringFacts DEF ItemOK, Ctx
<1>2. PICK L, T : Emits(code, labels, Owed(open), ReturnCode(v, Ctx), L, T, labels + 2, Owed(open))
  BY <1>1, ReturnEmits
<1>3. LastOf(open).kind # "switch" /\ LastOf(open).left > 0
  BY StackNames DEF Free
<1>4. LowerInv(Begun(open), frames, scopes, code \o ReturnCode(v, Ctx), labels + 2)
  BY <1>1, <1>2, <1>3, SimpleStep DEF Lowering
<1> QED BY <1>4, StackNames

-----------------------------------------------------------------------------
(* The ends of statements.                                                   *)

\* The innermost statement x becomes y, still open.
Replaces(o, fr, sc, c, m, s, L, T, n, y) ==
  LET x == LastOf(o)
  IN  /\ LowerInv(o, fr, sc, c, m) /\ x.kind \notin {"root", "body"}
      /\ ItemOK(y, Placed(c) \cup L) /\ y.kind \notin {"root", "body", "match"}
      /\ FrameOf(y) = FrameOf(x) /\ ScopeOf(y) = ScopeOf(x)
      /\ Owes(y) \cap (Owed(o) \ Owes(x)) = {}
      /\ Emits(c, m, Owed(o), s, L, T, n, (Owed(o) \ Owes(x)) \cup Owes(y))

LEMMA ReplacedStack ==
  ASSUME NEW o, NEW fr, NEW sc, NEW c, NEW m, NEW s, NEW L, NEW T, NEW n, NEW y,
         Replaces(o, fr, sc, c, m, s, L, T, n, y)
  PROVE  LET E == (Owed(o) \ Owes(LastOf(o))) \cup Owes(y)
             q == Append(Below(o), y)
         IN  /\ Stack(q, Placed(c) \cup L, E, Len(fr), Len(sc)) /\ LastOf(q) = y
             /\ FramesOK(fr, Placed(c) \cup L \cup E) /\ ScopesOK(sc)
             /\ Len(fr) \in Nat /\ Len(sc) \in Nat
<1> DEFINE x == LastOf(o)
           u == Below(o)
           Q == Placed(c) \cup L
           D == Owed(o) \ Owes(x)
           E == D \cup Owes(y)
           q == Append(u, y)
<1>1. /\ LowerInv(o, fr, sc, c, m) /\ x.kind # "root" /\ x.kind # "body"
      /\ ItemOK(y, Q) /\ y.kind # "root" /\ y.kind # "body"
      /\ FrameOf(y) = FrameOf(x) /\ ScopeOf(y) = ScopeOf(x)
      /\ Owes(y) \cap D = {}
      /\ Emits(c, m, Owed(o), s, L, T, n, E)
  BY DEF Replaces
<1>2. /\ Nests(LastOf(u), x)
      /\ Stack(u, Placed(c), D, Len(fr) - FrameOf(x), Len(sc) - ScopeOf(x))
      /\ Len(fr) \in Nat /\ Len(sc) \in Nat
  BY <1>1, TopItem, Zenon
<1>3. Stack(u, Q, D, Len(fr) - FrameOf(x), Len(sc) - ScopeOf(x))
  <2>1. Placed(c) \subseteq Q
    OBVIOUS
  <2> QED BY <1>2, <2>1, StackMorePlaced, Zenon
<1>4. Nests(LastOf(u), y)
  BY <1>1, <1>2, Zenon DEF Nests
<1> HIDE DEF u, x, Q, D
<1>5. /\ Stack(q, Q, E, Len(fr) - FrameOf(x) + FrameOf(y), Len(sc) - ScopeOf(x) + ScopeOf(y))
      /\ LastOf(q) = y
  BY <1>1, <1>3, <1>4, PushedStack, Zenon
<1>6. Len(fr) - FrameOf(x) + FrameOf(y) = Len(fr) /\ Len(sc) - ScopeOf(x) + ScopeOf(y) = Len(sc)
  <2>1. FrameOf(x) \in {0, 1} /\ ScopeOf(x) \in {0, 1}
    BY DEF FrameOf, ScopeOf
  <2> QED BY <1>1, <1>2, <2>1
<1>7. Stack(q, Q, E, Len(fr), Len(sc))
  BY <1>5, <1>6, Zenon
<1>8. FramesOK(fr, Placed(c) \cup L \cup E) /\ ScopesOK(sc)
  <2>1. FramesOK(fr, Placed(c) \cup Owed(o)) /\ ScopesOK(sc)
    BY <1>1, Zenon DEF LowerInv
  <2> HIDE DEF E
  <2> QED BY <1>1, <2>1, StaysLive
<1> QED BY <1>2, <1>5, <1>7, <1>8, Zenon DEF u, x, Q, D

LEMMA Replaced ==
  ASSUME NEW o, NEW fr, NEW sc, NEW c, NEW m, NEW s, NEW L, NEW T, NEW n, NEW y,
         Replaces(o, fr, sc, c, m, s, L, T, n, y)
  PROVE  LowerInv(Append(Below(o), y), fr, sc, c \o s, n)
<1> DEFINE E == (Owed(o) \ Owes(LastOf(o))) \cup Owes(y)
           q == Append(Below(o), y)
<1>1. /\ Stack(q, Placed(c) \cup L, E, Len(fr), Len(sc)) /\ LastOf(q) = y
      /\ FramesOK(fr, Placed(c) \cup L \cup E) /\ ScopesOK(sc)
      /\ Len(fr) \in Nat /\ Len(sc) \in Nat
  BY ReplacedStack, Zenon
<1>2. y.kind # "match" /\ LowerInv(o, fr, sc, c, m) /\ Emits(c, m, Owed(o), s, L, T, n, E)
  BY DEF Replaces
<1> HIDE DEF q, E
<1>3. LowerInv(q, fr, sc, c \o s, n)
  <2>1. LastOf(q).kind # "match"
    BY <1>1, <1>2
  <2> QED BY <1>1, <1>2, <2>1, Lowered, Zenon
<1> QED BY <1>3 DEF q

\* ... and its next part z is begun.
LEMMA ReplacedAndOpened ==
  ASSUME NEW o, NEW fr, NEW sc, NEW c, NEW m, NEW s, NEW L, NEW T, NEW n, NEW y,
         Replaces(o, fr, sc, c, m, s, L, T, n, y),
         NEW z, ItemOK(z, Placed(c) \cup L), Owes(z) = {}, Nests(y, z), z.kind # "match",
         FrameOf(z) = 0, ScopeOf(z) = 0
  PROVE  LowerInv(Append(Append(Below(o), y), z), fr, sc, c \o s, n)
<1> DEFINE E == (Owed(o) \ Owes(LastOf(o))) \cup Owes(y)
           q == Append(Below(o), y)
           r == Append(q, z)
           Q == Placed(c) \cup L
<1>1. /\ Stack(q, Q, E, Len(fr), Len(sc)) /\ LastOf(q) = y
      /\ FramesOK(fr, Placed(c) \cup L \cup E) /\ ScopesOK(sc)
      /\ Len(fr) \in Nat /\ Len(sc) \in Nat
  BY ReplacedStack, Zenon
<1>2. LowerInv(o, fr, sc, c, m) /\ Emits(c, m, Owed(o), s, L, T, n, E)
  BY DEF Replaces
<1> HIDE DEF q, E
<1>3. Owes(z) \cap E = {} /\ E \cup Owes(z) = E /\ Nests(LastOf(q), z)
      /\ Len(fr) + FrameOf(z) = Len(fr) /\ Len(sc) + ScopeOf(z) = Len(sc)
  BY <1>1
<1>4. Stack(r, Q, E \cup Owes(z), Len(fr) + FrameOf(z), Len(sc) + ScopeOf(z)) /\ LastOf(r) = z
  BY <1>1, <1>3, PushedStack, Zenon
<1> HIDE DEF r
<1>5. Stack(r, Q, E, Len(fr), Len(sc)) /\ LastOf(r).kind # "match"
  BY <1>3, <1>4, Zenon
<1>6. LowerInv(r, fr, sc, c \o s, n)
  BY <1>1, <1>2, <1>5, Lowered, Zenon
<1> QED BY <1>6 DEF r, q

\* The last element is dropped.
LEMMA FramesPopped ==
  ASSUME NEW fr, NEW live, FramesOK(fr, live), Len(fr) >= 1
  PROVE  FramesOK(SubSeq(fr, 1, Len(fr) - 1), live) /\ Len(SubSeq(fr, 1, Len(fr) - 1)) = Len(fr) - 1
<1> DEFINE k == Len(fr) - 1
           gr == SubSeq(fr, 1, k)
<1>1. IsSequence(fr) /\ k \in 0 .. Len(fr) /\ Len(fr) \in Nat
  BY SeqTyped DEF FramesOK
<1>2. IsSequence(gr) /\ Len(gr) = k /\ \A i \in 1 .. k : gr[i] = fr[i]
  <2> HIDE DEF k
  <2> QED BY <1>1, PrefixIs
<1>3. \A i \in 1 .. k : i \in 1 .. Len(fr)
  BY <1>1
<1> HIDE DEF gr, k
<1>4. FramesOK(gr, live)
  BY <1>2, <1>3 DEF FramesOK
<1> QED BY <1>2, <1>4 DEF gr, k

LEMMA ScopesPopped ==
  ASSUME NEW sc, ScopesOK(sc), Len(sc) >= 1
  PROVE  ScopesOK(SubSeq(sc, 1, Len(sc) - 1)) /\ Len(SubSeq(sc, 1, Len(sc) - 1)) = Len(sc) - 1
<1> DEFINE k == Len(sc) - 1
           tc == SubSeq(sc, 1, k)
<1>1. IsSequence(sc) /\ k \in 0 .. Len(sc) /\ Len(sc) \in Nat
  BY SeqTyped DEF ScopesOK
<1>2. IsSequence(tc) /\ Len(tc) = k /\ \A i \in 1 .. k : tc[i] = sc[i]
  <2> HIDE DEF k
  <2> QED BY <1>1, PrefixIs
<1>3. \A i \in 1 .. k : i \in 1 .. Len(sc)
  BY <1>1
<1> HIDE DEF tc, k
<1>4. ScopesOK(tc)
  BY <1>2, <1>3 DEF ScopesOK
<1> QED BY <1>2, <1>4 DEF tc, k

\* What a finished statement places: everything it owes.
Closes(o, fr, sc, c, m, s, L, T, gr, tc) ==
  LET x == LastOf(o)
  IN  /\ LowerInv(o, fr, sc, c, m) /\ x.kind \notin {"root", "body"}
      /\ Piece(s, L, T) /\ L = Owes(x) /\ T \subseteq Placed(c) \cup L \cup Owed(o)
      /\ Len(gr) = Len(fr) - FrameOf(x) /\ (gr = fr \/ gr = SubSeq(fr, 1, Len(fr) - 1))
      /\ Len(tc) = Len(sc) - ScopeOf(x) /\ ScopesOK(tc)

LEMMA Closed ==
  ASSUME NEW o, NEW fr, NEW sc, NEW c, NEW m, NEW s, NEW L, NEW T, NEW gr, NEW tc,
         Closes(o, fr, sc, c, m, s, L, T, gr, tc)
  PROVE  LowerInv(Below(o), gr, tc, c \o s, m)
<1> DEFINE x == LastOf(o)
           E == Owed(o) \ Owes(x)
           live == Placed(c) \cup L \cup E
<1>1. /\ LowerInv(o, fr, sc, c, m) /\ x.kind \notin {"root", "body"} /\ x.kind # "root"
      /\ Piece(s, L, T) /\ L = Owes(x) /\ T \subseteq Placed(c) \cup L \cup Owed(o)
      /\ Len(gr) = Len(fr) - FrameOf(x) /\ (gr = fr \/ gr = SubSeq(fr, 1, Len(fr) - 1))
      /\ Len(tc) = Len(sc) - ScopeOf(x) /\ ScopesOK(tc)
  BY DEF Closes
<1>2. m \in Nat /\ FramesOK(fr, Placed(c) \cup Owed(o))
  BY <1>1 DEF LowerInv, CodeOK
<1>3. Owes(x) \subseteq Owed(o) /\ Len(fr) \in Nat /\ Len(fr) - FrameOf(x) \in Nat
  BY <1>1, TopItem, Zenon
<1>4. Emits(c, m, Owed(o), s, L, T, m, E)
  BY <1>1, <1>2, <1>3 DEF Emits
<1>5. FramesOK(fr, live)
  <2> HIDE DEF E
  <2> QED BY <1>2, <1>4, StaysLive
<1>6. FramesOK(gr, live)
  <2> HIDE DEF live
  <2>1. CASE gr = fr
    BY <1>5, <2>1
  <2>2. CASE gr # fr /\ Len(fr) >= 1
    BY <1>1, <1>5, <2>2, FramesPopped
  <2>3. CASE Len(fr) = 0
    <3>1. Len(gr) = 0
      <4>1. FrameOf(x) \in {0, 1}
        BY DEF FrameOf
      <4> QED BY <1>1, <1>3, <2>3, <4>1
    <3>2. IsSequence(fr)
      BY <1>5 DEF FramesOK
    <3>3. CASE gr = SubSeq(fr, 1, Len(fr) - 1)
      <4>1. SubSeq(fr, 1, Len(fr) - 1) = <<>>
        BY <2>3
      <4>2. gr = <<>> /\ fr = <<>>
        BY <2>3, <3>2, <3>3, <4>1 DEF IsSequence
      <4> QED BY <1>5, <4>2
    <3> QED BY <1>1, <1>5, <3>3
  <2> QED BY <1>3, <2>1, <2>2, <2>3
<1> QED BY <1>1, <1>4, <1>6, CloseStep, Zenon

LEMMA EndBlockLowered ==
  ASSUME Lowering, Top.kind = "block"
  PROVE  /\ Ctx /\ CanRun(scopes[Len(scopes)], FALSE) =>
                  LowerInv(Under, frames, SubSeq(scopes, 1, Len(scopes) - 1),
                            code \o (Runs(scopes[Len(scopes)], FALSE)
                                     \o <<Instr("close", 0, FALSE)>>), labels)
         /\ ~ Ctx => LowerInv(Under, frames, scopes, code \o <<Instr("close", 0, FALSE)>>, labels)
<1> DEFINE x == LastOf(open)
           e == <<Instr("close", 0, FALSE)>>
           r == Runs(scopes[Len(scopes)], FALSE)
           tc == SubSeq(scopes, 1, Len(scopes) - 1)
           T == Placed(code) \cup Owed(open)
           fine == CanRun(scopes[Len(scopes)], FALSE)
<1>1. /\ LowerInv(open, frames, scopes, code, labels) /\ x.kind = "block" /\ x.ctx = Ctx
      /\ Ctx \in BOOLEAN
  BY StackNames, LoweringFacts DEF Lowering, Ctx, ItemOK
<1>2. ScopesOK(scopes) /\ Len(scopes) >= 1 /\ Len(scopes) \in 1 .. Len(scopes)
      /\ Len(scopes) \in Nat /\ Len(frames) \in Nat
  BY LoweringFacts, HasRootScope
<1>3. Piece(e, {}, {})
  BY InstrPieces
<1>4. fine => Piece(r, {}, T)
  <2>1. IsSequence(scopes[Len(scopes)])
    BY <1>2 DEF ScopesOK
  <2>2. TargetsLive(T)
    BY TargetLive
  <2> HIDE DEF T
  <2> QED BY <2>1, <2>2, RunsPiece
<1>5. ScopesOK(tc) /\ Len(tc) = Len(scopes) - 1
  BY <1>2, ScopesPopped
<1> HIDE DEF e, r, tc, x, T, fine
<1>6. fine => Piece(r \o e, {}, T)
  <2> SUFFICES ASSUME fine PROVE Piece(r \o e, {}, T)
    OBVIOUS
  <2>1. Piece(r \o e, {} \cup {}, T \cup {})
    BY <1>3, <1>4, PieceJoined, Zenon
  <2>2. {} \cup {} = {} /\ T \cup {} = T
    OBVIOUS
  <2> QED BY <2>1, <2>2, Zenon
<1>7. Owes(x) = {} /\ FrameOf(x) = 0 /\ ScopeOf(x) = (IF Ctx THEN 1 ELSE 0)
  BY <1>1 DEF Owes, FrameOf, ScopeOf, HasFrame, HasScope
<1>8. ASSUME Ctx, fine PROVE LowerInv(Below(open), frames, tc, code \o (r \o e), labels)
  <2>1. Closes(open, frames, scopes, code, labels, r \o e, {}, T, frames, tc)
    BY <1>1, <1>2, <1>5, <1>6, <1>7, <1>8 DEF Closes, x, T
  <2> QED BY <2>1, Closed
<1>9. ASSUME ~ Ctx PROVE LowerInv(Below(open), frames, scopes, code \o e, labels)
  <2>1. Closes(open, frames, scopes, code, labels, e, {}, {}, frames, scopes)
    BY <1>1, <1>2, <1>3, <1>7, <1>9 DEF Closes, x
  <2> QED BY <2>1, Closed
<1>10. Under = Below(open)
  BY StackNames
<1> QED BY <1>8, <1>9, <1>10 DEF e, r, tc, fine

LEMMA EndElseLowered ==
  ASSUME Lowering, Top.kind = "else"
  PROVE  LowerInv(Under, frames, scopes, code \o <<Label(Top.end)>>, labels)
<1> DEFINE x == LastOf(open)
           s == <<Label(x.end)>>
<1>1. LowerInv(open, frames, scopes, code, labels) /\ x.kind = "else"
  BY StackNames DEF Lowering
<1>2. ScopesOK(scopes) /\ Len(scopes) \in Nat /\ Len(frames) \in Nat
  BY LoweringFacts
<1>3. Piece(s, {x.end}, {})
  BY InstrPieces
<1> HIDE DEF s, x
<1>4. Owes(x) = {x.end} /\ FrameOf(x) = 0 /\ ScopeOf(x) = 0
  BY <1>1 DEF Owes, FrameOf, ScopeOf, HasFrame, HasScope
<1>5. Closes(open, frames, scopes, code, labels, s, {x.end}, {}, frames, scopes)
  BY <1>1, <1>2, <1>3, <1>4 DEF Closes, x
<1>6. LowerInv(Below(open), frames, scopes, code \o s, labels)
  BY <1>5, Closed
<1> QED BY <1>6, StackNames DEF s, x

LEMMA EndSwitchLowered ==
  ASSUME Lowering, Top.kind = "switch", Top.left = 0
  PROVE  LowerInv(Under, SubSeq(frames, 1, Len(frames) - 1), scopes,
                  code \o <<Label(Top.end)>>, labels)
<1> DEFINE x == LastOf(open)
           s == <<Label(x.end)>>
           gr == SubSeq(frames, 1, Len(frames) - 1)
<1>1. LowerInv(open, frames, scopes, code, labels) /\ x.kind = "switch" /\ x.left = 0
  BY StackNames DEF Lowering
<1>2. ScopesOK(scopes) /\ Len(scopes) \in Nat /\ Len(frames) \in Nat
      /\ FramesOK(frames, Placed(code) \cup Owed(open)) /\ ItemOK(x, Placed(code))
  BY LoweringFacts, StackNames
<1>3. Piece(s, {x.end}, {})
  BY InstrPieces
<1> HIDE DEF s, x
<1>4. Owes(x) = {x.end} /\ FrameOf(x) = 1 /\ ScopeOf(x) = 0
  <2>1. x.next + 1 .. x.next + x.left = {}
    BY <1>1, <1>2 DEF ItemOK
  <2> QED BY <1>1, <2>1 DEF Owes, FrameOf, ScopeOf, HasFrame, HasScope
<1>5. Len(gr) = Len(frames) - 1
  <2>1. Len(frames) - FrameOf(x) \in Nat
    BY <1>1, TopItem DEF x
  <2>2. Len(frames) >= 1
    BY <1>2, <1>4, <2>1
  <2> QED BY <1>2, <2>2, FramesPopped
<1> HIDE DEF gr
<1>6. Closes(open, frames, scopes, code, labels, s, {x.end}, {}, gr, scopes)
  BY <1>1, <1>2, <1>3, <1>4, <1>5 DEF Closes, x, gr
<1>7. LowerInv(Below(open), gr, scopes, code \o s, labels)
  BY <1>6, Closed
<1> QED BY <1>7, StackNames DEF s, x, gr

LEMMA EndLoopLowered ==
  ASSUME Lowering, Top.kind \in {"while", "for"}
  PROVE  LowerInv(Under, SubSeq(frames, 1, Len(frames) - 1), scopes,
                  code \o (StepLabel \o <<Jump(Top.next), Label(Top.end)>>), labels)
<1> DEFINE x == LastOf(open)
           a == StepLabel
           b == <<Jump(x.next), Label(x.end)>>
           s == a \o b
           gr == SubSeq(frames, 1, Len(frames) - 1)
           K == IF x.kind = "for" THEN {x.next + 1} ELSE {}
<1>1. LowerInv(open, frames, scopes, code, labels) /\ x.kind \in {"while", "for"} /\ Top = x
  BY StackNames DEF Lowering
<1>2. ScopesOK(scopes) /\ Len(scopes) \in Nat /\ Len(frames) \in Nat
      /\ FramesOK(frames, Placed(code) \cup Owed(open)) /\ ItemOK(x, Placed(code))
  BY LoweringFacts, StackNames
<1>3. Piece(b, {x.end}, {x.next})
  <2>1. Piece(b, {} \cup {x.end}, {x.next} \cup {})
    <3> HIDE DEF x
    <3> QED BY InstrPieces, TwoPieces, Zenon
  <2> QED BY <2>1
<1>4. Piece(a, K, {})
  <2>1. Piece(<<Label(x.next + 1)>>, {x.next + 1}, {}) /\ Piece(<<>>, {}, {})
    BY InstrPieces, NoPiece
  <2>2. a = IF x.kind = "for" THEN <<Label(x.next + 1)>> ELSE <<>>
    BY <1>1, Zenon DEF StepLabel
  <2> HIDE DEF x, a
  <2> QED BY <2>1, <2>2
<1> HIDE DEF a, b, x
<1>5. K \cap {x.end} = {} /\ x.next \in Placed(code)
  BY <1>1, <1>2 DEF ItemOK
<1>6. Piece(s, K \cup {x.end}, {} \cup {x.next})
  <2> HIDE DEF K
  <2> QED BY <1>3, <1>4, <1>5, PieceJoined, Zenon
<1>7. Owes(x) = K \cup {x.end} /\ FrameOf(x) = 1 /\ ScopeOf(x) = 0
  BY <1>1 DEF Owes, FrameOf, ScopeOf, HasFrame, HasScope
<1>8. Len(gr) = Len(frames) - 1
  <2>1. Len(frames) - FrameOf(x) \in Nat
    BY <1>1, TopItem DEF x
  <2>2. Len(frames) >= 1
    BY <1>2, <1>7, <2>1
  <2> QED BY <1>2, <2>2, FramesPopped
<1> HIDE DEF gr, s, K
<1>9. Closes(open, frames, scopes, code, labels, s, K \cup {x.end}, {} \cup {x.next}, gr, scopes)
  BY <1>1, <1>2, <1>5, <1>6, <1>7, <1>8 DEF Closes, x, gr
<1>10. LowerInv(Below(open), gr, scopes, code \o s, labels)
  BY <1>9, Closed
<1> QED BY <1>10, StackNames DEF s, x, gr, a, b

\* The end of an arm of an if, up to what follows.
LEMMA ArmDone ==
  ASSUME Lowering, Top.kind = "arm"
  PROVE  LET x == LastOf(open)
         IN  /\ Top = x /\ LowerInv(open, frames, scopes, code, labels) /\ x.kind = "arm"
             /\ Piece(<<Jump(x.end), Label(x.next)>>, {x.next}, {x.end})
             /\ x.next # x.end /\ Owes(x) = {x.next, x.end} /\ Owes(x) \subseteq Owed(open)
             /\ FrameOf(x) = 0 /\ ScopeOf(x) = 0 /\ ItemOK(x, Placed(code))
             /\ labels \in Nat \ {0} /\ Owed(open) \subseteq 1 .. labels - 1
             /\ ScopesOK(scopes) /\ Len(scopes) \in Nat /\ Len(frames) \in Nat
<1> DEFINE x == LastOf(open)
<1>1. LowerInv(open, frames, scopes, code, labels) /\ x.kind = "arm" /\ Top = x /\ x.kind # "root"
  BY StackNames DEF Lowering
<1>2. ScopesOK(scopes) /\ Len(scopes) \in Nat /\ Len(frames) \in Nat /\ ItemOK(x, Placed(code))
      /\ labels \in Nat \ {0} /\ Owed(open) \subseteq 1 .. labels - 1
  BY LoweringFacts, StackNames
<1>3. Owes(x) \subseteq Owed(open)
  BY <1>1, TopItem, Zenon
<1> HIDE DEF x
<1>4. Piece(<<Jump(x.end), Label(x.next)>>, {} \cup {x.next}, {x.end} \cup {})
  BY InstrPieces, TwoPieces, Zenon
<1>5. Piece(<<Jump(x.end), Label(x.next)>>, {x.next}, {x.end})
  BY <1>4
<1>6. Owes(x) = {x.next, x.end} /\ FrameOf(x) = 0 /\ ScopeOf(x) = 0 /\ x.next # x.end
  BY <1>1, <1>2 DEF Owes, FrameOf, ScopeOf, HasFrame, HasScope, ItemOK
<1> QED BY <1>1, <1>2, <1>3, <1>5, <1>6 DEF x

LEMMA EndIfLowered ==
  ASSUME Lowering, Top.kind = "arm"
  PROVE  LowerInv(Under, frames, scopes,
                  code \o (<<Jump(Top.end), Label(Top.next)>> \o <<Label(Top.end)>>), labels)
<1> DEFINE x == LastOf(open)
           a == <<Jump(x.end), Label(x.next)>>
           b == <<Label(x.end)>>
           s == a \o b
<1>1. /\ Top = x /\ LowerInv(open, frames, scopes, code, labels) /\ x.kind = "arm"
      /\ Piece(a, {x.next}, {x.end})
      /\ x.next # x.end /\ Owes(x) = {x.next, x.end}
      /\ FrameOf(x) = 0 /\ ScopeOf(x) = 0
      /\ ScopesOK(scopes) /\ Len(scopes) \in Nat /\ Len(frames) \in Nat
  BY ArmDone
<1>2. Piece(b, {x.end}, {})
  BY InstrPieces
<1> HIDE DEF a, b, x
<1>3. Piece(s, {x.next, x.end}, {x.end})
  <2>1. {x.next} \cap {x.end} = {} /\ {x.next} \cup {x.end} = {x.next, x.end}
        /\ {x.end} \cup {} = {x.end}
    BY <1>1
  <2>2. Piece(s, {x.next} \cup {x.end}, {x.end} \cup {})
    BY <1>1, <1>2, <2>1, PieceJoined, Zenon
  <2> QED BY <2>1, <2>2, Zenon
<1> HIDE DEF s
<1>4. Closes(open, frames, scopes, code, labels, s, {x.next, x.end}, {x.end}, frames, scopes)
  BY <1>1, <1>3 DEF Closes, x
<1>5. LowerInv(Below(open), frames, scopes, code \o s, labels)
  BY <1>4, Closed
<1> QED BY <1>1, <1>5, StackNames DEF s, a, b

LEMMA ElseIfLowered ==
  ASSUME Lowering, Top.kind = "arm"
  PROVE  LowerInv(Append(Under, [Top EXCEPT !.left = 1, !.next = labels]), frames, scopes,
                  code \o (<<Jump(Top.end), Label(Top.next)>> \o <<Branch(labels)>>), labels + 1)
<1> DEFINE x == LastOf(open)
           y == [x EXCEPT !.left = 1, !.next = labels]
           m == labels
           a == <<Jump(x.end), Label(x.next)>>
           b == <<Branch(labels)>>
           s == a \o b
           D == Owed(open)
           E == (D \ Owes(x)) \cup Owes(y)
<1>1. /\ Top = x /\ LowerInv(open, frames, scopes, code, m) /\ x.kind = "arm"
      /\ Piece(a, {x.next}, {x.end})
      /\ x.next # x.end /\ Owes(x) = {x.next, x.end} /\ Owes(x) \subseteq D
      /\ FrameOf(x) = 0 /\ ScopeOf(x) = 0 /\ ItemOK(x, Placed(code))
      /\ m \in Nat \ {0} /\ D \subseteq 1 .. m - 1
  BY ArmDone
<1>2. Piece(b, {}, {m})
  BY InstrPieces
<1>3. /\ DOMAIN y = DOMAIN x /\ y.left = 1 /\ y.next = m /\ y.kind = x.kind /\ y.ctx = x.ctx
      /\ y.end = x.end
  <2> HIDE DEF x
  <2> QED BY <1>1 DEF ItemOK
<1> HIDE DEF a, b, x, y, m, D
<1>4. Piece(s, {x.next}, {x.end, m})
  <2>1. {x.next} \cup {} = {x.next} /\ {x.end} \cup {m} = {x.end, m} /\ {x.next} \cap {} = {}
    OBVIOUS
  <2>2. Piece(s, {x.next} \cup {}, {x.end} \cup {m})
    BY <1>1, <1>2, <2>1, PieceJoined, Zenon
  <2> QED BY <2>1, <2>2, Zenon
<1> HIDE DEF s
<1>5. m \notin D /\ m # x.end
  <2>1. m \notin 1 .. m - 1
    BY <1>1
  <2> QED BY <1>1, <2>1
<1>6. /\ ItemOK(y, Placed(code) \cup {x.next}) /\ Owes(y) = {m, x.end}
      /\ FrameOf(y) = 0 /\ ScopeOf(y) = 0
  BY <1>1, <1>3, <1>5 DEF Owes, FrameOf, ScopeOf, HasFrame, HasScope, ItemOK
<1>7. Owes(y) \cap (D \ Owes(x)) = {}
  BY <1>1, <1>5, <1>6
<1>8. Emits(code, m, D, s, {x.next}, {x.end, m}, m + 1, E)
  <2>1. m + 1 \in Nat /\ m <= m + 1 /\ m \in m .. (m + 1) - 1
    BY <1>1
  <2>2. /\ {x.next} \subseteq D /\ {x.next} \cap E = {} /\ {x.end, m} \subseteq E
        /\ D \subseteq E \cup {x.next} /\ E \subseteq D \cup {m}
    BY <1>1, <1>5, <1>6
  <2> HIDE DEF E
  <2> QED BY <1>4, <2>1, <2>2 DEF Emits
<1> HIDE DEF E
<1>9. Replaces(open, frames, scopes, code, m, s, {x.next}, {x.end, m}, m + 1, y)
  BY <1>1, <1>3, <1>6, <1>7, <1>8 DEF Replaces, x, D, E
<1>10. LowerInv(Append(Below(open), y), frames, scopes, code \o s, m + 1)
  BY <1>9, Replaced, Zenon
<1>11. y = [Top EXCEPT !.left = 1, !.next = labels] /\ Under = Below(open) /\ labels = m
       /\ s = <<Jump(Top.end), Label(Top.next)>> \o <<Branch(labels)>>
  BY <1>1, StackNames, Zenon DEF y, s, a, b, m
<1> QED BY <1>10, <1>11, Zenon

LEMMA ElseLowered ==
  ASSUME Lowering, Top.kind = "arm"
  PROVE  LowerInv(Append(Under, [Top EXCEPT !.kind = "else", !.left = 1]), frames, scopes,
                  code \o <<Jump(Top.end), Label(Top.next)>>, labels)
<1> DEFINE x == LastOf(open)
           y == [x EXCEPT !.kind = "else", !.left = 1]
           m == labels
           s == <<Jump(x.end), Label(x.next)>>
           D == Owed(open)
           E == (D \ Owes(x)) \cup Owes(y)
<1>1. /\ Top = x /\ LowerInv(open, frames, scopes, code, m) /\ x.kind = "arm"
      /\ Piece(s, {x.next}, {x.end})
      /\ x.next # x.end /\ Owes(x) = {x.next, x.end} /\ Owes(x) \subseteq D
      /\ FrameOf(x) = 0 /\ ScopeOf(x) = 0 /\ ItemOK(x, Placed(code))
      /\ m \in Nat \ {0} /\ D \subseteq 1 .. m - 1
  BY ArmDone
<1>2. /\ DOMAIN y = DOMAIN x /\ y.left = 1 /\ y.next = x.next /\ y.kind = "else" /\ y.ctx = x.ctx
      /\ y.end = x.end
  <2> HIDE DEF x
  <2> QED BY <1>1 DEF ItemOK
<1> HIDE DEF s, x, y, m, D
<1>3. /\ ItemOK(y, Placed(code) \cup {x.next}) /\ Owes(y) = {x.end}
      /\ FrameOf(y) = 0 /\ ScopeOf(y) = 0
  BY <1>1, <1>2 DEF Owes, FrameOf, ScopeOf, HasFrame, HasScope, ItemOK
<1>4. Owes(y) \cap (D \ Owes(x)) = {}
  BY <1>1, <1>3
<1>5. Emits(code, m, D, s, {x.next}, {x.end}, m, E)
  <2>1. m \in Nat /\ m <= m
    BY <1>1
  <2>2. /\ {x.next} \subseteq D /\ {x.next} \cap E = {} /\ {x.end} \subseteq E
        /\ D \subseteq E \cup {x.next} /\ E \subseteq D
    BY <1>1, <1>3
  <2> HIDE DEF E
  <2> QED BY <1>1, <2>1, <2>2 DEF Emits
<1> HIDE DEF E
<1>6. Replaces(open, frames, scopes, code, m, s, {x.next}, {x.end}, m, y)
  BY <1>1, <1>2, <1>3, <1>4, <1>5 DEF Replaces, x, D, E
<1>7. LowerInv(Append(Below(open), y), frames, scopes, code \o s, m)
  BY <1>6, Replaced, Zenon
<1>8. y = [Top EXCEPT !.kind = "else", !.left = 1] /\ Under = Below(open) /\ labels = m
      /\ s = <<Jump(Top.end), Label(Top.next)>>
  BY <1>1, StackNames, Zenon DEF y, s, m
<1> QED BY <1>7, <1>8, Zenon

LEMMA NextCaseLowered ==
  ASSUME Lowering, Top.kind = "switch", Top.left > 0
  PROVE  LET item == [Top EXCEPT !.left = @ - 1, !.next = @ + 1]
         IN  LowerInv(Append(Append(Under, item), BlockItem(FALSE, Depth)), frames, scopes,
                      code \o <<Label(item.next), Instr("open", 0, FALSE)>>, labels)
<1> DEFINE x == LastOf(open)
           y == [x EXCEPT !.left = x.left - 1, !.next = x.next + 1]
           z == BlockItem(FALSE, Depth)
           m == labels
           l == x.next + 1
           s == <<Label(l), Instr("open", 0, FALSE)>>
           D == Owed(open)
           E == (D \ Owes(x)) \cup Owes(y)
<1>1. /\ Top = x /\ LowerInv(open, frames, scopes, code, m) /\ x.kind = "switch" /\ x.left > 0
      /\ x.kind # "root"
  BY StackNames DEF Lowering
<1>2. /\ ItemOK(x, Placed(code)) /\ m \in Nat \ {0}
  BY LoweringFacts, StackNames
<1>3. Owes(x) \subseteq D
  BY <1>1, TopItem, Zenon
<1>4. Piece(s, {l}, {})
  <2> HIDE DEF l
  <2>1. Piece(s, {l} \cup {}, {} \cup {})
    BY InstrPieces, TwoPieces, Zenon
  <2> QED BY <2>1
<1>5. /\ ItemOK(z, Placed(code) \cup {l}) /\ Owes(z) = {} /\ z.kind = "block"
      /\ FrameOf(z) = 0 /\ ScopeOf(z) = 0
  BY BlockIs
<1> HIDE DEF x, z
<1>6. /\ DOMAIN y = DOMAIN x /\ y.left = x.left - 1 /\ y.next = l /\ y.kind = x.kind
      /\ y.ctx = x.ctx /\ y.end = x.end
  BY <1>2 DEF ItemOK
<1>7. x.left \in Nat /\ x.next \in Nat /\ x.end \in Nat /\ x.end < x.next
  BY <1>1, <1>2 DEF ItemOK
<1> HIDE DEF y, m, D, s
<1>8. ItemOK(y, Placed(code) \cup {l}) /\ FrameOf(y) = FrameOf(x) /\ ScopeOf(y) = ScopeOf(x)
      /\ Nests(y, z) /\ z.kind # "match" /\ y.kind \notin {"root", "body", "match"}
      /\ x.kind \notin {"root", "body"}
  BY <1>1, <1>2, <1>5, <1>6, <1>7 DEF ItemOK, FrameOf, ScopeOf, HasFrame, HasScope, Nests
<1>9. Owes(x) = Owes(y) \cup {l} /\ l \notin Owes(y)
  <2>1. Owes(x) = {x.end} \cup (x.next + 1 .. x.next + x.left)
    BY <1>1 DEF Owes
  <2>2. Owes(y) = {x.end} \cup (l + 1 .. l + (x.left - 1))
    BY <1>1, <1>6 DEF Owes
  <2>3. /\ x.next + 1 .. x.next + x.left = (l + 1 .. l + (x.left - 1)) \cup {l}
        /\ l \notin l + 1 .. l + (x.left - 1) /\ l # x.end
    BY <1>1, <1>7
  <2> HIDE DEF l
  <2> QED BY <2>1, <2>2, <2>3
<1> HIDE DEF l
<1>10. Owes(y) \cap (D \ Owes(x)) = {}
  BY <1>9
<1>11. Emits(code, m, D, s, {l}, {}, m, E)
  <2>1. m \in Nat /\ m <= m
    BY <1>2
  <2>2. {l} \subseteq D /\ {l} \cap E = {} /\ D \subseteq E \cup {l} /\ E \subseteq D
    BY <1>3, <1>9
  <2> HIDE DEF E
  <2> QED BY <1>4, <2>1, <2>2 DEF Emits
<1> HIDE DEF E
<1>12. Replaces(open, frames, scopes, code, m, s, {l}, {}, m, y)
  BY <1>1, <1>8, <1>10, <1>11 DEF Replaces, x, D, E
<1>13. LowerInv(Append(Append(Below(open), y), z), frames, scopes, code \o s, m)
  BY <1>5, <1>8, <1>12, ReplacedAndOpened, Zenon
<1>14. y = [Top EXCEPT !.left = @ - 1, !.next = @ + 1]
  BY <1>1 DEF y
<1> QED BY <1>6, <1>13, <1>14, StackNames DEF z, s, m

LEMMA TwoAppended ==
  ASSUME NEW w, IsSequence(w), NEW y, NEW z
  PROVE  Append(Append(w, y), z) = w \o <<y, z>>
<1> DEFINE S == {w[i] : i \in 1 .. Len(w)} \cup {y, z}
           p == <<y, z>>
           a == Append(Append(w, y), z)
           c == w \o p
<1>1. w \in Seq(S) /\ y \in S /\ z \in S /\ Len(w) \in Nat
  BY DEF IsSequence
<1>2. p \in Seq(S) /\ Len(p) = 2 /\ p[1] = y /\ p[2] = z
  OBVIOUS
<1> HIDE DEF S, p
<1>3. a \in Seq(S) /\ Len(a) = Len(w) + 2
      /\ \A i \in 1 .. Len(w) + 2 : a[i] = IF i <= Len(w) THEN w[i] ELSE IF i = Len(w) + 1 THEN y ELSE z
  <2> DEFINE b == Append(w, y)
  <2>1. b \in Seq(S) /\ Len(b) = Len(w) + 1 /\ b[Len(w) + 1] = y /\ \A i \in 1 .. Len(w) : b[i] = w[i]
    BY <1>1
  <2> HIDE DEF b
  <2>2. Append(b, z) \in Seq(S) /\ Len(Append(b, z)) = Len(b) + 1 /\ Append(b, z)[Len(b) + 1] = z
        /\ \A i \in 1 .. Len(b) : Append(b, z)[i] = b[i]
    BY <1>1, <2>1
  <2>3. a = Append(b, z)
    BY DEF b
  <2> HIDE DEF a
  <2> QED BY <1>1, <2>1, <2>2, <2>3
<1>4. c \in Seq(S) /\ Len(c) = Len(w) + 2
      /\ \A i \in 1 .. Len(w) + 2 : c[i] = IF i <= Len(w) THEN w[i] ELSE IF i = Len(w) + 1 THEN y ELSE z
  <2>1. c \in Seq(S) /\ Len(c) = Len(w) + Len(p)
    <3>1. w \in Seq(S) /\ p \in Seq(S)
      BY <1>1, <1>2
    <3> QED BY <3>1
  <2>2. IsSequence(p)
    BY <1>2, SeqIsSequence
  <2>3. /\ \A i \in 1 .. Len(w) : c[i] = w[i]
        /\ \A i \in 1 .. Len(p) : c[Len(w) + i] = p[i]
    BY <2>2, ConcatIs
  <2>4. 1 \in 1 .. Len(p) /\ 2 \in 1 .. Len(p)
    BY <1>2
  <2>5. c[Len(w) + 1] = y /\ c[Len(w) + 2] = z
    BY <1>2, <2>3, <2>4
  <2> HIDE DEF c
  <2> QED BY <1>1, <1>2, <2>1, <2>3, <2>5
<1> HIDE DEF a, c
<1>5. a = c
  BY <1>3, <1>4
<1> QED BY <1>5 DEF a, c, p

\* The end of the body of a match arm: right below it is its match.
LEMMA MatchTop ==
  ASSUME Lowering, Top.kind = "body"
  PROVE  LET x == open[Len(open) - 1]
             w == SubSeq(open, 1, Len(open) - 2)
         IN  /\ x.kind = "match" /\ ItemOK(x, Placed(code)) /\ Owes(x) \subseteq Owed(open)
             /\ Nests(LastOf(w), x) /\ FrameOf(x) = 0 /\ ScopeOf(x) = 0
             /\ Stack(w, Placed(code), Owed(open) \ Owes(x), Len(frames), Len(scopes))
             /\ Len(frames) \in Nat /\ Len(scopes) \in Nat
<1> DEFINE P == Placed(code)
           D == Owed(open)
           nf == Len(frames)
           ns == Len(scopes)
           b == LastOf(open)
           u == Below(open)
           x == LastOf(u)
           w == Below(u)
<1>1. LowerInv(open, frames, scopes, code, labels) /\ b.kind = "body" /\ b.kind # "root"
  BY StackNames DEF Lowering
<1>2. /\ Len(open) > 1 /\ Nests(x, b)
      /\ Stack(u, P, D \ Owes(b), nf - FrameOf(b), ns - ScopeOf(b))
      /\ nf \in Nat /\ ns \in Nat
  BY <1>1, TopItem, Zenon
<1>3. IsSequence(open) /\ Len(open) \in Nat
  BY <1>1, SeqTyped DEF LowerInv, Stack, StackOK
<1>4. /\ IsSequence(u) /\ Len(u) = Len(open) - 1
      /\ \A i \in 1 .. Len(open) - 1 : u[i] = open[i]
  <2> DEFINE k == Len(open) - 1
  <2>1. k \in 0 .. Len(open)
    BY <1>2, <1>3
  <2> HIDE DEF k
  <2>2. /\ IsSequence(SubSeq(open, 1, k)) /\ Len(SubSeq(open, 1, k)) = k
        /\ \A i \in 1 .. k : SubSeq(open, 1, k)[i] = open[i]
    BY <1>3, <2>1, PrefixIs
  <2> QED BY <2>2, Zenon DEF k, u, Below
<1> HIDE DEF b, u, P, D, nf, ns
<1>5. /\ Owes(b) = {} /\ FrameOf(b) = 0 /\ ScopeOf(b) = 0 /\ x.kind = "match"
  BY <1>1, <1>2 DEF Owes, FrameOf, ScopeOf, HasFrame, HasScope, Nests
<1>6. D \ Owes(b) = D /\ nf - FrameOf(b) = nf /\ ns - ScopeOf(b) = ns
  BY <1>2, <1>5
<1>7. Stack(u, P, D, nf, ns)
  BY <1>2, <1>6, Zenon
<1>8. Len(u) > 1
  <2>1. Len(u) >= 1 /\ u[1].kind = "root"
    BY <1>7 DEF Stack, StackOK
  <2> QED BY <1>3, <1>4, <1>5, <2>1 DEF LastOf
<1>9. /\ Stack(w, P, D \ Owes(x), nf - FrameOf(x), ns - ScopeOf(x))
      /\ ItemOK(x, P) /\ Nests(LastOf(w), x) /\ Owes(x) \subseteq D
  BY <1>7, <1>8, PoppedStack, Zenon
<1>10. x = open[Len(open) - 1]
  <2>1. Len(u) \in 1 .. Len(open) - 1
    BY <1>3, <1>4, <1>8
  <2> QED BY <1>4, <2>1 DEF LastOf
<1>11. w = SubSeq(open, 1, Len(open) - 2)
  <2> DEFINE k == Len(open) - 2
             v == SubSeq(open, 1, k)
             t == SubSeq(u, 1, k)
  <2>1. k \in 0 .. Len(open) /\ k \in 0 .. Len(u) /\ Len(u) - 1 = k
        /\ \A i \in 1 .. k : i \in 1 .. Len(open) - 1
    BY <1>3, <1>4, <1>8
  <2> HIDE DEF k
  <2>2. IsSequence(v) /\ Len(v) = k /\ \A i \in 1 .. k : v[i] = open[i]
    BY <1>3, <2>1, PrefixIs
  <2>3. IsSequence(t) /\ Len(t) = k /\ \A i \in 1 .. k : t[i] = u[i]
    BY <1>4, <2>1, PrefixIs
  <2> HIDE DEF v, t
  <2>4. v = t
    BY <1>4, <2>1, <2>2, <2>3 DEF IsSequence
  <2>5. w = SubSeq(u, 1, k)
    BY <2>1 DEF Below
  <2> QED BY <2>4, <2>5 DEF v, t, k
<1> HIDE DEF x, w
<1>12. FrameOf(x) = 0 /\ ScopeOf(x) = 0 /\ nf - FrameOf(x) = nf /\ ns - ScopeOf(x) = ns
  BY <1>2, <1>5 DEF FrameOf, ScopeOf, HasFrame, HasScope
<1>13. Stack(w, P, D \ Owes(x), nf, ns)
  BY <1>9, <1>12, Zenon
<1> QED BY <1>2, <1>5, <1>9, <1>10, <1>11, <1>12, <1>13, Zenon DEF P, D, nf, ns

LEMMA EndMatchLowered ==
  ASSUME Lowering, Top.kind = "body", open[Len(open) - 1].left = 0
  PROVE  LET x == open[Len(open) - 1]
         IN  LowerInv(SubSeq(open, 1, Len(open) - 2), frames, scopes,
                      code \o <<Jump(x.end), Label(x.end)>>, labels)
<1> DEFINE x == open[Len(open) - 1]
           w == SubSeq(open, 1, Len(open) - 2)
           m == labels
           s == <<Jump(x.end), Label(x.end)>>
           D == Owed(open)
           E == D \ Owes(x)
           P == Placed(code)
<1>1. /\ x.kind = "match" /\ ItemOK(x, P) /\ Owes(x) \subseteq D
      /\ Nests(LastOf(w), x) /\ Stack(w, P, E, Len(frames), Len(scopes)) /\ x.left = 0
  BY MatchTop, Zenon
<1>2. m \in Nat /\ FramesOK(frames, P \cup D) /\ ScopesOK(scopes)
      /\ LowerInv(open, frames, scopes, code, m)
  BY LoweringFacts DEF Lowering
<1>3. Piece(s, {x.end}, {x.end})
  <2> HIDE DEF x
  <2>1. Piece(s, {} \cup {x.end}, {x.end} \cup {})
    BY InstrPieces, TwoPieces, Zenon
  <2> QED BY <2>1
<1> HIDE DEF s, x, w, D, m
<1>4. Owes(x) = {x.end}
  <2>1. x.next + 1 .. x.next + x.left = {}
    BY <1>1 DEF ItemOK
  <2> QED BY <1>1, <2>1 DEF Owes
<1>5. Emits(code, m, D, s, {x.end}, {x.end}, m, E)
  BY <1>1, <1>2, <1>3, <1>4 DEF Emits
<1> HIDE DEF E
<1>6. FramesOK(frames, P \cup {x.end} \cup E)
  BY <1>2, <1>5, StaysLive, Zenon
<1>7. Stack(w, P \cup {x.end}, E, Len(frames), Len(scopes))
  <2>1. P \subseteq P \cup {x.end}
    OBVIOUS
  <2> QED BY <1>1, <2>1, StackMorePlaced, Zenon
<1>8. LastOf(w).kind # "match"
  BY <1>1 DEF Nests
<1>9. LowerInv(w, frames, scopes, code \o s, m)
  BY <1>2, <1>5, <1>6, <1>7, <1>8, Lowered, Zenon DEF D
<1> QED BY <1>9 DEF s, x, w, m

LEMMA NextMatchArmLowered ==
  ASSUME Lowering, Top.kind = "body", open[Len(open) - 1].left > 0
  PROVE  LET x == open[Len(open) - 1]
         IN  LowerInv(SubSeq(open, 1, Len(open) - 2)
                        \o <<[x EXCEPT !.left = @ - 1, !.next = @ + 1], [Top EXCEPT !.left = 1]>>,
                      frames, scopes, code \o <<Jump(x.end), Label(x.next + 1)>>, labels)
<1> DEFINE x == open[Len(open) - 1]
           w == SubSeq(open, 1, Len(open) - 2)
           y == [x EXCEPT !.left = x.left - 1, !.next = x.next + 1]
           z == [Top EXCEPT !.left = 1]
           l == x.next + 1
           m == labels
           s == <<Jump(x.end), Label(l)>>
           D == Owed(open)
           F == D \ Owes(x)
           E == F \cup Owes(y)
           P == Placed(code)
           Q == P \cup {l}
           nf == Len(frames)
           ns == Len(scopes)
           o == Append(w, y)
           q == Append(o, z)
<1>1. /\ x.kind = "match" /\ ItemOK(x, P) /\ Owes(x) \subseteq D
      /\ Nests(LastOf(w), x) /\ Stack(w, P, F, nf, ns) /\ x.left > 0
      /\ FrameOf(x) = 0 /\ ScopeOf(x) = 0 /\ nf \in Nat /\ ns \in Nat
  BY MatchTop, Zenon
<1>2. m \in Nat /\ FramesOK(frames, P \cup D) /\ ScopesOK(scopes) /\ ItemOK(Top, P)
      /\ LowerInv(open, frames, scopes, code, m)
  BY LoweringFacts DEF Lowering
<1>3. Piece(s, {l}, {x.end})
  <2> HIDE DEF x, l
  <2>1. Piece(s, {} \cup {l}, {x.end} \cup {})
    BY InstrPieces, TwoPieces, Zenon
  <2> QED BY <2>1
<1>4. /\ DOMAIN z = DOMAIN Top /\ z.left = 1 /\ z.kind = Top.kind /\ z.ctx = Top.ctx
      /\ z.next = Top.next /\ z.end = Top.end
  <2> DEFINE b == Top
  <2>1. ItemOK(b, P)
    BY <1>2
  <2> HIDE DEF b
  <2>2. /\ DOMAIN [b EXCEPT !.left = 1] = DOMAIN b /\ [b EXCEPT !.left = 1].left = 1
        /\ [b EXCEPT !.left = 1].kind = b.kind /\ [b EXCEPT !.left = 1].ctx = b.ctx
        /\ [b EXCEPT !.left = 1].next = b.next /\ [b EXCEPT !.left = 1].end = b.end
    BY <2>1 DEF ItemOK
  <2> QED BY <2>2, Zenon DEF b
<1> HIDE DEF x, w, z, m, D, P, s, nf, ns
<1>5. /\ DOMAIN y = DOMAIN x /\ y.left = x.left - 1 /\ y.next = l /\ y.kind = x.kind
      /\ y.ctx = x.ctx /\ y.end = x.end
  BY <1>1 DEF ItemOK
<1>6. x.left \in Nat /\ x.next \in Nat /\ x.end \in Nat /\ x.end < x.next
  BY <1>1 DEF ItemOK
<1> HIDE DEF y
<1>7. ItemOK(y, Q) /\ FrameOf(y) = 0 /\ ScopeOf(y) = 0 /\ Nests(LastOf(w), y)
  BY <1>1, <1>5, <1>6 DEF ItemOK, FrameOf, ScopeOf, HasFrame, HasScope, Nests
<1>8. Owes(x) = Owes(y) \cup {l} /\ l \notin Owes(y) /\ x.end \in Owes(y)
  <2>1. Owes(x) = {x.end} \cup (x.next + 1 .. x.next + x.left)
    BY <1>1 DEF Owes
  <2>2. Owes(y) = {x.end} \cup (l + 1 .. l + (x.left - 1))
    BY <1>1, <1>5 DEF Owes
  <2>3. /\ x.next + 1 .. x.next + x.left = (l + 1 .. l + (x.left - 1)) \cup {l}
        /\ l \notin l + 1 .. l + (x.left - 1) /\ l # x.end
    <3> DEFINE a == x.next
               b == x.left
    <3>1. a \in Nat /\ b \in Nat /\ b > 0 /\ l = a + 1 /\ x.end \in Nat /\ x.end < a
      BY <1>1, <1>6
    <3> HIDE DEF a, b, l
    <3>2. a + 1 .. a + b = (l + 1 .. l + (b - 1)) \cup {l}
      BY <3>1
    <3>3. l \notin l + 1 .. l + (b - 1) /\ l # x.end
      BY <3>1
    <3> QED BY <3>2, <3>3, Zenon DEF a, b
  <2> HIDE DEF l
  <2> QED BY <2>1, <2>2, <2>3
<1>9. /\ ItemOK(z, Q) /\ Owes(z) = {} /\ FrameOf(z) = 0 /\ ScopeOf(z) = 0 /\ z.kind = "body"
  BY <1>2, <1>4 DEF ItemOK, Owes, FrameOf, ScopeOf, HasFrame, HasScope
<1> HIDE DEF l
<1>10. Emits(code, m, D, s, {l}, {x.end}, m, E)
  <2>1. m <= m
    BY <1>2
  <2>2. {l} \subseteq D /\ {l} \cap E = {} /\ {x.end} \subseteq E
        /\ D \subseteq E \cup {l} /\ E \subseteq D
    BY <1>1, <1>8
  <2> HIDE DEF E
  <2> QED BY <1>2, <1>3, <2>1, <2>2 DEF Emits
<1>11. Stack(w, Q, F, nf, ns) /\ Owes(y) \cap F = {}
  <2>1. P \subseteq Q /\ Owes(y) \cap F = {}
    BY <1>8
  <2> HIDE DEF Q, F
  <2> QED BY <1>1, <2>1, StackMorePlaced, Zenon
<1> HIDE DEF F, Q
<1>12. Stack(o, Q, E, nf + FrameOf(y), ns + ScopeOf(y)) /\ LastOf(o) = y
  BY <1>7, <1>11, PushedStack, Zenon
<1>13. nf + FrameOf(y) = nf /\ ns + ScopeOf(y) = ns /\ nf + FrameOf(z) = nf /\ ns + ScopeOf(z) = ns
  BY <1>1, <1>7, <1>9
<1>14. Stack(o, Q, E, nf, ns)
  BY <1>12, <1>13, Zenon
<1> HIDE DEF E, o
<1>15. Nests(LastOf(o), z) /\ Owes(z) \cap E = {} /\ E \cup Owes(z) = E
  BY <1>1, <1>5, <1>9, <1>12 DEF Nests
<1>16. Stack(q, Q, E \cup Owes(z), nf + FrameOf(z), ns + ScopeOf(z)) /\ LastOf(q) = z
  BY <1>9, <1>14, <1>15, PushedStack, Zenon
<1>17. Stack(q, Q, E, nf, ns)
  BY <1>13, <1>15, <1>16, Zenon
<1>18. LastOf(q).kind # "match"
  BY <1>9, <1>16
<1>19. FramesOK(frames, P \cup {l} \cup E)
  BY <1>2, <1>10, StaysLive, Zenon DEF P
<1> HIDE DEF q
<1>20. LowerInv(q, frames, scopes, code \o s, m)
  BY <1>2, <1>10, <1>17, <1>18, <1>19, Lowered, Zenon DEF D, P, Q, nf, ns
<1>21. q = w \o <<y, z>>
  <2>1. IsSequence(w)
    BY <1>11 DEF Stack, StackOK
  <2> QED BY <2>1, TwoAppended DEF q, o
<1>22. y = [x EXCEPT !.left = @ - 1, !.next = @ + 1]
  BY DEF y
<1> QED BY <1>20, <1>21, <1>22, Zenon DEF x, w, z, m, s, l

-----------------------------------------------------------------------------
(* The end of the function, and its run.                                     *)

LEMMA AllFinished ==
  ASSUME Lowering, Len(open) = 1, Top.kind = "root"
  PROVE  Owed(open) = {} /\ frames = <<>> /\ Len(scopes) = 1
<1>1. /\ Cardinality(FrameItems(open)) = Len(frames) /\ Cardinality(ScopeItems(open)) = Len(scopes)
  BY Zenon DEF Lowering, LowerInv, Stack
<1>2. \A i \in 1 .. Len(open) : i = 1 /\ open[i].kind = "root"
  BY DEF Top
<1>3. 1 \in 1 .. Len(open)
  OBVIOUS
<1>4. Owed(open) = {}
  BY <1>2 DEF Owed, Owes
<1>5. FrameItems(open) = {}
  BY <1>2 DEF FrameItems, HasFrame
<1>6. ScopeItems(open) = {1}
  BY <1>2, <1>3 DEF ScopeItems, HasScope
<1>7. Len(frames) = 0 /\ Len(scopes) = 1
  BY <1>1, <1>5, <1>6, FS_EmptySet, FS_Singleton
<1>8. frames = <<>>
  <2>1. IsSequence(frames)
    BY LoweringFacts
  <2> QED BY <1>7, <2>1 DEF IsSequence
<1> QED BY <1>4, <1>7, <1>8

LEMMA RunStarts ==
  ASSUME Lowering, Len(open) = 1, Top.kind = "root", NeedsImplicitReturn => CanReturn(TRUE)
  PROVE  RunInv(frames, scopes,
                IF NeedsImplicitReturn THEN code \o ReturnCode(0, TRUE) ELSE code, 1)
<1> DEFINE r == ReturnCode(0, TRUE)
           e == code \o r
<1>1. Owed(open) = {} /\ frames = <<>> /\ Len(scopes) = 1
  BY AllFinished
<1>2. CodeOK(code, labels, Owed(open))
  BY Zenon DEF Lowering, LowerInv
<1>3. IsSequence(code) /\ Len(code) \in Nat /\ Piece(code, Placed(code), Placed(code))
  <2>1. Piece(code, Placed(code), Placed(code) \cup Owed(open))
    BY <1>2 DEF CodeOK
  <2>2. Placed(code) \cup Owed(open) = Placed(code)
    BY <1>1
  <2>3. Piece(code, Placed(code), Placed(code))
    BY <2>1, <2>2, Zenon
  <2> QED BY <2>3, SeqTyped DEF Piece
<1>4. CASE NeedsImplicitReturn
  <2>1. EndsReturning(r)
    <3> DEFINE live == Placed(code) \cup Owed(open)
    <3>1. TargetsLive(live) /\ ScopesOK(scopes) /\ labels \in Nat
      BY LoweringFacts, TargetLive
    <3> HIDE DEF live
    <3> QED BY <1>4, <3>1, ReturnPiece
  <2>2. PICK L, T : Emits(code, labels, Owed(open), r, L, T, labels + 2, Owed(open))
    BY <1>4, ReturnEmits
  <2> HIDE DEF r
  <2>3. CodeOK(e, labels + 2, Owed(open))
    BY <1>2, <2>2, CodeGrows, Zenon
  <2>4. IsSequence(r) /\ Len(r) >= 1 /\ Len(r) \in Nat /\ r[Len(r)].op = "return"
    BY <2>1, SeqTyped DEF EndsReturning
  <2>5. IsSequence(e) /\ Len(e) = Len(code) + Len(r)
        /\ \A i \in 1 .. Len(r) : e[Len(code) + i] = r[i]
    BY <1>3, <2>4, ConcatIs
  <2> HIDE DEF e
  <2>6. Len(r) \in 1 .. Len(r) /\ Len(e) \in 1 .. Len(e) /\ 1 \in 1 .. Len(e)
        /\ Len(e) + 1 .. Len(e) = {}
    BY <1>3, <2>4, <2>5
  <2>7. Stops(e, Len(e))
    <3>1. Returns(e[Len(e)])
      BY <2>4, <2>5, <2>6 DEF Returns
    <3> QED BY <2>6, <3>1 DEF Stops
  <2>8. Piece(e, Placed(e), Placed(e))
    <3>1. Piece(e, Placed(e), Placed(e) \cup Owed(open))
      BY <2>3 DEF CodeOK
    <3>2. Placed(e) \cup Owed(open) = Placed(e)
      BY <1>1
    <3> QED BY <3>1, <3>2, Zenon
  <2>9. RunInv(frames, scopes, e, 1)
    BY <1>1, <2>6, <2>7, <2>8, Zenon DEF RunInv
  <2> QED BY <1>4, <2>9, Zenon DEF e, r
<1>5. CASE ~ NeedsImplicitReturn
  <2>1. PICK i \in 1 .. Len(code) : /\ Returns(code[i])
                                    /\ \A k \in i + 1 .. Len(code) : code[k].op \in Marks
    BY <1>5 DEF NeedsImplicitReturn, EndsInReturn, Marks
  <2>2. Stops(code, i) /\ 1 \in 1 .. i
    <3>1. 1 \in 1 .. i
      BY <1>3
    <3> QED BY <2>1, <3>1 DEF Stops
  <2>3. RunInv(frames, scopes, code, 1)
    BY <1>1, <1>3, <2>2, Zenon DEF RunInv
  <2> QED BY <1>5, <2>3, Zenon
<1> QED BY <1>4, <1>5

\* Control goes on behind anything but a return.
LEMMA RunOn ==
  ASSUME NEW fr, NEW sc, NEW c, NEW at, RunInv(fr, sc, c, at), ~ Returns(c[at])
  PROVE  RunInv(fr, sc, c, at + 1)
<1>1. PICK last \in 1 .. Len(c) : Stops(c, last) /\ at \in 1 .. last
  BY DEF RunInv
<1>2. at # last
  BY <1>1 DEF Stops
<1>3. at + 1 \in 1 .. last
  <2>1. last \in Nat
    <3>1. Len(c) \in Nat
      BY SeqTyped DEF RunInv, Piece
    <3> QED BY <3>1
  <2> QED BY <1>1, <1>2, <2>1
<1> QED BY <1>1, <1>3 DEF RunInv

\* A jump or branch goes to a label, and no label is behind the last return.
LEMMA RunTo ==
  ASSUME RunInv(frames, scopes, code, pc), Here.op \in Jumps
  PROVE  RunInv(frames, scopes, code, PositionOf(Here.arg))
<1> DEFINE l == Here.arg
           k == PositionOf(l)
<1>1. PICK last \in 1 .. Len(code) : Stops(code, last) /\ pc \in 1 .. last
  BY DEF RunInv
<1>2. Len(code) \in Nat /\ Targets(code) \subseteq Placed(code)
  BY SeqTyped DEF RunInv, Piece
<1>3. pc \in 1 .. Len(code)
  BY <1>1, <1>2
<1>4. l \in Placed(code)
  BY <1>2, <1>3 DEF Targets, Here
<1> HIDE DEF l
<1>5. \E i \in 1 .. Len(code) : code[i].op = "label" /\ code[i].arg = l
  BY <1>4 DEF Placed
<1>6. k \in 1 .. Len(code) /\ code[k].op = "label"
  BY <1>5 DEF PositionOf
<1> HIDE DEF k
<1>7. k \notin last + 1 .. Len(code)
  BY <1>1, <1>6 DEF Stops, Marks
<1>8. k \in 1 .. last
  BY <1>1, <1>2, <1>6, <1>7
<1>9. RunInv(frames, scopes, code, k)
  BY <1>1, <1>8 DEF RunInv
<1> QED BY <1>9 DEF k, l

-----------------------------------------------------------------------------
(* The invariant.                                                            *)

LEMMA DeferInit == Init => DeferInv
<1> SUFFICES ASSUME Init PROVE LowerInv(open, frames, scopes, code, labels)
  BY DEF Init, DeferInv
<1> DEFINE root == Item("root", TRUE, 0, 0, 0, 0)
           block == Item("block", TRUE, 1, 1, 0, 0)
           l == [op |-> "label", arg |-> 1, flag |-> FALSE, depth |-> 0]
           b == [op |-> "open", arg |-> 0, flag |-> FALSE, depth |-> 0]
<1>1. open = <<root, block>> /\ code = <<l, b>> /\ frames = <<>> /\ scopes = <<<<>>, <<>>>> /\ labels = 2
  BY DEF Init
<1>2. Piece(<<l, b>>, {1} \cup {}, {} \cup {})
  <2>1. l.op = "label" /\ l.arg = 1 /\ b.op = "open"
    OBVIOUS
  <2>2. Piece(<<l>>, {1}, {}) /\ Piece(<<b>>, {}, {})
    <3> HIDE DEF l, b
    <3> QED BY <2>1, OnePiece DEF Jumps
  <2> HIDE DEF l, b
  <2> QED BY <2>2, TwoPieces, Zenon
<1>3. Piece(code, {1}, {}) /\ Placed(code) = {1}
  <2>1. {1} \cup {} = {1} /\ {} \cup {} = {}
    OBVIOUS
  <2>2. Piece(code, {1} \cup {}, {} \cup {})
    BY <1>1, <1>2, Zenon
  <2>3. Piece(code, {1}, {})
    BY <2>1, <2>2, Zenon
  <2> QED BY <2>3 DEF Piece
<1>4. /\ ItemOK(root, {1}) /\ ItemOK(block, {1}) /\ Owes(root) = {} /\ Owes(block) = {}
      /\ ~ HasFrame(root) /\ ~ HasFrame(block) /\ HasScope(root) /\ HasScope(block)
      /\ root.kind = "root" /\ root.left = 0 /\ block.kind = "block" /\ Nests(root, block)
  BY DEF Item, ItemOK, Owes, HasFrame, HasScope, Nests
<1>5. IsSequence(open) /\ Len(open) = 2 /\ open[1] = root /\ open[2] = block
  <2> HIDE DEF root, block
  <2>1. <<root, block>> \in Seq({root, block}) /\ Len(<<root, block>>) = 2
    OBVIOUS
  <2>2. IsSequence(<<root, block>>)
    BY <2>1, SeqIsSequence
  <2> QED BY <1>1, <2>1, <2>2
<1> HIDE DEF root, block, l, b
<1>6. \A i \in 1 .. Len(open) : i = 1 \/ i = 2
  BY <1>5
<1>7. Owed(open) = {} /\ FrameItems(open) = {} /\ ScopeItems(open) = 1 .. 2
  <2>1. Owed(open) = {}
    BY <1>4, <1>5, <1>6 DEF Owed
  <2>2. FrameItems(open) = {}
    BY <1>4, <1>5, <1>6 DEF FrameItems
  <2>3. ScopeItems(open) = 1 .. 2
    BY <1>4, <1>5, <1>6 DEF ScopeItems
  <2> QED BY <2>1, <2>2, <2>3
<1>8. Cardinality(FrameItems(open)) = 0 /\ Cardinality(ScopeItems(open)) = 2
  <2>1. 1 \in Nat /\ {1} \subseteq 1 .. 1 /\ {1} \cup {1 + 1} = 1 .. 2
    OBVIOUS
  <2>2. Cardinality({1} \cup {1 + 1}) = Cardinality({1}) + 1
    BY <2>1, CountOneMore, Zenon
  <2>3. Cardinality({1}) = 1
    BY FS_Singleton
  <2> QED BY <1>7, <2>1, <2>2, <2>3, FS_EmptySet
<1>9. StackOK(open, {1})
  <2>1. \A i \in 1 .. Len(open) : ItemOK(open[i], {1}) /\ Owes(open[i]) = {}
    BY <1>4, <1>5, <1>6
  <2>2. ASSUME NEW i \in 2 .. Len(open) PROVE Nests(open[i - 1], open[i])
    <3>1. i = 2 /\ i - 1 = 1
      BY <1>5
    <3> QED BY <1>4, <1>5, <3>1
  <2> QED BY <1>4, <1>5, <2>1, <2>2 DEF StackOK
<1>10. /\ IsSequence(frames) /\ Len(frames) = 0 /\ IsSequence(scopes) /\ Len(scopes) = 2
       /\ scopes[1] = <<>> /\ scopes[2] = <<>> /\ IsSequence(<<>>)
  <2> DEFINE e == <<>>
             p == <<e, e>>
  <2>1. e \in Seq({}) /\ Len(e) = 0
    OBVIOUS
  <2>2. p \in Seq({e}) /\ Len(p) = 2 /\ p[1] = e /\ p[2] = e
    <3> HIDE DEF e
    <3> QED OBVIOUS
  <2>3. frames = e /\ scopes = p
    BY <1>1
  <2> HIDE DEF p
  <2>4. IsSequence(p) /\ IsSequence(e)
    <3> HIDE DEF e
    <3> QED BY <2>1, <2>2, SeqIsSequence
  <2> QED BY <2>1, <2>2, <2>3, <2>4
<1>11. FramesOK(frames, Placed(code) \cup Owed(open)) /\ ScopesOK(scopes)
  <2>1. \A i \in 1 .. Len(frames) : FALSE
    BY <1>10
  <2>2. \A i \in 1 .. Len(scopes) : i = 1 \/ i = 2
    BY <1>10
  <2> QED BY <1>10, <2>1, <2>2 DEF FramesOK, ScopesOK
<1>12. Stack(open, Placed(code), Owed(open), Len(frames), Len(scopes))
  BY <1>3, <1>8, <1>9, <1>10 DEF Stack
<1>13. CodeOK(code, labels, Owed(open))
  <2>1. labels \in Nat \ {0} /\ 1 .. labels - 1 = {1}
    BY <1>1
  <2>2. Piece(code, {1}, {1} \cup {})
    BY <1>3, PieceMore
  <2> QED BY <1>3, <1>7, <2>1, <2>2 DEF CodeOK
<1>14. open[Len(open)].kind # "match"
  BY <1>4, <1>5
<1> QED BY <1>11, <1>12, <1>13, <1>14, Zenon DEF LowerInv

\* The lowering goes on.
LEMMA StillLowering ==
  ASSUME DeferInv, phase = "lowering", NotRunning,
         NEW o, NEW fr, NEW sc, NEW c, NEW m, LowerInv(o, fr, sc, c, m),
         open' = o, frames' = fr, scopes' = sc, code' = c, labels' = m
  PROVE  DeferInv'
<1>1. pc = 1 /\ pc' = pc /\ phase' = "lowering"
  BY DEF DeferInv, NotRunning, execution
<1>2. LowerInv(open', frames', scopes', code', labels')
  BY Zenon
<1> QED BY <1>1, <1>2 DEF DeferInv

LEMMA Begins ==
  ASSUME DeferInv, NEW kind, Begin(kind)
  PROVE  Lowering /\ Free /\ phase = "lowering"
BY DEF DeferInv, Begin, CanStart, Lowering, Free

\* The statements that begin.
LEMMA BeginSteps ==
  ASSUME DeferInv
  PROVE  /\ Block => DeferInv'
         /\ If => DeferInv'
         /\ \A kind, body : Defer(kind, body) => DeferInv'
         /\ \A user : While(user) => DeferInv'
         /\ \A user : \A hasCondition \in BOOLEAN : For(user, hasCondition) => DeferInv'
         /\ \A v : Return(v) => DeferInv'
<1>1. ASSUME Block PROVE DeferInv'
  <2>1. Lowering /\ Free /\ phase = "lowering" /\ NotRunning
    BY <1>1, Begins DEF Block
  <2>2. LowerInv(Append(Append(Under, Outer), BlockItem(Ctx, Depth)), frames,
                 IF Ctx THEN Append(scopes, <<>>) ELSE scopes,
                 code \o <<Instr("open", 0, FALSE)>>, labels)
    BY <2>1, BlockLowered
  <2>3. /\ open' = Append(Append(Under, Outer), BlockItem(Ctx, Depth)) /\ frames' = frames
        /\ scopes' = (IF Ctx THEN Append(scopes, <<>>) ELSE scopes)
        /\ code' = code \o <<Instr("open", 0, FALSE)>> /\ labels' = labels
    BY <1>1, Zenon DEF Block, Into, Emit
  <2> QED BY <2>1, <2>2, <2>3, StillLowering, Zenon
<1>2. ASSUME If PROVE DeferInv'
  <2>1. Lowering /\ Free /\ phase = "lowering" /\ NotRunning
    BY <1>2, Begins DEF If
  <2>2. LowerInv(Append(Append(Under, Outer), Item("arm", Ctx, Depth, 1, labels, labels + 1)),
                 frames, scopes, code \o <<Branch(labels)>>, labels + 2)
    BY <2>1, IfLowered
  <2>3. /\ open' = Append(Append(Under, Outer), Item("arm", Ctx, Depth, 1, labels, labels + 1))
        /\ frames' = frames /\ scopes' = scopes
        /\ code' = code \o <<Branch(labels)>> /\ labels' = labels + 2
    BY <1>2, Zenon DEF If, Into, Emit, FreshAfter
  <2> QED BY <2>1, <2>2, <2>3, StillLowering, Zenon
<1>3. ASSUME NEW kind, NEW body, Defer(kind, body) PROVE DeferInv'
  <2> DEFINE d == Len(decls) + 1
             tc == IF Ctx THEN [scopes EXCEPT ![Len(scopes)] = Append(@, d)] ELSE scopes
  <2>1. Lowering /\ Free /\ phase = "lowering" /\ NotRunning
    BY <1>3 DEF Defer, DeferInv, CanStart, Lowering, Free
  <2>2. LowerInv(Append(Under, Outer), frames, tc, code \o <<Instr("defer", d, FALSE)>>, labels)
    BY <2>1, DeferLowered
  <2>3. /\ open' = Append(Under, Outer) /\ frames' = frames /\ scopes' = tc
        /\ code' = code \o <<Instr("defer", d, FALSE)>> /\ labels' = labels
    BY <1>3, Zenon DEF Defer, Simple, Emit
  <2> QED BY <2>1, <2>2, <2>3, StillLowering, Zenon
<1>4. ASSUME NEW user, While(user) PROVE DeferInv'
  <2> DEFINE gr == Append(frames, [brk |-> labels + 1, cont |-> labels, user |-> user])
             o == Append(Append(Under, Outer), Item("while", Ctx, Depth, 1, labels, labels + 1))
             c == code \o <<Label(labels), Branch(labels + 1)>>
  <2>1. Lowering /\ Free /\ phase = "lowering" /\ NotRunning
    BY <1>4, Begins DEF While
  <2>2. LowerInv(o, gr, scopes, c, labels + 2)
    BY <2>1, WhileLowered
  <2>3. open' = o /\ frames' = gr /\ scopes' = scopes /\ code' = c /\ labels' = labels + 2
    BY <1>4, Zenon DEF While, Into, Emit, FreshAfter
  <2> QED BY <2>1, <2>2, <2>3, StillLowering, Zenon
<1>5. ASSUME NEW user, NEW hasCondition \in BOOLEAN, For(user, hasCondition) PROVE DeferInv'
  <2> DEFINE gr == Append(frames, [brk |-> labels + 2, cont |-> labels + 1, user |-> user])
             o == Append(Append(Under, Outer), Item("for", Ctx, Depth, 1, labels, labels + 2))
             c == code \o (IF hasCondition THEN <<Label(labels), Branch(labels + 2)>>
                           ELSE <<Label(labels)>>)
  <2>1. Lowering /\ Free /\ phase = "lowering" /\ NotRunning
    BY <1>5, Begins DEF For
  <2>2. LowerInv(o, gr, scopes, c, labels + 3)
    BY <2>1, ForLowered
  <2>3. open' = o /\ frames' = gr /\ scopes' = scopes /\ code' = c /\ labels' = labels + 3
    BY <1>5, Zenon DEF For, Into, Emit, FreshAfter
  <2> QED BY <2>1, <2>2, <2>3, StillLowering, Zenon
<1>6. ASSUME NEW v, Return(v) PROVE DeferInv'
  <2>1. Lowering /\ Free /\ phase = "lowering"
    BY <1>6, Begins DEF Return
  <2>2. CASE CanReturn(Ctx)
    <3>1. LowerInv(Append(Under, Outer), frames, scopes, code \o ReturnCode(v, Ctx), labels + 2)
      BY <2>1, <2>2, ReturnLowered
    <3>2. /\ open' = Append(Under, Outer) /\ frames' = frames /\ scopes' = scopes
          /\ code' = code \o ReturnCode(v, Ctx) /\ labels' = labels + 2 /\ NotRunning
      BY <1>6, <2>2, Zenon DEF Return, Simple, Emit, FreshAfter
    <3> QED BY <2>1, <3>1, <3>2, StillLowering, Zenon
  <2>3. CASE ~ CanReturn(Ctx)
    <3>1. phase' = "rejected"
      BY <1>6, <2>3 DEF Return, Reject
    <3> QED BY <3>1 DEF DeferInv
  <2> QED BY <2>2, <2>3
<1> QED BY <1>1, <1>2, <1>3, <1>4, <1>5, <1>6

LEMMA ManyWayBegins ==
  ASSUME DeferInv, NEW n \in 1 .. 2, NEW hasDefault \in BOOLEAN
  PROVE  /\ Switch(n, hasDefault) => DeferInv'
         /\ Match(n, hasDefault) => DeferInv'
<1> DEFINE tests == [i \in 1 .. n - (IF hasDefault THEN 1 ELSE 0) |-> Branch(labels + i)]
           first == IF hasDefault THEN labels + n ELSE labels
<1>0. n \in Nat /\ n >= 1
  OBVIOUS
<1>1. ASSUME Switch(n, hasDefault) PROVE DeferInv'
  <2> DEFINE o == Append(Append(Append(Under, Outer),
                                Item("switch", Ctx, Depth, n - 1, labels + 1, labels)),
                         BlockItem(FALSE, Depth))
             gr == Append(frames, [brk |-> labels, cont |-> 0, user |-> NoUserLabel])
             c == code \o (tests \o <<Jump(first), Label(labels + 1), Instr("open", 0, FALSE)>>)
  <2>1. Lowering /\ Free /\ phase = "lowering" /\ NotRunning
    BY <1>1, Begins DEF Switch
  <2>2. LowerInv(o, gr, scopes, c, labels + (n + 1))
    BY <1>0, <2>1, SwitchLowered
  <2>3. open' = o /\ frames' = gr /\ scopes' = scopes /\ code' = c /\ labels' = labels + (n + 1)
    BY <1>1, Zenon DEF Switch, Emit, FreshAfter, CaseCtx
  <2> QED BY <2>1, <2>2, <2>3, StillLowering, Zenon
<1>2. ASSUME Match(n, hasDefault) PROVE DeferInv'
  <2> DEFINE o == Append(Append(Append(Under, Outer),
                                Item("match", Ctx, Depth, n - 1, labels + 1, labels)),
                         Item("body", Ctx, Depth, 1, 0, 0))
             c == code \o (tests \o <<Jump(first), Label(labels + 1)>>)
  <2>1. Lowering /\ Free /\ phase = "lowering" /\ NotRunning
    BY <1>2, Begins DEF Match
  <2>2. LowerInv(o, frames, scopes, c, labels + (n + 1))
    BY <1>0, <2>1, MatchLowered
  <2>3. open' = o /\ frames' = frames /\ scopes' = scopes /\ code' = c /\ labels' = labels + (n + 1)
    BY <1>2, Zenon DEF Match, Emit, FreshAfter
  <2> QED BY <2>1, <2>2, <2>3, StillLowering, Zenon
<1> QED BY <1>1, <1>2

LEMMA BreakStep ==
  ASSUME DeferInv, NEW kind, NEW user, BreakOrContinue(kind, user)
  PROVE  DeferInv'
<1> DEFINE i == TargetFrame(kind, user)
           target == JumpTarget(kind, user)
<1>1. Lowering /\ Free /\ phase = "lowering"
  BY Begins DEF BreakOrContinue
<1>2. CASE i = 0
  <2>1. phase' = "rejected"
    BY <1>2 DEF BreakOrContinue, Reject
  <2> QED BY <2>1 DEF DeferInv
<1>3. CASE i # 0
  <2>1. LowerInv(Append(Under, Outer), frames, scopes, code \o <<Instr("jump", target, TRUE)>>, labels)
    BY <1>1, <1>3, BreakLowered
  <2>2. /\ open' = Append(Under, Outer) /\ frames' = frames /\ scopes' = scopes
        /\ code' = code \o <<Instr("jump", target, TRUE)>> /\ labels' = labels /\ NotRunning
    BY <1>3, Zenon DEF BreakOrContinue, Simple, Emit, NotRunning
  <2> QED BY <1>1, <2>1, <2>2, StillLowering, Zenon
<1> QED BY <1>2, <1>3

\* The statements that end.
LEMMA EndSteps ==
  ASSUME DeferInv
  PROVE  /\ EndBlock => DeferInv'
         /\ EndElse => DeferInv'
         /\ EndLoop => DeferInv'
         /\ EndSwitch => DeferInv'
         /\ NextCase => DeferInv'
<1>0. ASSUME phase = "lowering" PROVE Lowering
  BY <1>0 DEF DeferInv, Lowering
<1>1. ASSUME EndBlock PROVE DeferInv'
  <2>1. Lowering /\ phase = "lowering" /\ Top.kind = "block"
    BY <1>0, <1>1 DEF EndBlock
  <2>2. open' = Under
    BY <1>1 DEF EndBlock
  <2>3. CASE Ctx /\ CanRun(scopes[Len(scopes)], FALSE)
    <3> DEFINE tc == SubSeq(scopes, 1, Len(scopes) - 1)
               c == code \o (Runs(scopes[Len(scopes)], FALSE) \o <<Instr("close", 0, FALSE)>>)
    <3>1. LowerInv(Under, frames, tc, c, labels)
      BY <2>1, <2>3, EndBlockLowered
    <3>2. scopes' = tc /\ code' = c /\ frames' = frames /\ labels' = labels /\ NotRunning
      BY <1>1, <2>3, Zenon DEF EndBlock, Emit, ScopesAfterBlock
    <3> QED BY <2>1, <2>2, <3>1, <3>2, StillLowering, Zenon
  <2>4. CASE ~ Ctx
    <3> DEFINE c == code \o <<Instr("close", 0, FALSE)>>
    <3>1. LowerInv(Under, frames, scopes, c, labels)
      BY <2>1, <2>4, EndBlockLowered
    <3>2. scopes' = scopes /\ code' = c /\ frames' = frames /\ labels' = labels /\ NotRunning
      BY <1>1, <2>4, Zenon DEF EndBlock, Emit
    <3> QED BY <2>1, <2>2, <3>1, <3>2, StillLowering, Zenon
  <2>5. CASE Ctx /\ ~ CanRun(scopes[Len(scopes)], FALSE)
    <3>1. phase' = "rejected"
      BY <1>1, <2>5 DEF EndBlock, Reject
    <3> QED BY <3>1 DEF DeferInv
  <2> QED BY <2>3, <2>4, <2>5
<1>2. ASSUME EndElse PROVE DeferInv'
  <2>1. Lowering /\ phase = "lowering" /\ NotRunning /\ Top.kind = "else"
    BY <1>0, <1>2 DEF EndElse
  <2>2. LowerInv(Under, frames, scopes, code \o <<Label(Top.end)>>, labels)
    BY <2>1, EndElseLowered
  <2>3. /\ open' = Under /\ frames' = frames /\ scopes' = scopes /\ labels' = labels
        /\ code' = code \o <<Label(Top.end)>>
    BY <1>2, Zenon DEF EndElse, Emit
  <2> QED BY <2>1, <2>2, <2>3, StillLowering, Zenon
<1>3. ASSUME EndLoop PROVE DeferInv'
  <2> DEFINE gr == SubSeq(frames, 1, Len(frames) - 1)
             c == code \o (StepLabel \o <<Jump(Top.next), Label(Top.end)>>)
  <2>1. Lowering /\ phase = "lowering" /\ NotRunning /\ Top.kind \in {"while", "for"}
    BY <1>0, <1>3 DEF EndLoop
  <2>2. LowerInv(Under, gr, scopes, c, labels)
    BY <2>1, EndLoopLowered
  <2>3. open' = Under /\ frames' = gr /\ scopes' = scopes /\ labels' = labels /\ code' = c
    BY <1>3, Zenon DEF EndLoop, Emit
  <2> QED BY <2>1, <2>2, <2>3, StillLowering, Zenon
<1>4. ASSUME EndSwitch PROVE DeferInv'
  <2> DEFINE gr == SubSeq(frames, 1, Len(frames) - 1)
             c == code \o <<Label(Top.end)>>
  <2>1. Lowering /\ phase = "lowering" /\ NotRunning /\ Top.kind = "switch" /\ Top.left = 0
    BY <1>0, <1>4 DEF EndSwitch
  <2>2. LowerInv(Under, gr, scopes, c, labels)
    BY <2>1, EndSwitchLowered
  <2>3. open' = Under /\ frames' = gr /\ scopes' = scopes /\ labels' = labels /\ code' = c
    BY <1>4, Zenon DEF EndSwitch, Emit
  <2> QED BY <2>1, <2>2, <2>3, StillLowering, Zenon
<1>5. ASSUME NextCase PROVE DeferInv'
  <2> DEFINE item == [Top EXCEPT !.left = @ - 1, !.next = @ + 1]
             o == Append(Append(Under, item), BlockItem(FALSE, Depth))
             c == code \o <<Label(item.next), Instr("open", 0, FALSE)>>
  <2>1. Lowering /\ phase = "lowering" /\ NotRunning /\ Top.kind = "switch" /\ Top.left > 0
    BY <1>0, <1>5 DEF NextCase
  <2>2. LowerInv(o, frames, scopes, c, labels)
    BY <2>1, NextCaseLowered
  <2>3. open' = o /\ frames' = frames /\ scopes' = scopes /\ labels' = labels /\ code' = c
    BY <1>5, Zenon DEF NextCase, Emit, CaseCtx
  <2> QED BY <2>1, <2>2, <2>3, StillLowering, Zenon
<1> QED BY <1>1, <1>2, <1>3, <1>4, <1>5

LEMMA EndArmStep == ASSUME DeferInv, EndArm PROVE DeferInv'
<1> DEFINE done == <<Jump(Top.end), Label(Top.next)>>
<1>1. Lowering /\ phase = "lowering" /\ NotRunning /\ Top.kind = "arm"
  BY DEF EndArm, DeferInv, Lowering
<1>2. frames' = frames /\ scopes' = scopes
  BY DEF EndArm
<1>3. CASE code' = code \o (done \o <<Label(Top.end)>>) /\ open' = Under /\ labels' = labels
  <2>1. LowerInv(Under, frames, scopes, code \o (done \o <<Label(Top.end)>>), labels)
    BY <1>1, EndIfLowered
  <2> QED BY <1>1, <1>2, <1>3, <2>1, StillLowering, Zenon
<1>4. CASE /\ code' = code \o (done \o <<Branch(labels)>>) /\ labels' = labels + 1
           /\ open' = Append(Under, [Top EXCEPT !.left = 1, !.next = labels])
  <2>1. LowerInv(Append(Under, [Top EXCEPT !.left = 1, !.next = labels]), frames, scopes,
                 code \o (done \o <<Branch(labels)>>), labels + 1)
    BY <1>1, ElseIfLowered
  <2> QED BY <1>1, <1>2, <1>4, <2>1, StillLowering, Zenon
<1>5. CASE /\ code' = code \o done /\ labels' = labels
           /\ open' = Append(Under, [Top EXCEPT !.kind = "else", !.left = 1])
  <2>1. LowerInv(Append(Under, [Top EXCEPT !.kind = "else", !.left = 1]), frames, scopes,
                 code \o done, labels)
    BY <1>1, ElseLowered
  <2> QED BY <1>1, <1>2, <1>5, <2>1, StillLowering, Zenon
<1> QED BY <1>3, <1>4, <1>5, Zenon DEF EndArm, Emit, FreshAfter

LEMMA EndMatchArmStep == ASSUME DeferInv, EndMatchArm PROVE DeferInv'
<1> DEFINE match == open[Len(open) - 1]
           arms == SubSeq(open, 1, Len(open) - 2)
<1>1. Lowering /\ phase = "lowering" /\ NotRunning /\ Top.kind = "body"
  BY DEF EndMatchArm, DeferInv, Lowering
<1>2. frames' = frames /\ scopes' = scopes /\ labels' = labels
  BY DEF EndMatchArm
<1>3. match.left \in Nat
  BY <1>1, MatchTop DEF ItemOK
<1>4. CASE match.left > 0
  <2> DEFINE o == arms \o <<[match EXCEPT !.left = @ - 1, !.next = @ + 1], [Top EXCEPT !.left = 1]>>
             c == code \o <<Jump(match.end), Label(match.next + 1)>>
  <2>1. LowerInv(o, frames, scopes, c, labels)
    BY <1>1, <1>4, NextMatchArmLowered
  <2>2. open' = o /\ code' = c
    BY <1>4, Zenon DEF EndMatchArm, Emit
  <2> QED BY <1>1, <1>2, <2>1, <2>2, StillLowering, Zenon
<1>5. CASE ~ (match.left > 0)
  <2> DEFINE c == code \o <<Jump(match.end), Label(match.end)>>
  <2>1. match.left = 0
    BY <1>3, <1>5
  <2>2. LowerInv(arms, frames, scopes, c, labels)
    BY <1>1, <2>1, EndMatchLowered
  <2>3. open' = arms /\ code' = c
    BY <1>5, Zenon DEF EndMatchArm, Emit
  <2> QED BY <1>1, <1>2, <2>2, <2>3, StillLowering, Zenon
<1> QED BY <1>4, <1>5

LEMMA EndFunctionStep == ASSUME DeferInv, EndFunction PROVE DeferInv'
<1> DEFINE c == IF NeedsImplicitReturn THEN code \o ReturnCode(0, TRUE) ELSE code
<1>1. Lowering /\ Len(open) = 1 /\ Top.kind = "root" /\ pc = 1
  BY DEF EndFunction, DeferInv, Lowering
<1> SUFFICES ASSUME NeedsImplicitReturn => CanReturn(TRUE) PROVE DeferInv'
  <2>1. CASE ~ (NeedsImplicitReturn => CanReturn(TRUE))
    <3>1. phase' = "rejected"
      BY <2>1 DEF EndFunction, Reject
    <3> QED BY <3>1 DEF DeferInv
  <2> QED BY <2>1
<1>2. RunInv(frames, scopes, c, 1)
  BY <1>1, RunStarts
<1>3. frames' = frames /\ scopes' = scopes /\ code' = c /\ pc' = pc /\ phase' = "running"
  BY Zenon DEF EndFunction, execution
<1> HIDE DEF c
<1>4. RunInv(frames', scopes', code', pc')
  BY <1>1, <1>2, <1>3, Zenon
<1> QED BY <1>3, <1>4 DEF DeferInv

\* One instruction runs.
LEMMA RunStep == ASSUME DeferInv, Run PROVE DeferInv'
<1>1. /\ phase = "running" /\ RunInv(frames, scopes, code, pc)
      /\ frames' = frames /\ scopes' = scopes /\ code' = code
  BY DEF Run, RunLabelOrOpen, RunJump, RunBranch, RunValue, RunBranchZero, ReachDefer, CloseBlock,
         RunDeferred, RunReturn, RunBodyReturn, RunBodyJump, Executing, lowering, DeferInv
<1>2. \/ phase' = "returned"
      \/ /\ phase' = "running" /\ pc' = pc + 1 /\ ~ Returns(Here)
      \/ /\ phase' = "running" /\ pc' = PositionOf(Here.arg) /\ Here.op \in Jumps
  <2>1. CASE RunLabelOrOpen
    BY <1>1, <2>1 DEF RunLabelOrOpen, Executing, Continue, Returns
  <2>2. CASE RunJump
    BY <1>1, <2>2 DEF RunJump, Executing, Goto, Jumps
  <2>3. CASE RunBranch
    BY <1>1, <2>3 DEF RunBranch, Executing, Goto, Continue, Jumps, Returns
  <2>4. CASE RunValue
    BY <1>1, <2>4 DEF RunValue, Executing, Continue, Returns
  <2>5. CASE RunBranchZero
    BY <1>1, <2>5 DEF RunBranchZero, Executing, Goto, Continue, Jumps, Returns
  <2>6. CASE ReachDefer
    BY <1>1, <2>6 DEF ReachDefer, Executing, Continue, Returns
  <2>7. CASE CloseBlock
    BY <1>1, <2>7 DEF CloseBlock, Executing, Continue, Returns
  <2>8. CASE RunDeferred
    BY <1>1, <2>8 DEF RunDeferred, Executing, Continue, Returns
  <2>9. CASE RunReturn
    BY <2>9 DEF RunReturn, Finish
  <2>10. CASE RunBodyReturn
    BY <1>1, <2>10 DEF RunBodyReturn, Executing, Finish, Continue, Returns
  <2>11. CASE RunBodyJump
    BY <1>1, <2>11 DEF RunBodyJump, Executing, Goto, Continue, Jumps, Returns
  <2> QED BY <2>1, <2>2, <2>3, <2>4, <2>5, <2>6, <2>7, <2>8, <2>9, <2>10, <2>11 DEF Run
<1>3. phase' = "returned" \/ (phase' = "running" /\ RunInv(frames, scopes, code, pc'))
  BY <1>1, <1>2, RunOn, RunTo DEF Here
<1>4. phase' = "running" => RunInv(frames', scopes', code', pc')
  BY <1>1, <1>3, Zenon
<1> QED BY <1>3, <1>4 DEF DeferInv

LEMMA DeferStep == DeferInv /\ [Next]_vars => DeferInv'
<1> SUFFICES ASSUME DeferInv, [Next]_vars PROVE DeferInv'
  OBVIOUS
<1>1. CASE Block \/ EndBlock \/ If \/ EndElse \/ EndLoop \/ NextCase \/ EndSwitch
  BY <1>1, BeginSteps, EndSteps
<1>2. CASE EndArm
  BY <1>2, EndArmStep
<1>3. CASE EndMatchArm
  BY <1>3, EndMatchArmStep
<1>4. CASE EndFunction
  BY <1>4, EndFunctionStep
<1>5. CASE \E kind \in {"defer", "errdefer"}, body \in Bodies : Defer(kind, body)
  BY <1>5, BeginSteps
<1>6. CASE \E user \in LoopLabels \cup {NoUserLabel} :
             While(user) \/ \E hasCondition \in BOOLEAN : For(user, hasCondition)
  BY <1>6, BeginSteps
<1>7. CASE \E n \in 1 .. 2, hasDefault \in BOOLEAN : Switch(n, hasDefault) \/ Match(n, hasDefault)
  BY <1>7, ManyWayBegins
<1>8. CASE \E kind \in {"break", "continue"}, user \in LoopLabels \cup {NoUserLabel} :
             BreakOrContinue(kind, user)
  BY <1>8, BreakStep
<1>9. CASE \E v \in {0, 1} : Return(v)
  BY <1>9, BeginSteps
<1>10. CASE Run
  BY <1>10, RunStep
<1>11. CASE UNCHANGED vars
  BY <1>11, Zenon DEF vars, lowering, execution, DeferInv
<1> QED BY <1>1, <1>2, <1>3, <1>4, <1>5, <1>6, <1>7, <1>8, <1>9, <1>10, <1>11, Zenon DEF Next, Lower

LEMMA DeferAlways == Spec => []DeferInv
BY DeferInit, DeferStep, PTL DEF Spec

LEMMA WellFormedFromInv == DeferInv => CodeWellFormed
<1> SUFFICES ASSUME DeferInv, phase = "running"
             PROVE  /\ pc <= Len(code)
                    /\ frames = <<>> /\ Len(scopes) = 1
                    /\ \A i \in 1 .. Len(code) : code[i].op \in {"jump", "branch", "brz", "bodyjump"} =>
                         Cardinality({k \in 1 .. Len(code) : code[k].op = "label"
                                                              /\ code[k].arg = code[i].arg}) = 1
  BY Zenon DEF CodeWellFormed
<1>1. RunInv(frames, scopes, code, pc)
  BY DEF DeferInv
<1>2. frames = <<>> /\ Len(scopes) = 1 /\ Piece(code, Placed(code), Placed(code))
  BY <1>1 DEF RunInv
<1>3. pc <= Len(code)
  <2>1. PICK last \in 1 .. Len(code) : pc \in 1 .. last
    BY <1>1 DEF RunInv
  <2>2. Len(code) \in Nat
    BY <1>2, SeqTyped DEF Piece
  <2> QED BY <2>1, <2>2
<1>4. ASSUME NEW i \in 1 .. Len(code), code[i].op \in {"jump", "branch", "brz", "bodyjump"}
      PROVE  Cardinality({k \in 1 .. Len(code) : code[k].op = "label"
                                                  /\ code[k].arg = code[i].arg}) = 1
  <2> DEFINE K == {k \in 1 .. Len(code) : code[k].op = "label" /\ code[k].arg = code[i].arg}
  <2>1. code[i].arg \in Placed(code)
    BY <1>2, <1>4 DEF Piece, Targets, Jumps
  <2>2. PICK k \in 1 .. Len(code) : code[k].op = "label" /\ code[k].arg = code[i].arg
    BY <2>1 DEF Placed
  <2>3. K = {k}
    BY <1>2, <2>2 DEF Piece, PlacedOnce
  <2> HIDE DEF K
  <2>4. Cardinality(K) = 1
    BY <2>3, FS_Singleton
  <2> QED BY <2>4 DEF K
<1> QED BY <1>2, <1>3, <1>4

\* A function of any size, with statements nested in any way: once it is
\* lowered, every label its jumps and branches name is placed exactly once, no
\* loop or switch is left on the control stack, no scope but the function's is
\* left, and control never runs behind the last instruction.
THEOREM LoweredCodeIsWellFormed == Spec => []CodeWellFormed
BY DeferAlways, WellFormedFromInv, PTL

-----------------------------------------------------------------------------
(* Errdefers run only on the way to a return of a nonzero value.             *)

\* The instruction i stands in what follows a test of the returned value.
Armed(c, i) ==
  \E j \in 1 .. i - 1 : c[j].op = "brz" /\ \A k \in j + 1 .. i : c[k].op \in CleanupOps
\* Every errdefer that the code c runs, by the declarations d, is behind a test.
Guarded(c, d) ==
  \A i \in 1 .. Len(c) : c[i].op = "run" =>
    c[i].arg \in 1 .. Len(d) /\ (d[c[i].arg].err => Armed(c, i))
Declared(sc, d) ==
  \A n \in 1 .. Len(sc) : \A k \in 1 .. Len(sc[n]) : sc[n][k] \in 1 .. Len(d)

ErrInv ==
  /\ IsSequence(decls) /\ Guarded(code, decls)
  /\ phase = "lowering" => Declared(scopes, decls)
  /\ phase = "running" /\ Armed(code, pc) => value # 0

LEMMA GuardedJoined ==
  ASSUME NEW c, IsSequence(c), NEW s, IsSequence(s), NEW d, Guarded(c, d), Guarded(s, d)
  PROVE  Guarded(c \o s, d)
<1> DEFINE e == c \o s
           a == Len(c)
           b == Len(s)
<1>1. /\ Len(e) = a + b /\ (\A i \in 1 .. a : e[i] = c[i])
      /\ \A i \in 1 .. b : e[a + i] = s[i]
  BY ConcatIs
<1>2. a \in Nat /\ b \in Nat
  BY SeqTyped
<1> HIDE DEF e, a, b
<1> SUFFICES ASSUME NEW i \in 1 .. Len(e), e[i].op = "run"
             PROVE  e[i].arg \in 1 .. Len(d) /\ (d[e[i].arg].err => Armed(e, i))
  BY DEF Guarded, e
<1>3. CASE i \in 1 .. a
  <2>1. e[i] = c[i] /\ e[i].arg \in 1 .. Len(d) /\ (d[e[i].arg].err => Armed(c, i))
    BY <1>1, <1>3 DEF Guarded, a
  <2>2. ASSUME Armed(c, i) PROVE Armed(e, i)
    <3>1. PICK j \in 1 .. i - 1 : c[j].op = "brz" /\ \A k \in j + 1 .. i : c[k].op \in CleanupOps
      BY <2>2 DEF Armed
    <3>2. j \in 1 .. a /\ \A k \in j + 1 .. i : k \in 1 .. a
      BY <1>2, <1>3
    <3>3. e[j].op = "brz" /\ \A k \in j + 1 .. i : e[k].op \in CleanupOps
      BY <1>1, <3>1, <3>2
    <3> QED BY <3>3 DEF Armed
  <2> QED BY <2>1, <2>2
<1>4. CASE i \notin 1 .. a
  <2> DEFINE h == i - a
  <2>1. h \in 1 .. b /\ i = a + h
    BY <1>1, <1>2, <1>4
  <2> HIDE DEF h
  <2>2. e[i] = s[h] /\ e[i].arg \in 1 .. Len(d) /\ (d[e[i].arg].err => Armed(s, h))
    BY <1>1, <2>1 DEF Guarded, b
  <2>3. ASSUME Armed(s, h) PROVE Armed(e, i)
    <3>1. PICK j \in 1 .. h - 1 : s[j].op = "brz" /\ \A k \in j + 1 .. h : s[k].op \in CleanupOps
      BY <2>3 DEF Armed
    <3>2. j \in 1 .. b /\ a + j \in 1 .. i - 1
      BY <1>2, <2>1
    <3>3. ASSUME NEW k \in (a + j) + 1 .. i PROVE e[k].op \in CleanupOps
      <4>1. k - a \in j + 1 .. h /\ k - a \in 1 .. b /\ a + (k - a) = k
        BY <1>2, <2>1, <3>2
      <4>2. e[k] = s[k - a]
        BY <1>1, <4>1
      <4> QED BY <3>1, <4>1, <4>2
    <3>4. e[a + j].op = "brz"
      BY <1>1, <3>1, <3>2
    <3> QED BY <3>2, <3>3, <3>4 DEF Armed
  <2> QED BY <2>2, <2>3
<1> QED BY <1>3, <1>4

LEMMA GuardedMore ==
  ASSUME NEW c, NEW d, IsSequence(d), Guarded(c, d), NEW x
  PROVE  Guarded(c, Append(d, x)) /\ IsSequence(Append(d, x))
<1> DEFINE e == Append(d, x)
<1>1. IsSequence(e) /\ Len(e) = Len(d) + 1 /\ \A i \in 1 .. Len(d) : e[i] = d[i]
  BY AppendIs
<1>2. \A i \in 1 .. Len(d) : i \in 1 .. Len(e)
  BY <1>1, SeqTyped
<1> HIDE DEF e
<1>3. Guarded(c, e)
  BY <1>1, <1>2 DEF Guarded
<1> QED BY <1>1, <1>3 DEF e

\* Code that runs nothing deferred.
Silent(s) == IsSequence(s) /\ \A i \in 1 .. Len(s) : s[i].op # "run"

LEMMA SilentGuarded == ASSUME NEW s, Silent(s), NEW d PROVE IsSequence(s) /\ Guarded(s, d)
BY DEF Silent, Guarded

LEMMA SilentJoined ==
  ASSUME NEW s, Silent(s), NEW t, Silent(t)
  PROVE  Silent(s \o t)
<1> DEFINE c == s \o t
           a == Len(s)
           b == Len(t)
<1>1. a \in Nat /\ b \in Nat
  BY SeqTyped DEF Silent
<1>2. /\ IsSequence(c) /\ Len(c) = a + b /\ (\A i \in 1 .. a : c[i] = s[i])
      /\ \A i \in 1 .. b : c[a + i] = t[i]
  BY ConcatIs DEF Silent
<1> HIDE DEF c, a, b
<1>3. ASSUME NEW i \in 1 .. Len(c) PROVE c[i].op # "run"
  <2>1. CASE i \in 1 .. a
    BY <1>2, <2>1 DEF Silent, a
  <2>2. CASE i \notin 1 .. a
    <3>1. i - a \in 1 .. b /\ a + (i - a) = i
      BY <1>1, <1>2, <2>2
    <3>2. c[i] = t[i - a]
      BY <1>2, <3>1
    <3> QED BY <3>1, <3>2 DEF Silent, b
  <2> QED BY <2>1, <2>2
<1> QED BY <1>2, <1>3 DEF Silent, c

LEMMA SilentInstrs ==
  ASSUME NEW x, NEW y, NEW z, x.op # "run", y.op # "run", z.op # "run"
  PROVE  Silent(<<x>>) /\ Silent(<<x, y>>) /\ Silent(<<x, y, z>>)
<1> DEFINE a == <<x>>
<1>1. a \in Seq({x}) /\ Len(a) = 1 /\ a[1] = x
  OBVIOUS
<1> DEFINE b == <<y>>
<1>2. b \in Seq({y}) /\ Len(b) = 1 /\ b[1] = y
  OBVIOUS
<1> DEFINE c == <<z>>
<1>3. c \in Seq({z}) /\ Len(c) = 1 /\ c[1] = z
  OBVIOUS
<1> HIDE DEF a, b, c
<1>4. Silent(a) /\ Silent(b) /\ Silent(c)
  BY <1>1, <1>2, <1>3, SeqIsSequence DEF Silent
<1>5. Silent(a \o b)
  BY <1>4, SilentJoined
<1>6. Silent(<<x, y>>)
  BY <1>5, PairJoined, Zenon DEF a, b
<1>7. Silent(<<x, y>> \o c)
  BY <1>4, <1>6, SilentJoined
<1>8. Silent(<<x, y, z>>)
  BY <1>7, TripleJoined, Zenon DEF c
<1> QED BY <1>4, <1>6, <1>8 DEF a

LEMMA InstrOps ==
  ASSUME NEW l
  PROVE  Label(l).op # "run" /\ Jump(l).op # "run" /\ Branch(l).op # "run"
BY DEF Label, Jump, Branch, Instr

\* What is run of declared statements, without the errdefers and with them.
LEMMA RunsOnly ==
  ASSUME Lowering, NEW stack, IsSequence(stack), CanRun(stack, FALSE),
         \A k \in 1 .. Len(stack) : stack[k] \in 1 .. Len(decls)
  PROVE  IsSequence(Runs(stack, FALSE)) /\ Guarded(Runs(stack, FALSE), decls)
<1> DEFINE S == {d \in 1 .. Len(decls) : ~ decls[d].err}
           T == Placed(code) \cup Owed(open)
           s == Runs(stack, FALSE)
<1>1. TargetsLive(T)
  BY TargetLive
<1> HIDE DEF T
<1>2. ASSUME NEW n \in 1 .. Len(stack), FALSE \/ ~ decls[stack[n]].err
      PROVE  RunOf(stack[n]) \in Seq(Cleanup(S, T))
  <2>1. Lowerable(stack[n]) /\ stack[n] \in S
    BY <1>2 DEF CanRun
  <2> HIDE DEF S
  <2> QED BY <1>1, <2>1, RunOfIn
<1>3. s \in Seq(Cleanup(S, T))
  <2> HIDE DEF S
  <2> QED BY <1>2, RunsIn
<1> HIDE DEF s
<1>4. IsSequence(s) /\ \A i \in 1 .. Len(s) : s[i].op = "run" => s[i].arg \in S
  <2> HIDE DEF S
  <2> QED BY <1>3, CleanupSeq
<1> QED BY <1>4 DEF Guarded, s

LEMMA ScopeRunsOnly ==
  ASSUME Lowering, ScopesOK(scopes), Declared(scopes, decls), CanReturn(TRUE)
  PROVE  /\ IsSequence(ScopeRuns(FALSE)) /\ Guarded(ScopeRuns(FALSE), decls)
         /\ IsSequence(ScopeRuns(TRUE))
         /\ \A i \in 1 .. Len(ScopeRuns(TRUE)) :
              /\ ScopeRuns(TRUE)[i].op \in CleanupOps
              /\ ScopeRuns(TRUE)[i].op = "run" => ScopeRuns(TRUE)[i].arg \in 1 .. Len(decls)
<1> DEFINE R == 1 .. Len(decls)
           S == {d \in R : ~ decls[d].err}
           T == Placed(code) \cup Owed(open)
           s == ScopeRuns(TRUE)
           t == ScopeRuns(FALSE)
<1>1. TargetsLive(T)
  BY TargetLive
<1> HIDE DEF T
<1>2. ASSUME NEW n \in 1 .. Len(scopes), NEW k \in 1 .. Len(scopes[n])
      PROVE  /\ Lowerable(scopes[n][k]) /\ scopes[n][k] \in R
             /\ ~ decls[scopes[n][k]].err => scopes[n][k] \in S
  BY <1>2 DEF CanReturn, CanRun, Declared
<1> HIDE DEF R, S
<1>3. s \in Seq(Cleanup(R, T))
  <2>1. \A n \in 1 .. Len(scopes) : \A k \in 1 .. Len(scopes[n]) :
          TRUE \/ ~ decls[scopes[n][k]].err => RunOf(scopes[n][k]) \in Seq(Cleanup(R, T))
    BY <1>1, <1>2, RunOfIn
  <2> QED BY <2>1, ScopeRunsIn
<1>4. t \in Seq(Cleanup(S, T))
  <2>1. \A n \in 1 .. Len(scopes) : \A k \in 1 .. Len(scopes[n]) :
          FALSE \/ ~ decls[scopes[n][k]].err => RunOf(scopes[n][k]) \in Seq(Cleanup(S, T))
    BY <1>1, <1>2, RunOfIn
  <2> QED BY <2>1, ScopeRunsIn
<1> HIDE DEF s, t
<1>5. /\ IsSequence(s)
      /\ \A i \in 1 .. Len(s) : s[i].op \in CleanupOps /\ (s[i].op = "run" => s[i].arg \in R)
  BY <1>3, CleanupSeq
<1>6. IsSequence(t) /\ \A i \in 1 .. Len(t) : t[i].op = "run" => t[i].arg \in S
  BY <1>4, CleanupSeq
<1>7. Guarded(t, decls)
  BY <1>6 DEF Guarded, R, S
<1> QED BY <1>5, <1>6, <1>7 DEF s, t, R

\* ir_emit_return_with_defers runs errdefers behind its test only.
LEMMA ReturnGuarded ==
  ASSUME Lowering, ScopesOK(scopes), Declared(scopes, decls), NEW v, NEW b \in BOOLEAN,
         CanReturn(b)
  PROVE  IsSequence(ReturnCode(v, b)) /\ Guarded(ReturnCode(v, b), decls)
<1> DEFINE ok == labels
           end == labels + 1
           p == <<Instr("value", v, FALSE), Instr("brz", ok, FALSE)>>
           q == ScopeRuns(TRUE)
           r == <<Jump(end), Label(ok)>>
           t == ScopeRuns(FALSE)
           w == <<Label(end), Instr("return", v, FALSE)>>
           pq == p \o q
<1>1. CASE ~ b
  <2>1. ReturnCode(v, b) = <<Instr("value", v, FALSE), Instr("return", v, TRUE)>>
    BY <1>1, Zenon DEF ReturnCode
  <2>2. Silent(<<Instr("value", v, FALSE), Instr("return", v, TRUE)>>)
    <3>1. Instr("value", v, FALSE).op # "run" /\ Instr("return", v, TRUE).op # "run"
      BY DEF Instr
    <3> QED BY <3>1, SilentInstrs, Zenon
  <2> QED BY <2>1, <2>2, SilentGuarded, Zenon
<1>2. CASE b
  <2>1. ReturnCode(v, b) = p \o q \o r \o t \o w
    BY <1>2, Zenon DEF ReturnCode
  <2>2. Silent(p) /\ Silent(r) /\ Silent(w)
    <3>1. Instr("value", v, FALSE).op # "run" /\ Instr("brz", ok, FALSE).op # "run"
          /\ Instr("return", v, FALSE).op # "run"
      BY DEF Instr
    <3>2. Jump(end).op # "run" /\ Label(ok).op # "run" /\ Label(end).op # "run"
      BY InstrOps
    <3> HIDE DEF ok, end
    <3> QED BY <3>1, <3>2, SilentInstrs, Zenon
  <2>3. /\ IsSequence(t) /\ Guarded(t, decls)
        /\ IsSequence(q)
        /\ (\A i \in 1 .. Len(q) : q[i].op \in CleanupOps)
        /\ \A i \in 1 .. Len(q) : q[i].op = "run" => q[i].arg \in 1 .. Len(decls)
    <3>1. CanReturn(TRUE)
      BY <1>2 DEF CanReturn
    <3> QED BY <3>1, ScopeRunsOnly
  <2>4. Len(p) = 2 /\ p[2].op = "brz"
    <3>1. Len(p) = 2 /\ p[2] = Instr("brz", ok, FALSE)
      OBVIOUS
    <3> QED BY <3>1 DEF Instr
  <2> HIDE DEF p, q, r, t, w
  <2>5. IsSequence(p) /\ IsSequence(r) /\ IsSequence(w) /\ Guarded(r, decls) /\ Guarded(w, decls)
    BY <2>2, SilentGuarded
  <2>6. Len(q) \in Nat /\ \A i \in 1 .. 2 : i \in 1 .. Len(p) /\ p[i].op # "run"
    BY <2>2, <2>3, <2>4, SeqTyped DEF Silent
  <2>7. /\ IsSequence(pq) /\ Len(pq) = 2 + Len(q) /\ (\A i \in 1 .. 2 : pq[i] = p[i])
        /\ \A i \in 1 .. Len(q) : pq[2 + i] = q[i]
    <3>1. /\ IsSequence(pq) /\ Len(pq) = Len(p) + Len(q)
          /\ (\A i \in 1 .. Len(p) : pq[i] = p[i])
          /\ \A i \in 1 .. Len(q) : pq[Len(p) + i] = q[i]
      BY <2>3, <2>5, ConcatIs
    <3> HIDE DEF pq
    <3> QED BY <2>4, <3>1
  <2> HIDE DEF pq
  <2>8. \A k \in 1 .. Len(pq) : k \in 1 .. 2 \/ (k - 2 \in 1 .. Len(q) /\ pq[k] = q[k - 2])
    <3> SUFFICES ASSUME NEW k \in 1 .. Len(pq), k \notin 1 .. 2
                 PROVE  k - 2 \in 1 .. Len(q) /\ pq[k] = q[k - 2]
      OBVIOUS
    <3>1. k - 2 \in 1 .. Len(q) /\ 2 + (k - 2) = k
      BY <2>6, <2>7
    <3> QED BY <2>7, <3>1
  <2>9. Guarded(pq, decls)
    <3> SUFFICES ASSUME NEW i \in 1 .. Len(pq), pq[i].op = "run"
                 PROVE  pq[i].arg \in 1 .. Len(decls) /\ Armed(pq, i)
      BY DEF Guarded
    <3>1. i \notin 1 .. 2
      BY <2>6, <2>7
    <3>2. pq[i].arg \in 1 .. Len(decls)
      <4>1. i - 2 \in 1 .. Len(q) /\ pq[i] = q[i - 2]
        BY <2>8, <3>1
      <4> QED BY <2>3, <4>1
    <3>3. 2 \in 1 .. i - 1 /\ \A k \in 2 + 1 .. i : k \in 1 .. Len(pq) /\ k \notin 1 .. 2
      BY <2>6, <2>7, <3>1
    <3>4. pq[2].op = "brz"
      BY <2>4, <2>7
    <3>5. ASSUME NEW k \in 2 + 1 .. i PROVE pq[k].op \in CleanupOps
      <4>1. k \in 1 .. Len(pq) /\ k \notin 1 .. 2
        BY <3>3
      <4>2. k - 2 \in 1 .. Len(q) /\ pq[k] = q[k - 2]
        BY <2>8, <4>1
      <4> QED BY <2>3, <4>2
    <3> QED BY <3>2, <3>3, <3>4, <3>5 DEF Armed
  <2>10. IsSequence(pq \o r) /\ Guarded(pq \o r, decls)
    BY <2>5, <2>7, <2>9, GuardedJoined, ConcatIs
  <2>11. IsSequence(pq \o r \o t) /\ Guarded(pq \o r \o t, decls)
    BY <2>3, <2>10, GuardedJoined, ConcatIs
  <2>12. IsSequence(pq \o r \o t \o w) /\ Guarded(pq \o r \o t \o w, decls)
    BY <2>5, <2>11, GuardedJoined, ConcatIs
  <2> QED BY <2>1, <2>12, Zenon DEF pq
<1> QED BY <1>1, <1>2

LEMMA ErrInit == Init => ErrInv
<1> SUFFICES ASSUME Init PROVE ErrInv
  OBVIOUS
<1> DEFINE l == [op |-> "label", arg |-> 1, flag |-> FALSE, depth |-> 0]
           b == [op |-> "open", arg |-> 0, flag |-> FALSE, depth |-> 0]
           e == <<>>
<1>1. phase = "lowering" /\ code = <<l, b>> /\ decls = e /\ scopes = <<e, e>>
  BY DEF Init
<1>2. l.op # "run" /\ b.op # "run"
  OBVIOUS
<1>3. e \in Seq({}) /\ Len(e) = 0
  OBVIOUS
<1>4. IsSequence(e)
  BY <1>3, SeqIsSequence
<1> HIDE DEF l, b, e
<1>5. Guarded(code, decls)
  BY <1>1, <1>2, SilentInstrs, SilentGuarded
<1>6. Declared(scopes, decls)
  <2>1. Len(<<e, e>>) = 2 /\ \A n \in 1 .. 2 : <<e, e>>[n] = e
    OBVIOUS
  <2> QED BY <1>1, <1>3, <2>1 DEF Declared
<1> QED BY <1>1, <1>4, <1>5, <1>6 DEF ErrInv

\* The code grows by s.
LEMMA GuardedGrows ==
  ASSUME DeferInv, ErrInv, phase = "lowering", NEW s, IsSequence(s), Guarded(s, decls),
         code' = code \o s, decls' = decls, phase' # "running" \/ pc' = 1,
         Declared(scopes', decls)
  PROVE  ErrInv'
<1>1. IsSequence(code)
  BY DEF DeferInv, LowerInv, CodeOK, Piece
<1> DEFINE c == code \o s
<1>2. Guarded(c, decls)
  BY <1>1, GuardedJoined DEF ErrInv
<1>3. code' = c
  OBVIOUS
<1> HIDE DEF c
<1>4. IsSequence(decls') /\ Guarded(code', decls') /\ Declared(scopes', decls')
  BY <1>2, <1>3, Zenon DEF ErrInv
<1>5. ~ Armed(code', 1)
  BY DEF Armed
<1> QED BY <1>4, <1>5 DEF ErrInv

LEMMA SilentGrows ==
  ASSUME DeferInv, ErrInv, phase = "lowering", NEW s, Silent(s),
         code' = code \o s, decls' = decls, scopes' = scopes, NotRunning
  PROVE  ErrInv'
<1>1. IsSequence(s) /\ Guarded(s, decls)
  BY SilentGuarded
<1>2. phase' # "running" /\ Declared(scopes', decls)
  <2>1. Declared(scopes, decls) /\ phase' = phase
    BY DEF ErrInv, NotRunning
  <2> QED BY <2>1, Zenon
<1> QED BY <1>1, <1>2, GuardedGrows

\* The statements that emit nothing but jumps, labels and marks.
LEMMA SilentSteps ==
  ASSUME DeferInv, ErrInv,
         \/ If \/ EndElse \/ EndSwitch \/ NextCase \/ EndMatchArm
         \/ \E user \in LoopLabels \cup {NoUserLabel} : While(user)
  PROVE  ErrInv'
<1>0. phase = "lowering" /\ decls' = decls /\ scopes' = scopes /\ NotRunning
  BY DEF If, EndElse, EndSwitch, NextCase, EndMatchArm, While, Begin, CanStart, CaseCtx
<1>1. \/ \E l : code' = code \o <<Branch(l)>> \/ code' = code \o <<Label(l)>>
      \/ \E k, l : \/ code' = code \o <<Jump(k), Label(l)>>
                   \/ code' = code \o <<Label(k), Branch(l)>>
                   \/ code' = code \o <<Label(k), Instr("open", l, FALSE)>>
  <2>1. CASE If
    BY <2>1, Zenon DEF If, Emit
  <2>2. CASE EndElse \/ EndSwitch
    BY <2>2, Zenon DEF EndElse, EndSwitch, Emit
  <2>3. CASE NextCase
    BY <2>3, Zenon DEF NextCase, Emit
  <2>4. CASE EndMatchArm
    BY <2>4, Zenon DEF EndMatchArm, Emit
  <2>5. CASE \E user \in LoopLabels \cup {NoUserLabel} : While(user)
    BY <2>5, Zenon DEF While, Emit
  <2> QED BY <2>1, <2>2, <2>3, <2>4, <2>5
<1>2. ASSUME NEW k, NEW l
      PROVE  /\ Silent(<<Branch(l)>>) /\ Silent(<<Label(l)>>)
             /\ Silent(<<Jump(k), Label(l)>>) /\ Silent(<<Label(k), Branch(l)>>)
             /\ Silent(<<Label(k), Instr("open", l, FALSE)>>)
  <2>1. Instr("open", l, FALSE).op # "run"
    BY DEF Instr
  <2>2. /\ Label(l).op # "run" /\ Branch(l).op # "run" /\ Label(k).op # "run" /\ Jump(k).op # "run"
    BY InstrOps
  <2> QED BY <2>1, <2>2, SilentInstrs, Zenon
<1>3. PICK s : Silent(s) /\ code' = code \o s
  BY <1>1, <1>2, Zenon
<1> QED BY <1>0, <1>3, SilentGrows

LEMMA BranchesSilent ==
  ASSUME NEW n, n \in Nat
  PROVE  Silent([i \in 1 .. n |-> Branch(labels + i)])
<1> DEFINE s == [i \in 1 .. n |-> Branch(labels + i)]
<1>1. s = [i \in 1 .. n |-> s[i]] /\ \A i \in 1 .. n : s[i].op # "run"
  BY InstrOps
<1> HIDE DEF s
<1>2. IsSequence(s) /\ Len(s) = n
  BY <1>1, SeqMade
<1>3. Silent(s)
  BY <1>1, <1>2 DEF Silent
<1> QED BY <1>3 DEF s

LEMMA LongerSilentSteps ==
  ASSUME DeferInv, ErrInv,
         \/ EndArm \/ EndLoop
         \/ \E user \in LoopLabels \cup {NoUserLabel}, hasCondition \in BOOLEAN :
              For(user, hasCondition)
         \/ \E n \in 1 .. 2, hasDefault \in BOOLEAN : Switch(n, hasDefault) \/ Match(n, hasDefault)
  PROVE  ErrInv'
<1>0. phase = "lowering" /\ decls' = decls /\ scopes' = scopes /\ NotRunning
  BY DEF EndArm, EndLoop, For, Switch, Match, Begin, CanStart, CaseCtx
<1>1. \A k, l : Silent(<<Label(k)>>) /\ Silent(<<Branch(k)>>) /\ Silent(<<Jump(k), Label(l)>>)
                /\ Silent(<<Label(k), Branch(l)>>)
                /\ Silent(<<Jump(k), Label(l), Instr("open", 0, FALSE)>>)
  <2> TAKE k, l
  <2>1. Instr("open", 0, FALSE).op # "run"
    BY DEF Instr
  <2>2. Label(l).op # "run" /\ Label(k).op # "run" /\ Jump(k).op # "run" /\ Branch(k).op # "run"
        /\ Branch(l).op # "run"
    BY InstrOps
  <2> QED BY <2>1, <2>2, SilentInstrs, Zenon
<1>2. Silent(<<>>)
  <2>1. IsSequence(<<>>) /\ Len(<<>>) = 0
    BY NoPiece DEF Piece
  <2> QED BY <2>1 DEF Silent
<1>3. CASE EndArm
  <2> DEFINE done == <<Jump(Top.end), Label(Top.next)>>
  <2>1. \/ code' = code \o (done \o <<Label(Top.end)>>)
        \/ code' = code \o (done \o <<Branch(labels)>>)
        \/ code' = code \o done
    BY <1>3, Zenon DEF EndArm, Emit
  <2>2. Silent(done) /\ Silent(<<Label(Top.end)>>) /\ Silent(<<Branch(labels)>>)
    BY <1>1, Zenon
  <2> HIDE DEF done
  <2>3. PICK s : Silent(s) /\ code' = code \o s
    BY <2>1, <2>2, SilentJoined, Zenon
  <2> QED BY <1>0, <2>3, SilentGrows
<1>4. CASE EndLoop
  <2> DEFINE t == <<Jump(Top.next), Label(Top.end)>>
  <2>1. code' = code \o (StepLabel \o t)
    BY <1>4, Zenon DEF EndLoop, Emit
  <2>2. Silent(StepLabel) /\ Silent(t)
    BY <1>1, <1>2, Zenon DEF StepLabel
  <2> HIDE DEF t
  <2>3. Silent(StepLabel \o t)
    BY <2>2, SilentJoined, Zenon
  <2> QED BY <1>0, <2>1, <2>3, SilentGrows
<1>5. ASSUME NEW user, NEW hasCondition \in BOOLEAN, For(user, hasCondition) PROVE ErrInv'
  <2>1. \/ code' = code \o <<Label(labels), Branch(labels + 2)>>
        \/ code' = code \o <<Label(labels)>>
    BY <1>5, Zenon DEF For, Emit
  <2>2. PICK s : Silent(s) /\ code' = code \o s
    BY <1>1, <2>1, Zenon
  <2> QED BY <1>0, <2>2, SilentGrows
<1>6. ASSUME NEW n \in 1 .. 2, NEW hasDefault \in BOOLEAN, Switch(n, hasDefault) \/ Match(n, hasDefault)
      PROVE  ErrInv'
  <2> DEFINE h == n - (IF hasDefault THEN 1 ELSE 0)
             t == [i \in 1 .. h |-> Branch(labels + i)]
             first == IF hasDefault THEN labels + n ELSE labels
  <2>1. \/ code' = code \o (t \o <<Jump(first), Label(labels + 1), Instr("open", 0, FALSE)>>)
        \/ code' = code \o (t \o <<Jump(first), Label(labels + 1)>>)
    BY <1>6, Zenon DEF Switch, Match, Emit
  <2>2. Silent(t)
    <3>1. h \in Nat
      OBVIOUS
    <3> HIDE DEF h
    <3> QED BY <3>1, BranchesSilent
  <2> HIDE DEF t, first
  <2>3. PICK s : Silent(s) /\ code' = code \o s
    BY <1>1, <2>1, <2>2, SilentJoined, Zenon
  <2> QED BY <1>0, <2>3, SilentGrows
<1> QED BY <1>3, <1>4, <1>5, <1>6

\* Blocks and defers change the scopes.
LEMMA BlockGuarded == ASSUME DeferInv, ErrInv, Block PROVE ErrInv'
<1> DEFINE s == <<Instr("open", 0, FALSE)>>
           e == <<>>
           tc == Append(scopes, e)
<1>1. phase = "lowering" /\ code' = code \o s /\ decls' = decls /\ phase' = phase
      /\ scopes' = IF Ctx THEN tc ELSE scopes
  BY Zenon DEF Block, Begin, CanStart, Emit, NotRunning
<1>2. IsSequence(s) /\ Guarded(s, decls)
  <2>1. Instr("open", 0, FALSE).op # "run"
    BY DEF Instr
  <2> QED BY <2>1, SilentInstrs, SilentGuarded, Zenon
<1>3. ScopesOK(scopes) /\ Declared(scopes, decls)
  BY <1>1 DEF DeferInv, LowerInv, ErrInv
<1>4. Len(e) = 0
  OBVIOUS
<1> HIDE DEF s, e
<1>5. Declared(tc, decls)
  <2>1. IsSequence(scopes) /\ Len(scopes) \in Nat
    BY <1>3, SeqTyped DEF ScopesOK
  <2>2. Len(tc) = Len(scopes) + 1 /\ (\A i \in 1 .. Len(scopes) : tc[i] = scopes[i])
        /\ tc[Len(scopes) + 1] = e
    BY <2>1, AppendIs
  <2> HIDE DEF tc
  <2>3. \A n \in 1 .. Len(tc) : n \in 1 .. Len(scopes) \/ n = Len(scopes) + 1
    BY <2>1, <2>2
  <2>4. \A k \in 1 .. Len(e) : FALSE
    BY <1>4
  <2> SUFFICES ASSUME NEW n \in 1 .. Len(tc), NEW k \in 1 .. Len(tc[n])
               PROVE  tc[n][k] \in 1 .. Len(decls)
    BY DEF Declared
  <2> QED BY <1>3, <2>2, <2>3, <2>4 DEF Declared
<1> HIDE DEF tc
<1>6. Declared(scopes', decls) /\ phase' # "running"
  BY <1>1, <1>3, <1>5
<1> QED BY <1>1, <1>2, <1>6, GuardedGrows

LEMMA EndBlockGuarded == ASSUME DeferInv, ErrInv, EndBlock PROVE ErrInv'
<1> DEFINE s == <<Instr("close", 0, FALSE)>>
           n == Len(scopes)
           r == Runs(scopes[n], FALSE)
           tc == SubSeq(scopes, 1, n - 1)
<1>1. phase = "lowering" /\ decls' = decls /\ phase' # "running"
  BY DEF EndBlock, NotRunning, Reject
<1>2. IsSequence(s) /\ Guarded(s, decls)
  <2>1. Instr("close", 0, FALSE).op # "run"
    BY DEF Instr
  <2> QED BY <2>1, SilentInstrs, SilentGuarded, Zenon
<1>0. Lowering
  BY <1>1 DEF DeferInv, Lowering
<1>3. ScopesOK(scopes) /\ Declared(scopes, decls) /\ n \in 1 .. n /\ n \in Nat
  <2>1. ScopesOK(scopes) /\ Declared(scopes, decls)
    BY <1>1 DEF DeferInv, LowerInv, ErrInv
  <2> QED BY <1>0, <2>1, HasRootScope, LoweringFacts
<1> HIDE DEF s
<1>4. CASE Ctx /\ CanRun(scopes[n], FALSE)
  <2>1. code' = code \o (r \o s) /\ scopes' = tc
    BY <1>4, Zenon DEF EndBlock, Emit, ScopesAfterBlock, s
  <2>2. IsSequence(r) /\ Guarded(r, decls)
    <3>1. IsSequence(scopes[n]) /\ \A k \in 1 .. Len(scopes[n]) : scopes[n][k] \in 1 .. Len(decls)
      BY <1>3 DEF ScopesOK, Declared
    <3> QED BY <1>0, <1>4, <3>1, RunsOnly
  <2> HIDE DEF r
  <2>3. IsSequence(r \o s) /\ Guarded(r \o s, decls)
    BY <1>2, <2>2, ConcatIs, GuardedJoined
  <2>4. Declared(tc, decls)
    <3>1. IsSequence(scopes) /\ n - 1 \in 0 .. n
      BY <1>3 DEF ScopesOK
    <3>2. Len(tc) = n - 1 /\ \A i \in 1 .. n - 1 : tc[i] = scopes[i]
      BY <3>1, PrefixIs
    <3> HIDE DEF tc
    <3>3. \A i \in 1 .. Len(tc) : i \in 1 .. n /\ tc[i] = scopes[i]
      BY <1>3, <3>2
    <3> QED BY <1>3, <3>3 DEF Declared
  <2> HIDE DEF tc
  <2>5. Declared(scopes', decls)
    BY <2>1, <2>4
  <2> QED BY <1>1, <2>1, <2>3, <2>5, GuardedGrows
<1>5. CASE ~ Ctx
  <2>1. code' = code \o s /\ scopes' = scopes
    BY <1>5, Zenon DEF EndBlock, Emit, s
  <2>2. Declared(scopes', decls)
    BY <1>3, <2>1
  <2> QED BY <1>1, <1>2, <2>1, <2>2, GuardedGrows
<1>6. CASE Ctx /\ ~ CanRun(scopes[n], FALSE)
  <2>1. code' = code /\ phase' = "rejected"
    BY <1>6 DEF EndBlock, Reject
  <2>2. IsSequence(decls') /\ Guarded(code', decls')
    BY <1>1, <2>1, Zenon DEF ErrInv
  <2> QED BY <2>1, <2>2 DEF ErrInv
<1> QED BY <1>4, <1>5, <1>6

LEMMA DeferGuarded ==
  ASSUME DeferInv, ErrInv, NEW kind, NEW body, Defer(kind, body)
  PROVE  ErrInv'
<1> DEFINE d == Len(decls) + 1
           x == [err |-> kind = "errdefer", ctx |-> Ctx, bare |-> Top.kind # "block", body |-> body]
           e == Append(decls, x)
           s == <<Instr("defer", d, FALSE)>>
           n == Len(scopes)
           y == Append(scopes[n], d)
           tc == [scopes EXCEPT ![n] = y]
<1>1. /\ phase = "lowering" /\ phase' = phase /\ decls' = e /\ code' = code \o s
      /\ scopes' = IF Ctx THEN tc ELSE scopes
  BY Zenon DEF Defer, CanStart, Emit, NotRunning
<1>2. Lowering /\ ScopesOK(scopes) /\ Declared(scopes, decls) /\ IsSequence(decls)
      /\ Guarded(code, decls) /\ IsSequence(code)
  BY <1>1 DEF DeferInv, LowerInv, ErrInv, Lowering, CodeOK, Piece
<1>3. n \in 1 .. n /\ n \in Nat
  BY <1>2, HasRootScope, LoweringFacts
<1>4. Silent(s)
  <2>1. Instr("defer", d, FALSE).op # "run"
    BY DEF Instr
  <2> QED BY <2>1, SilentInstrs, Zenon
<1>5. Len(decls) \in Nat /\ Len(e) = d
  <2> HIDE DEF x
  <2> QED BY <1>2, AppendIs, SeqTyped
<1> HIDE DEF x, s
<1>6. IsSequence(e) /\ Guarded(code \o s, e)
  <2>1. IsSequence(e) /\ Guarded(code, e)
    BY <1>2, GuardedMore
  <2> HIDE DEF e
  <2> QED BY <1>2, <1>4, <2>1, SilentGuarded, GuardedJoined
<1> HIDE DEF e
<1>7. Declared(scopes, e)
  <2>1. \A k \in 1 .. Len(decls) : k \in 1 .. Len(e)
    BY <1>5
  <2> QED BY <1>2, <2>1 DEF Declared
<1>8. Declared(tc, e)
  <2>1. IsSequence(scopes) /\ IsSequence(scopes[n])
    BY <1>2, <1>3 DEF ScopesOK
  <2>2. /\ Len(y) = Len(scopes[n]) + 1 /\ (\A k \in 1 .. Len(scopes[n]) : y[k] = scopes[n][k])
        /\ y[Len(scopes[n]) + 1] = d /\ Len(scopes[n]) \in Nat
    BY <2>1, AppendIs, SeqTyped
  <2> HIDE DEF y, d
  <2>3. Len(tc) = n /\ tc[n] = y /\ \A i \in 1 .. n : i # n => tc[i] = scopes[i]
    BY <1>3, <2>1, ExceptIs
  <2> HIDE DEF tc
  <2>4. d \in 1 .. Len(e)
    BY <1>5 DEF d
  <2>5. ASSUME NEW k \in 1 .. Len(y) PROVE y[k] \in 1 .. Len(e)
    <3>1. k \in 1 .. Len(scopes[n]) \/ k = Len(scopes[n]) + 1
      BY <2>2
    <3>2. \A i \in 1 .. Len(scopes[n]) : scopes[n][i] \in 1 .. Len(e)
      BY <1>3, <1>7 DEF Declared
    <3> QED BY <2>2, <2>4, <3>1, <3>2
  <2> SUFFICES ASSUME NEW i \in 1 .. Len(tc), NEW k \in 1 .. Len(tc[i])
               PROVE  tc[i][k] \in 1 .. Len(e)
    BY DEF Declared
  <2>6. CASE i = n
    BY <2>3, <2>5, <2>6
  <2>7. CASE i # n
    BY <1>7, <2>3, <2>7 DEF Declared
  <2> QED BY <2>6, <2>7
<1> HIDE DEF tc
<1>9. IsSequence(decls') /\ Guarded(code', decls') /\ Declared(scopes', decls')
  <2>1. Declared(scopes', e)
    BY <1>1, <1>7, <1>8
  <2> QED BY <1>1, <1>6, <2>1, Zenon
<1> QED BY <1>1, <1>9 DEF ErrInv

LEMMA BreakGuarded ==
  ASSUME DeferInv, ErrInv, NEW kind, NEW user, BreakOrContinue(kind, user)
  PROVE  ErrInv'
<1> DEFINE i == TargetFrame(kind, user)
           target == JumpTarget(kind, user)
           s == <<Instr("jump", target, TRUE)>>
<1>1. phase = "lowering" /\ decls' = decls /\ scopes' = scopes
  BY DEF BreakOrContinue, Begin, CanStart, Reject
<1>2. Declared(scopes', decls)
  <2>1. Declared(scopes, decls)
    BY <1>1 DEF ErrInv
  <2> QED BY <1>1, <2>1
<1>3. CASE i = 0
  <2>1. phase' = "rejected" /\ code' = code
    BY <1>3, Zenon DEF BreakOrContinue, Reject
  <2>2. IsSequence(decls') /\ Guarded(code', decls')
    BY <1>1, <2>1, Zenon DEF ErrInv
  <2> QED BY <2>1, <2>2 DEF ErrInv
<1>4. CASE i # 0
  <2>1. code' = code \o s /\ phase' = phase
    BY <1>4, Zenon DEF BreakOrContinue, Emit, NotRunning
  <2>2. IsSequence(s) /\ Guarded(s, decls)
    <3>1. Instr("jump", target, TRUE).op # "run"
      BY DEF Instr
    <3> QED BY <3>1, SilentInstrs, SilentGuarded, Zenon
  <2> HIDE DEF s
  <2>3. phase' # "running"
    BY <1>1, <2>1
  <2> QED BY <1>1, <1>2, <2>1, <2>2, <2>3, GuardedGrows
<1> QED BY <1>3, <1>4

LEMMA ReturnsGuarded ==
  ASSUME DeferInv, ErrInv, EndFunction \/ \E v \in {0, 1} : Return(v)
  PROVE  ErrInv'
<1>1. phase = "lowering" /\ decls' = decls /\ scopes' = scopes /\ pc' = pc
  BY DEF EndFunction, Return, Begin, CanStart, NotRunning, Reject, execution
<1>0. Lowering
  BY <1>1 DEF DeferInv, Lowering
<1>2. ScopesOK(scopes) /\ Declared(scopes, decls) /\ Ctx \in BOOLEAN /\ pc = 1 /\ IsSequence(code)
  <2>1. Lowering /\ ScopesOK(scopes) /\ Declared(scopes, decls) /\ pc = 1 /\ IsSequence(code)
    BY <1>1 DEF DeferInv, LowerInv, ErrInv, Lowering, CodeOK, Piece
  <2> QED BY <2>1, LoweringFacts DEF ItemOK, Ctx
<1>3. Declared(scopes', decls) /\ (phase' # "running" \/ pc' = 1)
  BY <1>1, <1>2
<1>4. CASE code' = code
  <2>1. IsSequence(decls') /\ Guarded(code', decls') /\ Declared(scopes', decls')
    BY <1>1, <1>2, <1>4, Zenon DEF ErrInv
  <2>2. ~ Armed(code', 1)
    BY DEF Armed
  <2> QED BY <1>3, <2>1, <2>2 DEF ErrInv
<1>5. ASSUME NEW v, NEW b \in BOOLEAN, CanReturn(b), code' = code \o ReturnCode(v, b)
      PROVE  ErrInv'
  <2> DEFINE s == ReturnCode(v, b)
  <2>1. IsSequence(s) /\ Guarded(s, decls)
    BY <1>0, <1>2, <1>5, ReturnGuarded
  <2>2. code' = code \o s
    BY <1>5
  <2> HIDE DEF s
  <2> QED BY <1>1, <1>3, <2>1, <2>2, GuardedGrows
<1>6. \/ code' = code
      \/ CanReturn(TRUE) /\ code' = code \o ReturnCode(0, TRUE)
      \/ CanReturn(Ctx) /\ \E v : code' = code \o ReturnCode(v, Ctx)
  BY Zenon DEF EndFunction, Return, Emit, Reject
<1> QED BY <1>2, <1>4, <1>5, <1>6

\* A run reaches what follows a test through the test alone.
LEMMA RunGuarded == ASSUME DeferInv, ErrInv, Run PROVE ErrInv'
<1>1. /\ phase = "running" /\ RunInv(frames, scopes, code, pc)
      /\ code' = code /\ decls' = decls
  BY DEF Run, RunLabelOrOpen, RunJump, RunBranch, RunValue, RunBranchZero, ReachDefer, CloseBlock,
         RunDeferred, RunReturn, RunBodyReturn, RunBodyJump, Executing, lowering, DeferInv
<1>2. IsSequence(decls) /\ Guarded(code, decls) /\ (Armed(code, pc) => value # 0)
  BY <1>1 DEF ErrInv
<1>3. pc \in Nat /\ Len(code) \in Nat /\ Targets(code) \subseteq Placed(code) /\ pc \in 1 .. Len(code)
  <2>1. PICK last \in 1 .. Len(code) : pc \in 1 .. last
    BY <1>1 DEF RunInv
  <2>2. Len(code) \in Nat /\ Targets(code) \subseteq Placed(code)
    BY <1>1, SeqTyped DEF RunInv, Piece
  <2> QED BY <2>1, <2>2
<1>4. ASSUME NEW l, l \in Placed(code) PROVE ~ Armed(code, PositionOf(l))
  <2> DEFINE k == PositionOf(l)
  <2>1. \E i \in 1 .. Len(code) : code[i].op = "label" /\ code[i].arg = l
    BY <1>4 DEF Placed
  <2>2. k \in 1 .. Len(code) /\ code[k].op = "label"
    BY <2>1 DEF PositionOf
  <2> HIDE DEF k
  <2>3. ASSUME Armed(code, k) PROVE FALSE
    <3>1. PICK j \in 1 .. k - 1 : \A h \in j + 1 .. k : code[h].op \in CleanupOps
      BY <2>3 DEF Armed
    <3>2. k \in j + 1 .. k
      BY <1>3, <2>2
    <3> QED BY <2>2, <3>1, <3>2 DEF CleanupOps
  <2> QED BY <2>3 DEF k
<1>5. Here.op \in Jumps => Here.arg \in Placed(code)
  BY <1>3 DEF Targets, Here
<1>6. ASSUME Armed(code, pc + 1)
      PROVE  Here.op = "brz" \/ (Here.op \in CleanupOps /\ Armed(code, pc))
  <2>1. PICK j \in 1 .. (pc + 1) - 1 : /\ code[j].op = "brz"
                                       /\ \A k \in j + 1 .. pc + 1 : code[k].op \in CleanupOps
    BY <1>6 DEF Armed
  <2>2. CASE j = pc
    BY <2>1, <2>2 DEF Here
  <2>3. CASE j # pc
    <3>1. j \in 1 .. pc - 1 /\ pc \in j + 1 .. pc + 1 /\ \A k \in j + 1 .. pc : k \in j + 1 .. pc + 1
      BY <1>3, <2>3
    <3>2. Armed(code, pc) /\ code[pc].op \in CleanupOps
      BY <2>1, <3>1 DEF Armed
    <3> QED BY <3>2 DEF Here
  <2> QED BY <2>2, <2>3
<1>7. \/ phase' = "returned"
      \/ phase' = "running" /\ pc' = PositionOf(Here.arg) /\ Here.op \in Jumps
      \/ phase' = "running" /\ pc' = pc + 1 /\ Here.op = "brz" /\ value # 0 /\ value' = value
      \/ phase' = "running" /\ pc' = pc + 1 /\ Here.op \in CleanupOps /\ value' = value
      \/ phase' = "running" /\ pc' = pc + 1 /\ Here.op # "brz" /\ Here.op \notin CleanupOps
  <2>1. CASE RunLabelOrOpen
    BY <1>1, <2>1 DEF RunLabelOrOpen, Executing, Continue, CleanupOps
  <2>2. CASE RunJump
    BY <1>1, <2>2 DEF RunJump, Executing, Goto, Jumps
  <2>3. CASE RunBranch
    BY <1>1, <2>3 DEF RunBranch, Executing, Goto, Continue, Jumps, CleanupOps
  <2>4. CASE RunValue
    BY <1>1, <2>4 DEF RunValue, Executing, Continue, CleanupOps
  <2>5. CASE RunBranchZero
    BY <1>1, <2>5 DEF RunBranchZero, Executing, Goto, Continue, Jumps, CleanupOps
  <2>6. CASE ReachDefer
    BY <1>1, <2>6 DEF ReachDefer, Executing, Continue, CleanupOps
  <2>7. CASE CloseBlock
    BY <1>1, <2>7 DEF CloseBlock, Executing, Continue, CleanupOps
  <2>8. CASE RunDeferred
    BY <1>1, <2>8 DEF RunDeferred, Executing, Continue, CleanupOps
  <2>9. CASE RunReturn
    BY <2>9 DEF RunReturn, Finish
  <2>10. CASE RunBodyReturn
    BY <1>1, <2>10 DEF RunBodyReturn, Executing, Finish, Continue, CleanupOps
  <2>11. CASE RunBodyJump
    BY <1>1, <2>11 DEF RunBodyJump, Executing, Goto, Continue, Jumps, CleanupOps
  <2> QED BY <2>1, <2>2, <2>3, <2>4, <2>5, <2>6, <2>7, <2>8, <2>9, <2>10, <2>11 DEF Run
<1>8. phase' # "lowering" /\ (phase' = "running" /\ Armed(code, pc') => value' # 0)
  <2>1. CASE phase' = "returned"
    BY <2>1
  <2>2. CASE phase' = "running" /\ pc' = PositionOf(Here.arg) /\ Here.op \in Jumps
    BY <1>4, <1>5, <2>2
  <2>3. CASE phase' = "running" /\ pc' = pc + 1 /\ Here.op = "brz" /\ value # 0 /\ value' = value
    BY <2>3
  <2>4. CASE phase' = "running" /\ pc' = pc + 1 /\ Here.op \in CleanupOps /\ value' = value
    <3>1. Here.op # "brz"
      BY <2>4 DEF CleanupOps
    <3> QED BY <1>2, <1>6, <2>4, <3>1
  <2>5. CASE phase' = "running" /\ pc' = pc + 1 /\ Here.op # "brz" /\ Here.op \notin CleanupOps
    BY <1>6, <2>5
  <2> QED BY <1>7, <2>1, <2>2, <2>3, <2>4, <2>5
<1>9. IsSequence(decls') /\ Guarded(code', decls')
      /\ (phase' = "running" /\ Armed(code', pc') => value' # 0)
  BY <1>1, <1>2, <1>8, Zenon
<1> QED BY <1>8, <1>9 DEF ErrInv

LEMMA ErrStep == DeferInv /\ ErrInv /\ [Next]_vars => ErrInv'
<1> SUFFICES ASSUME DeferInv, ErrInv, [Next]_vars PROVE ErrInv'
  OBVIOUS
<1>1. CASE Block
  BY <1>1, BlockGuarded
<1>2. CASE EndBlock
  BY <1>2, EndBlockGuarded
<1>3. CASE If \/ EndElse \/ EndSwitch \/ NextCase \/ EndMatchArm
  BY <1>3, SilentSteps
<1>4. CASE EndArm \/ EndLoop
  BY <1>4, LongerSilentSteps
<1>5. CASE \E kind \in {"defer", "errdefer"}, body \in Bodies : Defer(kind, body)
  BY <1>5, DeferGuarded
<1>6. CASE \E user \in LoopLabels \cup {NoUserLabel} :
             While(user) \/ \E hasCondition \in BOOLEAN : For(user, hasCondition)
  BY <1>6, SilentSteps, LongerSilentSteps
<1>7. CASE \E n \in 1 .. 2, hasDefault \in BOOLEAN : Switch(n, hasDefault) \/ Match(n, hasDefault)
  BY <1>7, LongerSilentSteps
<1>8. CASE \E kind \in {"break", "continue"}, user \in LoopLabels \cup {NoUserLabel} :
             BreakOrContinue(kind, user)
  BY <1>8, BreakGuarded
<1>9. CASE EndFunction \/ \E v \in {0, 1} : Return(v)
  BY <1>9, ReturnsGuarded
<1>10. CASE Run
  BY <1>10, RunGuarded
<1>11. CASE UNCHANGED vars
  BY <1>11, Zenon DEF vars, lowering, execution, ErrInv
<1> QED BY <1>1, <1>2, <1>3, <1>4, <1>5, <1>6, <1>7, <1>8, <1>9, <1>10, <1>11, Zenon DEF Next, Lower

LEMMA ErrFromInv == DeferInv /\ ErrInv => ErrdefersRunOnError
<1> SUFFICES ASSUME DeferInv, ErrInv, phase = "running", Here.op = "run", decls[Here.arg].err
             PROVE  value # 0
  BY DEF ErrdefersRunOnError
<1>1. pc \in 1 .. Len(code)
  <2>1. PICK last \in 1 .. Len(code) : pc \in 1 .. last
    BY DEF DeferInv, RunInv
  <2>2. Len(code) \in Nat
    BY SeqTyped DEF DeferInv, RunInv, Piece
  <2> QED BY <2>1, <2>2
<1>2. Armed(code, pc)
  BY <1>1 DEF ErrInv, Guarded, Here
<1> QED BY <1>2 DEF ErrInv

\* An errdefer runs only on the way to a return of a nonzero value: every one
\* that is emitted stands right behind the test of ir_emit_return_with_defers,
\* which no jump can pass by, in functions of any size and shape.
THEOREM ErrdefersOnlyOnError == Spec => []ErrdefersRunOnError
<1>1. Spec => []ErrInv
  BY ErrInit, ErrStep, DeferAlways, PTL DEF Spec
<1> QED BY <1>1, DeferAlways, ErrFromInv, PTL


=============================================================================
