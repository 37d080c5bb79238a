------------------------ MODULE ImportResolveProofs ------------------------
(***************************************************************************)
(* The import resolver, proved for every project: whatever the files import *)
(* in whatever way, a file is processed once and taken over once, and an     *)
(* import takes over what it asks for and what that needs, and no more.      *)
(***************************************************************************)
EXTENDS ImportResolve, FiniteFacts

-----------------------------------------------------------------------------
LEMMA FrontIs ==
  ASSUME NEW s, IsSequence(s), Len(s) >= 1
  PROVE  /\ IsSequence(Front(s)) /\ Len(Front(s)) = Len(s) - 1
         /\ \A i \in 1 .. Len(s) - 1 : Front(s)[i] = s[i]
         /\ Last(s) = s[Len(s)]
<1>1. Len(s) - 1 \in 0 .. Len(s)
  BY DEF IsSequence
<1>2. Front(s) = SubSeq(s, 1, Len(s) - 1) /\ Last(s) = s[Len(s)]
  BY DEF Front, Last
<1> QED BY <1>1, <1>2, PrefixIs

-----------------------------------------------------------------------------
(* The listing of a set of numbers.                                          *)

\* q lists the numbers of I up to n in order.
ListsUpto(I, n, q) ==
  /\ q \in Seq(Nat)
  /\ \A k \in 1 .. Len(q) : q[k] \in 1 .. n /\ q[k] \in I
  /\ \A j, k \in 1 .. Len(q) : j < k => q[j] < q[k]
  /\ \A i \in 1 .. n : i \in I => \E k \in 1 .. Len(q) : q[k] = i

Listed(I, k, q) == IF k \in I THEN Append(q, k) ELSE q

LEMMA ListStep ==
  ASSUME NEW I, NEW n \in Nat, n >= 1, NEW q, ListsUpto(I, n - 1, q)
  PROVE  ListsUpto(I, n, Listed(I, n, q))
<1> DEFINE new == Append(q, n)
<1>1. q \in Seq(Nat) /\ Len(q) \in Nat
  BY DEF ListsUpto
<1>2. ASSUME NEW k \in 1 .. Len(q) PROVE q[k] \in 1 .. n /\ q[k] < n /\ q[k] \in I
  <2>1. q[k] \in 1 .. n - 1 /\ q[k] \in I
    BY DEF ListsUpto
  <2> QED BY <2>1
<1>3. CASE n \in I
  <2>1. /\ new \in Seq(Nat) /\ Len(new) = Len(q) + 1 /\ new[Len(q) + 1] = n
        /\ \A k \in 1 .. Len(q) : new[k] = q[k]
    BY <1>1
  <2> HIDE DEF new
  <2>2. ASSUME NEW k \in 1 .. Len(new) PROVE new[k] \in 1 .. n /\ new[k] \in I
    <3>1. n \in 1 .. n
      OBVIOUS
    <3>2. k \in 1 .. Len(q) \/ k = Len(q) + 1
      BY <1>1, <2>1
    <3> QED BY <1>2, <1>3, <2>1, <3>1, <3>2
  <2>3. ASSUME NEW j \in 1 .. Len(new), NEW k \in 1 .. Len(new), j < k PROVE new[j] < new[k]
    <3>1. j \in 1 .. Len(q)
      BY <1>1, <2>1, <2>3
    <3>2. CASE k = Len(q) + 1
      BY <1>2, <2>1, <3>1, <3>2
    <3>3. CASE k # Len(q) + 1
      <4>1. k \in 1 .. Len(q)
        BY <1>1, <2>1, <3>3
      <4> QED BY <2>1, <2>3, <3>1, <4>1 DEF ListsUpto
    <3> QED BY <3>2, <3>3
  <2>4. ASSUME NEW i \in 1 .. n, i \in I PROVE \E k \in 1 .. Len(new) : new[k] = i
    <3>1. CASE i = n
      BY <1>1, <2>1, <3>1
    <3>2. CASE i # n
      <4>1. i \in 1 .. n - 1
        BY <3>2
      <4>2. PICK k \in 1 .. Len(q) : q[k] = i
        BY <2>4, <4>1 DEF ListsUpto
      <4>3. k \in 1 .. Len(new) /\ new[k] = i
        BY <1>1, <2>1, <4>2
      <4> QED BY <4>3
    <3> QED BY <3>1, <3>2
  <2>5. ListsUpto(I, n, new)
    BY <2>1, <2>2, <2>3, <2>4 DEF ListsUpto
  <2> QED BY <1>3, <2>5 DEF Listed, new
<1>4. CASE n \notin I
  <2>1. \A i \in 1 .. n : i \in I => i \in 1 .. n - 1
    BY <1>4
  <2>2. \A i \in 1 .. n : i \in I => \E k \in 1 .. Len(q) : q[k] = i
    BY <2>1, Zenon DEF ListsUpto
  <2>3. ListsUpto(I, n, q)
    BY <1>1, <1>2, <2>2 DEF ListsUpto
  <2> QED BY <1>4, <2>3 DEF Listed
<1> QED BY <1>3, <1>4

LEMMA InOrderLists ==
  ASSUME NEW I, NEW N \in Nat
  PROVE  ListsUpto(I, N, InOrder(I, N))
<1> DEFINE S == Seq(Nat)
           x == <<>>
           After(n, g) == Listed(I, n, g)
<1>1. x \in S
  OBVIOUS
<1>2. ASSUME NEW n \in 1 .. N, NEW g \in S PROVE After(n, g) \in S
  <2>1. Append(g, n) \in S
    OBVIOUS
  <2> QED BY <2>1 DEF Listed
<1> HIDE DEF S, x
<1> DEFINE step == [n \in 1 .. N |-> [g \in S |-> After(n, g)]]
           R(f) == [n \in 0 .. N |-> IF n = 0 THEN x ELSE After(n, f[n - 1])]
<1> HIDE DEF After
<1>3. step \in [1 .. N -> [S -> S]]
  BY <1>2
<1>4. PICK f : IsChain(f, N, S, x, step)
  <2> HIDE DEF step
  <2> QED BY <1>1, <1>3, ChainExists
<1>5. f \in [0 .. N -> S] /\ f[0] = x /\ \A n \in 1 .. N : f[n] = step[n][f[n - 1]]
  BY <1>4, Zenon DEF IsChain
<1>6. f = R(f)
  <2>1. \A n \in 1 .. N : f[n - 1] \in S
    BY <1>5
  <2>2. \A n \in 1 .. N : \A g \in S : step[n][g] = After(n, g)
    OBVIOUS
  <2> HIDE DEF step
  <2>3. \A n \in 1 .. N : f[n] = After(n, f[n - 1])
    BY <1>5, <2>1, <2>2, Zenon
  <2> QED BY <1>5, <2>3
<1> DEFINE F == CHOOSE h : h = R(h)
<1>7. InOrder(I, N) = F[N]
  BY Zenon DEF InOrder, x, After, Listed
<1> HIDE DEF R
<1>8. F = R(F)
  BY <1>6, Zenon
<1> HIDE DEF F
<1>9. F[0] = x /\ \A n \in 1 .. N : F[n] = After(n, F[n - 1])
  BY <1>8 DEF R
<1> DEFINE G == {n \in 0 .. N : ListsUpto(I, n, F[n])}
           id == [n \in 0 .. N |-> n]
<1>10. 0 \in G
  <2>1. ListsUpto(I, 0, x)
    BY DEF ListsUpto, x
  <2> QED BY <1>9, <2>1
<1>11. ASSUME NEW n \in 1 .. N, n - 1 \in G PROVE n \in G
  <2>1. n \in Nat /\ n >= 1 /\ n \in 0 .. N /\ ListsUpto(I, n - 1, F[n - 1])
    BY <1>11
  <2>2. ListsUpto(I, n, After(n, F[n - 1]))
    BY <2>1, ListStep, Zenon DEF After
  <2> QED BY <1>9, <2>1, <2>2
<1> HIDE DEF G
<1>12. \A n \in 0 .. N : id[n] \in G
  <2>1. id[0] \in G /\ \A n \in 1 .. N : id[n - 1] \in G => id[n] \in G
    BY <1>10, <1>11
  <2> HIDE DEF id
  <2> QED BY <2>1, ChainHolds
<1>13. N \in G
  BY <1>12
<1> QED BY <1>7, <1>13 DEF G

-----------------------------------------------------------------------------
(* The export dependency closure.                                            *)

\* A program as far as the filters look at it.
IsProg(prog) == IsSequence(prog) /\ \A i \in 1 .. Len(prog) : IsSequence(prog[i].uses)

NamesOf(prog) == UNION {WalkedNames(prog[i]) : i \in 1 .. Len(prog)}

\* A selective import wants every declaration with a selected name: those the
\* documents allow and those that are selected though they are private.
LEMMA WantedBySelection ==
  ASSUME NEW prog, NEW import, import.selected # {}
  PROVE  Wanted(prog, import) = {i \in DOMAIN prog : prog[i].name \in import.selected}
<1>1. ASSUME NEW i \in DOMAIN prog, prog[i].name \in import.selected
      PROVE  i \in SelectedNames(prog, import) \/ i \in PrivatelySelected(prog, import)
  BY <1>1, Zenon DEF SelectedNames, PrivatelySelected
<1> QED BY <1>1, Zenon DEF Wanted, SelectedNames, PrivatelySelected

\* The set has what is wanted and, with a declaration, what it needs.
Closed(prog, import, S) ==
  /\ Wanted(prog, import) \subseteq S
  /\ \A i \in S : Needs(prog, import, i) \subseteq S

\* The worklist between two names.  P are the declarations off the list.
Listing(prog) ==
  [names : SUBSET NamesOf(prog), included : SUBSET (1 .. Len(prog)), work : Seq(1 .. Len(prog))]

Working(prog, import, P, acc) ==
  /\ acc \in Listing(prog)
  /\ Wanted(prog, import) \subseteq acc.included
  /\ \A x \in acc.names : IsNamed(prog, x) => FirstNamed(prog, x) \in acc.included
  /\ \A S \in SUBSET (1 .. Len(prog)) : Closed(prog, import, S) => acc.included \subseteq S
  /\ \A j, k \in 1 .. Len(acc.work) : j # k => acc.work[j] # acc.work[k]
  /\ \A k \in 1 .. Len(acc.work) : acc.work[k] \in acc.included /\ acc.work[k] \notin P
  /\ P \subseteq acc.included
  /\ \A i \in acc.included : i \notin P => \E k \in 1 .. Len(acc.work) : acc.work[k] = i

\* Every name used by the declarations off the list has been seen.
Seen(prog, P, acc) == \A i \in P : WalkedNames(prog[i]) \subseteq acc.names

LEMMA FirstNamedIs ==
  ASSUME NEW prog, IsSequence(prog), NEW x, IsNamed(prog, x)
  PROVE  /\ FirstNamed(prog, x) \in 1 .. Len(prog) /\ prog[FirstNamed(prog, x)].name = x
<1> DEFINE T == {i \in 1 .. Len(prog) : prog[i].name = x}
<1>1. DOMAIN prog = 1 .. Len(prog) /\ Len(prog) \in Nat
  BY SeqTyped
<1>2. T # {} /\ T \subseteq Nat
  BY <1>1 DEF IsNamed
<1>3. PICK m \in T : \A y \in T : m <= y
  <2> HIDE DEF T
  <2> QED BY <1>2, LeastNat
<1>4. ASSUME NEW k \in 1 .. m - 1 PROVE prog[k].name # x
  <2>1. k \in 1 .. Len(prog) /\ ~(m <= k)
    BY <1>1
  <2> QED BY <1>3, <2>1
<1>5. m \in DOMAIN prog /\ prog[m].name = x /\ \A k \in 1 .. m - 1 : prog[k].name # x
  BY <1>1, <1>4
<1> HIDE DEF T
<1> DEFINE f == FirstNamed(prog, x)
<1>6. f \in DOMAIN prog /\ prog[f].name = x
  BY <1>5, Zenon DEF FirstNamed
<1> HIDE DEF f
<1> QED BY <1>1, <1>6 DEF f

\* One name is looked at.
LEMMA TakeNameWorks ==
  ASSUME NEW prog, IsProg(prog), NEW import, import.selected = {}, NEW P, NEW acc,
         Working(prog, import, P, acc), NEW at \in acc.included,
         NEW x \in WalkedNames(prog[at])
  PROVE  /\ Working(prog, import, P, TakeName(prog, acc, x))
         /\ TakeName(prog, acc, x).names = acc.names \cup {x}
         /\ acc.included \subseteq TakeName(prog, acc, x).included
<1> DEFINE N == Len(prog)
           f == FirstNamed(prog, x)
           new == TakeName(prog, acc, x)
<1>0. N \in Nat /\ DOMAIN prog = 1 .. N
  BY SeqTyped DEF IsProg
<1>1. acc \in [names : SUBSET NamesOf(prog), included : SUBSET (1 .. N), work : Seq(1 .. N)]
  BY DEF Working, Listing
<1>2. x \in NamesOf(prog) /\ at \in 1 .. N
  BY <1>1 DEF NamesOf
<1>3. IsNamed(prog, x) => f \in 1 .. N /\ prog[f].name = x
  BY FirstNamedIs DEF IsProg
<1>4. CASE x \in acc.names
  <2>1. new = acc
    BY <1>4 DEF TakeName
  <2> QED BY <1>4, <2>1
<1>5. CASE x \notin acc.names /\ (~ IsNamed(prog, x) \/ f \in acc.included)
  <2>1. new = [acc EXCEPT !.names = @ \cup {x}]
    BY <1>5 DEF TakeName
  <2>2. /\ new.names = acc.names \cup {x} /\ new.included = acc.included /\ new.work = acc.work
        /\ new \in Listing(prog)
    BY <1>1, <1>2, <2>1 DEF Listing
  <2> HIDE DEF new
  <2>3. \A y \in new.names : IsNamed(prog, y) => FirstNamed(prog, y) \in new.included
    <3> SUFFICES ASSUME NEW y \in new.names, IsNamed(prog, y)
                 PROVE  FirstNamed(prog, y) \in new.included
      OBVIOUS
    <3>1. CASE y = x
      BY <1>5, <2>2, <3>1
    <3>2. CASE y \in acc.names
      BY <2>2, <3>2 DEF Working
    <3> QED BY <2>2, <3>1, <3>2
  <2>4. Working(prog, import, P, new)
    BY <2>2, <2>3, Zenon DEF Working
  <2> QED BY <2>2, <2>4 DEF new
<1>6. CASE x \notin acc.names /\ IsNamed(prog, x) /\ f \notin acc.included
  <2>1. new = [names |-> acc.names \cup {x}, included |-> acc.included \cup {f},
               work |-> Append(acc.work, f)]
    BY <1>6 DEF TakeName
  <2>2. f \in 1 .. N /\ prog[f].name = x
    BY <1>3, <1>6
  <2> HIDE DEF f
  <2>3. /\ new.names = acc.names \cup {x} /\ new.included = acc.included \cup {f}
        /\ new.work = Append(acc.work, f) /\ Len(new.work) = Len(acc.work) + 1
        /\ new.work[Len(acc.work) + 1] = f /\ Len(acc.work) \in Nat
        /\ \A k \in 1 .. Len(acc.work) : new.work[k] = acc.work[k]
    BY <1>1, <2>1, <2>2
  <2>4. new \in Listing(prog)
    <3>1. Append(acc.work, f) \in Seq(1 .. N)
      BY <1>1, <2>2
    <3> QED BY <1>1, <1>2, <2>1, <2>2, <3>1 DEF Listing
  <2> HIDE DEF new
  <2>5. \A y \in new.names : IsNamed(prog, y) => FirstNamed(prog, y) \in new.included
    <3> SUFFICES ASSUME NEW y \in new.names, IsNamed(prog, y)
                 PROVE  FirstNamed(prog, y) \in new.included
      OBVIOUS
    <3>1. CASE y = x
      BY <2>3, <3>1 DEF f
    <3>2. CASE y \in acc.names
      BY <2>3, <3>2 DEF Working
    <3> QED BY <2>3, <3>1, <3>2
  <2>6. ASSUME NEW S \in SUBSET (1 .. N), Closed(prog, import, S) PROVE new.included \subseteq S
    <3>1. acc.included \subseteq S
      BY <2>6 DEF Working
    <3>2. f \in Needs(prog, import, at)
      <4>1. x # <<>>
        BY <1>6 DEF IsNamed
      <4> QED BY <1>0, <2>2, <4>1 DEF Needs, f
    <3>3. f \in S
      BY <2>6, <3>1, <3>2 DEF Closed
    <3> QED BY <2>3, <3>1, <3>3
  <2>7. \A k \in 1 .. Len(new.work) : new.work[k] \in new.included /\ new.work[k] \notin P
    <3>1. f \notin P
      BY <1>6 DEF Working, f
    <3>2. \A k \in 1 .. Len(acc.work) : acc.work[k] \in acc.included /\ acc.work[k] \notin P
      BY DEF Working
    <3> QED BY <2>3, <3>1, <3>2
  <2>8. ASSUME NEW j \in 1 .. Len(new.work), NEW k \in 1 .. Len(new.work), j # k
        PROVE  new.work[j] # new.work[k]
    <3>1. \A m \in 1 .. Len(acc.work) : acc.work[m] # f
      BY <1>6 DEF Working, f
    <3>2. \A m, n \in 1 .. Len(acc.work) : m # n => acc.work[m] # acc.work[n]
      BY DEF Working
    <3>3. (j \in 1 .. Len(acc.work) \/ j = Len(acc.work) + 1)
          /\ (k \in 1 .. Len(acc.work) \/ k = Len(acc.work) + 1)
      BY <2>3
    <3> QED BY <2>3, <2>8, <3>1, <3>2, <3>3
  <2>9. ASSUME NEW i \in new.included, i \notin P
        PROVE  \E k \in 1 .. Len(new.work) : new.work[k] = i
    <3>1. CASE i = f
      BY <2>3, <3>1
    <3>2. CASE i \in acc.included
      <4>1. PICK k \in 1 .. Len(acc.work) : acc.work[k] = i
        BY <2>9, <3>2 DEF Working
      <4>2. k \in 1 .. Len(new.work) /\ new.work[k] = i
        BY <2>3, <4>1
      <4> QED BY <4>2
    <3> QED BY <2>3, <3>1, <3>2
  <2>10. Wanted(prog, import) \subseteq new.included /\ P \subseteq new.included
    BY <2>3 DEF Working
  <2>11. Working(prog, import, P, new)
    BY <2>4, <2>5, <2>6, <2>7, <2>8, <2>9, <2>10 DEF Working
  <2> QED BY <2>3, <2>11 DEF new
<1> QED BY <1>4, <1>5, <1>6

\* The last index comes off the list.
LEMMA PopWorks ==
  ASSUME NEW prog, IsProg(prog), NEW import, NEW P, NEW acc, Working(prog, import, P, acc),
         acc.work # <<>>
  PROVE  LET i == Last(acc.work)
             new == [acc EXCEPT !.work = Front(@)]
         IN  /\ i \in acc.included /\ i \notin P
             /\ new.names = acc.names /\ Working(prog, import, P \cup {i}, new)
<1> DEFINE N == Len(prog)
           n == Len(acc.work)
           i == Last(acc.work)
           new == [acc EXCEPT !.work = Front(@)]
<1>0. N \in Nat
  BY SeqTyped DEF IsProg
<1>1. acc \in [names : SUBSET NamesOf(prog), included : SUBSET (1 .. N), work : Seq(1 .. N)]
  BY DEF Working, Listing
<1>2. n \in Nat /\ n >= 1 /\ i = acc.work[n] /\ IsSequence(acc.work)
  BY <1>1, SeqIsSequence DEF Last
<1>3. /\ new.names = acc.names /\ new.included = acc.included /\ new.work = Front(acc.work)
      /\ new \in Listing(prog)
  <2>1. Front(acc.work) \in Seq(1 .. N)
    BY <1>0, <1>1, <1>2 DEF Front
  <2> QED BY <1>1, <2>1 DEF Listing
<1>4. Len(new.work) = n - 1 /\ \A k \in 1 .. n - 1 : new.work[k] = acc.work[k]
  BY <1>2, <1>3, FrontIs
<1>5. i \in acc.included /\ i \notin P
  BY <1>2 DEF Working
<1> HIDE DEF new, i
<1>6. ASSUME NEW k \in 1 .. Len(new.work)
      PROVE  new.work[k] \in new.included /\ new.work[k] \notin P \cup {i}
  <2>1. k \in 1 .. n /\ n \in 1 .. n /\ k # n /\ new.work[k] = acc.work[k]
    BY <1>2, <1>4
  <2>2. acc.work[k] # acc.work[n] /\ acc.work[k] \in acc.included /\ acc.work[k] \notin P
    BY <2>1 DEF Working
  <2> QED BY <1>2, <1>3, <2>1, <2>2
<1>7. ASSUME NEW j \in 1 .. Len(new.work), NEW k \in 1 .. Len(new.work), j # k
      PROVE  new.work[j] # new.work[k]
  <2>1. j \in 1 .. n /\ k \in 1 .. n /\ new.work[j] = acc.work[j] /\ new.work[k] = acc.work[k]
    BY <1>2, <1>4
  <2> QED BY <1>7, <2>1 DEF Working
<1>8. ASSUME NEW d \in new.included, d \notin P \cup {i}
      PROVE  \E k \in 1 .. Len(new.work) : new.work[k] = d
  <2>1. PICK k \in 1 .. n : acc.work[k] = d
    BY <1>3, <1>8 DEF Working
  <2>2. k \in 1 .. n - 1
    BY <1>2, <1>8, <2>1
  <2> QED BY <1>4, <2>1, <2>2
<1>9. P \cup {i} \subseteq new.included /\ Wanted(prog, import) \subseteq new.included
  BY <1>3, <1>5 DEF Working
<1>10. /\ \A x \in new.names : IsNamed(prog, x) => FirstNamed(prog, x) \in new.included
       /\ \A S \in SUBSET (1 .. Len(prog)) : Closed(prog, import, S) => new.included \subseteq S
  BY <1>3 DEF Working
<1>11. Working(prog, import, P \cup {i}, new)
  BY <1>3, <1>6, <1>7, <1>8, <1>9, <1>10 DEF Working
<1> QED BY <1>3, <1>5, <1>11 DEF new, i

\* What one reference makes of the worklist.
Referred(prog, r, acc) == IF r.walked THEN TakeName(prog, acc, r.name) ELSE acc

\* One round of the worklist loop.
LEMMA ExpandWorks ==
  ASSUME NEW prog, IsProg(prog), NEW import, import.selected = {}, NEW P, NEW acc,
         Working(prog, import, P, acc), Seen(prog, P, acc), acc.work # <<>>
  PROVE  LET i == Last(acc.work)
         IN  /\ i \in acc.included /\ i \notin P
             /\ Working(prog, import, P \cup {i}, Expand(prog, acc))
             /\ Seen(prog, P \cup {i}, Expand(prog, acc))
<1> DEFINE i == Last(acc.work)
           Q == P \cup {i}
           uses == prog[i].uses
           N == Len(uses)
           S == Listing(prog)
           x == [acc EXCEPT !.work = Front(@)]
           After(n, g) == Referred(prog, uses[n], g)
<1>1. i \in acc.included /\ i \notin P /\ x.names = acc.names /\ Working(prog, import, Q, x)
  BY PopWorks
<1>2. i \in 1 .. Len(prog)
  BY <1>1 DEF Working, Listing
<1>3. N \in Nat /\ DOMAIN uses = 1 .. N
  BY <1>2, SeqTyped DEF IsProg
<1>4. x \in S
  BY <1>1 DEF Working
<1>5. ASSUME NEW n \in 1 .. N, uses[n].walked PROVE uses[n].name \in WalkedNames(prog[i])
  BY <1>3, <1>5 DEF WalkedNames, ToSet
<1>6. ASSUME NEW n \in 1 .. N, NEW g \in S PROVE After(n, g) \in S
  <2> DEFINE y == uses[n].name
             f == FirstNamed(prog, y)
  <2>1. CASE uses[n].walked
    <3>1. y \in NamesOf(prog)
      BY <1>2, <1>5, <2>1 DEF NamesOf
    <3>2. IsNamed(prog, y) => f \in 1 .. Len(prog)
      BY FirstNamedIs DEF IsProg
    <3>3. After(n, g) = TakeName(prog, g, y)
      BY <2>1 DEF Referred
    <3> HIDE DEF y, f
    <3>4. g \in [names : SUBSET NamesOf(prog), included : SUBSET (1 .. Len(prog)),
                 work : Seq(1 .. Len(prog))]
      BY DEF Listing
    <3>5. CASE y \in g.names \/ ~ IsNamed(prog, y) \/ f \in g.included
      <4>1. TakeName(prog, g, y) = g \/ TakeName(prog, g, y) = [g EXCEPT !.names = @ \cup {y}]
        BY <3>5 DEF TakeName, f
      <4>2. [g EXCEPT !.names = @ \cup {y}] \in S
        BY <3>1, <3>4 DEF Listing
      <4> QED BY <3>3, <4>1, <4>2
    <3>6. CASE ~(y \in g.names \/ ~ IsNamed(prog, y) \/ f \in g.included)
      <4>1. TakeName(prog, g, y) = [names |-> g.names \cup {y}, included |-> g.included \cup {f},
                                    work |-> Append(g.work, f)]
        BY <3>6 DEF TakeName, f
      <4>2. Append(g.work, f) \in Seq(1 .. Len(prog))
        BY <3>2, <3>4, <3>6
      <4> QED BY <3>1, <3>2, <3>3, <3>4, <3>6, <4>1, <4>2 DEF Listing
    <3> QED BY <3>5, <3>6
  <2>2. CASE ~uses[n].walked
    BY <2>2 DEF Referred
  <2> QED BY <2>1, <2>2
<1> DEFINE step == [n \in 1 .. N |-> [g \in S |-> After(n, g)]]
           R(f) == [n \in 0 .. N |-> IF n = 0 THEN x ELSE After(n, f[n - 1])]
<1> HIDE DEF N, S, x, After
<1>7. step \in [1 .. N -> [S -> S]]
  BY <1>6
<1>8. PICK f : IsChain(f, N, S, x, step)
  <2> HIDE DEF step
  <2> QED BY <1>3, <1>4, <1>7, ChainExists
<1>9. f \in [0 .. N -> S] /\ f[0] = x /\ \A n \in 1 .. N : f[n] = step[n][f[n - 1]]
  BY <1>8, Zenon DEF IsChain
<1>10. f = R(f)
  <2>1. \A n \in 1 .. N : f[n - 1] \in S
    BY <1>3, <1>9
  <2>2. \A n \in 1 .. N : \A g \in S : step[n][g] = After(n, g)
    OBVIOUS
  <2> HIDE DEF step
  <2>3. \A n \in 1 .. N : f[n] = After(n, f[n - 1])
    BY <1>9, <2>1, <2>2, Zenon
  <2> QED BY <1>3, <1>9, <2>3
<1> DEFINE F == CHOOSE h : h = R(h)
<1>11. Expand(prog, acc) = F[N]
  BY Zenon DEF Expand, x, N, After, Referred
<1> HIDE DEF R
<1>12. F = R(F)
  BY <1>10, Zenon
<1> HIDE DEF F
<1>13. F[0] = x /\ \A n \in 1 .. N : F[n] = After(n, F[n - 1])
  BY <1>3, <1>12 DEF R
<1> DEFINE Holds(n) == /\ Working(prog, import, Q, F[n])
                       /\ acc.names \subseteq F[n].names
                       /\ \A m \in 1 .. n : uses[m].walked => uses[m].name \in F[n].names
           G == {n \in 0 .. N : Holds(n)}
           id == [n \in 0 .. N |-> n]
<1> HIDE DEF Q, uses
<1>14. 0 \in G
  BY <1>1, <1>3, <1>13
<1>15. ASSUME NEW n \in 1 .. N, n - 1 \in G PROVE n \in G
  <2> DEFINE g == F[n - 1]
  <2>1. Working(prog, import, Q, g) /\ acc.names \subseteq g.names
        /\ \A m \in 1 .. n - 1 : uses[m].walked => uses[m].name \in g.names
    BY <1>15
  <2>2. F[n] = Referred(prog, uses[n], g)
    BY <1>13 DEF After
  <2> HIDE DEF g
  <2>3. n \in 0 .. N /\ \A m \in 1 .. n : m \in 1 .. n - 1 \/ m = n
    BY <1>3
  <2>4. CASE uses[n].walked
    <3>1. F[n] = TakeName(prog, g, uses[n].name) /\ uses[n].name \in WalkedNames(prog[i])
      BY <1>5, <2>2, <2>4 DEF Referred, uses
    <3>2. i \in g.included
      BY <2>1 DEF Working, Q
    <3>3. Working(prog, import, Q, F[n]) /\ F[n].names = g.names \cup {uses[n].name}
      BY <2>1, <3>1, <3>2, TakeNameWorks
    <3>4. Holds(n)
      BY <2>1, <2>3, <3>3
    <3> QED BY <2>3, <3>4
  <2>5. CASE ~uses[n].walked
    <3>1. F[n] = g
      BY <2>2, <2>5 DEF Referred
    <3>2. Holds(n)
      BY <2>1, <2>3, <2>5, <3>1
    <3> QED BY <2>3, <3>2
  <2> QED BY <2>4, <2>5
<1> HIDE DEF G
<1>16. \A n \in 0 .. N : id[n] \in G
  <2>1. id[0] \in G /\ \A n \in 1 .. N : id[n - 1] \in G => id[n] \in G
    BY <1>3, <1>14, <1>15
  <2> HIDE DEF id
  <2> QED BY <1>3, <2>1, ChainHolds
<1>17. Holds(N)
  BY <1>3, <1>16 DEF G
<1>18. WalkedNames(prog[i]) \subseteq F[N].names
  <2>1. \A r \in ToSet(uses) : r.walked => r.name \in F[N].names
    BY <1>3, <1>17 DEF ToSet, N, uses
  <2> QED BY <2>1 DEF WalkedNames, uses
<1>19. Seen(prog, Q, F[N])
  BY <1>17, <1>18 DEF Seen, Q
<1> QED BY <1>1, <1>11, <1>17, <1>19 DEF Q

\* The worklist after k rounds: it is empty, or k declarations are off it.
Rounds(prog, import, k, acc) ==
  \E P \in SUBSET (1 .. Len(prog)) :
    /\ Working(prog, import, P, acc) /\ Seen(prog, P, acc)
    /\ acc.work = <<>> \/ Cardinality(P) = k

Round(prog, acc) == IF acc.work = <<>> THEN acc ELSE Expand(prog, acc)

Seeds(prog) == {i \in DOMAIN prog : Exported(prog[i])}

Seeded(prog) ==
  [names |-> {}, included |-> Seeds(prog), work |-> InOrder(Seeds(prog), Len(prog))]

LEMMA RoundsBegin ==
  ASSUME NEW prog, IsProg(prog), NEW import, import.selected = {}
  PROVE  Rounds(prog, import, 0, Seeded(prog))
<1> DEFINE N == Len(prog)
           q == InOrder(Seeds(prog), N)
           x == Seeded(prog)
<1>1. N \in Nat /\ DOMAIN prog = 1 .. N
  BY SeqTyped DEF IsProg
<1>2. ListsUpto(Seeds(prog), N, q)
  BY <1>1, InOrderLists
<1>3. x.names = {} /\ x.included = Seeds(prog) /\ x.work = q
  BY DEF Seeded
<1>4. Seeds(prog) \subseteq 1 .. N /\ Wanted(prog, import) = Seeds(prog)
  BY <1>1 DEF Seeds, Wanted
<1>5. q \in Seq(1 .. N)
  BY <1>2 DEF ListsUpto
<1>6. x \in Listing(prog)
  BY <1>4, <1>5 DEF Seeded, Listing
<1> HIDE DEF x, q
<1>7. ASSUME NEW j \in 1 .. Len(q), NEW k \in 1 .. Len(q), j # k PROVE q[j] # q[k]
  <2>1. Len(q) \in Nat /\ q[j] \in Nat /\ q[k] \in Nat /\ (j < k \/ k < j)
    BY <1>2, <1>7 DEF ListsUpto
  <2>2. q[j] < q[k] \/ q[k] < q[j]
    BY <1>2, <2>1 DEF ListsUpto
  <2> QED BY <2>1, <2>2
<1>8. /\ \A k \in 1 .. Len(q) : q[k] \in Seeds(prog)
      /\ \A i \in Seeds(prog) : \E k \in 1 .. Len(q) : q[k] = i
  BY <1>2, <1>4 DEF ListsUpto
<1>9. \A S : Closed(prog, import, S) => x.included \subseteq S
  BY <1>3, <1>4 DEF Closed
<1>10. Working(prog, import, {}, x)
  BY <1>3, <1>4, <1>6, <1>7, <1>8, <1>9 DEF Working
<1>11. Seen(prog, {}, x) /\ Cardinality({}) = 0 /\ {} \in SUBSET (1 .. Len(prog))
  BY FS_EmptySet DEF Seen
<1> QED BY <1>10, <1>11 DEF Rounds, x

LEMMA RoundsGoOn ==
  ASSUME NEW prog, IsProg(prog), NEW import, import.selected = {}, NEW k \in Nat, NEW acc,
         Rounds(prog, import, k, acc)
  PROVE  Rounds(prog, import, k + 1, Round(prog, acc))
<1>1. PICK P \in SUBSET (1 .. Len(prog)) :
        /\ Working(prog, import, P, acc) /\ Seen(prog, P, acc)
        /\ acc.work = <<>> \/ Cardinality(P) = k
  BY DEF Rounds
<1>2. CASE acc.work = <<>>
  BY <1>1, <1>2 DEF Rounds, Round
<1>3. CASE acc.work # <<>>
  <2> DEFINE i == Last(acc.work)
             new == Expand(prog, acc)
  <2>1. /\ i \in acc.included /\ i \notin P
        /\ Working(prog, import, P \cup {i}, new) /\ Seen(prog, P \cup {i}, new)
    BY <1>1, <1>3, ExpandWorks
  <2> HIDE DEF i, new
  <2>2. i \in 1 .. Len(prog) /\ Len(prog) \in Nat
    BY <1>1, <2>1, SeqTyped DEF Working, Listing, IsProg
  <2>3. IsFiniteSet(P)
    <3>1. IsFiniteSet(1 .. Len(prog))
      BY <2>2, FS_Interval
    <3> QED BY <3>1, FS_Subset
  <2>4. Cardinality(P \cup {i}) = k + 1
    BY <1>1, <1>3, <2>1, <2>3, FS_AddElement
  <2>5. P \cup {i} \in SUBSET (1 .. Len(prog)) /\ Round(prog, acc) = new
    BY <1>3, <2>2 DEF Round, new
  <2> QED BY <2>1, <2>4, <2>5 DEF Rounds
<1> QED BY <1>2, <1>3

LEMMA RoundsTyped ==
  ASSUME NEW prog, IsProg(prog), NEW import, import.selected = {}, NEW k, NEW acc,
         Rounds(prog, import, k, acc)
  PROVE  acc \in Listing(prog)
BY DEF Rounds, Working

\* After as many rounds as there are declarations the list is empty.
LEMMA RoundsEnd ==
  ASSUME NEW prog, IsProg(prog), NEW import, import.selected = {}, NEW acc,
         Rounds(prog, import, Len(prog), acc)
  PROVE  /\ acc.included \subseteq 1 .. Len(prog)
         /\ Closed(prog, import, acc.included)
         /\ \A S \in SUBSET (1 .. Len(prog)) : Closed(prog, import, S) => acc.included \subseteq S
<1> DEFINE N == Len(prog)
<1>1. PICK P \in SUBSET (1 .. N) :
        /\ Working(prog, import, P, acc) /\ Seen(prog, P, acc)
        /\ acc.work = <<>> \/ Cardinality(P) = N
  BY DEF Rounds
<1>2. N \in Nat /\ DOMAIN prog = 1 .. N
  BY SeqTyped DEF IsProg
<1>3. acc \in [names : SUBSET NamesOf(prog), included : SUBSET (1 .. N), work : Seq(1 .. N)]
  BY <1>1 DEF Working, Listing
<1>4. acc.included \subseteq P
  <2>1. CASE acc.work = <<>>
    <3>1. Len(acc.work) = 0
      BY <2>1
    <3> QED BY <1>1, <3>1 DEF Working
  <2>2. CASE Cardinality(P) = N
    <3>1. IsFiniteSet(1 .. N) /\ Cardinality(1 .. N) = N
      <4> HIDE DEF N
      <4>1. 1 \in Int /\ N \in Int
        BY <1>2
      <4>2. IsFiniteSet(1 .. N) /\ Cardinality(1 .. N) = IF 1 > N THEN 0 ELSE N - 1 + 1
        BY <4>1, FS_Interval, Zenon
      <4> QED BY <1>2, <4>2
    <3>2. P = 1 .. N
      BY <2>2, <3>1, FS_Subset
    <3> QED BY <1>3, <3>2
  <2> QED BY <1>1, <2>1, <2>2
<1>5. ASSUME NEW i \in acc.included, NEW d \in Needs(prog, import, i) PROVE d \in acc.included
  <2> DEFINE x == prog[d].name
  <2>1. d \in 1 .. N /\ x \in WalkedNames(prog[i]) /\ x # <<>> /\ d = FirstNamed(prog, x)
    BY <1>2 DEF Needs
  <2>2. x \in acc.names
    BY <1>1, <1>4, <2>1 DEF Seen
  <2>3. IsNamed(prog, x)
    BY <1>2, <2>1 DEF IsNamed
  <2> HIDE DEF x
  <2> QED BY <1>1, <2>1, <2>2, <2>3 DEF Working
<1>6. Wanted(prog, import) \subseteq acc.included
  BY <1>1 DEF Working
<1>7. Closed(prog, import, acc.included)
  BY <1>5, <1>6 DEF Closed
<1> QED BY <1>1, <1>3, <1>7 DEF Working

\* The declarations a plain or a namespaced import of an exporting file takes.
LEMMA ExportClosureIs ==
  ASSUME NEW prog, IsProg(prog), NEW import, import.selected = {}
  PROVE  LET E == ExportClosure(prog)
         IN  /\ E \subseteq 1 .. Len(prog) /\ Closed(prog, import, E)
             /\ \A S \in SUBSET (1 .. Len(prog)) : Closed(prog, import, S) => E \subseteq S
<1> DEFINE N == Len(prog)
           x == Seeded(prog)
           S == {acc \in Listing(prog) : \E k \in Nat : Rounds(prog, import, k, acc)}
           After(n, g) == Round(prog, g)
<1>1. N \in Nat
  BY SeqTyped DEF IsProg
<1>2. Rounds(prog, import, 0, x)
  BY RoundsBegin
<1>3. x \in S
  BY <1>2, RoundsTyped
<1>4. ASSUME NEW n \in 1 .. N, NEW g \in S PROVE After(n, g) \in S
  <2>1. PICK k \in Nat : Rounds(prog, import, k, g)
    OBVIOUS
  <2>2. Rounds(prog, import, k + 1, Round(prog, g)) /\ k + 1 \in Nat
    BY <2>1, RoundsGoOn
  <2>3. Round(prog, g) \in Listing(prog)
    BY <2>2, RoundsTyped
  <2> QED BY <2>2, <2>3
<1> DEFINE step == [n \in 1 .. N |-> [g \in S |-> After(n, g)]]
           R(f) == [n \in 0 .. N |-> IF n = 0 THEN x ELSE After(n, f[n - 1])]
<1> HIDE DEF N, S, x, After
<1>5. step \in [1 .. N -> [S -> S]]
  BY <1>4
<1>6. PICK f : IsChain(f, N, S, x, step)
  <2> HIDE DEF step
  <2> QED BY <1>1, <1>3, <1>5, ChainExists
<1>7. f \in [0 .. N -> S] /\ f[0] = x /\ \A n \in 1 .. N : f[n] = step[n][f[n - 1]]
  BY <1>6, Zenon DEF IsChain
<1>8. f = R(f)
  <2>1. \A n \in 1 .. N : f[n - 1] \in S
    BY <1>1, <1>7
  <2>2. \A n \in 1 .. N : \A g \in S : step[n][g] = After(n, g)
    OBVIOUS
  <2> HIDE DEF step
  <2>3. \A n \in 1 .. N : f[n] = After(n, f[n - 1])
    BY <1>7, <2>1, <2>2, Zenon
  <2> QED BY <1>1, <1>7, <2>3
<1> DEFINE F == CHOOSE h : h = R(h)
<1>9. ExportClosure(prog) = F[N].included
  BY Zenon DEF ExportClosure, x, N, After, Round, Seeded, Seeds
<1> HIDE DEF R
<1>10. F = R(F)
  BY <1>8, Zenon
<1> HIDE DEF F
<1>11. F[0] = x /\ \A n \in 1 .. N : F[n] = After(n, F[n - 1])
  BY <1>1, <1>10 DEF R
<1> DEFINE G == {n \in 0 .. N : Rounds(prog, import, n, F[n])}
           id == [n \in 0 .. N |-> n]
<1>12. 0 \in G
  BY <1>1, <1>2, <1>11
<1>13. ASSUME NEW n \in 1 .. N, n - 1 \in G PROVE n \in G
  <2>1. n - 1 \in Nat /\ (n - 1) + 1 = n /\ n \in 0 .. N
    BY <1>1
  <2>2. Rounds(prog, import, n - 1, F[n - 1])
    BY <1>13
  <2>3. Rounds(prog, import, (n - 1) + 1, Round(prog, F[n - 1]))
    BY <2>1, <2>2, RoundsGoOn
  <2>4. F[n] = Round(prog, F[n - 1])
    BY <1>11 DEF After
  <2> QED BY <2>1, <2>3, <2>4
<1> HIDE DEF G
<1>14. \A n \in 0 .. N : id[n] \in G
  <2>1. id[0] \in G /\ \A n \in 1 .. N : id[n - 1] \in G => id[n] \in G
    BY <1>1, <1>12, <1>13
  <2> HIDE DEF id
  <2> QED BY <1>1, <2>1, ChainHolds
<1>15. Rounds(prog, import, N, F[N])
  BY <1>1, <1>14 DEF G
<1> DEFINE last == F[N]
<1>16. Rounds(prog, import, Len(prog), last)
  BY <1>15 DEF N
<1> HIDE DEF last
<1>17. /\ last.included \subseteq 1 .. Len(prog) /\ Closed(prog, import, last.included)
       /\ \A T \in SUBSET (1 .. Len(prog)) : Closed(prog, import, T) => last.included \subseteq T
  BY <1>16, RoundsEnd
<1> QED BY <1>9, <1>17 DEF last

-----------------------------------------------------------------------------
(* The closure of a selective import.                                        *)

Sweeping(prog, selected) ==
  [included : SUBSET (1 .. Len(prog)), names : SUBSET (selected \cup NamesOf(prog))]

\* Between two declarations of a sweep: the names are those selected and those
\* that the included declarations use.
Swept(prog, import, acc) ==
  /\ acc \in Sweeping(prog, import.selected)
  /\ import.selected \subseteq acc.names
  /\ \A i \in acc.included : WalkedNames(prog[i]) \subseteq acc.names
  /\ \A S \in SUBSET (1 .. Len(prog)) : Closed(prog, import, S) => acc.included \subseteq S
  /\ \A x \in acc.names : x \in import.selected
                          \/ \E i \in acc.included : x \in WalkedNames(prog[i])

\* There is nothing to do for declaration i.
Settled(prog, acc, i) ==
  i \in acc.included \/ prog[i].name = <<>> \/ prog[i].name \notin acc.names

LEMMA PullSweeps ==
  ASSUME NEW prog, IsProg(prog), NEW import, import.selected # {}, NEW acc,
         Swept(prog, import, acc), NEW i \in 1 .. Len(prog)
  PROVE  /\ Swept(prog, import, Pull(prog, acc, i))
         /\ acc.included \subseteq Pull(prog, acc, i).included
         /\ Settled(prog, acc, i) => Pull(prog, acc, i) = acc
         /\ ~ Settled(prog, acc, i) => i \in Pull(prog, acc, i).included /\ i \notin acc.included
<1> DEFINE new == Pull(prog, acc, i)
<1>0. DOMAIN prog = 1 .. Len(prog)
  BY SeqTyped DEF IsProg
<1>1. CASE Settled(prog, acc, i)
  <2>1. new = acc
    BY <1>1 DEF Pull, Settled
  <2> QED BY <1>1, <2>1
<1>2. CASE ~ Settled(prog, acc, i)
  <2>1. new = [included |-> acc.included \cup {i}, names |-> acc.names \cup WalkedNames(prog[i])]
    BY <1>2 DEF Pull, Settled
  <2>2. /\ new.included = acc.included \cup {i}
        /\ new.names = acc.names \cup WalkedNames(prog[i])
    BY <2>1
  <2>3. new \in Sweeping(prog, import.selected)
    <3>1. WalkedNames(prog[i]) \subseteq NamesOf(prog)
      BY DEF NamesOf
    <3>2. acc.included \subseteq 1 .. Len(prog)
          /\ acc.names \subseteq import.selected \cup NamesOf(prog)
      BY DEF Swept, Sweeping
    <3> HIDE DEF new
    <3> QED BY <2>1, <3>1, <3>2 DEF Sweeping
  <2> HIDE DEF new
  <2>4. i \notin acc.included /\ prog[i].name # <<>> /\ prog[i].name \in acc.names
    BY <1>2 DEF Settled
  <2>5. ASSUME NEW S \in SUBSET (1 .. Len(prog)), Closed(prog, import, S)
        PROVE  new.included \subseteq S
    <3>1. acc.included \subseteq S
      BY <2>5 DEF Swept
    <3>2. i \in S
      <4>1. CASE prog[i].name \in import.selected
        <5>1. i \in Wanted(prog, import)
          BY <1>0, <4>1, WantedBySelection
        <5> QED BY <2>5, <5>1 DEF Closed
      <4>2. CASE prog[i].name \notin import.selected
        <5>1. PICK k \in acc.included : prog[i].name \in WalkedNames(prog[k])
          BY <2>4, <4>2 DEF Swept
        <5>2. i \in Needs(prog, import, k)
          BY <1>0, <2>4, <5>1 DEF Needs
        <5> QED BY <2>5, <3>1, <5>1, <5>2 DEF Closed
      <4> QED BY <4>1, <4>2
    <3> QED BY <2>2, <3>1, <3>2
  <2>6. /\ import.selected \subseteq new.names
        /\ \A k \in new.included : WalkedNames(prog[k]) \subseteq new.names
    BY <2>2 DEF Swept
  <2>7. ASSUME NEW x \in new.names, x \notin import.selected
        PROVE  \E k \in new.included : x \in WalkedNames(prog[k])
    BY <2>2, <2>7 DEF Swept
  <2>8. Swept(prog, import, new)
    BY <2>3, <2>5, <2>6, <2>7 DEF Swept
  <2> QED BY <1>2, <2>2, <2>4, <2>8 DEF new
<1> QED BY <1>1, <1>2

\* A sweep changes nothing when there is nothing to do, and includes a
\* declaration more otherwise.
LEMMA SweepSweeps ==
  ASSUME NEW prog, IsProg(prog), NEW import, import.selected # {}, NEW acc,
         Swept(prog, import, acc)
  PROVE  LET new == Sweep(prog, acc)
         IN  /\ Swept(prog, import, new) /\ acc.included \subseteq new.included
             /\ \/ new = acc /\ \A i \in 1 .. Len(prog) : Settled(prog, acc, i)
                \/ /\ \E i \in new.included : i \notin acc.included
                   /\ \E i \in 1 .. Len(prog) : ~ Settled(prog, acc, i)
<1> DEFINE N == Len(prog)
           S == {g \in Sweeping(prog, import.selected) : Swept(prog, import, g)}
           x == acc
           After(n, g) == Pull(prog, g, n)
<1>1. N \in Nat
  BY SeqTyped DEF IsProg
<1>2. x \in S
  BY DEF Swept
<1>3. ASSUME NEW n \in 1 .. N, NEW g \in S PROVE After(n, g) \in S
  <2>1. Swept(prog, import, Pull(prog, g, n))
    BY PullSweeps
  <2> QED BY <2>1 DEF Swept
<1> DEFINE step == [n \in 1 .. N |-> [g \in S |-> After(n, g)]]
           R(f) == [n \in 0 .. N |-> IF n = 0 THEN x ELSE After(n, f[n - 1])]
<1> HIDE DEF N, S, x, After
<1>4. step \in [1 .. N -> [S -> S]]
  BY <1>3
<1>5. PICK f : IsChain(f, N, S, x, step)
  <2> HIDE DEF step
  <2> QED BY <1>1, <1>2, <1>4, ChainExists
<1>6. f \in [0 .. N -> S] /\ f[0] = x /\ \A n \in 1 .. N : f[n] = step[n][f[n - 1]]
  BY <1>5, Zenon DEF IsChain
<1>7. f = R(f)
  <2>1. \A n \in 1 .. N : f[n - 1] \in S
    BY <1>1, <1>6
  <2>2. \A n \in 1 .. N : \A g \in S : step[n][g] = After(n, g)
    OBVIOUS
  <2> HIDE DEF step
  <2>3. \A n \in 1 .. N : f[n] = After(n, f[n - 1])
    BY <1>6, <2>1, <2>2, Zenon
  <2> QED BY <1>1, <1>6, <2>3
<1> DEFINE F == CHOOSE h : h = R(h)
<1>8. Sweep(prog, acc) = F[N]
  BY Zenon DEF Sweep, x, N, After
<1> HIDE DEF R
<1>9. F = R(F)
  BY <1>7, Zenon
<1> HIDE DEF F
<1>10. F[0] = x /\ \A n \in 1 .. N : F[n] = After(n, F[n - 1])
  BY <1>1, <1>9 DEF R
<1> DEFINE Idle(n) == F[n] = acc /\ \A i \in 1 .. n : Settled(prog, acc, i)
           Undone == \E i \in 1 .. Len(prog) : ~ Settled(prog, acc, i)
           More(n) == Undone /\ \E i \in F[n].included : i \notin acc.included
           Holds(n) == /\ Swept(prog, import, F[n]) /\ acc.included \subseteq F[n].included
                       /\ Idle(n) \/ More(n)
           G == {n \in 0 .. N : Holds(n)}
           id == [n \in 0 .. N |-> n]
<1>11. 0 \in G
  <2>1. F[0] = acc
    BY <1>10 DEF x
  <2>2. Idle(0)
    BY <2>1
  <2> QED BY <1>1, <2>1, <2>2
<1>12. ASSUME NEW n \in 1 .. N, n - 1 \in G PROVE n \in G
  <2> DEFINE g == F[n - 1]
             m == n - 1
  <2>1. /\ Swept(prog, import, g) /\ acc.included \subseteq g.included
        /\ Idle(m) \/ (Undone /\ \E i \in g.included : i \notin acc.included)
    BY <1>12
  <2>2. F[n] = Pull(prog, g, n) /\ n \in 0 .. N /\ n \in 1 .. Len(prog)
    BY <1>1, <1>10 DEF After, N
  <2>3. Idle(m) => g = acc /\ \A i \in 1 .. n - 1 : Settled(prog, acc, i)
    OBVIOUS
  <2> HIDE DEF g
  <2>4. /\ Swept(prog, import, F[n]) /\ g.included \subseteq F[n].included
        /\ Settled(prog, g, n) => F[n] = g
        /\ ~ Settled(prog, g, n) => n \in F[n].included /\ n \notin g.included
    BY <2>1, <2>2, PullSweeps
  <2>5. CASE Idle(m) /\ Settled(prog, g, n)
    <3>1. g = acc /\ F[n] = acc /\ \A i \in 1 .. n - 1 : Settled(prog, acc, i)
      BY <2>3, <2>4, <2>5
    <3>2. \A i \in 1 .. n : i \in 1 .. n - 1 \/ i = n
      BY <1>1
    <3>3. Idle(n)
      BY <2>5, <3>1, <3>2
    <3> QED BY <2>1, <2>2, <2>4, <3>3
  <2>6. CASE Idle(m) /\ ~ Settled(prog, g, n)
    <3>1. Undone
      BY <2>2, <2>3, <2>6
    <3>2. More(n)
      BY <2>3, <2>4, <2>6, <3>1
    <3> QED BY <2>1, <2>2, <2>4, <3>2
  <2>7. CASE Undone /\ \E i \in g.included : i \notin acc.included
    <3>1. More(n)
      BY <2>4, <2>7
    <3> QED BY <2>1, <2>2, <2>4, <3>1
  <2> QED BY <2>1, <2>5, <2>6, <2>7
<1> HIDE DEF G
<1>13. \A n \in 0 .. N : id[n] \in G
  <2>1. id[0] \in G /\ \A n \in 1 .. N : id[n - 1] \in G => id[n] \in G
    BY <1>1, <1>11, <1>12
  <2> HIDE DEF id
  <2> QED BY <1>1, <2>1, ChainHolds
<1>14. Holds(N)
  BY <1>1, <1>13 DEF G
<1> QED BY <1>8, <1>14 DEF N

\* After k sweeps: nothing is left to do, or k declarations are included.
Sweeps(prog, import, k, acc) ==
  /\ Swept(prog, import, acc)
  /\ \/ \A i \in 1 .. Len(prog) : Settled(prog, acc, i)
     \/ Cardinality(acc.included) >= k

LEMMA SweepsGoOn ==
  ASSUME NEW prog, IsProg(prog), NEW import, import.selected # {}, NEW k \in Nat, NEW acc,
         Sweeps(prog, import, k, acc)
  PROVE  Sweeps(prog, import, k + 1, Sweep(prog, acc))
<1> DEFINE new == Sweep(prog, acc)
           N == Len(prog)
<1>1. /\ Swept(prog, import, new) /\ acc.included \subseteq new.included
      /\ \/ new = acc /\ \A i \in 1 .. N : Settled(prog, acc, i)
         \/ /\ \E i \in new.included : i \notin acc.included
            /\ \E i \in 1 .. N : ~ Settled(prog, acc, i)
  BY SweepSweeps DEF Sweeps
<1> HIDE DEF new
<1>2. CASE new = acc /\ \A i \in 1 .. N : Settled(prog, acc, i)
  BY <1>1, <1>2 DEF Sweeps, new
<1>3. CASE /\ \E i \in new.included : i \notin acc.included
           /\ \E i \in 1 .. N : ~ Settled(prog, acc, i)
  <2>1. PICK i \in new.included : i \notin acc.included
    BY <1>3
  <2>2. new.included \subseteq 1 .. N /\ N \in Nat
    BY <1>1, SeqTyped DEF Swept, Sweeping, IsProg
  <2>3. IsFiniteSet(new.included)
    <3>1. IsFiniteSet(1 .. N)
      BY <2>2, FS_Interval
    <3> QED BY <2>2, <3>1, FS_Subset
  <2>4. acc.included \cup {i} \subseteq new.included
    BY <1>1, <2>1
  <2>5. IsFiniteSet(acc.included) /\ Cardinality(acc.included) \in Nat
    BY <1>1, <2>3, FS_Subset, FS_CardinalityType
  <2>6. Cardinality(acc.included \cup {i}) = Cardinality(acc.included) + 1
    BY <2>1, <2>5, FS_AddElement
  <2>7. Cardinality(acc.included \cup {i}) <= Cardinality(new.included)
        /\ Cardinality(new.included) \in Nat
    BY <2>3, <2>4, FS_Subset, FS_CardinalityType
  <2>8. Cardinality(acc.included) >= k
    BY <1>3 DEF Sweeps
  <2>9. Cardinality(new.included) >= k + 1
    BY <2>5, <2>6, <2>7, <2>8
  <2> QED BY <1>1, <2>9 DEF Sweeps, new
<1> QED BY <1>1, <1>2, <1>3

\* The declarations a selective import takes.
LEMMA SelectiveClosureIs ==
  ASSUME NEW prog, IsProg(prog), NEW import, import.selected # {}, <<>> \notin import.selected
  PROVE  LET E == SelectiveClosure(prog, import.selected)
         IN  /\ E \subseteq 1 .. Len(prog) /\ Closed(prog, import, E)
             /\ \A S \in SUBSET (1 .. Len(prog)) : Closed(prog, import, S) => E \subseteq S
<1> DEFINE N == Len(prog)
           x == [included |-> {}, names |-> import.selected]
           S == {acc \in Sweeping(prog, import.selected) :
                   \E k \in Nat : Sweeps(prog, import, k, acc)}
           After(n, g) == Sweep(prog, g)
<1>1. N \in Nat /\ DOMAIN prog = 1 .. N
  BY SeqTyped DEF IsProg
<1>2. Sweeps(prog, import, 0, x)
  <2>1. x \in Sweeping(prog, import.selected)
    BY DEF Sweeping
  <2>2. Cardinality(x.included) >= 0
    BY FS_EmptySet
  <2>3. Swept(prog, import, x)
    BY <2>1 DEF Swept
  <2> QED BY <2>2, <2>3 DEF Sweeps
<1>3. x \in S
  BY <1>2 DEF Sweeps, Swept
<1>4. ASSUME NEW n \in 1 .. N, NEW g \in S PROVE After(n, g) \in S
  <2>1. PICK k \in Nat : Sweeps(prog, import, k, g)
    OBVIOUS
  <2>2. Sweeps(prog, import, k + 1, Sweep(prog, g)) /\ k + 1 \in Nat
    BY <2>1, SweepsGoOn
  <2>3. Sweep(prog, g) \in Sweeping(prog, import.selected)
    BY <2>2 DEF Sweeps, Swept
  <2> QED BY <2>2, <2>3
<1> DEFINE step == [n \in 1 .. N |-> [g \in S |-> After(n, g)]]
           R(f) == [n \in 0 .. N |-> IF n = 0 THEN x ELSE After(n, f[n - 1])]
<1> HIDE DEF N, S, x, After
<1>5. step \in [1 .. N -> [S -> S]]
  BY <1>4
<1>6. PICK f : IsChain(f, N, S, x, step)
  <2> HIDE DEF step
  <2> QED BY <1>1, <1>3, <1>5, ChainExists
<1>7. f \in [0 .. N -> S] /\ f[0] = x /\ \A n \in 1 .. N : f[n] = step[n][f[n - 1]]
  BY <1>6, Zenon DEF IsChain
<1>8. f = R(f)
  <2>1. \A n \in 1 .. N : f[n - 1] \in S
    BY <1>1, <1>7
  <2>2. \A n \in 1 .. N : \A g \in S : step[n][g] = After(n, g)
    OBVIOUS
  <2> HIDE DEF step
  <2>3. \A n \in 1 .. N : f[n] = After(n, f[n - 1])
    BY <1>7, <2>1, <2>2, Zenon
  <2> QED BY <1>1, <1>7, <2>3
<1> DEFINE F == CHOOSE h : h = R(h)
<1>9. SelectiveClosure(prog, import.selected) = F[N].included
  BY Zenon DEF SelectiveClosure, x, N, After
<1> HIDE DEF R
<1>10. F = R(F)
  BY <1>8, Zenon
<1> HIDE DEF F
<1>11. F[0] = x /\ \A n \in 1 .. N : F[n] = After(n, F[n - 1])
  BY <1>1, <1>10 DEF R
<1> DEFINE G == {n \in 0 .. N : Sweeps(prog, import, n, F[n])}
           id == [n \in 0 .. N |-> n]
<1>12. 0 \in G
  BY <1>1, <1>2, <1>11
<1>13. ASSUME NEW n \in 1 .. N, n - 1 \in G PROVE n \in G
  <2>1. n - 1 \in Nat /\ (n - 1) + 1 = n /\ n \in 0 .. N
    BY <1>1
  <2>2. Sweeps(prog, import, n - 1, F[n - 1])
    BY <1>13
  <2>3. Sweeps(prog, import, (n - 1) + 1, Sweep(prog, F[n - 1]))
    BY <2>1, <2>2, SweepsGoOn
  <2>4. F[n] = Sweep(prog, F[n - 1])
    BY <1>11 DEF After
  <2> QED BY <2>1, <2>3, <2>4
<1> HIDE DEF G
<1>14. \A n \in 0 .. N : id[n] \in G
  <2>1. id[0] \in G /\ \A n \in 1 .. N : id[n - 1] \in G => id[n] \in G
    BY <1>1, <1>12, <1>13
  <2> HIDE DEF id
  <2> QED BY <1>1, <2>1, ChainHolds
<1> DEFINE last == F[N]
<1>15. Sweeps(prog, import, N, last)
  BY <1>1, <1>14 DEF G
<1> HIDE DEF last
<1>16. Swept(prog, import, last) /\ last.included \subseteq 1 .. N
  BY <1>15 DEF Sweeps, Swept, Sweeping, N
<1>17. \A i \in 1 .. N : Settled(prog, last, i)
  <2>1. CASE Cardinality(last.included) >= N
    <3>1. IsFiniteSet(1 .. N) /\ Cardinality(1 .. N) = N
      <4>1. 1 \in Int /\ N \in Int
        BY <1>1
      <4>2. IsFiniteSet(1 .. N) /\ Cardinality(1 .. N) = IF 1 > N THEN 0 ELSE N - 1 + 1
        BY <4>1, FS_Interval, Zenon
      <4> QED BY <1>1, <4>2
    <3>2. Cardinality(last.included) <= N /\ Cardinality(last.included) \in Nat
      BY <1>16, <3>1, FS_Subset, FS_CardinalityType
    <3>3. Cardinality(last.included) = Cardinality(1 .. N)
      BY <1>1, <2>1, <3>1, <3>2
    <3>4. last.included = 1 .. N
      BY <1>16, <3>1, <3>3, FS_Subset
    <3> QED BY <3>4 DEF Settled
  <2> QED BY <1>15, <2>1 DEF Sweeps, N
<1>18. Wanted(prog, import) \subseteq last.included
  <2> SUFFICES ASSUME NEW i \in Wanted(prog, import) PROVE i \in last.included
    OBVIOUS
  <2>1. i \in 1 .. N /\ prog[i].name \in import.selected
    BY <1>1, WantedBySelection
  <2>2. prog[i].name \in last.names /\ prog[i].name # <<>>
    BY <1>16, <2>1 DEF Swept
  <2> QED BY <1>17, <2>1, <2>2 DEF Settled
<1>19. ASSUME NEW i \in last.included, NEW d \in Needs(prog, import, i)
       PROVE  d \in last.included
  <2>1. d \in 1 .. N /\ prog[d].name \in WalkedNames(prog[i]) /\ prog[d].name # <<>>
    BY <1>1 DEF Needs
  <2>2. prog[d].name \in last.names
    BY <1>16, <2>1 DEF Swept
  <2> QED BY <1>17, <2>1, <2>2 DEF Settled
<1>20. Closed(prog, import, last.included)
  BY <1>18, <1>19 DEF Closed
<1> QED BY <1>9, <1>16, <1>20 DEF last, N, Swept

\* What an import takes over is the least set that has what it wants and needs,
\* or everything when it wants nothing in particular.
Takes(prog, import) ==
  LET got == Included(prog, import)
  IN  /\ got \subseteq 1 .. Len(prog)
      /\ \/ got = DOMAIN prog /\ Wanted(prog, import) = {}
         \/ /\ Closed(prog, import, got)
            /\ \A S \in SUBSET (1 .. Len(prog)) : Closed(prog, import, S) => got \subseteq S

LEMMA IncludedTakes ==
  ASSUME NEW prog, IsProg(prog), NEW import, <<>> \notin import.selected
  PROVE  Takes(prog, import)
<1>0. DOMAIN prog = 1 .. Len(prog)
  BY SeqTyped DEF IsProg
<1>1. CASE import.selected # {}
  <2>1. Included(prog, import) = SelectiveClosure(prog, import.selected)
    BY <1>1 DEF Included
  <2> QED BY <1>1, <2>1, SelectiveClosureIs DEF Takes
<1>2. CASE import.selected = {} /\ \E i \in DOMAIN prog : Exported(prog[i])
  <2>1. Included(prog, import) = ExportClosure(prog)
    BY <1>2 DEF Included
  <2> QED BY <1>2, <2>1, ExportClosureIs DEF Takes
<1>3. CASE import.selected = {} /\ ~ \E i \in DOMAIN prog : Exported(prog[i])
  <2>1. Included(prog, import) = DOMAIN prog
    BY <1>3 DEF Included
  <2>2. Wanted(prog, import) = {}
    BY <1>3 DEF Wanted
  <2> QED BY <1>0, <2>1, <2>2 DEF Takes
<1> QED BY <1>1, <1>2, <1>3

-----------------------------------------------------------------------------
(* The inductive invariant, over a project p, frames fr, contexts cx and the *)
(* flags fin (finished) and err (hadError).                                  *)

IsDecl(d) ==
  DOMAIN d = {"file", "at", "name", "exported", "uses", "embeds", "texts", "filtered"}
IsFrame(r) == DOMAIN r = {"file", "import", "ctx", "next", "decls", "aliases"}
IsContext(c) == DOMAIN c = {"active", "resolved", "chain", "dropped"}

\* A collected declaration stands for an item of a file of the project.
Mirrors(p, d) ==
  /\ IsDecl(d) /\ IsSequence(d.uses) /\ IsSequence(d.name)
  /\ d.file \in DOMAIN p /\ p[d.file] # Unparsable
  /\ d.at \in 1 .. Len(p[d.file]) /\ ~ IsImport(p[d.file][d.at])
  /\ d.exported \in BOOLEAN /\ d.filtered \in BOOLEAN
  /\ Exported(d) <=> Exported(p[d.file][d.at])

IsCall(p, r) ==
  /\ IsFrame(r) /\ <<>> \notin r.import.selected
  /\ r.file \in DOMAIN p /\ p[r.file] # Unparsable /\ r.next \in 1 .. Len(p[r.file]) + 1
  /\ r.ctx \in Nat
  /\ IsSequence(r.decls) /\ \A n \in 1 .. Len(r.decls) : Mirrors(p, r.decls[n])

\* Frame i + 1 is the call that frame i makes for its next item.
Calls(p, r, s) ==
  /\ r.next <= Len(p[r.file]) /\ IsImport(p[r.file][r.next])
  /\ s.ctx = IF s.import.alias = NoAlias THEN r.ctx ELSE r.ctx + 1

Shape(p, fr, cx, fin) ==
  /\ IsProject(p) /\ fin \in BOOLEAN
  /\ IsSequence(fr) /\ Len(fr) >= 1 /\ IsSequence(cx)
  /\ \A i \in 1 .. Len(fr) : IsCall(p, fr[i])
  /\ \A k \in 1 .. Len(cx) : IsContext(cx[k])
  /\ fr[1].ctx = 1 /\ fr[Len(fr)].ctx = Len(cx)
  /\ \A i \in 1 .. Len(fr) - 1 : Calls(p, fr[i], fr[i + 1])
  /\ \A i, j \in 1 .. Len(fr) : i <= j => fr[i].ctx <= fr[j].ctx
  /\ fin => Len(fr) = 1 /\ fr[1].next > Len(p[fr[1].file])

FilesUpto(fr, n) == {fr[i].file : i \in 1 .. n}
ChainUpto(fr, n) == [i \in 1 .. n |-> fr[i].file]

\* The files that a context knows as being processed: those of its frames, of
\* the frames below and of the frame with which the next context starts.
LastOf(fr, i) == i = Len(fr) \/ fr[i + 1].ctx # fr[i].ctx
Known(fr, i) == IF i = Len(fr) THEN i ELSE i + 1

Stacked(fr, cx, fin) ==
  /\ \A i, k \in 1 .. Len(fr) : i # k => fr[i].file # fr[k].file
  /\ \A i \in 1 .. Len(fr) : LastOf(fr, i) =>
       /\ cx[fr[i].ctx].active = FilesUpto(fr, Known(fr, i))
       /\ ~ fin => cx[fr[i].ctx].chain = ChainUpto(fr, Known(fr, i))

SameItem(d, e) == d.file = e.file /\ d.at = e.at

\* Where an unfiltered declaration comes from: a file that is resolved, or the
\* items already seen of a file that is being taken over as a whole.
Accounted(r, resolved, d) ==
  \/ d.filtered
  \/ d.file \in resolved
  \/ d.file = r.file /\ r.import.selected = {} /\ d.at < r.next

Single(fr, cx) ==
  /\ \A i \in 1 .. Len(fr) : fr[i].import.selected = {} => fr[i].file \notin cx[fr[i].ctx].resolved
  /\ \A i \in 1 .. Len(fr) : \A n \in 1 .. Len(fr[i].decls) :
       Accounted(fr[i], cx[fr[i].ctx].resolved, fr[i].decls[n])
  /\ \A i, j \in 1 .. Len(fr) : fr[i].ctx = fr[j].ctx =>
       \A m \in 1 .. Len(fr[i].decls), n \in 1 .. Len(fr[j].decls) :
         (<<i, m>> # <<j, n>> /\ SameItem(fr[i].decls[m], fr[j].decls[n])) =>
           (fr[i].decls[m].filtered \/ fr[j].decls[n].filtered)

\* Item n of file f is collected by the frame r, or a filter of the context left
\* it out, an exported one only a selective import's.
CollectedBy(r, f, n) ==
  \E m \in 1 .. Len(r.decls) : r.decls[m].file = f /\ r.decls[m].at = n
LeftOut(p, c, f, n) ==
  \E d \in c.dropped :
    d.file = f /\ d.at = n /\ ~ d.nested /\ (d.selective \/ ~ Exported(p[f][n]))

Kept(p, fr, cx) ==
  /\ \A i \in 1 .. Len(fr) : \A n \in 1 .. fr[i].next - 1 :
       IsImport(p[fr[i].file][n]) \/ CollectedBy(fr[i], fr[i].file, n)
  /\ \A k \in 1 .. Len(cx) : \A f \in cx[k].resolved : \A n \in DOMAIN p[f] :
       \/ IsImport(p[f][n])
       \/ \E i \in 1 .. Len(fr) : fr[i].ctx = k /\ CollectedBy(fr[i], f, n)
       \/ LeftOut(p, cx[k], f, n)

\* Nothing is left of d that the walk for import_str gets to.
AllRead(d) == \A e \in d.embeds : ~ e.walked

\* Without an error, the embedded files of what was taken over have been read,
\* and every text was found from the file it is embedded in.
ReadBy(r, d) ==
  /\ d.file # r.file => AllRead(d)
  /\ \A t \in d.texts : t.text = ResolveImportPath(d.file, t.path)
Read(fr, fin, err) ==
  /\ err \in BOOLEAN
  /\ ~ err => \A i \in 1 .. Len(fr) : \A n \in 1 .. Len(fr[i].decls) :
                /\ ReadBy(fr[i], fr[i].decls[n])
                /\ fin => AllRead(fr[i].decls[n])

Inv(p, fr, cx, fin, err) ==
  Shape(p, fr, cx, fin) /\ Stacked(fr, cx, fin) /\ Single(fr, cx) /\ Kept(p, fr, cx)
  /\ Read(fr, fin, err)

ResolveInv == Inv(project, frames, ctxs, finished, hadError)

-----------------------------------------------------------------------------
(* The next item of the innermost frame is dealt with.                       *)

LEMMA ItemAt ==
  ASSUME NEW p, IsProject(p), NEW f \in DOMAIN p, p[f] # Unparsable
  PROVE  /\ IsSequence(p[f]) /\ DOMAIN p[f] = 1 .. Len(p[f]) /\ Len(p[f]) \in Nat
         /\ \A n \in 1 .. Len(p[f]) :
              /\ IsItem(f, n, p[f][n])
              /\ IsImport(p[f][n]) => ResolveImportPath(f, p[f][n].path) \in DOMAIN p \cup {NotFound}
<1>1. IsSequence(p[f])
  <2>1. p[f] \in Seq(ToSet(p[f]))
    BY Zenon DEF IsProject
  <2> QED BY <2>1, SeqIsSequence, Zenon
<1>2. DOMAIN p[f] = 1 .. Len(p[f]) /\ Len(p[f]) \in Nat
  BY <1>1, SeqTyped
<1> QED BY <1>1, <1>2 DEF IsProject

LEMMA NewDecl ==
  ASSUME NEW p, IsProject(p), NEW f \in DOMAIN p, p[f] # Unparsable, NEW n \in 1 .. Len(p[f]),
         ~ IsImport(p[f][n]), NEW b, b \in BOOLEAN
  PROVE  LET d == [p[f][n] EXCEPT !.filtered = b]
         IN  Mirrors(p, d) /\ d.file = f /\ d.at = n /\ d.filtered = b /\ d.texts = {}
<1> DEFINE item == p[f][n]
           d == [item EXCEPT !.filtered = b]
<1>1. IsItem(f, n, item)
  BY ItemAt
<1>2. /\ item = Decl(f, n, item.name, item.exported, item.uses, item.embeds)
      /\ item.exported \in BOOLEAN /\ IsSequence(item.name) /\ IsSequence(item.uses)
  <2> HIDE DEF item
  <2>1. /\ item = Decl(f, n, item.name, item.exported, item.uses, item.embeds)
        /\ item.exported \in BOOLEAN
        /\ item.name \in Seq(ToSet(item.name)) /\ item.uses \in Seq(ToSet(item.uses))
    BY <1>1, Zenon DEF IsItem, item
  <2> QED BY <2>1, SeqIsSequence, Zenon
<1> HIDE DEF item
<1>3. IsDecl(item) /\ item.file = f /\ item.at = n /\ item.texts = {}
  BY <1>2 DEF Decl, IsDecl
<1>4. /\ IsDecl(d) /\ d.file = f /\ d.at = n /\ d.filtered = b /\ d.texts = {}
      /\ d.name = item.name /\ d.exported = item.exported /\ d.uses = item.uses
  BY <1>3 DEF IsDecl
<1> HIDE DEF d
<1>5. Exported(d) <=> Exported(item)
  BY <1>4 DEF Exported
<1> QED BY <1>2, <1>4, <1>5 DEF Mirrors, d, item

\* What dealing with an item makes of the frame r.
Advances(p, r, s) ==
  LET item == p[r.file][r.next]
  IN  /\ r.next <= Len(p[r.file])
      /\ s = [r EXCEPT !.next = @ + 1, !.decls = s.decls]
      /\ IF IsImport(item) THEN s.decls = r.decls
         ELSE s.decls = Append(r.decls, [item EXCEPT !.filtered = r.import.selected # {}])

\* The frame s in the place of the innermost one.
Topped(fr, s) == [fr EXCEPT ![Len(fr)] = s]

LEMMA ToppedIs ==
  ASSUME NEW fr, IsSequence(fr), Len(fr) >= 1, NEW s
  PROVE  LET gr == Topped(fr, s)
         IN  /\ IsSequence(gr) /\ Len(gr) = Len(fr) /\ Len(fr) \in Nat /\ gr[Len(fr)] = s
             /\ \A i \in 1 .. Len(fr) : i # Len(fr) => gr[i] = fr[i]
<1>1. Len(fr) \in Nat
  BY SeqTyped
<1>2. Len(fr) \in 1 .. Len(fr)
  BY <1>1
<1> QED BY <1>1, <1>2, ExceptIs DEF Topped

\* The fields of the frame afterwards.
AdvancedTo(p, r, s) ==
  LET f == r.file
      new == s.decls[Len(r.decls) + 1]
  IN  /\ IsCall(p, s) /\ s.file = f /\ s.import = r.import /\ s.ctx = r.ctx
      /\ s.next = r.next + 1 /\ r.next \in 1 .. Len(p[f]) /\ r.next \in Nat
      /\ Len(r.decls) \in Nat /\ Len(s.decls) \in Nat
      /\ \A n \in 1 .. Len(r.decls) : n \in 1 .. Len(s.decls) /\ s.decls[n] = r.decls[n]
      /\ IsImport(p[f][r.next]) => Len(s.decls) = Len(r.decls)
      /\ ~ IsImport(p[f][r.next]) =>
           /\ Len(s.decls) = Len(r.decls) + 1
           /\ new.file = f /\ new.at = r.next /\ new.texts = {}
           /\ r.import.selected # {} => new.filtered

LEMMA AdvanceSays ==
  ASSUME NEW p, IsProject(p), NEW r, IsCall(p, r), NEW s, Advances(p, r, s)
  PROVE  AdvancedTo(p, r, s)
<1> DEFINE f == r.file
           item == p[f][r.next]
           d == [item EXCEPT !.filtered = r.import.selected # {}]
<1>1. /\ f \in DOMAIN p /\ p[f] # Unparsable /\ r.next \in 1 .. Len(p[f]) + 1 /\ r.ctx \in Nat
      /\ IsSequence(r.decls) /\ \A n \in 1 .. Len(r.decls) : Mirrors(p, r.decls[n])
      /\ <<>> \notin r.import.selected
  BY DEF IsCall
<1>2. Len(p[f]) \in Nat
  BY <1>1, ItemAt
<1>3. r.next \in 1 .. Len(p[f]) /\ r.next \in Nat /\ r.next + 1 \in 1 .. Len(p[f]) + 1
  BY <1>1, <1>2 DEF Advances
<1>4. s = [r EXCEPT !.next = @ + 1, !.decls = s.decls] /\ IsFrame(r)
  BY DEF Advances, IsCall
<1>5. s.file = f /\ s.import = r.import /\ s.ctx = r.ctx /\ s.next = r.next + 1 /\ IsFrame(s)
  BY <1>4 DEF IsFrame
<1>6. Len(r.decls) \in Nat
  BY <1>1, SeqTyped
<1>7. CASE IsImport(item)
  <2>1. s.decls = r.decls
    BY <1>7 DEF Advances
  <2>2. IsCall(p, s)
    BY <1>1, <1>3, <1>5, <2>1 DEF IsCall
  <2> QED BY <1>3, <1>5, <1>6, <1>7, <2>1, <2>2 DEF AdvancedTo
<1>8. CASE ~ IsImport(item)
  <2>1. s.decls = Append(r.decls, d)
    BY <1>8 DEF Advances
  <2>2. /\ Mirrors(p, d) /\ d.file = f /\ d.at = r.next /\ d.texts = {}
        /\ d.filtered = (r.import.selected # {})
    <3>1. PICK b : b = (r.import.selected # {})
      OBVIOUS
    <3>2. b \in BOOLEAN
      BY <3>1
    <3>3. d = [item EXCEPT !.filtered = b]
      BY <3>1, Zenon
    <3> HIDE DEF d
    <3>4. Mirrors(p, d) /\ d.file = f /\ d.at = r.next /\ d.texts = {} /\ d.filtered = b
      BY <1>1, <1>3, <1>8, <3>2, <3>3, NewDecl
    <3> QED BY <3>1, <3>4, Zenon
  <2> HIDE DEF d
  <2>3. /\ IsSequence(s.decls) /\ Len(s.decls) = Len(r.decls) + 1
        /\ \A n \in 1 .. Len(r.decls) : s.decls[n] = r.decls[n]
        /\ s.decls[Len(r.decls) + 1] = d
    BY <1>1, <2>1, AppendIs
  <2>4. ASSUME NEW n \in 1 .. Len(s.decls) PROVE Mirrors(p, s.decls[n])
    <3>1. n \in 1 .. Len(r.decls) \/ n = Len(r.decls) + 1
      BY <1>6, <2>3
    <3> QED BY <1>1, <2>2, <2>3, <3>1
  <2>5. IsCall(p, s)
    BY <1>1, <1>3, <1>5, <2>3, <2>4 DEF IsCall
  <2>6. Len(s.decls) \in Nat /\ \A n \in 1 .. Len(r.decls) : n \in 1 .. Len(s.decls)
    BY <1>6, <2>3
  <2> QED BY <1>3, <1>5, <1>6, <1>8, <2>2, <2>3, <2>5, <2>6 DEF AdvancedTo
<1> QED BY <1>7, <1>8

\* The frames of gr are about the same files, imports and contexts.
Like(fr, gr) ==
  /\ Len(gr) = Len(fr)
  /\ \A i \in 1 .. Len(fr) :
       gr[i].file = fr[i].file /\ gr[i].import = fr[i].import /\ gr[i].ctx = fr[i].ctx

LEMMA StackedLike ==
  ASSUME NEW fr, Len(fr) \in Nat, NEW gr, Like(fr, gr), NEW cx, NEW fin, Stacked(fr, cx, fin)
  PROVE  Stacked(gr, cx, fin)
<1>1. \A i, k \in 1 .. Len(gr) : i # k => gr[i].file # gr[k].file
  BY DEF Like, Stacked
<1>2. ASSUME NEW i \in 1 .. Len(gr), LastOf(gr, i)
      PROVE  /\ cx[gr[i].ctx].active = FilesUpto(gr, Known(gr, i))
             /\ ~ fin => cx[gr[i].ctx].chain = ChainUpto(gr, Known(gr, i))
  <2> DEFINE n == Known(gr, i)
  <2>1. i \in 1 .. Len(fr) /\ Len(gr) = Len(fr) /\ (i # Len(fr) => i + 1 \in 1 .. Len(fr))
    BY DEF Like
  <2>2. LastOf(fr, i)
    BY <1>2, <2>1 DEF LastOf, Like
  <2>3. n = Known(fr, i) /\ n \in 1 .. Len(fr)
    BY <2>1 DEF Known
  <2> HIDE DEF n
  <2>4. FilesUpto(gr, n) = FilesUpto(fr, n) /\ ChainUpto(gr, n) = ChainUpto(fr, n)
    <3>1. \A j \in 1 .. n : gr[j].file = fr[j].file
      BY <2>3 DEF Like
    <3> QED BY <3>1 DEF FilesUpto, ChainUpto
  <2>5. gr[i].ctx = fr[i].ctx
    BY <2>1 DEF Like
  <2>6. /\ cx[fr[i].ctx].active = FilesUpto(fr, n)
        /\ ~ fin => cx[fr[i].ctx].chain = ChainUpto(fr, n)
    BY <2>1, <2>2, <2>3 DEF Stacked
  <2> QED BY <2>4, <2>5, <2>6 DEF n
<1> QED BY <1>1, <1>2 DEF Stacked

\* The hypotheses about a step that only the innermost frame takes.
Advancing(p, fr, cx, err, s) ==
  Inv(p, fr, cx, FALSE, err) /\ Advances(p, fr[Len(fr)], s)

LEMMA AdvancedFrames ==
  ASSUME NEW p, NEW fr, NEW cx, NEW err, NEW s, Advancing(p, fr, cx, err, s)
  PROVE  LET gr == Topped(fr, s)
             t == Len(fr)
         IN  /\ IsSequence(fr) /\ t \in Nat /\ t \in 1 .. t /\ IsSequence(gr) /\ Len(gr) = t
             /\ gr[t] = s /\ IsCall(p, fr[t]) /\ IsProject(p)
             /\ \A i \in 1 .. t : i # t => gr[i] = fr[i]
             /\ Like(fr, gr) /\ Advances(p, fr[t], s)
<1> DEFINE gr == Topped(fr, s)
           t == Len(fr)
<1>1. /\ IsSequence(fr) /\ t >= 1 /\ IsProject(p) /\ \A i \in 1 .. t : IsCall(p, fr[i])
      /\ Advances(p, fr[t], s)
  BY DEF Advancing, Inv, Shape
<1>2. /\ IsSequence(gr) /\ Len(gr) = t /\ t \in Nat /\ gr[t] = s
      /\ \A i \in 1 .. t : i # t => gr[i] = fr[i]
  BY <1>1, ToppedIs
<1>3. t \in 1 .. t /\ IsCall(p, fr[t])
  BY <1>1, <1>2
<1>4. s.file = fr[t].file /\ s.import = fr[t].import /\ s.ctx = fr[t].ctx
  BY <1>1, <1>3, AdvanceSays DEF AdvancedTo
<1> HIDE DEF gr, t
<1>5. Like(fr, gr)
  BY <1>2, <1>4 DEF Like, t
<1> QED BY <1>1, <1>2, <1>3, <1>5 DEF gr, t

LEMMA AdvanceShape ==
  ASSUME NEW p, NEW fr, NEW cx, NEW err, NEW s, Advancing(p, fr, cx, err, s)
  PROVE  Shape(p, Topped(fr, s), cx, FALSE) /\ Stacked(Topped(fr, s), cx, FALSE)
<1> DEFINE gr == Topped(fr, s)
           t == Len(fr)
<1>1. /\ IsSequence(fr) /\ t \in Nat /\ t \in 1 .. t /\ IsSequence(gr) /\ Len(gr) = t
      /\ gr[t] = s /\ IsCall(p, fr[t]) /\ IsProject(p)
      /\ \A i \in 1 .. t : i # t => gr[i] = fr[i]
      /\ Like(fr, gr) /\ Advances(p, fr[t], s)
  BY AdvancedFrames
<1>2. IsCall(p, s)
  BY <1>1, AdvanceSays DEF AdvancedTo
<1> HIDE DEF gr
<1>3. Shape(p, fr, cx, FALSE) /\ Stacked(fr, cx, FALSE)
  BY DEF Advancing, Inv
<1>4. \A i \in 1 .. Len(gr) : IsCall(p, gr[i])
  <2> SUFFICES ASSUME NEW i \in 1 .. Len(gr) PROVE IsCall(p, gr[i])
    OBVIOUS
  <2>1. i = t \/ gr[i] = fr[i]
    BY <1>1
  <2> QED BY <1>1, <1>2, <1>3, <2>1 DEF Shape
<1>5. ASSUME NEW i \in 1 .. Len(gr) - 1 PROVE Calls(p, gr[i], gr[i + 1])
  <2>1. i \in 1 .. Len(fr) - 1 /\ i \in 1 .. t /\ i # t /\ i + 1 \in 1 .. t
    BY <1>1
  <2>2. gr[i] = fr[i] /\ gr[i + 1].ctx = fr[i + 1].ctx /\ gr[i + 1].import = fr[i + 1].import
    BY <1>1, <2>1 DEF Like
  <2>3. Calls(p, fr[i], fr[i + 1])
    BY <1>3, <2>1 DEF Shape
  <2> QED BY <2>2, <2>3 DEF Calls
<1>6. ASSUME NEW i \in 1 .. Len(gr), NEW j \in 1 .. Len(gr), i <= j PROVE gr[i].ctx <= gr[j].ctx
  <2>1. i \in 1 .. Len(fr) /\ j \in 1 .. Len(fr)
    BY <1>1
  <2>2. gr[i].ctx = fr[i].ctx /\ gr[j].ctx = fr[j].ctx
    BY <1>1, <2>1 DEF Like
  <2>3. fr[i].ctx <= fr[j].ctx
    BY <1>3, <1>6, <2>1 DEF Shape
  <2> QED BY <2>2, <2>3
<1>7. gr[1].ctx = 1 /\ gr[Len(gr)].ctx = Len(cx) /\ Len(gr) >= 1
  <2>1. 1 \in 1 .. t
    BY <1>1
  <2>2. fr[1].ctx = 1 /\ fr[t].ctx = Len(cx)
    BY <1>3 DEF Shape
  <2>3. gr[1].ctx = fr[1].ctx /\ gr[t].ctx = fr[t].ctx
    BY <1>1, <2>1 DEF Like
  <2> QED BY <1>1, <2>2, <2>3
<1>8. IsSequence(cx) /\ \A k \in 1 .. Len(cx) : IsContext(cx[k])
  BY <1>3 DEF Shape
<1>9. Shape(p, gr, cx, FALSE)
  BY <1>1, <1>4, <1>5, <1>6, <1>7, <1>8 DEF Shape
<1>10. Stacked(gr, cx, FALSE)
  BY <1>1, <1>3, StackedLike
<1> QED BY <1>9, <1>10 DEF gr

LEMMA AdvanceKept ==
  ASSUME NEW p, NEW fr, NEW cx, NEW err, NEW s, Advancing(p, fr, cx, err, s)
  PROVE  Kept(p, Topped(fr, s), cx)
<1> DEFINE gr == Topped(fr, s)
           t == Len(fr)
           r == fr[t]
           f == r.file
           item == p[f][r.next]
<1>1. /\ IsSequence(fr) /\ t \in Nat /\ t \in 1 .. t /\ IsSequence(gr) /\ Len(gr) = t
      /\ gr[t] = s /\ IsCall(p, r) /\ IsProject(p)
      /\ \A i \in 1 .. t : i # t => gr[i] = fr[i]
      /\ Like(fr, gr) /\ Advances(p, r, s)
  BY AdvancedFrames
<1>2. /\ s.file = f /\ s.ctx = r.ctx
      /\ s.next = r.next + 1 /\ r.next \in 1 .. Len(p[f]) /\ r.next \in Nat
      /\ Len(r.decls) \in Nat /\ Len(s.decls) \in Nat
      /\ \A n \in 1 .. Len(r.decls) : n \in 1 .. Len(s.decls) /\ s.decls[n] = r.decls[n]
  <2>1. AdvancedTo(p, r, s)
    BY <1>1, AdvanceSays, Zenon
  <2> HIDE DEF gr, t, r
  <2> QED BY <2>1 DEF AdvancedTo
<1>3. ~ IsImport(item) =>
        /\ Len(s.decls) = Len(r.decls) + 1 /\ s.decls[Len(r.decls) + 1].file = f
        /\ s.decls[Len(r.decls) + 1].at = r.next
  <2>1. AdvancedTo(p, r, s)
    BY <1>1, AdvanceSays, Zenon
  <2> HIDE DEF gr, t, r
  <2> QED BY <2>1 DEF AdvancedTo
<1> HIDE DEF gr, t, r
<1>4. Kept(p, fr, cx)
  BY DEF Advancing, Inv
<1>5. \A g, n : CollectedBy(r, g, n) => CollectedBy(s, g, n)
  BY <1>2 DEF CollectedBy
<1>6. \A i \in 1 .. t : \A g, n : CollectedBy(fr[i], g, n) => CollectedBy(gr[i], g, n)
  BY <1>1, <1>5 DEF r
<1>7. ASSUME NEW i \in 1 .. Len(gr), NEW n \in 1 .. gr[i].next - 1
      PROVE  IsImport(p[gr[i].file][n]) \/ CollectedBy(gr[i], gr[i].file, n)
  <2>1. CASE i # t
    <3>1. i \in 1 .. Len(fr) /\ gr[i] = fr[i]
      BY <1>1, <2>1 DEF t
    <3>2. \A k \in 1 .. fr[i].next - 1 :
            IsImport(p[fr[i].file][k]) \/ CollectedBy(fr[i], fr[i].file, k)
      BY <1>4, <3>1, Zenon DEF Kept
    <3> QED BY <3>1, <3>2
  <2>2. CASE i = t /\ n = r.next
    <3>1. CASE ~ IsImport(item)
      <4>1. CollectedBy(s, f, n)
        <5> DEFINE k == Len(r.decls) + 1
        <5>1. k \in 1 .. Len(s.decls)
          BY <1>2, <1>3, <3>1
        <5>2. s.decls[k].file = f /\ s.decls[k].at = n
          BY <1>3, <2>2, <3>1, Zenon
        <5> HIDE DEF k
        <5> QED BY <5>1, <5>2, Zenon DEF CollectedBy
      <4> QED BY <1>1, <1>2, <2>2, <4>1
    <3> QED BY <1>1, <1>2, <2>2, <3>1
  <2>3. CASE i = t /\ n # r.next
    <3>1. n \in 1 .. r.next - 1
      BY <1>1, <1>2, <2>3
    <3>2. IsImport(p[f][n]) \/ CollectedBy(r, f, n)
      BY <1>1, <1>4, <3>1 DEF Kept, r, t
    <3> QED BY <1>1, <1>2, <1>5, <2>3, <3>2
  <2> QED BY <2>1, <2>2, <2>3
<1>8. ASSUME NEW k \in 1 .. Len(cx), NEW g \in cx[k].resolved, NEW n \in DOMAIN p[g]
      PROVE  \/ IsImport(p[g][n])
             \/ \E i \in 1 .. Len(gr) : gr[i].ctx = k /\ CollectedBy(gr[i], g, n)
             \/ LeftOut(p, cx[k], g, n)
  <2>1. CASE \E i \in 1 .. Len(fr) : fr[i].ctx = k /\ CollectedBy(fr[i], g, n)
    <3>1. PICK i \in 1 .. Len(fr) : fr[i].ctx = k /\ CollectedBy(fr[i], g, n)
      BY <2>1
    <3>2. i \in 1 .. Len(gr) /\ gr[i].ctx = k /\ CollectedBy(gr[i], g, n)
      BY <1>1, <1>6, <3>1 DEF Like, t
    <3> QED BY <3>2
  <2> QED BY <1>4, <2>1 DEF Kept
<1> QED BY <1>7, <1>8 DEF Kept, gr

\* The third part of Single: two declarations of one context that stand for the
\* same item are not both unfiltered.
Apart(fr, i, m, j, n) ==
  (fr[i].ctx = fr[j].ctx /\ <<i, m>> # <<j, n>> /\ SameItem(fr[i].decls[m], fr[j].decls[n]))
    => (fr[i].decls[m].filtered \/ fr[j].decls[n].filtered)

AllApart(fr) ==
  \A i, j \in 1 .. Len(fr) :
    \A m \in 1 .. Len(fr[i].decls), n \in 1 .. Len(fr[j].decls) : Apart(fr, i, m, j, n)

AllAccounted(fr, cx) ==
  \A i \in 1 .. Len(fr) : \A n \in 1 .. Len(fr[i].decls) :
    Accounted(fr[i], cx[fr[i].ctx].resolved, fr[i].decls[n])

NoneResolved(fr, cx) ==
  \A i \in 1 .. Len(fr) :
    fr[i].import.selected = {} => fr[i].file \notin cx[fr[i].ctx].resolved

LEMMA SingleParts ==
  ASSUME NEW fr, NEW cx
  PROVE  Single(fr, cx) <=> NoneResolved(fr, cx) /\ AllAccounted(fr, cx) /\ AllApart(fr)
BY Zenon DEF Single, NoneResolved, AllAccounted, AllApart, Apart

LEMMA ApartSymmetric ==
  ASSUME NEW fr, NEW i, NEW j, NEW m, NEW n, Apart(fr, i, m, j, n)
  PROVE  Apart(fr, j, n, i, m)
BY DEF Apart, SameItem

\* A frame that still has to take its item n has no unfiltered copy of it in its
\* context yet.
LEMMA NotYetTaken ==
  ASSUME NEW p, NEW fr, NEW cx, Shape(p, fr, cx, FALSE), Stacked(fr, cx, FALSE), Single(fr, cx),
         NEW t \in 1 .. Len(fr), fr[t].import.selected = {},
         NEW i \in 1 .. Len(fr), fr[i].ctx = fr[t].ctx, NEW m \in 1 .. Len(fr[i].decls),
         fr[i].decls[m].file = fr[t].file, fr[i].decls[m].at = fr[t].next
  PROVE  fr[i].decls[m].filtered
<1> DEFINE d == fr[i].decls[m]
<1>1. fr[t].file \notin cx[fr[t].ctx].resolved
  BY SingleParts DEF NoneResolved
<1>2. Accounted(fr[i], cx[fr[i].ctx].resolved, d)
  BY SingleParts DEF AllAccounted
<1>3. IsCall(p, fr[t]) /\ IsProject(p)
  BY DEF Shape
<1>4. Len(p[fr[t].file]) \in Nat
  BY <1>3, ItemAt DEF IsCall
<1>5. fr[t].next \in Nat
  BY <1>3, <1>4 DEF IsCall
<1>6. fr[i].file = fr[t].file => i = t
  BY DEF Stacked
<1> HIDE DEF d
<1>7. ~(d.file = fr[i].file /\ d.at < fr[i].next)
  <2>1. d.file = fr[t].file /\ d.at = fr[t].next
    BY DEF d
  <2>2. CASE d.file = fr[i].file
    <3>1. i = t
      BY <1>6, <2>1, <2>2
    <3>2. ~(d.at < fr[i].next)
      BY <1>5, <2>1, <3>1
    <3> QED BY <3>2
  <2> QED BY <2>2
<1>8. d.file \notin cx[fr[i].ctx].resolved
  BY <1>1 DEF d
<1> QED BY <1>2, <1>7, <1>8 DEF Accounted, d

LEMMA AdvanceSingle ==
  ASSUME NEW p, NEW fr, NEW cx, NEW err, NEW s, Advancing(p, fr, cx, err, s)
  PROVE  Single(Topped(fr, s), cx)
<1> DEFINE gr == Topped(fr, s)
           t == Len(fr)
           r == fr[t]
           f == r.file
           item == p[f][r.next]
           new == s.decls[Len(r.decls) + 1]
<1>1. /\ IsSequence(fr) /\ t \in Nat /\ t \in 1 .. t /\ IsSequence(gr) /\ Len(gr) = t
      /\ gr[t] = s /\ IsCall(p, r) /\ IsProject(p)
      /\ \A i \in 1 .. t : i # t => gr[i] = fr[i]
      /\ Like(fr, gr) /\ Advances(p, r, s)
  BY AdvancedFrames
<1>2. AdvancedTo(p, r, s)
  BY <1>1, AdvanceSays
<1>3. /\ s.file = f /\ s.ctx = r.ctx /\ s.import = r.import
      /\ s.next = r.next + 1 /\ r.next \in 1 .. Len(p[f]) /\ r.next \in Nat
      /\ Len(r.decls) \in Nat /\ Len(s.decls) \in Nat
      /\ \A n \in 1 .. Len(r.decls) : n \in 1 .. Len(s.decls) /\ s.decls[n] = r.decls[n]
  BY <1>2 DEF AdvancedTo
<1>4. \A n \in 1 .. Len(s.decls) :
        \/ n \in 1 .. Len(r.decls)
        \/ /\ n = Len(r.decls) + 1 /\ new.file = f /\ new.at = r.next
           /\ r.import.selected # {} => new.filtered
  BY <1>2, <1>3 DEF AdvancedTo
<1> HIDE DEF gr, t, r, new
<1>5. Shape(p, fr, cx, FALSE) /\ Stacked(fr, cx, FALSE) /\ Single(fr, cx)
  BY DEF Advancing, Inv
<1>6. NoneResolved(fr, cx) /\ AllAccounted(fr, cx) /\ AllApart(fr)
  BY <1>5, SingleParts
<1>7. NoneResolved(gr, cx)
  BY <1>1, <1>6 DEF NoneResolved, Like, t
<1>8. ASSUME NEW i \in 1 .. Len(gr), NEW n \in 1 .. Len(gr[i].decls)
      PROVE  Accounted(gr[i], cx[gr[i].ctx].resolved, gr[i].decls[n])
  <2>1. CASE i # t
    BY <1>1, <1>6, <2>1 DEF AllAccounted, t
  <2>2. CASE i = t /\ n \in 1 .. Len(r.decls)
    <3> DEFINE d == r.decls[n]
    <3>1. Accounted(r, cx[r.ctx].resolved, d)
      BY <1>1, <1>6, <2>2 DEF AllAccounted, t, r
    <3>2. gr[i] = s /\ s.decls[n] = d
      BY <1>1, <1>3, <2>2
    <3>3. d.at \in Nat
      <4>1. Mirrors(p, d)
        BY <1>1, <2>2 DEF IsCall
      <4>2. d.file \in DOMAIN p /\ p[d.file] # Unparsable /\ d.at \in 1 .. Len(p[d.file])
        BY <4>1 DEF Mirrors
      <4>3. Len(p[d.file]) \in Nat
        BY <1>1, <4>2, ItemAt
      <4> QED BY <4>2, <4>3
    <3> HIDE DEF d
    <3>4. d.at < r.next => d.at < s.next
      BY <1>3, <3>3
    <3>5. Accounted(s, cx[s.ctx].resolved, d)
      BY <1>3, <3>1, <3>4 DEF Accounted
    <3> QED BY <3>2, <3>5
  <2>3. CASE i = t /\ n \notin 1 .. Len(r.decls)
    <3>1. gr[i] = s /\ s.decls[n] = new /\ new.file = f /\ new.at = r.next
          /\ (r.import.selected # {} => new.filtered)
      BY <1>1, <1>4, <2>3 DEF new
    <3>2. new.at < s.next
      BY <1>3, <3>1
    <3>3. Accounted(s, cx[s.ctx].resolved, new)
      BY <1>3, <3>1, <3>2 DEF Accounted
    <3> QED BY <3>1, <3>3
  <2> QED BY <2>1, <2>2, <2>3
<1>9. ASSUME NEW i \in 1 .. Len(gr), NEW m \in 1 .. Len(gr[i].decls),
             gr[i].ctx = s.ctx, m \in 1 .. Len(fr[i].decls), gr[i].decls[m] = fr[i].decls[m],
             SameItem(gr[i].decls[m], new), new.file = f, new.at = r.next,
             r.import.selected = {}
      PROVE  gr[i].decls[m].filtered
  <2>1. i \in 1 .. Len(fr) /\ t \in 1 .. Len(fr) /\ fr[i].ctx = fr[t].ctx
    BY <1>1, <1>3, <1>9 DEF Like, t, r
  <2>2. fr[i].decls[m].file = fr[t].file /\ fr[i].decls[m].at = fr[t].next
        /\ fr[t].import.selected = {}
    BY <1>9 DEF SameItem, r
  <2> QED BY <1>5, <1>9, <2>1, <2>2, NotYetTaken
<1>10. ASSUME NEW i \in 1 .. Len(gr), NEW m \in 1 .. Len(gr[i].decls)
       PROVE  \/ m \in 1 .. Len(fr[i].decls) /\ gr[i].decls[m] = fr[i].decls[m]
              \/ /\ i = t /\ m = Len(r.decls) + 1 /\ gr[i].decls[m] = new
                 /\ new.file = f /\ new.at = r.next /\ (r.import.selected # {} => new.filtered)
  <2>1. CASE i # t
    BY <1>1, <2>1
  <2>2. CASE i = t
    BY <1>1, <1>3, <1>4, <2>2 DEF r, new
  <2> QED BY <2>1, <2>2
<1>11. ASSUME NEW i \in 1 .. Len(gr), NEW j \in 1 .. Len(gr),
              NEW m \in 1 .. Len(gr[i].decls), NEW n \in 1 .. Len(gr[j].decls)
       PROVE  Apart(gr, i, m, j, n)
  <2> DEFINE Old(k, l) == l \in 1 .. Len(fr[k].decls) /\ gr[k].decls[l] = fr[k].decls[l]
  <2>0. /\ gr[i].ctx = fr[i].ctx /\ gr[j].ctx = fr[j].ctx /\ gr[t].ctx = s.ctx
        /\ i \in 1 .. Len(fr) /\ j \in 1 .. Len(fr)
    BY <1>1 DEF Like, t
  <2>1. CASE Old(i, m) /\ Old(j, n)
    <3>1. Apart(fr, i, m, j, n)
      BY <1>6, <2>0, <2>1 DEF AllApart
    <3> QED BY <2>0, <2>1, <3>1 DEF Apart
  <2>2. CASE Old(i, m) /\ ~ Old(j, n)
    <3>1. /\ j = t /\ gr[j].decls[n] = new /\ new.file = f /\ new.at = r.next
          /\ r.import.selected # {} => new.filtered
      BY <1>10, <2>2
    <3> QED BY <1>9, <2>0, <2>2, <3>1 DEF Apart
  <2>3. CASE ~ Old(i, m) /\ Old(j, n)
    <3>1. /\ i = t /\ gr[i].decls[m] = new /\ new.file = f /\ new.at = r.next
          /\ r.import.selected # {} => new.filtered
      BY <1>10, <2>3
    <3>2. SameItem(new, gr[j].decls[n]) => SameItem(gr[j].decls[n], new)
      BY DEF SameItem
    <3> QED BY <1>9, <2>0, <2>3, <3>1, <3>2 DEF Apart
  <2>4. CASE ~ Old(i, m) /\ ~ Old(j, n)
    <3>1. i = t /\ m = Len(r.decls) + 1 /\ j = t /\ n = Len(r.decls) + 1
      BY <1>10, <2>4
    <3> QED BY <3>1 DEF Apart
  <2> QED BY <2>1, <2>2, <2>3, <2>4
<1>12. NoneResolved(gr, cx) /\ AllAccounted(gr, cx) /\ AllApart(gr)
  BY <1>7, <1>8, <1>11 DEF AllAccounted, AllApart
<1> QED BY <1>12, SingleParts DEF gr

\* An error that was reported stays reported.
Remembers(err, e) == e \in BOOLEAN /\ (err => e)

LEMMA AdvanceRead ==
  ASSUME NEW p, NEW fr, NEW cx, NEW err, NEW s, Advancing(p, fr, cx, err, s),
         NEW e, Remembers(err, e)
  PROVE  Read(Topped(fr, s), FALSE, e)
<1> DEFINE gr == Topped(fr, s)
           t == Len(fr)
           r == fr[t]
           new == s.decls[Len(r.decls) + 1]
<1>1. /\ IsSequence(fr) /\ t \in Nat /\ t \in 1 .. t /\ IsSequence(gr) /\ Len(gr) = t
      /\ gr[t] = s /\ IsCall(p, r) /\ IsProject(p)
      /\ \A i \in 1 .. t : i # t => gr[i] = fr[i]
      /\ Like(fr, gr) /\ Advances(p, r, s)
  BY AdvancedFrames
<1>2. AdvancedTo(p, r, s)
  BY <1>1, AdvanceSays
<1>3. /\ s.file = r.file
      /\ Len(r.decls) \in Nat /\ Len(s.decls) \in Nat
      /\ \A n \in 1 .. Len(r.decls) : n \in 1 .. Len(s.decls) /\ s.decls[n] = r.decls[n]
  BY <1>2 DEF AdvancedTo
<1>4. \A n \in 1 .. Len(s.decls) :
        \/ n \in 1 .. Len(r.decls)
        \/ n = Len(r.decls) + 1 /\ new.file = r.file /\ new.texts = {}
  BY <1>2, <1>3 DEF AdvancedTo
<1> HIDE DEF gr, t, r, new
<1>5. SUFFICES ASSUME ~ e, NEW i \in 1 .. Len(gr), NEW n \in 1 .. Len(gr[i].decls)
               PROVE  ReadBy(gr[i], gr[i].decls[n])
  BY Zenon DEF Read, gr, Remembers
<1>6. \A k \in 1 .. t : \A m \in 1 .. Len(fr[k].decls) : ReadBy(fr[k], fr[k].decls[m])
  BY <1>5, Zenon DEF Advancing, Inv, Read, t, Remembers
<1>7. CASE i # t
  BY <1>1, <1>6, <1>7
<1>8. CASE i = t /\ n \in 1 .. Len(r.decls)
  <2>1. gr[i] = s /\ s.decls[n] = r.decls[n] /\ ReadBy(r, r.decls[n])
    BY <1>1, <1>3, <1>6, <1>8 DEF r
  <2> QED BY <1>3, <2>1 DEF ReadBy
<1>9. CASE i = t /\ n \notin 1 .. Len(r.decls)
  <2>1. gr[i] = s /\ s.decls[n] = new /\ new.file = s.file /\ new.texts = {}
    BY <1>1, <1>3, <1>4, <1>9 DEF new
  <2> QED BY <2>1 DEF ReadBy
<1> QED BY <1>7, <1>8, <1>9

LEMMA AdvanceKeeps ==
  ASSUME NEW p, NEW fr, NEW cx, NEW err, NEW s, Inv(p, fr, cx, FALSE, err),
         Advances(p, fr[Len(fr)], s), NEW e, Remembers(err, e)
  PROVE  Inv(p, Topped(fr, s), cx, FALSE, e)
<1>1. Advancing(p, fr, cx, err, s)
  BY Zenon DEF Advancing
<1>2. Shape(p, Topped(fr, s), cx, FALSE) /\ Stacked(Topped(fr, s), cx, FALSE)
  BY <1>1, AdvanceShape, Zenon
<1>3. Kept(p, Topped(fr, s), cx) /\ Single(Topped(fr, s), cx)
  BY <1>1, AdvanceKept, AdvanceSingle, Zenon
<1>4. Read(Topped(fr, s), FALSE, e)
  BY <1>1, AdvanceRead, Zenon
<1> QED BY <1>2, <1>3, <1>4, Zenon DEF Inv

-----------------------------------------------------------------------------
(* A file is entered.                                                        *)

\* The frames gr and contexts dx after file g was entered for an import.
Entering(p, fr, cx, item, g) ==
  LET r == fr[Len(fr)]
      c == cx[Len(cx)]
  IN  /\ r.next <= Len(p[r.file]) /\ IsImport(p[r.file][r.next]) /\ <<>> \notin item.selected
      /\ g \in DOMAIN p /\ p[g] # Unparsable
      /\ g \notin c.active /\ ~ (IsPlain(item) /\ g \in c.resolved)

EnteredCtx(c, g) == [c EXCEPT !.active = @ \cup {g}, !.chain = Append(@, g)]
EnteredCtxs(cx, item, g) ==
  LET c == EnteredCtx(cx[Len(cx)], g)
      ex == [cx EXCEPT ![Len(cx)] = c]
  IN  IF item.alias = NoAlias THEN ex ELSE Append(ex, ChildContext(c))
EnteredFrame(item, g, n) == [Frame(g, item) EXCEPT !.ctx = n]

\* What changes.
EnteredTo(fr, cx, item, g, gr, dx) ==
  LET t == Len(fr)
      K == Len(cx)
      L == Len(dx)
      new == gr[t + 1]
  IN  /\ t \in Nat /\ t \in 1 .. t /\ IsSequence(gr) /\ Len(gr) = t + 1
      /\ \A i \in 1 .. t : gr[i] = fr[i]
      /\ IsFrame(new) /\ new.file = g /\ new.import = item /\ new.ctx = L /\ new.next = 1
      /\ new.decls = <<>>
      /\ K \in Nat /\ K >= 1 /\ IsSequence(dx) /\ L = IF item.alias = NoAlias THEN K ELSE K + 1
      /\ \A k \in 1 .. L : IsContext(dx[k])
      /\ \A k \in 1 .. K : k # K => dx[k] = cx[k]
      /\ \A k \in 1 .. K : dx[k].resolved = cx[k].resolved /\ dx[k].dropped = cx[k].dropped
      /\ \A k \in K .. L : dx[k].active = cx[K].active \cup {g}
                           /\ dx[k].chain = Append(cx[K].chain, g)
      /\ L = K + 1 => dx[L].resolved = {} /\ dx[L].dropped = {}

LEMMA ContextCount ==
  ASSUME NEW p, NEW fr, NEW cx, NEW fin, Shape(p, fr, cx, fin)
  PROVE  /\ Len(fr) \in Nat /\ Len(fr) \in 1 .. Len(fr) /\ 1 \in 1 .. Len(fr)
         /\ Len(cx) \in Nat /\ Len(cx) >= 1 /\ fr[Len(fr)].ctx = Len(cx)
         /\ \A i \in 1 .. Len(fr) : fr[i].ctx \in 1 .. Len(cx) /\ fr[i].ctx \in Nat
<1>1. Len(fr) \in Nat /\ Len(fr) >= 1 /\ Len(cx) \in Nat
  BY SeqTyped DEF Shape
<1>2. Len(fr) \in 1 .. Len(fr) /\ 1 \in 1 .. Len(fr)
  BY <1>1
<1>3. fr[1].ctx = 1 /\ fr[Len(fr)].ctx = Len(cx)
  BY DEF Shape
<1>4. ASSUME NEW i \in 1 .. Len(fr) PROVE fr[i].ctx \in 1 .. Len(cx) /\ fr[i].ctx \in Nat
  <2>1. fr[i].ctx \in Nat
    BY DEF Shape, IsCall
  <2>2. 1 <= i /\ i <= Len(fr)
    BY <1>1
  <2>3. fr[1].ctx <= fr[i].ctx /\ fr[i].ctx <= fr[Len(fr)].ctx
    BY <1>2, <2>2 DEF Shape
  <2> QED BY <1>1, <1>3, <2>1, <2>3
<1>5. Len(cx) >= 1
  BY <1>1, <1>2, <1>3, <1>4
<1> QED BY <1>1, <1>2, <1>3, <1>4, <1>5

LEMMA EnteredCtxIs ==
  ASSUME NEW c, IsContext(c), NEW g
  PROVE  LET n == EnteredCtx(c, g)
             m == ChildContext(n)
         IN  /\ IsContext(n) /\ n.active = c.active \cup {g} /\ n.chain = Append(c.chain, g)
             /\ n.resolved = c.resolved /\ n.dropped = c.dropped
             /\ IsContext(m) /\ m.active = n.active /\ m.chain = n.chain
             /\ m.resolved = {} /\ m.dropped = {}
<1> DEFINE n == EnteredCtx(c, g)
           m == ChildContext(n)
<1>1. /\ IsContext(n) /\ n.active = c.active \cup {g} /\ n.chain = Append(c.chain, g)
      /\ n.resolved = c.resolved /\ n.dropped = c.dropped
  BY DEF IsContext, EnteredCtx
<1> HIDE DEF n
<1>2. /\ IsContext(m) /\ m.active = n.active /\ m.chain = n.chain
      /\ m.resolved = {} /\ m.dropped = {}
  BY <1>1 DEF IsContext, ChildContext
<1> QED BY <1>1, <1>2 DEF n, m

LEMMA EnterSays ==
  ASSUME NEW p, NEW fr, NEW cx, Shape(p, fr, cx, FALSE), NEW item, NEW g
  PROVE  LET dx == EnteredCtxs(cx, item, g)
         IN  EnteredTo(fr, cx, item, g, Append(fr, EnteredFrame(item, g, Len(dx))), dx)
<1> DEFINE K == Len(cx)
           t == Len(fr)
           c == EnteredCtx(cx[K], g)
           ex == [cx EXCEPT ![K] = c]
           dx == EnteredCtxs(cx, item, g)
           L == Len(dx)
           gr == Append(fr, EnteredFrame(item, g, L))
<1>1. t \in Nat /\ t \in 1 .. t /\ K \in Nat /\ K >= 1
  BY ContextCount
<1>2. IsSequence(fr) /\ IsSequence(cx) /\ \A k \in 1 .. K : IsContext(cx[k])
  BY DEF Shape
<1>3. K \in 1 .. K
  BY <1>1
<1>4. /\ IsContext(c) /\ c.active = cx[K].active \cup {g} /\ c.chain = Append(cx[K].chain, g)
      /\ c.resolved = cx[K].resolved /\ c.dropped = cx[K].dropped
      /\ IsContext(ChildContext(c)) /\ ChildContext(c).active = c.active
      /\ ChildContext(c).chain = c.chain /\ ChildContext(c).resolved = {}
      /\ ChildContext(c).dropped = {}
  BY <1>2, <1>3, EnteredCtxIs
<1> HIDE DEF c
<1>5. /\ IsSequence(ex) /\ Len(ex) = K /\ ex[K] = c
      /\ \A k \in 1 .. K : k # K => ex[k] = cx[k]
  BY <1>2, <1>3, ExceptIs
<1>6. dx = IF item.alias = NoAlias THEN ex ELSE Append(ex, ChildContext(c))
  BY DEF EnteredCtxs, c
<1> HIDE DEF ex, dx
<1>7. /\ IsSequence(dx) /\ L = IF item.alias = NoAlias THEN K ELSE K + 1
      /\ \A k \in 1 .. K : dx[k] = ex[k]
      /\ L = K + 1 => dx[L] = ChildContext(c)
  <2>1. CASE item.alias = NoAlias
    BY <1>1, <1>5, <1>6, <2>1
  <2>2. CASE item.alias # NoAlias
    <3>1. dx = Append(ex, ChildContext(c))
      BY <1>6, <2>2
    <3>2. /\ IsSequence(dx) /\ Len(dx) = K + 1 /\ dx[K + 1] = ChildContext(c)
          /\ \A k \in 1 .. K : dx[k] = ex[k]
      BY <1>5, <3>1, AppendIs
    <3> QED BY <2>2, <3>2
  <2> QED BY <2>1, <2>2
<1> DEFINE new == EnteredFrame(item, g, L)
<1>8. /\ IsFrame(new) /\ new.file = g /\ new.import = item /\ new.ctx = L /\ new.next = 1
      /\ new.decls = <<>>
  BY DEF EnteredFrame, Frame, IsFrame
<1> HIDE DEF new
<1>9. /\ IsSequence(gr) /\ Len(gr) = t + 1 /\ gr[t + 1] = new
      /\ \A i \in 1 .. t : gr[i] = fr[i]
  BY <1>2, AppendIs DEF new
<1> HIDE DEF gr, L
<1>10. L \in Nat /\ (L = K \/ L = K + 1)
  BY <1>1, <1>7
<1>11. ASSUME NEW k \in 1 .. L PROVE IsContext(dx[k])
  <2>1. k \in 1 .. K \/ k = K + 1
    BY <1>1, <1>10
  <2>2. CASE k \in 1 .. K
    BY <1>2, <1>4, <1>5, <1>7, <2>2
  <2>3. CASE k = K + 1
    BY <1>1, <1>4, <1>7, <1>10, <2>3
  <2> QED BY <2>1, <2>2, <2>3
<1>12. \A k \in 1 .. K : k # K => dx[k] = cx[k]
  BY <1>5, <1>7
<1>13. \A k \in 1 .. K : dx[k].resolved = cx[k].resolved /\ dx[k].dropped = cx[k].dropped
  BY <1>3, <1>4, <1>5, <1>7, <1>12
<1>14. ASSUME NEW k \in K .. L
       PROVE  dx[k].active = cx[K].active \cup {g} /\ dx[k].chain = Append(cx[K].chain, g)
  <2>1. k = K \/ (k = L /\ L = K + 1)
    BY <1>1, <1>10
  <2> QED BY <1>3, <1>4, <1>5, <1>7, <2>1
<1>15. L = K + 1 => dx[L].resolved = {} /\ dx[L].dropped = {}
  BY <1>4, <1>7
<1>16. EnteredTo(fr, cx, item, g, gr, dx)
  BY <1>1, <1>7, <1>8, <1>9, <1>11, <1>12, <1>13, <1>14, <1>15 DEF EnteredTo, L
<1> QED BY <1>16 DEF gr, dx, L

LEMMA EnterShape ==
  ASSUME NEW p, NEW fr, NEW cx, NEW item, NEW g, NEW gr, NEW dx, Shape(p, fr, cx, FALSE),
         Entering(p, fr, cx, item, g), EnteredTo(fr, cx, item, g, gr, dx)
  PROVE  Shape(p, gr, dx, FALSE)
<1> DEFINE t == Len(fr)
           K == Len(cx)
           L == Len(dx)
           new == gr[t + 1]
<1>1. /\ t \in Nat /\ t \in 1 .. t /\ IsSequence(gr) /\ Len(gr) = t + 1
      /\ \A i \in 1 .. t : gr[i] = fr[i]
      /\ IsFrame(new) /\ new.file = g /\ new.import = item /\ new.ctx = L /\ new.next = 1
      /\ new.decls = <<>>
      /\ K \in Nat /\ IsSequence(dx) /\ L = IF item.alias = NoAlias THEN K ELSE K + 1
      /\ \A k \in 1 .. L : IsContext(dx[k])
  BY DEF EnteredTo
<1>2. L \in Nat /\ K <= L
  BY <1>1
<1> HIDE DEF t, K, L, new
<1>3. /\ g \in DOMAIN p /\ p[g] # Unparsable /\ <<>> \notin item.selected
      /\ fr[t].next <= Len(p[fr[t].file]) /\ IsImport(p[fr[t].file][fr[t].next]) /\ IsProject(p)
  BY DEF Entering, Shape, t
<1>4. IsCall(p, new)
  <2>1. Len(p[g]) \in Nat
    BY <1>3, ItemAt
  <2>2. 1 \in 1 .. Len(p[g]) + 1
    BY <2>1
  <2>3. IsSequence(<<>>) /\ Len(<<>>) = 0
    BY DEF IsSequence
  <2>4. \A n \in 1 .. Len(new.decls) : Mirrors(p, new.decls[n])
    BY <1>1, <2>3
  <2> QED BY <1>1, <1>2, <1>3, <2>2, <2>3, <2>4 DEF IsCall
<1>5. ASSUME NEW i \in 1 .. Len(gr) PROVE IsCall(p, gr[i])
  <2>1. i \in 1 .. t \/ i = t + 1
    BY <1>1
  <2> QED BY <1>1, <1>4, <2>1 DEF Shape, t, new
<1>6. fr[t].ctx = K /\ \A i \in 1 .. t : fr[i].ctx \in Nat /\ fr[i].ctx <= K
  <2>1. fr[t].ctx = K /\ \A i \in 1 .. t : fr[i].ctx \in 1 .. K /\ fr[i].ctx \in Nat
    BY ContextCount DEF t, K
  <2> QED BY <1>1, <2>1
<1>7. ASSUME NEW i \in 1 .. Len(gr) - 1 PROVE Calls(p, gr[i], gr[i + 1])
  <2>1. CASE i = t
    <3>1. gr[i] = fr[t] /\ gr[i + 1] = new
      BY <1>1, <2>1 DEF new
    <3> QED BY <1>1, <1>3, <1>6, <3>1 DEF Calls
  <2>2. CASE i # t
    <3>1. i \in 1 .. t - 1 /\ i \in 1 .. t /\ i + 1 \in 1 .. t
      BY <1>1, <2>2
    <3>2. Calls(p, fr[i], fr[i + 1])
      BY <3>1 DEF Shape, t
    <3> QED BY <1>1, <3>1, <3>2
  <2> QED BY <2>1, <2>2
<1>8. ASSUME NEW i \in 1 .. Len(gr), NEW j \in 1 .. Len(gr), i <= j PROVE gr[i].ctx <= gr[j].ctx
  <2>1. CASE j \in 1 .. t
    <3>1. i \in 1 .. t
      BY <1>1, <1>8, <2>1
    <3>2. fr[i].ctx <= fr[j].ctx
      BY <1>8, <2>1, <3>1 DEF Shape, t
    <3> QED BY <1>1, <2>1, <3>1, <3>2
  <2>2. CASE j = t + 1 /\ i = t + 1
    BY <1>1, <1>2, <2>2 DEF new
  <2>3. CASE j = t + 1 /\ i # t + 1
    <3>1. i \in 1 .. t
      BY <1>1, <2>3
    <3>2. gr[i] = fr[i] /\ gr[j].ctx = L
      BY <1>1, <2>3, <3>1 DEF new
    <3>3. fr[i].ctx <= L
      BY <1>1, <1>2, <1>6, <3>1
    <3> QED BY <3>2, <3>3
  <2> QED BY <1>1, <2>1, <2>2, <2>3
<1>9. gr[1].ctx = 1 /\ gr[Len(gr)].ctx = Len(dx) /\ Len(gr) >= 1
  <2>1. 1 \in 1 .. t /\ fr[1].ctx = 1
    BY <1>1 DEF Shape
  <2> QED BY <1>1, <2>1 DEF new, L
<1> QED BY <1>1, <1>3, <1>5, <1>7, <1>8, <1>9 DEF Shape, L

LEMMA EnterStacked ==
  ASSUME NEW p, NEW fr, NEW cx, NEW item, NEW g, NEW gr, NEW dx, Shape(p, fr, cx, FALSE),
         Stacked(fr, cx, FALSE),
         Entering(p, fr, cx, item, g), EnteredTo(fr, cx, item, g, gr, dx)
  PROVE  Stacked(gr, dx, FALSE)
<1> DEFINE t == Len(fr)
           K == Len(cx)
           L == Len(dx)
           new == gr[t + 1]
<1>1. /\ t \in Nat /\ t \in 1 .. t /\ Len(gr) = t + 1
      /\ \A i \in 1 .. t : gr[i] = fr[i]
      /\ new.file = g /\ new.ctx = L
      /\ K \in Nat /\ L = IF item.alias = NoAlias THEN K ELSE K + 1
      /\ \A k \in 1 .. K : k # K => dx[k] = cx[k]
      /\ \A k \in K .. L : dx[k].active = cx[K].active \cup {g}
                           /\ dx[k].chain = Append(cx[K].chain, g)
  BY DEF EnteredTo
<1>2. fr[t].ctx = K /\ \A i \in 1 .. t : fr[i].ctx \in 1 .. K /\ fr[i].ctx \in Nat
  BY ContextCount
<1>3. g \notin cx[K].active
  BY DEF Entering
<1> HIDE DEF t, K, L, new
<1>4. cx[K].active = FilesUpto(fr, t) /\ cx[K].chain = ChainUpto(fr, t)
  <2>1. LastOf(fr, t) /\ Known(fr, t) = t
    BY DEF LastOf, Known, t
  <2> QED BY <1>1, <1>2, <2>1 DEF Stacked, t
<1>5. \A i \in 1 .. t : gr[i].file = fr[i].file /\ fr[i].file # g
  BY <1>1, <1>3, <1>4 DEF FilesUpto
<1>6. ASSUME NEW i \in 1 .. Len(gr), NEW k \in 1 .. Len(gr), i # k PROVE gr[i].file # gr[k].file
  <2>1. (i \in 1 .. t \/ i = t + 1) /\ (k \in 1 .. t \/ k = t + 1)
    BY <1>1
  <2>2. \A m, n \in 1 .. t : m # n => fr[m].file # fr[n].file
    BY DEF Stacked, t
  <2> QED BY <1>1, <1>5, <1>6, <2>1, <2>2 DEF new
<1>7. FilesUpto(gr, t + 1) = FilesUpto(fr, t) \cup {g}
  <2>1. \A i \in 1 .. t + 1 : i \in 1 .. t \/ i = t + 1
    BY <1>1
  <2>2. \A i \in 1 .. t : i \in 1 .. t + 1
    BY <1>1
  <2>3. t + 1 \in 1 .. t + 1 /\ gr[t + 1].file = g
    BY <1>1 DEF new
  <2> QED BY <1>5, <2>1, <2>2, <2>3 DEF FilesUpto
<1>8. ChainUpto(gr, t + 1) = Append(ChainUpto(fr, t), g)
  <2> DEFINE c == ChainUpto(fr, t)
             d == ChainUpto(gr, t + 1)
  <2>1. c = [i \in 1 .. t |-> c[i]] /\ \A i \in 1 .. t : c[i] = fr[i].file
    BY DEF ChainUpto
  <2>2. d = [i \in 1 .. t + 1 |-> d[i]] /\ \A i \in 1 .. t + 1 : d[i] = gr[i].file
    BY DEF ChainUpto
  <2> HIDE DEF c, d
  <2>3. IsSequence(c) /\ Len(c) = t /\ IsSequence(d) /\ Len(d) = t + 1
    BY <1>1, <2>1, <2>2, SeqMade
  <2>4. /\ IsSequence(Append(c, g)) /\ Len(Append(c, g)) = t + 1
        /\ \A i \in 1 .. t : Append(c, g)[i] = c[i]
        /\ Append(c, g)[t + 1] = g
    BY <2>3, AppendIs
  <2>5. ASSUME NEW i \in 1 .. t + 1 PROVE Append(c, g)[i] = d[i]
    <3>1. i \in 1 .. t \/ i = t + 1
      BY <1>1
    <3> QED BY <1>1, <1>5, <2>1, <2>2, <2>4, <3>1 DEF new
  <2>6. Append(c, g) = [i \in 1 .. t + 1 |-> Append(c, g)[i]]
    BY <2>4 DEF IsSequence
  <2>7. Append(c, g) = d
    BY <2>2, <2>5, <2>6
  <2> QED BY <2>7 DEF c, d
<1>9. ASSUME NEW i \in 1 .. Len(gr), LastOf(gr, i)
      PROVE  /\ dx[gr[i].ctx].active = FilesUpto(gr, Known(gr, i))
             /\ ~ FALSE => dx[gr[i].ctx].chain = ChainUpto(gr, Known(gr, i))
  <2>1. CASE i = t + 1
    <3>1. Known(gr, i) = t + 1 /\ gr[i].ctx = L /\ L \in K .. L
      BY <1>1, <2>1 DEF Known, new
    <3>2. dx[L].active = cx[K].active \cup {g} /\ dx[L].chain = Append(cx[K].chain, g)
      BY <1>1, <3>1
    <3> QED BY <1>4, <1>7, <1>8, <3>1, <3>2, Zenon
  <2>2. CASE i = t
    <3>1. Known(gr, i) = t + 1 /\ gr[i].ctx = K /\ K \in K .. L
      BY <1>1, <1>2, <2>2 DEF Known
    <3>2. dx[K].active = cx[K].active \cup {g} /\ dx[K].chain = Append(cx[K].chain, g)
      BY <1>1, <3>1
    <3> QED BY <1>4, <1>7, <1>8, <3>1, <3>2, Zenon
  <2>3. CASE i # t /\ i # t + 1
    <3>1. i \in 1 .. t /\ i + 1 \in 1 .. t /\ Known(gr, i) = i + 1 /\ Known(fr, i) = i + 1
          /\ gr[i] = fr[i] /\ gr[i + 1] = fr[i + 1]
      BY <1>1, <2>3 DEF Known, t
    <3>2. fr[i + 1].ctx # fr[i].ctx /\ LastOf(fr, i)
      BY <1>1, <1>9, <2>3, <3>1 DEF LastOf
    <3>3. fr[i].ctx <= fr[i + 1].ctx
      BY <3>1 DEF Shape, t
    <3>4. fr[i].ctx # K /\ fr[i].ctx \in 1 .. K
      BY <1>1, <1>2, <3>1, <3>2, <3>3
    <3>5. dx[gr[i].ctx] = cx[fr[i].ctx]
      BY <1>1, <3>1, <3>4
    <3>6. /\ cx[fr[i].ctx].active = FilesUpto(fr, i + 1)
          /\ cx[fr[i].ctx].chain = ChainUpto(fr, i + 1)
      BY <3>1, <3>2 DEF Stacked, t
    <3>7. FilesUpto(gr, i + 1) = FilesUpto(fr, i + 1) /\ ChainUpto(gr, i + 1) = ChainUpto(fr, i + 1)
      <4>1. \A j \in 1 .. i + 1 : gr[j].file = fr[j].file
        BY <1>1, <1>5, <3>1
      <4> QED BY <4>1 DEF FilesUpto, ChainUpto
    <3> QED BY <3>1, <3>5, <3>6, <3>7
  <2> QED BY <2>1, <2>2, <2>3
<1> QED BY <1>6, <1>9 DEF Stacked

LEMMA EnterSingle ==
  ASSUME NEW p, NEW fr, NEW cx, NEW item, NEW g, NEW gr, NEW dx, Shape(p, fr, cx, FALSE),
         Single(fr, cx),
         Entering(p, fr, cx, item, g), EnteredTo(fr, cx, item, g, gr, dx)
  PROVE  Single(gr, dx)
<1> DEFINE t == Len(fr)
           K == Len(cx)
           L == Len(dx)
           new == gr[t + 1]
<1>1. /\ t \in Nat /\ t \in 1 .. t /\ Len(gr) = t + 1
      /\ \A i \in 1 .. t : gr[i] = fr[i]
      /\ new.file = g /\ new.ctx = L /\ new.import = item /\ new.decls = <<>>
      /\ K \in Nat /\ K >= 1 /\ L = IF item.alias = NoAlias THEN K ELSE K + 1
      /\ \A k \in 1 .. K : dx[k].resolved = cx[k].resolved
      /\ L = K + 1 => dx[L].resolved = {}
  BY DEF EnteredTo
<1>2. \A i \in 1 .. t : fr[i].ctx \in 1 .. K
  BY ContextCount
<1>3. ~ (IsPlain(item) /\ g \in cx[K].resolved)
  BY DEF Entering
<1>4. NoneResolved(fr, cx) /\ AllAccounted(fr, cx) /\ AllApart(fr)
  BY SingleParts
<1> HIDE DEF t, K, L, new
<1>5. \A i \in 1 .. Len(gr) : i \in 1 .. t \/ (i = t + 1 /\ gr[i] = new)
  BY <1>1 DEF new
<1>6. Len(new.decls) = 0
  BY <1>1
<1>7. ASSUME NEW i \in 1 .. Len(gr), gr[i].import.selected = {}
      PROVE  gr[i].file \notin dx[gr[i].ctx].resolved
  <2>1. CASE i \in 1 .. t
    BY <1>1, <1>2, <1>4, <1>7, <2>1 DEF NoneResolved, t
  <2>2. CASE gr[i] = new
    <3>1. CASE item.alias = NoAlias
      <4>1. L = K /\ K \in 1 .. K /\ IsPlain(item)
        BY <1>1, <1>7, <2>2, <3>1 DEF IsPlain
      <4> QED BY <1>1, <1>3, <2>2, <4>1
    <3>2. CASE item.alias # NoAlias
      BY <1>1, <2>2, <3>2
    <3> QED BY <3>1, <3>2
  <2> QED BY <1>5, <2>1, <2>2
<1>8. ASSUME NEW i \in 1 .. Len(gr), NEW n \in 1 .. Len(gr[i].decls)
      PROVE  i \in 1 .. t /\ n \in 1 .. Len(fr[i].decls) /\ gr[i] = fr[i]
  BY <1>1, <1>5, <1>6
<1>9. AllAccounted(gr, dx)
  <2> SUFFICES ASSUME NEW i \in 1 .. Len(gr), NEW n \in 1 .. Len(gr[i].decls)
               PROVE  Accounted(gr[i], dx[gr[i].ctx].resolved, gr[i].decls[n])
    BY DEF AllAccounted
  <2>1. i \in 1 .. t /\ n \in 1 .. Len(fr[i].decls) /\ gr[i] = fr[i]
    BY <1>8
  <2>2. Accounted(fr[i], cx[fr[i].ctx].resolved, fr[i].decls[n])
    BY <1>4, <2>1 DEF AllAccounted, t
  <2>3. dx[gr[i].ctx].resolved = cx[fr[i].ctx].resolved
    BY <1>1, <1>2, <2>1
  <2> QED BY <2>1, <2>2, <2>3
<1>10. AllApart(gr)
  <2> SUFFICES ASSUME NEW i \in 1 .. Len(gr), NEW j \in 1 .. Len(gr),
                      NEW m \in 1 .. Len(gr[i].decls), NEW n \in 1 .. Len(gr[j].decls)
               PROVE  Apart(gr, i, m, j, n)
    BY DEF AllApart
  <2>1. /\ i \in 1 .. t /\ m \in 1 .. Len(fr[i].decls) /\ gr[i] = fr[i]
        /\ j \in 1 .. t /\ n \in 1 .. Len(fr[j].decls) /\ gr[j] = fr[j]
    BY <1>8
  <2>2. Apart(fr, i, m, j, n)
    BY <1>4, <2>1 DEF AllApart, t
  <2> QED BY <2>1, <2>2 DEF Apart
<1>11. NoneResolved(gr, dx)
  BY <1>7 DEF NoneResolved
<1> QED BY <1>9, <1>10, <1>11, SingleParts

LEMMA EnterKept ==
  ASSUME NEW p, NEW fr, NEW cx, NEW item, NEW g, NEW gr, NEW dx, Kept(p, fr, cx),
         EnteredTo(fr, cx, item, g, gr, dx)
  PROVE  Kept(p, gr, dx)
<1> DEFINE t == Len(fr)
           K == Len(cx)
           L == Len(dx)
           new == gr[t + 1]
<1>1. /\ t \in Nat /\ t \in 1 .. t /\ Len(gr) = t + 1
      /\ \A i \in 1 .. t : gr[i] = fr[i]
      /\ new.next = 1
      /\ K \in Nat /\ K >= 1 /\ L = IF item.alias = NoAlias THEN K ELSE K + 1
      /\ \A k \in 1 .. K : dx[k].resolved = cx[k].resolved /\ dx[k].dropped = cx[k].dropped
      /\ L = K + 1 => dx[L].resolved = {}
  BY DEF EnteredTo
<1> HIDE DEF t, K, L, new
<1>2. ASSUME NEW i \in 1 .. Len(gr), NEW n \in 1 .. gr[i].next - 1
      PROVE  IsImport(p[gr[i].file][n]) \/ CollectedBy(gr[i], gr[i].file, n)
  <2>1. i \in 1 .. t /\ gr[i] = fr[i]
    BY <1>1 DEF new
  <2> QED BY <2>1 DEF Kept, t
<1>3. ASSUME NEW k \in 1 .. Len(dx), NEW f \in dx[k].resolved, NEW n \in DOMAIN p[f]
      PROVE  \/ IsImport(p[f][n])
             \/ \E i \in 1 .. Len(gr) : gr[i].ctx = k /\ CollectedBy(gr[i], f, n)
             \/ LeftOut(p, dx[k], f, n)
  <2>1. k \in 1 .. K
    BY <1>1 DEF L
  <2>2. f \in cx[k].resolved /\ dx[k].dropped = cx[k].dropped
    BY <1>1, <2>1
  <2>3. \/ IsImport(p[f][n])
        \/ \E i \in 1 .. t : fr[i].ctx = k /\ CollectedBy(fr[i], f, n)
        \/ LeftOut(p, cx[k], f, n)
    BY <2>1, <2>2 DEF Kept, t, K
  <2>4. LeftOut(p, cx[k], f, n) => LeftOut(p, dx[k], f, n)
    BY <2>2 DEF LeftOut
  <2>5. \A i \in 1 .. t : i \in 1 .. Len(gr) /\ gr[i] = fr[i]
    BY <1>1
  <2> QED BY <2>3, <2>4, <2>5
<1> QED BY <1>2, <1>3 DEF Kept

LEMMA EnterKeeps ==
  ASSUME NEW p, NEW fr, NEW cx, NEW err, NEW item, NEW g, Inv(p, fr, cx, FALSE, err),
         Entering(p, fr, cx, item, g)
  PROVE  LET dx == EnteredCtxs(cx, item, g)
         IN  Inv(p, Append(fr, EnteredFrame(item, g, Len(dx))), dx, FALSE, err)
<1> DEFINE dx == EnteredCtxs(cx, item, g)
           gr == Append(fr, EnteredFrame(item, g, Len(dx)))
<1>1. Shape(p, fr, cx, FALSE) /\ Stacked(fr, cx, FALSE) /\ Single(fr, cx) /\ Kept(p, fr, cx)
      /\ Read(fr, FALSE, err)
  BY DEF Inv
<1>2. EnteredTo(fr, cx, item, g, gr, dx)
  BY <1>1, EnterSays
<1> HIDE DEF gr, dx
<1>3. Shape(p, gr, dx, FALSE) /\ Stacked(gr, dx, FALSE) /\ Single(gr, dx) /\ Kept(p, gr, dx)
  BY <1>1, <1>2, EnterShape, EnterStacked, EnterSingle, EnterKept
<1>4. Read(gr, FALSE, err)
  <2>1. ASSUME NEW i \in 1 .. Len(gr), NEW n \in 1 .. Len(gr[i].decls)
        PROVE  i \in 1 .. Len(fr) /\ gr[i] = fr[i]
    <3>1. /\ Len(fr) \in Nat /\ Len(gr) = Len(fr) + 1
          /\ \A k \in 1 .. Len(fr) : gr[k] = fr[k] /\ gr[Len(fr) + 1].decls = <<>>
          /\ Len(fr) \in 1 .. Len(fr)
      BY <1>2 DEF EnteredTo
    <3>2. i # Len(fr) + 1
      BY <3>1
    <3> QED BY <3>1, <3>2
  <2> QED BY <1>1, <2>1 DEF Read
<1> QED BY <1>3, <1>4 DEF Inv, gr, dx
-----------------------------------------------------------------------------
(* A finished program is handed back and taken over.                         *)

\* The program of the frame r, as its call hands it back.
ReturnedOf(r) == EmbedTexts(BindAliases(r.decls, r.aliases), r.file)

BoundDecl(d, aliases) == [d EXCEPT !.uses = [k \in DOMAIN @ |-> BindRef(@[k], aliases)]]
TextsFound(d, file) ==
  {[path |-> x.path, text |-> ResolveImportPath(file, x.path)] : x \in EmbedsFound(file, d)}
ReadDecl(d, file) ==
  [d EXCEPT !.embeds = @ \ EmbedsFound(file, d), !.texts = @ \cup TextsFound(d, file)]

\* The declaration e is d with other references and with its embedded files read.
HandsBack(p, file, d, e) ==
  /\ Mirrors(p, e) /\ SameItem(d, e) /\ e.filtered = d.filtered
  /\ e.embeds = d.embeds \ EmbedsFound(file, d)
  /\ e.texts = d.texts \cup TextsFound(d, file)

LEMMA DeclHandedBack ==
  ASSUME NEW p, NEW d, Mirrors(p, d), NEW aliases, NEW file
  PROVE  HandsBack(p, file, d, ReadDecl(BoundDecl(d, aliases), file))
<1> DEFINE u == [k \in DOMAIN d.uses |-> BindRef(d.uses[k], aliases)]
           b == BoundDecl(d, aliases)
           e == ReadDecl(b, file)
<1>1. IsDecl(d) /\ IsSequence(d.uses)
  BY DEF Mirrors
<1>2. IsSequence(u)
  <2>1. DOMAIN d.uses = 1 .. Len(d.uses) /\ Len(d.uses) \in Nat
    BY <1>1, SeqTyped
  <2>2. u = [k \in 1 .. Len(d.uses) |-> u[k]]
    BY <2>1
  <2> HIDE DEF u
  <2> QED BY <2>1, <2>2, SeqMade
<1>3. b = [d EXCEPT !.uses = u]
  BY DEF BoundDecl
<1> HIDE DEF b, u
<1>4. /\ IsDecl(b) /\ b.uses = u /\ b.file = d.file /\ b.at = d.at /\ b.name = d.name
      /\ b.exported = d.exported /\ b.filtered = d.filtered /\ b.embeds = d.embeds
      /\ b.texts = d.texts
  BY <1>1, <1>3 DEF IsDecl
<1>5. PICK E : E = EmbedsFound(file, b)
  OBVIOUS
<1>6. PICK T : T = TextsFound(b, file)
  OBVIOUS
<1>7. E = EmbedsFound(file, d) /\ T = TextsFound(d, file)
  BY <1>4, <1>5, <1>6 DEF EmbedsFound, TextsFound
<1>8. e = [b EXCEPT !.embeds = @ \ E, !.texts = @ \cup T]
  BY <1>5, <1>6 DEF ReadDecl
<1> HIDE DEF e
<1>9. /\ IsDecl(e) /\ e.uses = u /\ e.file = d.file /\ e.at = d.at /\ e.name = d.name
      /\ e.exported = d.exported /\ e.filtered = d.filtered /\ e.embeds = d.embeds \ E
      /\ e.texts = d.texts \cup T
  BY <1>4, <1>8 DEF IsDecl
<1>10. Exported(e) <=> Exported(d)
  BY <1>9 DEF Exported
<1>11. Mirrors(p, e)
  BY <1>2, <1>9, <1>10 DEF Mirrors
<1>12. HandsBack(p, file, d, e)
  BY <1>7, <1>9, <1>11 DEF HandsBack, SameItem
<1> QED BY <1>12 DEF e, b

ReturnsTo(p, r, prog) ==
  /\ IsSequence(prog) /\ Len(prog) = Len(r.decls) /\ Len(prog) \in Nat
  /\ DOMAIN prog = 1 .. Len(prog) /\ IsProg(prog)
  /\ \A n \in 1 .. Len(prog) : HandsBack(p, r.file, r.decls[n], prog[n])

LEMMA ReturnSays ==
  ASSUME NEW p, NEW r, IsCall(p, r)
  PROVE  ReturnsTo(p, r, ReturnedOf(r))
<1> DEFINE N == Len(r.decls)
           bound == BindAliases(r.decls, r.aliases)
           prog == ReturnedOf(r)
<1>1. IsSequence(r.decls) /\ \A n \in 1 .. N : Mirrors(p, r.decls[n])
  BY DEF IsCall
<1>2. N \in Nat /\ DOMAIN r.decls = 1 .. N
  BY <1>1, SeqTyped
<1>3. DOMAIN bound = 1 .. N /\ \A n \in 1 .. N : bound[n] = BoundDecl(r.decls[n], r.aliases)
  BY <1>2 DEF BindAliases, BoundDecl
<1>4. prog = EmbedTexts(bound, r.file)
  BY DEF ReturnedOf
<1> HIDE DEF bound, prog
<1>5. prog = [n \in 1 .. N |-> ReadDecl(bound[n], r.file)]
  BY <1>3, <1>4 DEF EmbedTexts, ReadDecl, TextsFound
<1>6. \A n \in 1 .. N : prog[n] = ReadDecl(BoundDecl(r.decls[n], r.aliases), r.file)
  BY <1>3, <1>5
<1>7. prog = [n \in 1 .. N |-> prog[n]]
  BY <1>5
<1>8. IsSequence(prog) /\ Len(prog) = N
  BY <1>2, <1>7, SeqMade
<1>9. ASSUME NEW n \in 1 .. N PROVE HandsBack(p, r.file, r.decls[n], prog[n])
  BY <1>1, <1>6, DeclHandedBack
<1>10. \A n \in 1 .. N : IsSequence(prog[n].uses)
  BY <1>9 DEF HandsBack, Mirrors
<1> HIDE DEF N
<1>11. IsProg(prog) /\ DOMAIN prog = 1 .. N
  BY <1>7, <1>8, <1>10 DEF IsProg
<1>12. ReturnsTo(p, r, prog)
  BY <1>2, <1>8, <1>9, <1>11 DEF ReturnsTo, N
<1> QED BY <1>12 DEF prog

\* What the importer takes over of the program of frame r.
MarkedDecl(d, import) == [d EXCEPT !.filtered = @ \/ ~ IsPlain(import)]
TakenOf(r) ==
  LET prog == ReturnedOf(r)
      included == Included(prog, r.import)
      named == IF r.import.alias = NoAlias THEN prog
               ELSE Qualify(prog, included, r.import.alias)
      marked == [i \in DOMAIN named |-> MarkedDecl(named[i], r.import)]
  IN  Select(marked, included)

NewName(names, alias, name) == IF name \in names THEN <<alias>> \o name ELSE name
NewRef(names, alias, x) ==
  IF x.via = NoAlias THEN [x EXCEPT !.name = NewName(names, alias, @)] ELSE x
QualifiedDecl(d, names, alias) ==
  [d EXCEPT !.name = NewName(names, alias, @),
            !.uses = [k \in DOMAIN @ |-> NewRef(names, alias, @[k])]]

\* The declaration e is d under another name, and then d as the import marks it.
Renames(p, d, e) ==
  /\ Mirrors(p, e) /\ SameItem(d, e) /\ e.filtered = d.filtered
  /\ e.embeds = d.embeds /\ e.texts = d.texts
TakesAs(p, import, d, e) ==
  /\ Mirrors(p, e) /\ SameItem(d, e)
  /\ d.filtered => e.filtered
  /\ ~ IsPlain(import) => e.filtered
  /\ e.embeds = d.embeds /\ e.texts = d.texts

LEMMA NameQualified ==
  ASSUME NEW name, IsSequence(name), NEW names, <<>> \notin names, NEW alias
  PROVE  LET new == NewName(names, alias, name)
         IN  IsSequence(new) /\ (new = <<>> <=> name = <<>>)
<1>1. CASE name \notin names
  BY <1>1 DEF NewName
<1>2. CASE name \in names
  <2> DEFINE one == <<alias>>
             new == one \o name
  <2>1. IsSequence(one) /\ Len(one) = 1
    BY DEF IsSequence
  <2> HIDE DEF one
  <2>2. IsSequence(new) /\ Len(new) = 1 + Len(name)
    <3>1. IsSequence(one \o name) /\ Len(one \o name) = Len(one) + Len(name)
      BY <2>1, ConcatIs, Zenon
    <3> QED BY <2>1, <3>1
  <2>3. Len(name) \in Nat
    BY DEF IsSequence
  <2> HIDE DEF new
  <2>4. new # <<>>
    <3>1. Len(new) # 0
      BY <2>2, <2>3
    <3> QED BY <3>1
  <2>5. NewName(names, alias, name) = new
    BY <1>2 DEF NewName, new, one
  <2> QED BY <1>2, <2>2, <2>4, <2>5
<1> QED BY <1>1, <1>2

LEMMA DeclQualified ==
  ASSUME NEW p, NEW d, Mirrors(p, d), NEW names, <<>> \notin names, NEW alias
  PROVE  Renames(p, d, QualifiedDecl(d, names, alias))
<1> DEFINE u == [k \in DOMAIN d.uses |-> NewRef(names, alias, d.uses[k])]
           m == NewName(names, alias, d.name)
           e == QualifiedDecl(d, names, alias)
<1>1. IsDecl(d) /\ IsSequence(d.uses) /\ IsSequence(d.name)
  BY DEF Mirrors
<1>2. IsSequence(u)
  <2>1. DOMAIN d.uses = 1 .. Len(d.uses) /\ Len(d.uses) \in Nat
    BY <1>1, SeqTyped
  <2>2. u = [k \in 1 .. Len(d.uses) |-> u[k]]
    BY <2>1
  <2> HIDE DEF u
  <2> QED BY <2>1, <2>2, SeqMade
<1>3. IsSequence(m) /\ (m = <<>> <=> d.name = <<>>)
  BY <1>1, NameQualified
<1>4. e = [d EXCEPT !.name = m, !.uses = u]
  BY DEF QualifiedDecl
<1> HIDE DEF e, m, u
<1>5. /\ IsDecl(e) /\ e.uses = u /\ e.file = d.file /\ e.at = d.at /\ e.name = m
      /\ e.exported = d.exported /\ e.filtered = d.filtered /\ e.embeds = d.embeds
      /\ e.texts = d.texts
  BY <1>1, <1>4 DEF IsDecl
<1>6. Exported(e) <=> Exported(d)
  BY <1>3, <1>5 DEF Exported
<1>7. Mirrors(p, e)
  BY <1>2, <1>3, <1>5, <1>6 DEF Mirrors
<1>8. Renames(p, d, e)
  BY <1>5, <1>7 DEF Renames, SameItem
<1> QED BY <1>8 DEF e

LEMMA DeclMarked ==
  ASSUME NEW p, NEW d, Mirrors(p, d), NEW import
  PROVE  TakesAs(p, import, d, MarkedDecl(d, import))
<1> DEFINE e == MarkedDecl(d, import)
<1>1. PICK b : b = (d.filtered \/ ~ IsPlain(import))
  OBVIOUS
<1>2. IsDecl(d) /\ d.filtered \in BOOLEAN
  BY DEF Mirrors
<1>3. b \in BOOLEAN /\ (d.filtered => b) /\ (~ IsPlain(import) => b)
  BY <1>1
<1>4. e = [d EXCEPT !.filtered = b]
  BY <1>1, Zenon DEF MarkedDecl
<1> HIDE DEF e
<1>5. /\ IsDecl(e) /\ e.uses = d.uses /\ e.file = d.file /\ e.at = d.at /\ e.name = d.name
      /\ e.exported = d.exported /\ e.filtered = b /\ e.embeds = d.embeds
      /\ e.texts = d.texts
  BY <1>2, <1>4 DEF IsDecl
<1>6. Exported(e) <=> Exported(d)
  BY <1>5 DEF Exported
<1>7. Mirrors(p, e)
  BY <1>3, <1>5, <1>6 DEF Mirrors
<1>8. TakesAs(p, import, d, e)
  BY <1>3, <1>5, <1>7, Zenon DEF TakesAs, SameItem
<1> QED BY <1>8 DEF e

\* The sequence new are the declarations of prog that the import takes over, the
\* k-th of them number g[k] of prog.
TakesFrom(p, import, prog, new, g) ==
  /\ \A k \in 1 .. Len(new) :
       g[k] \in 1 .. Len(prog) /\ TakesAs(p, import, prog[g[k]], new[k])
  /\ \A j, k \in 1 .. Len(new) : j # k => g[j] # g[k]
  /\ \A i \in Included(prog, import) : \E k \in 1 .. Len(new) : g[k] = i

LEMMA TakeSays ==
  ASSUME NEW p, NEW r, IsCall(p, r)
  PROVE  LET new == TakenOf(r)
         IN  /\ IsSequence(new) /\ Len(new) \in Nat
             /\ \E g : TakesFrom(p, r.import, ReturnedOf(r), new, g)
<1> DEFINE prog == ReturnedOf(r)
           N == Len(prog)
           inc == Included(prog, r.import)
           names == {prog[i].name : i \in inc} \ {<<>>}
           named == IF r.import.alias = NoAlias THEN prog
                    ELSE Qualify(prog, inc, r.import.alias)
           marked == [i \in DOMAIN named |-> MarkedDecl(named[i], r.import)]
           kept == InOrder(inc, N)
           new == TakenOf(r)
<1>1. ReturnsTo(p, r, prog)
  BY ReturnSays
<1>2. /\ N \in Nat /\ DOMAIN prog = 1 .. N /\ IsProg(prog)
      /\ \A n \in 1 .. N : Mirrors(p, prog[n])
  BY <1>1 DEF ReturnsTo, HandsBack
<1>3. <<>> \notin r.import.selected
  BY DEF IsCall
<1> HIDE DEF prog
<1>4. inc \subseteq 1 .. N
  BY <1>2, <1>3, IncludedTakes DEF Takes
<1>5. new = Select(marked, inc)
  BY DEF TakenOf, prog
<1>6. DOMAIN named = 1 .. N /\ \A n \in 1 .. N : Renames(p, prog[n], named[n])
  <2>1. CASE r.import.alias = NoAlias
    BY <1>2, <2>1 DEF Renames, SameItem
  <2>2. CASE r.import.alias # NoAlias
    <3>1. named = Qualify(prog, inc, r.import.alias)
      BY <2>2
    <3> HIDE DEF named, inc
    <3>2. /\ DOMAIN named = 1 .. N
          /\ \A n \in 1 .. N : named[n] = QualifiedDecl(prog[n], names, r.import.alias)
      BY <1>2, <3>1, Zenon DEF Qualify, QualifiedDecl, NewName, NewRef
    <3>3. <<>> \notin names
      OBVIOUS
    <3> HIDE DEF names
    <3> QED BY <1>2, <3>2, <3>3, DeclQualified
  <2> QED BY <2>1, <2>2
<1> HIDE DEF named, inc, N
<1>7. ASSUME NEW n \in 1 .. N PROVE TakesAs(p, r.import, prog[n], marked[n])
  <2>1. Renames(p, prog[n], named[n]) /\ marked[n] = MarkedDecl(named[n], r.import)
    BY <1>6
  <2>2. TakesAs(p, r.import, named[n], marked[n])
    BY <2>1, DeclMarked DEF Renames
  <2> QED BY <2>1, <2>2, Zenon DEF Renames, TakesAs, SameItem
<1>8. Len(marked) = N
  <2>1. marked = [n \in 1 .. N |-> marked[n]]
    BY <1>6
  <2> HIDE DEF marked
  <2> QED BY <1>2, <2>1, SeqMade
<1> HIDE DEF marked
<1>9. ListsUpto(inc, N, kept)
  BY <1>2, InOrderLists
<1> HIDE DEF kept
<1>10. kept \in Seq(Nat) /\ Len(kept) \in Nat /\ DOMAIN kept = 1 .. Len(kept)
  BY <1>9 DEF ListsUpto
<1>11. new = [k \in 1 .. Len(kept) |-> marked[kept[k]]]
  BY <1>5, <1>8, <1>10 DEF Select, kept
<1> HIDE DEF new
<1>12. new = [k \in 1 .. Len(kept) |-> new[k]]
  BY <1>11
<1>13. IsSequence(new) /\ Len(new) = Len(kept)
  BY <1>10, <1>12, SeqMade
<1>14. \A k \in 1 .. Len(new) : kept[k] \in 1 .. N /\ TakesAs(p, r.import, prog[kept[k]], new[k])
  BY <1>7, <1>9, <1>11, <1>13 DEF ListsUpto
<1>15. ASSUME NEW j \in 1 .. Len(new), NEW k \in 1 .. Len(new), j # k PROVE kept[j] # kept[k]
  <2>1. j < k \/ k < j
    BY <1>10, <1>13, <1>15
  <2>2. kept[j] < kept[k] \/ kept[k] < kept[j]
    BY <1>9, <1>13, <2>1 DEF ListsUpto
  <2>3. kept[j] \in Nat /\ kept[k] \in Nat
    BY <1>10, <1>13
  <2> QED BY <2>2, <2>3
<1>16. \A i \in inc : \E k \in 1 .. Len(new) : kept[k] = i
  BY <1>4, <1>9, <1>13 DEF ListsUpto
<1>17. TakesFrom(p, r.import, prog, new, kept)
  BY <1>14, <1>15, <1>16, Zenon DEF TakesFrom, inc, N
<1> QED BY <1>10, <1>13, <1>17 DEF new, prog

\* The frames and contexts after the innermost frame was left.
TakingFrame(q, r) ==
  [Advanced(q) EXCEPT !.decls = @ \o TakenOf(r), !.aliases = @ \cup ({r.import.alias} \ {NoAlias})]
LeftFrames(fr) ==
  Append(SubSeq(fr, 1, Len(fr) - 2), TakingFrame(fr[Len(fr) - 1], fr[Len(fr)]))

BelowOf(cx, r) ==
  IF r.import.alias = NoAlias THEN {}
  ELSE {[d EXCEPT !.nested = TRUE] : d \in cx[Len(cx)].dropped}
DroppedOf(r) ==
  {Dropped(ReturnedOf(r)[i], r.import) :
     i \in DOMAIN ReturnedOf(r) \ Included(ReturnedOf(r), r.import)}
AfterOf(c, cx, r) ==
  [active |-> c.active \ {r.file},
   resolved |-> IF IsPlain(r.import) THEN c.resolved \cup {r.file} ELSE c.resolved,
   chain |-> Front(c.chain),
   dropped |-> c.dropped \cup BelowOf(cx, r) \cup DroppedOf(r)]
OuterCtxs(cx, r) == IF r.import.alias = NoAlias THEN cx ELSE Front(cx)
LeftCtxs(cx, r) ==
  [OuterCtxs(cx, r) EXCEPT ![Len(OuterCtxs(cx, r))] = AfterOf(@, cx, r)]

Leaving(p, fr) == Len(fr) >= 2 /\ fr[Len(fr)].next > Len(p[fr[Len(fr)].file])

\* What changes: in the frames, ...
FramesLeft(fr, gr) ==
  LET t == Len(fr)
      r == fr[t]
      q == fr[t - 1]
      s == gr[t - 1]
  IN  /\ t \in Nat /\ t >= 2 /\ IsSequence(gr) /\ Len(gr) = t - 1
      /\ \A i \in 1 .. t - 2 : gr[i] = fr[i]
      /\ IsFrame(s) /\ s.file = q.file /\ s.import = q.import /\ s.ctx = q.ctx
      /\ s.next = q.next + 1 /\ s.decls = q.decls \o TakenOf(r)

\* ... in the context that c becomes, ...
ContextLeft(c, r, d) ==
  LET prog == ReturnedOf(r)
  IN  /\ IsContext(d) /\ d.active = c.active \ {r.file} /\ d.chain = Front(c.chain)
      /\ c.resolved \subseteq d.resolved /\ d.resolved \subseteq c.resolved \cup {r.file}
      /\ IsPlain(r.import) => r.file \in d.resolved
      /\ ~ IsPlain(r.import) => d.resolved = c.resolved
      /\ c.dropped \subseteq d.dropped
      /\ \A i \in DOMAIN prog :
           i \notin Included(prog, r.import) => Dropped(prog[i], r.import) \in d.dropped

\* ... and in the contexts, of which L are left.
ContextsLeft(fr, cx, dx) ==
  LET t == Len(fr)
      r == fr[t]
      L == Len(dx)
  IN  /\ L \in Nat /\ L \in 1 .. L /\ IsSequence(dx) /\ L = fr[t - 1].ctx /\ r.ctx = Len(cx)
      /\ Len(cx) = IF r.import.alias = NoAlias THEN L ELSE L + 1
      /\ \A k \in 1 .. L : IsContext(dx[k])
      /\ \A k \in 1 .. L : k # L => dx[k] = cx[k]
      /\ ContextLeft(cx[L], r, dx[L])

LEMMA LeaveFrames ==
  ASSUME NEW p, NEW fr, NEW cx, Shape(p, fr, cx, FALSE), Leaving(p, fr)
  PROVE  FramesLeft(fr, LeftFrames(fr))
<1> DEFINE t == Len(fr)
           r == fr[t]
           q == fr[t - 1]
           a == Advanced(q)
           A == a.aliases \cup ({r.import.alias} \ {NoAlias})
           D == a.decls \o TakenOf(r)
           s == TakingFrame(q, r)
           b == SubSeq(fr, 1, t - 2)
           gr == LeftFrames(fr)
<1>1. t \in Nat /\ t >= 2 /\ IsSequence(fr)
  BY ContextCount DEF Leaving, Shape
<1>2. t - 1 \in 1 .. t /\ t - 2 \in 0 .. t
  BY <1>1
<1>3. IsFrame(q)
  BY <1>2 DEF Shape, IsCall
<1> HIDE DEF t, r, q
<1>4. IsFrame(a) /\ a.file = q.file /\ a.import = q.import /\ a.ctx = q.ctx
      /\ a.next = q.next + 1 /\ a.decls = q.decls
  BY <1>3 DEF Advanced, IsFrame
<1>5. s = [a EXCEPT !.decls = D, !.aliases = A]
  BY DEF TakingFrame
<1>6. D = q.decls \o TakenOf(r)
  BY <1>4
<1> HIDE DEF a, A, D, s
<1>7. IsFrame(s) /\ s.file = q.file /\ s.import = q.import /\ s.ctx = q.ctx
      /\ s.next = q.next + 1 /\ s.decls = D
  BY <1>4, <1>5 DEF IsFrame
<1>8. IsSequence(b) /\ Len(b) = t - 2 /\ \A i \in 1 .. t - 2 : b[i] = fr[i]
  BY <1>1, <1>2, PrefixIs DEF t
<1>9. gr = Append(b, s)
  BY DEF LeftFrames, b, s, t, r, q
<1> HIDE DEF b, gr
<1>10. /\ IsSequence(gr) /\ Len(gr) = Len(b) + 1 /\ \A i \in 1 .. Len(b) : gr[i] = b[i]
       /\ gr[Len(b) + 1] = s
  BY <1>8, <1>9, AppendIs
<1>11. Len(b) + 1 = t - 1
  BY <1>1, <1>8
<1>12. /\ IsSequence(gr) /\ Len(gr) = t - 1 /\ gr[t - 1] = s
       /\ \A i \in 1 .. t - 2 : gr[i] = fr[i]
  BY <1>8, <1>10, <1>11
<1>13. FramesLeft(fr, gr)
  BY <1>1, <1>6, <1>7, <1>12, Zenon DEF FramesLeft, t, r, q
<1> QED BY <1>13 DEF gr

LEMMA AfterSays ==
  ASSUME NEW c, NEW cx, NEW r
  PROVE  ContextLeft(c, r, AfterOf(c, cx, r))
<1> DEFINE d == AfterOf(c, cx, r)
           prog == ReturnedOf(r)
<1>1. /\ IsContext(d) /\ d.active = c.active \ {r.file} /\ d.chain = Front(c.chain)
      /\ d.resolved = (IF IsPlain(r.import) THEN c.resolved \cup {r.file} ELSE c.resolved)
      /\ d.dropped = c.dropped \cup BelowOf(cx, r) \cup DroppedOf(r)
  BY DEF AfterOf, IsContext
<1> HIDE DEF d, prog
<1>2. ASSUME NEW i \in DOMAIN prog, i \notin Included(prog, r.import)
      PROVE  Dropped(prog[i], r.import) \in d.dropped
  <2>1. Dropped(prog[i], r.import) \in DroppedOf(r)
    BY <1>2, Zenon DEF DroppedOf, prog
  <2> QED BY <1>1, <2>1
<1>3. /\ c.resolved \subseteq d.resolved /\ d.resolved \subseteq c.resolved \cup {r.file}
      /\ IsPlain(r.import) => r.file \in d.resolved
      /\ ~ IsPlain(r.import) => d.resolved = c.resolved
      /\ c.dropped \subseteq d.dropped
  BY <1>1
<1>4. ContextLeft(c, r, d)
  BY <1>1, <1>2, <1>3, Zenon DEF ContextLeft, prog
<1> QED BY <1>4 DEF d

LEMMA LeaveContexts ==
  ASSUME NEW p, NEW fr, NEW cx, Shape(p, fr, cx, FALSE), Leaving(p, fr)
  PROVE  ContextsLeft(fr, cx, LeftCtxs(cx, fr[Len(fr)]))
<1> DEFINE t == Len(fr)
           r == fr[t]
           K == Len(cx)
           outer == OuterCtxs(cx, r)
           M == Len(outer)
           d == AfterOf(outer[M], cx, r)
           dx == LeftCtxs(cx, r)
<1>1. /\ t \in Nat /\ t >= 2 /\ K \in Nat /\ K >= 1 /\ r.ctx = K
      /\ \A i \in 1 .. t : fr[i].ctx \in 1 .. K /\ fr[i].ctx \in Nat
  BY ContextCount DEF Leaving
<1>2. IsSequence(cx) /\ \A k \in 1 .. K : IsContext(cx[k])
  BY DEF Shape
<1>3. t - 1 \in 1 .. Len(fr) - 1 /\ t - 1 \in 1 .. t /\ (t - 1) + 1 = t
  BY <1>1
<1>4. K = IF r.import.alias = NoAlias THEN fr[t - 1].ctx ELSE fr[t - 1].ctx + 1
  <2>1. Calls(p, fr[t - 1], fr[(t - 1) + 1])
    BY <1>3 DEF Shape
  <2> QED BY <1>1, <1>3, <2>1 DEF Calls
<1>5. fr[t - 1].ctx \in 1 .. K /\ fr[t - 1].ctx \in Nat
  BY <1>1, <1>3
<1> HIDE DEF t, r, K
<1>6. /\ IsSequence(outer) /\ M = fr[t - 1].ctx
      /\ \A k \in 1 .. M : outer[k] = cx[k]
  <2>1. CASE r.import.alias = NoAlias
    BY <1>2, <1>4, <2>1 DEF OuterCtxs, K
  <2>2. CASE r.import.alias # NoAlias
    <3>1. outer = Front(cx)
      BY <2>2 DEF OuterCtxs
    <3>2. /\ IsSequence(outer) /\ Len(outer) = K - 1
          /\ \A k \in 1 .. K - 1 : outer[k] = cx[k]
      BY <1>1, <1>2, <3>1, FrontIs DEF K
    <3>3. K - 1 = fr[t - 1].ctx
      BY <1>4, <1>5, <2>2
    <3> QED BY <3>2, <3>3
  <2> QED BY <2>1, <2>2
<1>7. dx = [outer EXCEPT ![M] = d]
  BY DEF LeftCtxs
<1> HIDE DEF outer, dx
<1>8. M \in Nat /\ M \in 1 .. M /\ M \in 1 .. K
  BY <1>5, <1>6
<1>9. ContextLeft(outer[M], r, d)
  BY AfterSays
<1> HIDE DEF d
<1>10. /\ IsSequence(dx) /\ Len(dx) = M /\ dx[M] = d
       /\ \A k \in 1 .. M : k # M => dx[k] = outer[k]
  <2> DEFINE ex == [outer EXCEPT ![M] = d]
  <2>0. IsSequence(outer) /\ M \in 1 .. Len(outer)
    BY <1>6, <1>8
  <2>1. /\ IsSequence(ex) /\ Len(ex) = M /\ ex[M] = d
        /\ \A k \in 1 .. M : k # M => ex[k] = outer[k]
    BY <2>0, ExceptIs
  <2> HIDE DEF ex
  <2>2. dx = ex
    BY <1>7 DEF ex
  <2> QED BY <2>1, <2>2
<1>11. ContextLeft(cx[M], r, dx[M])
  BY <1>6, <1>8, <1>9, <1>10
<1>12. \A k \in 1 .. M : k # M => dx[k] = cx[k]
  BY <1>6, <1>10
<1>13. ASSUME NEW k \in 1 .. M PROVE IsContext(dx[k])
  <2>1. IsContext(dx[M])
    BY <1>11 DEF ContextLeft
  <2>2. k \in 1 .. K
    BY <1>1, <1>8
  <2> QED BY <1>2, <1>12, <2>1, <2>2
<1>14. K = IF r.import.alias = NoAlias THEN M ELSE M + 1
  BY <1>4, <1>6
<1> HIDE DEF M
<1>15. ContextsLeft(fr, cx, dx)
  BY <1>1, <1>6, <1>8, <1>10, <1>11, <1>12, <1>13, <1>14 DEF ContextsLeft, t, r, K
<1> QED BY <1>15 DEF dx, r, t

\* The declaration e is what the importer has of the declaration d of frame r.
CarriesOver(p, r, d, e) ==
  /\ Mirrors(p, e) /\ SameItem(d, e)
  /\ d.filtered => e.filtered
  /\ ~ IsPlain(r.import) => e.filtered
  /\ e.embeds = d.embeds \ EmbedsFound(r.file, d)
  /\ e.texts = d.texts \cup TextsFound(d, r.file)

\* Frame s has the declarations of q and then those taken over from frame r, its
\* n-th declaration being number h[n] of r.
Behind(q, s, n) == n \in 1 .. Len(s.decls) /\ n > Len(q.decls)
TakenBy(p, q, r, s, h) ==
  /\ IsSequence(s.decls) /\ Len(s.decls) \in Nat /\ Len(q.decls) \in Nat
  /\ \A n \in 1 .. Len(q.decls) : n \in 1 .. Len(s.decls) /\ s.decls[n] = q.decls[n]
  /\ \A n \in 1 .. Len(s.decls) : n \in 1 .. Len(q.decls) \/ Behind(q, s, n)
  /\ \A n : Behind(q, s, n) =>
       h[n] \in 1 .. Len(r.decls) /\ CarriesOver(p, r, r.decls[h[n]], s.decls[n])
  /\ \A m, n : (Behind(q, s, m) /\ Behind(q, s, n) /\ m # n) => h[m] # h[n]
  /\ \A i \in Included(ReturnedOf(r), r.import) : \E n : Behind(q, s, n) /\ h[n] = i

LEMMA TakenInto ==
  ASSUME NEW p, NEW q, IsCall(p, q), NEW r, IsCall(p, r), NEW s, s.decls = q.decls \o TakenOf(r)
  PROVE  \E h : TakenBy(p, q, r, s, h)
<1> DEFINE new == TakenOf(r)
           prog == ReturnedOf(r)
           Q == Len(q.decls)
<1>1. IsSequence(new) /\ Len(new) \in Nat /\ \E g : TakesFrom(p, r.import, prog, new, g)
  BY TakeSays
<1>2. ReturnsTo(p, r, prog)
  BY ReturnSays
<1>3. IsSequence(q.decls) /\ Q \in Nat
  BY SeqTyped DEF IsCall
<1> HIDE DEF new, prog
<1>4. PICK g : TakesFrom(p, r.import, prog, new, g)
  BY <1>1
<1>5. s.decls = q.decls \o new
  BY DEF new
<1>6. /\ IsSequence(s.decls) /\ Len(s.decls) = Q + Len(new)
      /\ \A i \in 1 .. Q : s.decls[i] = q.decls[i]
      /\ \A i \in 1 .. Len(new) : s.decls[Q + i] = new[i]
  BY <1>1, <1>3, <1>5, ConcatIs
<1> DEFINE h == [n \in 1 .. Len(s.decls) |-> g[n - Q]]
<1> HIDE DEF Q
<1>7. ASSUME NEW n, Behind(q, s, n)
      PROVE  n \in 1 .. Len(s.decls) /\ n - Q \in 1 .. Len(new) /\ s.decls[n] = new[n - Q] /\ h[n] = g[n - Q]
  <2>1. n \in 1 .. Len(s.decls) /\ n > Q
    BY <1>7 DEF Behind, Q
  <2>2. n - Q \in 1 .. Len(new) /\ Q + (n - Q) = n
    BY <1>1, <1>3, <1>6, <2>1
  <2>3. s.decls[Q + (n - Q)] = new[n - Q]
    BY <1>6, <2>2
  <2> QED BY <2>1, <2>2, <2>3
<1> HIDE DEF h
<1>8. ASSUME NEW n, Behind(q, s, n)
      PROVE  h[n] \in 1 .. Len(r.decls) /\ CarriesOver(p, r, r.decls[h[n]], s.decls[n])
  <2>1. n - Q \in 1 .. Len(new) /\ s.decls[n] = new[n - Q] /\ h[n] = g[n - Q]
    BY <1>7, <1>8
  <2>2. h[n] \in 1 .. Len(prog) /\ TakesAs(p, r.import, prog[h[n]], s.decls[n])
    BY <1>4, <2>1 DEF TakesFrom
  <2>3. h[n] \in 1 .. Len(r.decls) /\ HandsBack(p, r.file, r.decls[h[n]], prog[h[n]])
    BY <1>2, <2>2 DEF ReturnsTo
  <2>4. CarriesOver(p, r, r.decls[h[n]], s.decls[n])
    BY <2>2, <2>3, Zenon DEF TakesAs, HandsBack, CarriesOver, SameItem
  <2> QED BY <2>3, <2>4
<1>9. ASSUME NEW m, NEW n, Behind(q, s, m), Behind(q, s, n), m # n PROVE h[m] # h[n]
  <2>1. /\ m - Q \in 1 .. Len(new) /\ n - Q \in 1 .. Len(new) /\ h[m] = g[m - Q] /\ h[n] = g[n - Q]
        /\ m \in 1 .. Len(s.decls) /\ n \in 1 .. Len(s.decls)
    BY <1>7, <1>9
  <2>2. m - Q # n - Q
    BY <1>1, <1>3, <1>6, <1>9, <2>1
  <2> QED BY <1>4, <2>1, <2>2 DEF TakesFrom
<1>10. ASSUME NEW i \in Included(prog, r.import) PROVE \E n : Behind(q, s, n) /\ h[n] = i
  <2>1. PICK k \in 1 .. Len(new) : g[k] = i
    BY <1>4 DEF TakesFrom
  <2>2. Q + k \in 1 .. Len(s.decls) /\ Q + k > Q /\ (Q + k) - Q = k
    BY <1>1, <1>3, <1>6
  <2>3. Behind(q, s, Q + k)
    BY <2>2 DEF Behind, Q
  <2>4. h[Q + k] = i
    BY <1>7, <2>1, <2>2, <2>3
  <2> QED BY <2>3, <2>4
<1>11. Len(s.decls) \in Nat /\ \A n \in 1 .. Q : n \in 1 .. Len(s.decls)
  BY <1>1, <1>3, <1>6
<1>12. ASSUME NEW n \in 1 .. Len(s.decls) PROVE n \in 1 .. Q \/ Behind(q, s, n)
  BY <1>3, <1>11 DEF Behind, Q
<1>13. TakenBy(p, q, r, s, h)
  BY <1>3, <1>6, <1>8, <1>9, <1>10, <1>11, <1>12, Zenon DEF TakenBy, Q, prog
<1> QED BY <1>13

LEMMA LeaveShape ==
  ASSUME NEW p, NEW fr, NEW cx, NEW gr, NEW dx, Shape(p, fr, cx, FALSE), Leaving(p, fr),
         FramesLeft(fr, gr), ContextsLeft(fr, cx, dx)
  PROVE  Shape(p, gr, dx, FALSE)
<1> DEFINE t == Len(fr)
           r == fr[t]
           q == fr[t - 1]
           s == gr[t - 1]
           L == Len(dx)
<1>1. /\ t \in Nat /\ t >= 2 /\ IsSequence(gr) /\ Len(gr) = t - 1
      /\ \A i \in 1 .. t - 2 : gr[i] = fr[i]
      /\ IsFrame(s) /\ s.file = q.file /\ s.import = q.import /\ s.ctx = q.ctx
      /\ s.next = q.next + 1 /\ s.decls = q.decls \o TakenOf(r)
  BY DEF FramesLeft
<1>2. IsSequence(dx) /\ L = q.ctx /\ \A k \in 1 .. L : IsContext(dx[k])
  BY DEF ContextsLeft
<1>3. t - 1 \in 1 .. t /\ t \in 1 .. t /\ t - 1 \in 1 .. Len(fr) - 1 /\ (t - 1) + 1 = t
  BY <1>1
<1>4. IsProject(p) /\ IsCall(p, r) /\ IsCall(p, q) /\ Calls(p, fr[t - 1], fr[(t - 1) + 1])
  BY <1>3 DEF Shape
<1> HIDE DEF t, r, q, s, L
<1>5. IsCall(p, s)
  <2>1. PICK h : TakenBy(p, q, r, s, h)
    BY <1>1, <1>4, TakenInto
  <2>2. ASSUME NEW n \in 1 .. Len(s.decls) PROVE Mirrors(p, s.decls[n])
    <3>1. n \in 1 .. Len(q.decls) \/ Behind(q, s, n)
      BY <2>1 DEF TakenBy
    <3>2. CASE n \in 1 .. Len(q.decls)
      BY <1>4, <2>1, <3>2 DEF TakenBy, IsCall
    <3>3. CASE Behind(q, s, n)
      BY <2>1, <3>3 DEF TakenBy, CarriesOver
    <3> QED BY <3>1, <3>2, <3>3
  <2>3. /\ q.file \in DOMAIN p /\ p[q.file] # Unparsable /\ q.next \in 1 .. Len(p[q.file]) + 1
        /\ q.ctx \in Nat /\ <<>> \notin q.import.selected
    BY <1>4 DEF IsCall
  <2>4. Len(p[q.file]) \in Nat
    BY <1>4, <2>3, ItemAt
  <2>5. q.next <= Len(p[q.file])
    BY <1>4 DEF Calls, q
  <2>6. q.next + 1 \in 1 .. Len(p[q.file]) + 1
    BY <2>3, <2>4, <2>5
  <2>7. IsSequence(s.decls)
    BY <2>1 DEF TakenBy
  <2> QED BY <1>1, <2>2, <2>3, <2>6, <2>7 DEF IsCall
<1>6. ASSUME NEW i \in 1 .. Len(gr)
      PROVE  /\ i \in 1 .. t /\ IsCall(p, gr[i]) /\ gr[i].ctx = fr[i].ctx /\ gr[i].import = fr[i].import
             /\ i # t - 1 => gr[i] = fr[i]
  <2>1. i \in 1 .. t /\ (i \in 1 .. t - 2 \/ i = t - 1)
    BY <1>1
  <2>2. IsCall(p, fr[i])
    BY <2>1 DEF Shape, t
  <2> QED BY <1>1, <1>5, <2>1, <2>2 DEF s, q
<1>7. ASSUME NEW i \in 1 .. Len(gr) - 1 PROVE Calls(p, gr[i], gr[i + 1])
  <2>1. i \in 1 .. Len(gr) /\ i # t - 1 /\ i + 1 \in 1 .. Len(gr) /\ i \in 1 .. t - 1
    BY <1>1
  <2>2. gr[i] = fr[i] /\ gr[i + 1].ctx = fr[i + 1].ctx /\ gr[i + 1].import = fr[i + 1].import
    BY <1>6, <2>1
  <2>3. Calls(p, fr[i], fr[i + 1])
    BY <2>1 DEF Shape, t
  <2> QED BY <2>2, <2>3 DEF Calls
<1>8. ASSUME NEW i \in 1 .. Len(gr), NEW j \in 1 .. Len(gr), i <= j PROVE gr[i].ctx <= gr[j].ctx
  <2>1. fr[i].ctx <= fr[j].ctx
    BY <1>6, <1>8 DEF Shape, t
  <2> QED BY <1>6, <2>1
<1>9. gr[1].ctx = 1 /\ gr[Len(gr)].ctx = L /\ Len(gr) >= 1
  <2>1. Len(gr) >= 1 /\ 1 \in 1 .. Len(gr)
    BY <1>1
  <2>2. fr[1].ctx = 1
    BY DEF Shape
  <2> QED BY <1>1, <1>2, <1>6, <2>1, <2>2 DEF s
<1> QED BY <1>1, <1>2, <1>4, <1>6, <1>7, <1>8, <1>9 DEF Shape, L

LEMMA LeaveStacked ==
  ASSUME NEW p, NEW fr, NEW cx, NEW gr, NEW dx, Shape(p, fr, cx, FALSE), Stacked(fr, cx, FALSE),
         FramesLeft(fr, gr), ContextsLeft(fr, cx, dx)
  PROVE  Stacked(gr, dx, FALSE)
<1> DEFINE t == Len(fr)
           r == fr[t]
           q == fr[t - 1]
           s == gr[t - 1]
           L == Len(dx)
           K == Len(cx)
<1>1. /\ t \in Nat /\ t >= 2 /\ Len(gr) = t - 1
      /\ \A i \in 1 .. t - 2 : gr[i] = fr[i]
      /\ s.file = q.file /\ s.ctx = q.ctx
  BY DEF FramesLeft
<1>2. /\ L \in Nat /\ L = q.ctx /\ r.ctx = K /\ (K = L \/ K = L + 1)
      /\ \A k \in 1 .. L : k # L => dx[k] = cx[k]
      /\ dx[L].active = cx[L].active \ {r.file} /\ dx[L].chain = Front(cx[L].chain)
  BY DEF ContextsLeft, ContextLeft
<1>3. \A i \in 1 .. t : fr[i].ctx \in 1 .. K /\ fr[i].ctx \in Nat
  BY ContextCount
<1>4. \A m, n \in 1 .. t : m # n => fr[m].file # fr[n].file
  BY DEF Stacked
<1>5. \A i, j \in 1 .. t : i <= j => fr[i].ctx <= fr[j].ctx
  BY DEF Shape
<1> HIDE DEF L, K
<1>6. cx[L].active = FilesUpto(fr, t) /\ cx[L].chain = ChainUpto(fr, t)
  <2>1. CASE K = L
    <3>1. t \in 1 .. t /\ LastOf(fr, t) /\ Known(fr, t) = t
      BY <1>1 DEF LastOf, Known
    <3> QED BY <1>2, <2>1, <3>1 DEF Stacked
  <2>2. CASE K = L + 1
    <3>1. t - 1 \in 1 .. t /\ t - 1 # Len(fr) /\ (t - 1) + 1 = t
      BY <1>1
    <3>2. fr[(t - 1) + 1].ctx # fr[t - 1].ctx
      <4>1. fr[(t - 1) + 1] = fr[t]
        BY <3>1
      <4>2. fr[t].ctx = L + 1 /\ fr[t - 1].ctx = L
        BY <1>2, <2>2
      <4>3. L + 1 # L
        BY <1>2
      <4> QED BY <4>1, <4>2, <4>3
    <3>3. LastOf(fr, t - 1) /\ Known(fr, t - 1) = t
      BY <3>1, <3>2 DEF LastOf, Known
    <3> QED BY <1>2, <3>1, <3>3 DEF Stacked
  <2> QED BY <1>2, <2>1, <2>2
<1> HIDE DEF t, r, q, s
<1>7. ASSUME NEW i \in 1 .. Len(gr)
      PROVE  i \in 1 .. t /\ i # t /\ gr[i].file = fr[i].file /\ gr[i].ctx = fr[i].ctx
  <2>1. i \in 1 .. t /\ i # t /\ (i \in 1 .. t - 2 \/ i = t - 1)
    BY <1>1
  <2> QED BY <1>1, <2>1 DEF s, q
<1>8. ASSUME NEW i \in 1 .. Len(gr), NEW k \in 1 .. Len(gr), i # k PROVE gr[i].file # gr[k].file
  BY <1>4, <1>7, <1>8
<1>9. ASSUME NEW n \in 1 .. Len(gr)
      PROVE  FilesUpto(gr, n) = FilesUpto(fr, n) /\ ChainUpto(gr, n) = ChainUpto(fr, n)
  <2>1. \A j \in 1 .. n : j \in 1 .. Len(gr)
    BY <1>1
  <2>2. \A j \in 1 .. n : gr[j].file = fr[j].file
    BY <1>7, <2>1
  <2> QED BY <2>2 DEF FilesUpto, ChainUpto
<1>10. FilesUpto(fr, t) \ {r.file} = FilesUpto(fr, t - 1)
  <2>1. \A j \in 1 .. t : j \in 1 .. t - 1 \/ j = t
    BY <1>1
  <2>2. \A j \in 1 .. t - 1 : j \in 1 .. t /\ j # t
    BY <1>1
  <2>3. t \in 1 .. t /\ fr[t] = r
    BY <1>1 DEF r
  <2>4. \A j \in 1 .. t - 1 : fr[j].file # r.file
    BY <1>4, <2>2, <2>3
  <2> QED BY <2>1, <2>2, <2>3, <2>4 DEF FilesUpto
<1>11. Front(ChainUpto(fr, t)) = ChainUpto(fr, t - 1)
  <2> DEFINE c == ChainUpto(fr, t)
             d == ChainUpto(fr, t - 1)
  <2>1. c = [i \in 1 .. t |-> c[i]] /\ \A i \in 1 .. t : c[i] = fr[i].file
    BY DEF ChainUpto
  <2>2. d = [i \in 1 .. t - 1 |-> d[i]] /\ \A i \in 1 .. t - 1 : d[i] = fr[i].file
    BY DEF ChainUpto
  <2> HIDE DEF c, d
  <2>3. IsSequence(c) /\ Len(c) = t
    BY <1>1, <2>1, SeqMade
  <2>4. /\ IsSequence(Front(c)) /\ Len(Front(c)) = t - 1
        /\ \A i \in 1 .. t - 1 : Front(c)[i] = c[i]
    BY <1>1, <2>3, FrontIs
  <2>5. Front(c) = [i \in 1 .. t - 1 |-> Front(c)[i]]
    BY <2>4 DEF IsSequence
  <2>6. \A i \in 1 .. t - 1 : i \in 1 .. t
    BY <1>1
  <2>7. \A i \in 1 .. t - 1 : Front(c)[i] = d[i]
    BY <2>1, <2>2, <2>4, <2>6
  <2>8. Front(c) = d
    BY <2>2, <2>5, <2>7
  <2> QED BY <2>8 DEF c, d
<1>12. ASSUME NEW i \in 1 .. Len(gr), LastOf(gr, i)
       PROVE  /\ dx[gr[i].ctx].active = FilesUpto(gr, Known(gr, i))
              /\ ~ FALSE => dx[gr[i].ctx].chain = ChainUpto(gr, Known(gr, i))
  <2>1. CASE i = t - 1
    <3>1. Known(gr, i) = t - 1 /\ gr[i].ctx = L /\ t - 1 \in 1 .. Len(gr)
      BY <1>1, <1>2, <2>1 DEF Known, s, q
    <3> QED BY <1>2, <1>6, <1>9, <1>10, <1>11, <3>1
  <2>2. CASE i # t - 1
    <3>1. /\ i + 1 \in 1 .. Len(gr) /\ i # Len(gr) /\ i + 1 \in 1 .. t /\ i \in 1 .. t /\ i # t
          /\ t - 1 \in 1 .. t /\ i + 1 <= t - 1 /\ i <= i + 1
      BY <1>1, <2>2
    <3>2. gr[i + 1].ctx # gr[i].ctx /\ Known(gr, i) = i + 1 /\ Known(fr, i) = i + 1
      BY <1>12, <3>1 DEF LastOf, Known, t
    <3>3. gr[i].ctx = fr[i].ctx /\ gr[i + 1].ctx = fr[i + 1].ctx
      BY <1>7, <3>1
    <3>4. LastOf(fr, i)
      BY <3>1, <3>2, <3>3 DEF LastOf, t
    <3>5. fr[i].ctx <= fr[i + 1].ctx /\ fr[i + 1].ctx <= fr[t - 1].ctx
      BY <1>5, <3>1
    <3>6. fr[i].ctx \in 1 .. L /\ fr[i].ctx # L
      <4>1. fr[i].ctx \in Nat /\ fr[i + 1].ctx \in Nat /\ fr[i].ctx >= 1 /\ fr[t - 1].ctx = L
        BY <1>2, <1>3, <3>1 DEF q
      <4> QED BY <1>2, <3>2, <3>3, <3>5, <4>1
    <3>7. dx[gr[i].ctx] = cx[fr[i].ctx]
      BY <1>2, <3>3, <3>6
    <3>8. /\ cx[fr[i].ctx].active = FilesUpto(fr, i + 1)
          /\ cx[fr[i].ctx].chain = ChainUpto(fr, i + 1)
      BY <3>1, <3>2, <3>4 DEF Stacked, t
    <3> QED BY <1>9, <3>1, <3>2, <3>7, <3>8
  <2> QED BY <2>1, <2>2
<1> QED BY <1>8, <1>12 DEF Stacked

\* Where the declarations of the frames after the step come from.
LEMMA LeftDecls ==
  ASSUME NEW p, NEW fr, NEW cx, NEW gr, Shape(p, fr, cx, FALSE), FramesLeft(fr, gr)
  PROVE  LET t == Len(fr)
             r == fr[t]
             q == fr[t - 1]
             s == gr[t - 1]
         IN  /\ t \in Nat /\ t >= 2 /\ Len(gr) = t - 1 /\ IsCall(p, r) /\ IsCall(p, q)
             /\ t \in 1 .. t /\ t - 1 \in 1 .. t /\ t - 1 \in 1 .. Len(gr)
             /\ \A i \in 1 .. Len(gr) :
                  /\ i \in 1 .. t /\ i # t /\ (i # t - 1 => gr[i] = fr[i])
                  /\ gr[i].file = fr[i].file /\ gr[i].import = fr[i].import
                  /\ gr[i].ctx = fr[i].ctx
             /\ \E h : TakenBy(p, q, r, s, h)
<1> DEFINE t == Len(fr)
           r == fr[t]
           q == fr[t - 1]
           s == gr[t - 1]
<1>1. /\ t \in Nat /\ t >= 2 /\ Len(gr) = t - 1
      /\ \A i \in 1 .. t - 2 : gr[i] = fr[i]
      /\ s.file = q.file /\ s.import = q.import /\ s.ctx = q.ctx
      /\ s.decls = q.decls \o TakenOf(r)
  BY DEF FramesLeft
<1>2. t \in 1 .. t /\ t - 1 \in 1 .. t /\ t - 1 \in 1 .. Len(gr)
  BY <1>1
<1>3. IsCall(p, r) /\ IsCall(p, q)
  BY <1>2 DEF Shape
<1> HIDE DEF t, r, q, s
<1>4. \E h : TakenBy(p, q, r, s, h)
  BY <1>1, <1>3, TakenInto
<1>5. ASSUME NEW i \in 1 .. Len(gr)
      PROVE  /\ i \in 1 .. t /\ i # t /\ (i # t - 1 => gr[i] = fr[i])
             /\ gr[i].file = fr[i].file /\ gr[i].import = fr[i].import /\ gr[i].ctx = fr[i].ctx
  <2>1. i \in 1 .. t /\ i # t /\ (i \in 1 .. t - 2 \/ i = t - 1)
    BY <1>1
  <2> QED BY <1>1, <2>1 DEF s, q
<1> QED BY <1>1, <1>2, <1>3, <1>4, <1>5 DEF t, r, q, s

LEMMA LeaveSingle ==
  ASSUME NEW p, NEW fr, NEW cx, NEW gr, NEW dx, Shape(p, fr, cx, FALSE), Stacked(fr, cx, FALSE),
         Single(fr, cx), FramesLeft(fr, gr), ContextsLeft(fr, cx, dx)
  PROVE  Single(gr, dx)
<1> DEFINE t == Len(fr)
           r == fr[t]
           q == fr[t - 1]
           s == gr[t - 1]
           L == Len(dx)
           K == Len(cx)
<1>1. /\ t \in Nat /\ t >= 2 /\ Len(gr) = t - 1 /\ IsCall(p, r) /\ IsCall(p, q)
      /\ t \in 1 .. t /\ t - 1 \in 1 .. t /\ t - 1 \in 1 .. Len(gr)
      /\ \A i \in 1 .. Len(gr) :
           /\ i \in 1 .. t /\ i # t /\ (i # t - 1 => gr[i] = fr[i])
           /\ gr[i].file = fr[i].file /\ gr[i].import = fr[i].import
           /\ gr[i].ctx = fr[i].ctx
      /\ \E h : TakenBy(p, q, r, s, h)
  BY LeftDecls
<1>2. PICK h : TakenBy(p, q, r, s, h)
  BY <1>1
<1>3. /\ L \in Nat /\ L = q.ctx /\ r.ctx = K
      /\ K = IF r.import.alias = NoAlias THEN L ELSE L + 1
      /\ \A k \in 1 .. L : k # L => dx[k] = cx[k]
      /\ cx[L].resolved \subseteq dx[L].resolved
      /\ dx[L].resolved \subseteq cx[L].resolved \cup {r.file}
      /\ IsPlain(r.import) => r.file \in dx[L].resolved
  BY DEF ContextsLeft, ContextLeft
<1>4. \A i \in 1 .. t : fr[i].ctx \in 1 .. K /\ fr[i].ctx \in Nat
  BY ContextCount
<1>5. \A m, n \in 1 .. t : m # n => fr[m].file # fr[n].file
  BY DEF Stacked
<1>6. \A i, j \in 1 .. t : i <= j => fr[i].ctx <= fr[j].ctx
  BY DEF Shape
<1>7. NoneResolved(fr, cx) /\ AllAccounted(fr, cx) /\ AllApart(fr)
  BY SingleParts
<1>8. s.next = q.next + 1 /\ q.next \in Nat /\ IsProject(p)
  <2>1. IsProject(p) /\ s.next = q.next + 1
    BY DEF Shape, FramesLeft
  <2>2. Len(p[q.file]) \in Nat
    BY <1>1, <2>1, ItemAt DEF IsCall
  <2>3. q.next \in 1 .. Len(p[q.file]) + 1
    BY <1>1 DEF IsCall
  <2> QED BY <2>1, <2>2, <2>3
<1> HIDE DEF t, r, q, s, L, K
<1>9. ASSUME NEW i \in 1 .. Len(gr) PROVE fr[i].ctx \in 1 .. L
  <2>1. i \in 1 .. t /\ i <= t - 1 /\ fr[t - 1].ctx = L
    BY <1>1, <1>3 DEF q
  <2>2. fr[i].ctx <= L /\ fr[i].ctx \in 1 .. K
    BY <1>1, <1>4, <1>6, <2>1
  <2>3. fr[i].ctx \in Nat
    BY <1>4, <2>1
  <2>4. K \in Nat
    BY <1>3
  <2> QED BY <1>3, <2>2, <2>3, <2>4
<1>10. ASSUME NEW i \in 1 .. Len(gr)
       PROVE  LET c == fr[i].ctx
              IN  /\ cx[c].resolved \subseteq dx[c].resolved
                  /\ dx[c].resolved \subseteq cx[c].resolved \cup {r.file}
  <2>1. CASE fr[i].ctx = L
    BY <1>3, <2>1
  <2>2. CASE fr[i].ctx # L
    <3>1. dx[fr[i].ctx] = cx[fr[i].ctx]
      BY <1>3, <1>9, <2>2
    <3> QED BY <3>1
  <2> QED BY <2>1, <2>2
<1>11. ASSUME NEW i \in 1 .. Len(gr), gr[i].import.selected = {}
       PROVE  gr[i].file \notin dx[gr[i].ctx].resolved
  <2>1. i \in 1 .. t /\ i # t /\ gr[i].file = fr[i].file /\ gr[i].import = fr[i].import
        /\ gr[i].ctx = fr[i].ctx
    BY <1>1
  <2>2. fr[i].file \notin cx[fr[i].ctx].resolved
    BY <1>7, <1>11, <2>1 DEF NoneResolved, t
  <2>3. fr[i].file # r.file
    BY <1>1, <1>5, <2>1 DEF r
  <2>4. dx[fr[i].ctx].resolved \subseteq cx[fr[i].ctx].resolved \cup {r.file}
    BY <1>10
  <2> QED BY <2>1, <2>2, <2>3, <2>4
\* A declaration behind those of q is filtered, or the import was plain.
<1>12. ASSUME NEW n, Behind(q, s, n)
       PROVE  LET d == r.decls[h[n]]
                  e == s.decls[n]
              IN  /\ h[n] \in 1 .. Len(r.decls) /\ SameItem(d, e) /\ (d.filtered => e.filtered)
                  /\ e.filtered \/ (IsPlain(r.import) /\ L = K)
  <2>1. h[n] \in 1 .. Len(r.decls) /\ CarriesOver(p, r, r.decls[h[n]], s.decls[n])
    BY <1>2, <1>12 DEF TakenBy
  <2>2. IsPlain(r.import) => L = K
    BY <1>3 DEF IsPlain
  <2> QED BY <2>1, <2>2, Zenon DEF CarriesOver
<1>13. ASSUME NEW i \in 1 .. Len(gr), NEW n \in 1 .. Len(gr[i].decls)
       PROVE  \/ n \in 1 .. Len(fr[i].decls) /\ gr[i].decls[n] = fr[i].decls[n]
              \/ i = t - 1 /\ gr[i] = s /\ Behind(q, s, n)
  <2>1. CASE i # t - 1
    BY <1>1, <2>1
  <2>2. CASE i = t - 1
    <3>1. gr[i] = s /\ fr[i] = q
      BY <2>2 DEF s, q
    <3> QED BY <1>2, <2>2, <3>1 DEF TakenBy
  <2> QED BY <2>1, <2>2
<1>14. ASSUME NEW i \in 1 .. Len(gr), NEW n \in 1 .. Len(gr[i].decls)
       PROVE  Accounted(gr[i], dx[gr[i].ctx].resolved, gr[i].decls[n])
  <2>1. CASE n \in 1 .. Len(fr[i].decls) /\ gr[i].decls[n] = fr[i].decls[n]
    <3> DEFINE d == fr[i].decls[n]
    <3>1. i \in 1 .. t /\ gr[i].file = fr[i].file /\ gr[i].import = fr[i].import
          /\ gr[i].ctx = fr[i].ctx /\ (i # t - 1 => gr[i] = fr[i])
      BY <1>1
    <3>2. Accounted(fr[i], cx[fr[i].ctx].resolved, d) /\ IsCall(p, fr[i])
      BY <1>7, <2>1, <3>1 DEF AllAccounted, Shape, t
    <3>3. d.at \in Nat
      <4>1. Mirrors(p, d)
        BY <2>1, <3>2 DEF IsCall
      <4>2. d.file \in DOMAIN p /\ p[d.file] # Unparsable /\ d.at \in 1 .. Len(p[d.file])
        BY <4>1 DEF Mirrors
      <4>3. Len(p[d.file]) \in Nat
        BY <1>8, <4>2, ItemAt
      <4> QED BY <4>2, <4>3
    <3> HIDE DEF d
    <3>4. d.at < fr[i].next => d.at < gr[i].next
      <4>1. CASE i # t - 1
        BY <3>1, <4>1
      <4>2. CASE i = t - 1
        <5>1. fr[i].next = q.next /\ gr[i].next = q.next + 1
          BY <1>8, <4>2 DEF s, q
        <5> QED BY <1>8, <3>3, <5>1
      <4> QED BY <4>1, <4>2
    <3>5. cx[fr[i].ctx].resolved \subseteq dx[fr[i].ctx].resolved
      BY <1>10
    <3>6. Accounted(gr[i], dx[gr[i].ctx].resolved, d)
      BY <3>1, <3>2, <3>4, <3>5 DEF Accounted
    <3> QED BY <2>1, <3>6 DEF d
  <2>2. CASE i = t - 1 /\ gr[i] = s /\ Behind(q, s, n)
    <3> DEFINE d == r.decls[h[n]]
               e == s.decls[n]
    <3>1. h[n] \in 1 .. Len(r.decls) /\ SameItem(d, e) /\ (d.filtered => e.filtered)
          /\ (e.filtered \/ (IsPlain(r.import) /\ L = K))
      BY <1>12, <2>2
    <3>2. Accounted(r, cx[r.ctx].resolved, d)
      BY <1>1, <1>7, <3>1 DEF AllAccounted, r, t
    <3>3. gr[i].ctx = L
      BY <1>1, <1>3, <2>2 DEF q
    <3> HIDE DEF d, e
    <3>4. CASE e.filtered
      <4>1. Accounted(s, dx[L].resolved, e)
        BY <3>4 DEF Accounted
      <4> QED BY <2>2, <3>3, <4>1 DEF e
    <3>5. CASE ~ e.filtered
      <4>1. IsPlain(r.import) /\ L = K /\ ~ d.filtered /\ e.file = d.file
        BY <3>1, <3>5 DEF SameItem
      <4>2. d.file \in cx[L].resolved \/ d.file = r.file
        BY <1>3, <3>2, <4>1 DEF Accounted
      <4>3. e.file \in dx[L].resolved
        BY <1>3, <4>1, <4>2
      <4>4. Accounted(s, dx[L].resolved, e)
        BY <4>3 DEF Accounted
      <4> QED BY <2>2, <3>3, <4>4 DEF e
    <3> QED BY <3>4, <3>5
  <2> QED BY <1>13, <2>1, <2>2
\* Of an old and a new declaration, and of two new ones, one is filtered.
<1>15. ASSUME NEW i \in 1 .. Len(gr), NEW m \in 1 .. Len(fr[i].decls), NEW n, Behind(q, s, n),
              fr[i].ctx = L, SameItem(fr[i].decls[m], s.decls[n])
       PROVE  fr[i].decls[m].filtered \/ s.decls[n].filtered
  <2> DEFINE d == r.decls[h[n]]
             e == s.decls[n]
  <2>1. h[n] \in 1 .. Len(r.decls) /\ SameItem(d, e) /\ (d.filtered => e.filtered)
        /\ (e.filtered \/ (IsPlain(r.import) /\ L = K))
    BY <1>12, <1>15
  <2>2. CASE L = K
    <3>1. i \in 1 .. t /\ i # t /\ fr[i].ctx = fr[t].ctx
      BY <1>1, <1>3, <1>15, <2>2 DEF r
    <3>2. Apart(fr, i, m, t, h[n])
      BY <1>1, <1>7, <2>1, <3>1 DEF AllApart, r, t
    <3>3. <<i, m>> # <<t, h[n]>>
      BY <3>1
    <3>4. SameItem(fr[i].decls[m], fr[t].decls[h[n]])
      BY <1>15, <2>1 DEF SameItem, r
    <3>5. fr[i].decls[m].filtered \/ fr[t].decls[h[n]].filtered
      BY <3>1, <3>2, <3>3, <3>4 DEF Apart
    <3> QED BY <2>1, <3>5 DEF r
  <2> QED BY <2>1, <2>2
<1>16. ASSUME NEW m, NEW n, Behind(q, s, m), Behind(q, s, n), m # n,
              SameItem(s.decls[m], s.decls[n])
       PROVE  s.decls[m].filtered \/ s.decls[n].filtered
  <2>1. /\ h[m] \in 1 .. Len(r.decls) /\ SameItem(r.decls[h[m]], s.decls[m])
        /\ (r.decls[h[m]].filtered => s.decls[m].filtered)
    BY <1>12, <1>16
  <2>2. /\ h[n] \in 1 .. Len(r.decls) /\ SameItem(r.decls[h[n]], s.decls[n])
        /\ (r.decls[h[n]].filtered => s.decls[n].filtered)
    BY <1>12, <1>16
  <2>3. h[m] # h[n]
    BY <1>2, <1>16 DEF TakenBy
  <2>4. Apart(fr, t, h[m], t, h[n])
    BY <1>1, <1>7, <2>1, <2>2 DEF AllApart, r, t
  <2>5. SameItem(fr[t].decls[h[m]], fr[t].decls[h[n]]) /\ <<t, h[m]>> # <<t, h[n]>>
    BY <1>16, <2>1, <2>2, <2>3 DEF SameItem, r
  <2>6. fr[t].decls[h[m]].filtered \/ fr[t].decls[h[n]].filtered
    BY <2>4, <2>5 DEF Apart
  <2> QED BY <2>1, <2>2, <2>6 DEF r
<1>17. ASSUME NEW i \in 1 .. Len(gr), NEW j \in 1 .. Len(gr),
              NEW m \in 1 .. Len(gr[i].decls), NEW n \in 1 .. Len(gr[j].decls)
       PROVE  Apart(gr, i, m, j, n)
  <2> DEFINE Old(k, l) == l \in 1 .. Len(fr[k].decls) /\ gr[k].decls[l] = fr[k].decls[l]
             New(k, l) == k = t - 1 /\ gr[k] = s /\ Behind(q, s, l)
  <2>0. /\ gr[i].ctx = fr[i].ctx /\ gr[j].ctx = fr[j].ctx /\ fr[t - 1].ctx = L
        /\ i \in 1 .. Len(fr) /\ j \in 1 .. Len(fr)
    BY <1>1, <1>3 DEF t, q
  <2>1. (Old(i, m) \/ New(i, m)) /\ (Old(j, n) \/ New(j, n))
    BY <1>13
  <2>2. CASE Old(i, m) /\ Old(j, n)
    <3>1. Apart(fr, i, m, j, n)
      BY <1>7, <2>0, <2>2 DEF AllApart
    <3> QED BY <2>0, <2>2, <3>1 DEF Apart
  <2>3. CASE Old(i, m) /\ New(j, n)
    BY <1>15, <2>0, <2>3 DEF Apart
  <2>4. CASE New(i, m) /\ Old(j, n)
    <3>1. SameItem(s.decls[m], gr[j].decls[n]) => SameItem(gr[j].decls[n], s.decls[m])
      BY DEF SameItem
    <3> QED BY <1>15, <2>0, <2>4, <3>1 DEF Apart
  <2>5. CASE New(i, m) /\ New(j, n)
    BY <1>16, <2>5 DEF Apart
  <2> QED BY <2>1, <2>2, <2>3, <2>4, <2>5
<1>18. NoneResolved(gr, dx) /\ AllAccounted(gr, dx) /\ AllApart(gr)
  BY <1>11, <1>14, <1>17 DEF NoneResolved, AllAccounted, AllApart
<1> QED BY <1>18, SingleParts

\* A declaration of the frame that is left is taken over, or the filter of the
\* import left it out, an exported one only a selective import's.
LEMMA CarriedOrLeftOut ==
  ASSUME NEW p, NEW q, NEW r, IsCall(p, r), NEW s, NEW h, TakenBy(p, q, r, s, h),
         NEW c, NEW d, ContextLeft(c, r, d), NEW f, NEW n, CollectedBy(r, f, n)
  PROVE  CollectedBy(s, f, n) \/ LeftOut(p, d, f, n)
<1> DEFINE prog == ReturnedOf(r)
           inc == Included(prog, r.import)
<1>1. PICK m \in 1 .. Len(r.decls) : r.decls[m].file = f /\ r.decls[m].at = n
  BY DEF CollectedBy
<1>2. ReturnsTo(p, r, prog)
  BY ReturnSays
<1> HIDE DEF prog
<1>3. /\ m \in DOMAIN prog /\ DOMAIN prog = 1 .. Len(prog)
      /\ HandsBack(p, r.file, r.decls[m], prog[m]) /\ IsProg(prog)
  BY <1>2 DEF ReturnsTo
<1>4. prog[m].file = f /\ prog[m].at = n /\ Mirrors(p, prog[m])
  BY <1>1, <1>3 DEF HandsBack, SameItem
<1>5. Takes(prog, r.import)
  BY <1>3, IncludedTakes DEF IsCall
<1>6. CASE m \in inc
  <2>1. PICK k : Behind(q, s, k) /\ h[k] = m
    BY <1>6 DEF TakenBy, prog
  <2>2. CarriesOver(p, r, r.decls[m], s.decls[k])
    BY <2>1 DEF TakenBy
  <2>3. s.decls[k].file = f /\ s.decls[k].at = n /\ k \in 1 .. Len(s.decls)
    BY <1>1, <2>1, <2>2 DEF CarriesOver, SameItem, Behind
  <2> QED BY <2>3 DEF CollectedBy
<1>7. CASE m \notin inc
  <2> DEFINE x == Dropped(prog[m], r.import)
  <2>1. x \in d.dropped
    BY <1>3, <1>7 DEF ContextLeft, prog
  <2>2. x.file = f /\ x.at = n /\ x.nested = FALSE /\ (r.import.selected # {} => x.selective)
    BY <1>4 DEF Dropped
  <2>3. CASE r.import.selected = {}
    <3>1. m \notin Wanted(prog, r.import)
      BY <1>3, <1>5, <1>7 DEF Takes, Closed
    <3>2. ~ Exported(prog[m])
      BY <1>3, <2>3, <3>1 DEF Wanted
    <3>3. ~ Exported(p[f][n])
      BY <1>4, <3>2 DEF Mirrors
    <3> HIDE DEF x
    <3> QED BY <2>1, <2>2, <3>3, Zenon DEF LeftOut
  <2>4. CASE r.import.selected # {}
    <3> HIDE DEF x
    <3> QED BY <2>1, <2>2, <2>4, Zenon DEF LeftOut
  <2> QED BY <2>3, <2>4
<1> QED BY <1>6, <1>7

LEMMA LeaveKept ==
  ASSUME NEW p, NEW fr, NEW cx, NEW gr, NEW dx, Shape(p, fr, cx, FALSE), Kept(p, fr, cx),
         Leaving(p, fr), FramesLeft(fr, gr), ContextsLeft(fr, cx, dx)
  PROVE  Kept(p, gr, dx)
<1> DEFINE t == Len(fr)
           r == fr[t]
           q == fr[t - 1]
           s == gr[t - 1]
           L == Len(dx)
           K == Len(cx)
<1>1. /\ t \in Nat /\ t >= 2 /\ Len(gr) = t - 1 /\ IsCall(p, r) /\ IsCall(p, q)
      /\ t \in 1 .. t /\ t - 1 \in 1 .. t /\ t - 1 \in 1 .. Len(gr)
      /\ \A i \in 1 .. Len(gr) :
           /\ i \in 1 .. t /\ i # t /\ (i # t - 1 => gr[i] = fr[i])
           /\ gr[i].file = fr[i].file /\ gr[i].import = fr[i].import
           /\ gr[i].ctx = fr[i].ctx
      /\ \E h : TakenBy(p, q, r, s, h)
  BY LeftDecls
<1>2. PICK h : TakenBy(p, q, r, s, h)
  BY <1>1
<1>3. /\ L \in Nat /\ L = q.ctx /\ r.ctx = K
      /\ K = IF r.import.alias = NoAlias THEN L ELSE L + 1
      /\ \A k \in 1 .. L : k # L => dx[k] = cx[k]
      /\ ContextLeft(cx[L], r, dx[L])
  BY DEF ContextsLeft
<1>4. /\ cx[L].dropped \subseteq dx[L].dropped
      /\ \A f \in dx[L].resolved : f \in cx[L].resolved \/ (f = r.file /\ IsPlain(r.import))
  BY <1>3 DEF ContextLeft
<1>5. /\ s.next = q.next + 1 /\ q.next \in Nat /\ IsProject(p) /\ IsImport(p[q.file][q.next])
      /\ r.next \in Nat /\ r.next > Len(p[r.file]) /\ DOMAIN p[r.file] = 1 .. Len(p[r.file])
      /\ Len(p[r.file]) \in Nat
  <2>1. IsProject(p) /\ s.next = q.next + 1
    BY DEF Shape, FramesLeft
  <2>2. Len(p[q.file]) \in Nat /\ Len(p[r.file]) \in Nat /\ DOMAIN p[r.file] = 1 .. Len(p[r.file])
    BY <1>1, <2>1, ItemAt DEF IsCall
  <2>3. q.next \in 1 .. Len(p[q.file]) + 1 /\ r.next \in 1 .. Len(p[r.file]) + 1
    BY <1>1 DEF IsCall
  <2>4. t - 1 \in 1 .. Len(fr) - 1
    BY <1>1
  <2>5. IsImport(p[q.file][q.next])
    BY <2>4 DEF Shape, Calls
  <2>6. r.next > Len(p[r.file])
    BY DEF Leaving
  <2> QED BY <2>1, <2>2, <2>3, <2>5, <2>6
<1> HIDE DEF t, r, q, s, L, K
<1>6. \A f, n : CollectedBy(q, f, n) => CollectedBy(s, f, n)
  BY <1>2 DEF TakenBy, CollectedBy
<1>7. \A i \in 1 .. Len(gr) : \A f, n : CollectedBy(fr[i], f, n) => CollectedBy(gr[i], f, n)
  BY <1>1, <1>6 DEF q, s
<1>8. \A f, n : CollectedBy(r, f, n) => CollectedBy(s, f, n) \/ LeftOut(p, dx[L], f, n)
  BY <1>1, <1>2, <1>3, CarriedOrLeftOut
<1>9. ASSUME NEW i \in 1 .. Len(gr), NEW n \in 1 .. gr[i].next - 1
      PROVE  IsImport(p[gr[i].file][n]) \/ CollectedBy(gr[i], gr[i].file, n)
  <2>1. i \in 1 .. t /\ gr[i].file = fr[i].file /\ (i # t - 1 => gr[i] = fr[i])
    BY <1>1
  <2>2. CASE n \in 1 .. fr[i].next - 1
    <3>1. IsImport(p[fr[i].file][n]) \/ CollectedBy(fr[i], fr[i].file, n)
      BY <2>1, <2>2 DEF Kept, t
    <3> QED BY <1>7, <2>1, <3>1
  <2>3. CASE n \notin 1 .. fr[i].next - 1
    <3>1. i = t - 1
      BY <2>1, <2>3
    <3>2. gr[i].next = q.next + 1 /\ fr[i].next = q.next /\ gr[i].file = q.file
      BY <1>5, <2>1, <3>1 DEF q, s
    <3>3. n = q.next
      BY <1>5, <2>3, <3>2
    <3> QED BY <1>5, <3>2, <3>3
  <2> QED BY <2>2, <2>3
<1>10. ASSUME NEW k \in 1 .. Len(dx), NEW f \in dx[k].resolved, NEW n \in DOMAIN p[f]
       PROVE  \/ IsImport(p[f][n])
              \/ \E i \in 1 .. Len(gr) : gr[i].ctx = k /\ CollectedBy(gr[i], f, n)
              \/ LeftOut(p, dx[k], f, n)
  <2>0. k \in 1 .. L /\ k \in 1 .. K
    BY <1>3 DEF L
  <2>1. CASE f \in cx[k].resolved
    <3>1. \/ IsImport(p[f][n])
          \/ \E i \in 1 .. t : fr[i].ctx = k /\ CollectedBy(fr[i], f, n)
          \/ LeftOut(p, cx[k], f, n)
      BY <2>0, <2>1 DEF Kept, t, K
    <3>2. CASE LeftOut(p, cx[k], f, n)
      <4>1. cx[k].dropped \subseteq dx[k].dropped
        BY <1>3, <1>4, <2>0
      <4>2. LeftOut(p, dx[k], f, n)
        BY <3>2, <4>1 DEF LeftOut
      <4> QED BY <4>2
    <3>3. CASE \E i \in 1 .. t : fr[i].ctx = k /\ CollectedBy(fr[i], f, n)
      <4>1. PICK i \in 1 .. t : fr[i].ctx = k /\ CollectedBy(fr[i], f, n)
        BY <3>3
      <4>2. CASE i # t
        <5>1. i \in 1 .. Len(gr)
          BY <1>1, <4>2
        <5> QED BY <1>1, <1>7, <4>1, <5>1
      <4>3. CASE i = t
        <5>1. k = K /\ CollectedBy(r, f, n)
          BY <1>3, <4>1, <4>3 DEF r
        <5>2. k = L
          BY <1>3, <2>0, <5>1
        <5>3. CollectedBy(s, f, n) \/ LeftOut(p, dx[k], f, n)
          BY <1>8, <5>1, <5>2
        <5>4. gr[t - 1] = s /\ gr[t - 1].ctx = k
          BY <1>1, <1>3, <5>2 DEF s, q
        <5> QED BY <1>1, <5>3, <5>4
      <4> QED BY <4>2, <4>3
    <3> QED BY <3>1, <3>2, <3>3
  <2>2. CASE f \notin cx[k].resolved
    <3>1. k = L
      BY <1>3, <2>0, <2>2
    <3>2. f = r.file
      BY <1>4, <2>2, <3>1
    <3>3. n \in 1 .. r.next - 1
      BY <1>5, <3>2
    <3>4. IsImport(p[f][n]) \/ CollectedBy(r, f, n)
      BY <1>1, <3>2, <3>3 DEF Kept, r, t
    <3>5. CASE CollectedBy(r, f, n)
      <4>1. CollectedBy(s, f, n) \/ LeftOut(p, dx[k], f, n)
        BY <1>8, <3>1, <3>5
      <4>2. gr[t - 1] = s /\ gr[t - 1].ctx = k
        BY <1>1, <1>3, <3>1 DEF s, q
      <4> QED BY <1>1, <4>1, <4>2
    <3> QED BY <3>4, <3>5
  <2> QED BY <2>1, <2>2
<1> QED BY <1>9, <1>10 DEF Kept

\* The embedded files that a frame has not read, and an error if there are any.
Missing(r) == EmbedsMissing(r.decls, r.file)
Reports(err, r, e) == e = (err \/ Missing(r))

\* e is the m-th declaration of frame r after the walk that reads embedded files.
ReadOut(r, m, e) ==
  /\ e.file = r.decls[m].file
  /\ e.embeds = r.decls[m].embeds \ EmbedsFound(r.file, r.decls[m])
  /\ e.texts = r.decls[m].texts \cup TextsFound(r.decls[m], r.file)

Readable(r, m) == IsSequence(r.decls) /\ ~ Missing(r) /\ m \in 1 .. Len(r.decls)
                  /\ ReadBy(r, r.decls[m])

FromOwnDirectory(e) ==
  AllRead(e) /\ \A x \in e.texts : x.text = ResolveImportPath(e.file, x.path)

\* Without an error every embedded file of the frame is read from its directory.
LEMMA DeclRead ==
  ASSUME NEW r, NEW m, NEW e, Readable(r, m), ReadOut(r, m, e)
  PROVE  FromOwnDirectory(e)
<1> USE DEF Readable, ReadOut
<1> DEFINE d == r.decls[m]
<1>1. \A y \in d.embeds : y.walked => y \in EmbedsFound(r.file, d)
  <2>1. m \in DOMAIN r.decls
    BY SeqTyped
  <2> QED BY <2>1, Zenon DEF Missing, EmbedsMissing
<1>2. AllRead(e)
  BY <1>1 DEF AllRead
<1>3. ASSUME NEW x \in e.texts PROVE x.text = ResolveImportPath(e.file, x.path)
  <2>1. CASE x \in d.texts
    BY <2>1 DEF ReadBy
  <2>2. CASE x \in TextsFound(d, r.file)
    <3>1. PICK y \in EmbedsFound(r.file, d) :
            x = [path |-> y.path, text |-> ResolveImportPath(r.file, y.path)]
      BY <2>2, Zenon DEF TextsFound
    <3>2. d.file = r.file
      <4>1. y \in d.embeds /\ y.walked
        BY <3>1, Zenon DEF EmbedsFound
      <4> QED BY <4>1 DEF ReadBy, AllRead
    <3>3. x.text = ResolveImportPath(r.file, y.path) /\ x.path = y.path
      BY <3>1
    <3> QED BY <3>2, <3>3
  <2> QED BY <2>1, <2>2
<1> QED BY <1>2, <1>3, Zenon DEF FromOwnDirectory

LEMMA LeaveRead ==
  ASSUME NEW p, NEW fr, NEW cx, NEW gr, Shape(p, fr, cx, FALSE), NEW err, Read(fr, FALSE, err),
         FramesLeft(fr, gr), NEW e, Reports(err, fr[Len(fr)], e)
  PROVE  Read(gr, FALSE, e)
<1> DEFINE t == Len(fr)
           r == fr[t]
           q == fr[t - 1]
           s == gr[t - 1]
<1>1. /\ t \in Nat /\ t >= 2 /\ Len(gr) = t - 1 /\ IsCall(p, r) /\ IsCall(p, q)
      /\ t \in 1 .. t /\ t - 1 \in 1 .. t /\ t - 1 \in 1 .. Len(gr)
      /\ \A i \in 1 .. Len(gr) :
           /\ i \in 1 .. t /\ i # t /\ (i # t - 1 => gr[i] = fr[i])
           /\ gr[i].file = fr[i].file /\ gr[i].import = fr[i].import
           /\ gr[i].ctx = fr[i].ctx
      /\ \E h : TakenBy(p, q, r, s, h)
  BY LeftDecls
<1>2. PICK h : TakenBy(p, q, r, s, h)
  BY <1>1
<1>3. e \in BOOLEAN /\ (~ e => ~ err /\ ~ Missing(r))
  BY DEF Reports, Read
<1> HIDE DEF t, r, q, s
<1>4. SUFFICES ASSUME ~ e, NEW i \in 1 .. Len(gr), NEW n \in 1 .. Len(gr[i].decls)
               PROVE  ReadBy(gr[i], gr[i].decls[n])
  BY <1>3, Zenon DEF Read
<1>5. ~ err /\ ~ Missing(r)
  BY <1>3, <1>4
<1>6. \A k \in 1 .. t : \A m \in 1 .. Len(fr[k].decls) : ReadBy(fr[k], fr[k].decls[m])
  BY <1>5, Zenon DEF Read, t
<1>7. CASE i # t - 1
  BY <1>1, <1>6, <1>7
<1>8. CASE i = t - 1 /\ n \in 1 .. Len(q.decls)
  <2>1. gr[i] = s /\ s.decls[n] = q.decls[n] /\ ReadBy(q, q.decls[n]) /\ s.file = q.file
    BY <1>1, <1>2, <1>6, <1>8 DEF q, s, TakenBy
  <2> QED BY <2>1 DEF ReadBy
<1>9. CASE i = t - 1 /\ n \notin 1 .. Len(q.decls)
  <2>1. gr[i] = s /\ Behind(q, s, n)
    BY <1>2, <1>9 DEF s, TakenBy
  <2>2. h[n] \in 1 .. Len(r.decls) /\ CarriesOver(p, r, r.decls[h[n]], s.decls[n])
    BY <1>2, <2>1 DEF TakenBy
  <2>3. ReadBy(r, r.decls[h[n]]) /\ IsSequence(r.decls)
    BY <1>1, <1>6, <2>2 DEF r, IsCall
  <2> DEFINE x == s.decls[n]
  <2>4. ReadOut(r, h[n], x)
    BY <2>2 DEF CarriesOver, SameItem, ReadOut
  <2> HIDE DEF x
  <2>5. Readable(r, h[n])
    BY <1>5, <2>2, <2>3, Zenon DEF Readable
  <2>6. FromOwnDirectory(x)
    BY <2>4, <2>5, DeclRead, Zenon
  <2>7. ReadBy(gr[i], x)
    BY <2>6, Zenon DEF FromOwnDirectory, ReadBy
  <2> QED BY <2>1, <2>7 DEF x
<1> QED BY <1>7, <1>8, <1>9

LEMMA LeaveKeeps ==
  ASSUME NEW p, NEW fr, NEW cx, NEW err, Inv(p, fr, cx, FALSE, err), Leaving(p, fr),
         NEW e, Reports(err, fr[Len(fr)], e)
  PROVE  Inv(p, LeftFrames(fr), LeftCtxs(cx, fr[Len(fr)]), FALSE, e)
<1> DEFINE gr == LeftFrames(fr)
           dx == LeftCtxs(cx, fr[Len(fr)])
<1>1. Shape(p, fr, cx, FALSE) /\ Stacked(fr, cx, FALSE) /\ Single(fr, cx) /\ Kept(p, fr, cx)
      /\ Read(fr, FALSE, err)
  BY DEF Inv
<1>2. FramesLeft(fr, gr) /\ ContextsLeft(fr, cx, dx)
  BY <1>1, LeaveFrames, LeaveContexts
<1> HIDE DEF gr, dx
<1>3. Shape(p, gr, dx, FALSE) /\ Stacked(gr, dx, FALSE) /\ Single(gr, dx) /\ Kept(p, gr, dx)
  BY <1>1, <1>2, LeaveShape, LeaveStacked, LeaveSingle, LeaveKept
<1>4. Read(gr, FALSE, e)
  BY <1>1, <1>2, LeaveRead
<1> QED BY <1>3, <1>4 DEF Inv, gr, dx

-----------------------------------------------------------------------------
(* The outermost call returns.                                               *)

FinishedFrame(r) == [r EXCEPT !.decls = ReturnedOf(r)]
FinishedCtxs(cx) == [cx EXCEPT ![1].chain = Front(@)]

Finishing(p, fr) == Len(fr) = 1 /\ fr[Len(fr)].next > Len(p[fr[Len(fr)].file])

\* What changes.
FinishedTo(p, r, s, c, d) ==
  /\ IsCall(p, s) /\ s.file = r.file /\ s.import = r.import /\ s.ctx = r.ctx /\ s.next = r.next
  /\ s.decls = ReturnedOf(r) /\ ReturnsTo(p, r, s.decls)
  /\ IsContext(d) /\ d.active = c.active /\ d.resolved = c.resolved /\ d.dropped = c.dropped

LEMMA FinishSays ==
  ASSUME NEW p, NEW fr, NEW cx, Shape(p, fr, cx, FALSE), Finishing(p, fr)
  PROVE  LET gr == Topped(fr, FinishedFrame(fr[Len(fr)]))
             dx == FinishedCtxs(cx)
         IN  /\ IsSequence(gr) /\ Len(gr) = 1 /\ IsSequence(dx) /\ Len(dx) = 1 /\ Len(cx) = 1
             /\ IsCall(p, fr[1]) /\ FinishedTo(p, fr[1], gr[1], cx[1], dx[1])
<1> DEFINE r == fr[1]
           s == FinishedFrame(r)
           gr == Topped(fr, s)
           prog == ReturnedOf(r)
           c == cx[1]
           x == Front(c.chain)
           d == [c EXCEPT !.chain = x]
           dx == FinishedCtxs(cx)
<1>1. Len(fr) = 1 /\ IsSequence(fr) /\ IsSequence(cx) /\ Len(cx) = 1 /\ 1 \in 1 .. 1
  <2>1. Len(fr) = 1 /\ IsSequence(fr) /\ IsSequence(cx) /\ fr[1].ctx = 1
        /\ fr[Len(fr)].ctx = Len(cx)
    BY DEF Finishing, Shape
  <2>2. fr[Len(fr)] = fr[1]
    BY <2>1
  <2>3. Len(cx) = 1
    BY <2>1, <2>2
  <2>4. 1 \in 1 .. 1
    OBVIOUS
  <2> QED BY <2>1, <2>3, <2>4, Zenon
<1>2. IsCall(p, r) /\ IsContext(c)
  BY <1>1 DEF Shape
<1>3. ReturnsTo(p, r, prog)
  BY <1>2, ReturnSays
<1>4. IsFrame(r)
  BY <1>2 DEF IsCall
<1> HIDE DEF r, c
<1>5. s = [r EXCEPT !.decls = prog]
  BY DEF FinishedFrame
<1> HIDE DEF prog, s
<1>6. /\ IsFrame(s) /\ s.file = r.file /\ s.import = r.import /\ s.ctx = r.ctx /\ s.next = r.next
      /\ s.decls = prog
  BY <1>4, <1>5 DEF IsFrame
<1>7. IsCall(p, s)
  <2>1. IsSequence(prog) /\ \A n \in 1 .. Len(prog) : Mirrors(p, prog[n])
    BY <1>3 DEF ReturnsTo, HandsBack
  <2> QED BY <1>2, <1>6, <2>1 DEF IsCall
<1> HIDE DEF x
<1>8. IsContext(d) /\ d.active = c.active /\ d.resolved = c.resolved /\ d.dropped = c.dropped
  BY <1>2 DEF IsContext
<1>9. dx = [cx EXCEPT ![1] = d]
  BY DEF FinishedCtxs, d, x, c
<1> HIDE DEF d, dx, gr
<1>10. IsSequence(dx) /\ Len(dx) = 1 /\ dx[1] = d
  <2> DEFINE ex == [cx EXCEPT ![1] = d]
  <2>0. IsSequence(cx) /\ 1 \in 1 .. Len(cx)
    BY <1>1
  <2>1. IsSequence(ex) /\ Len(ex) = Len(cx) /\ ex[1] = d
    BY <2>0, ExceptIs
  <2> HIDE DEF ex
  <2>2. dx = ex
    BY <1>9 DEF ex
  <2> QED BY <1>1, <2>1, <2>2
<1>11. IsSequence(gr) /\ Len(gr) = 1 /\ gr[1] = s
  <2>1. IsSequence(gr) /\ Len(gr) = Len(fr) /\ gr[Len(fr)] = s
    BY <1>1, ToppedIs DEF gr
  <2> QED BY <1>1, <2>1
<1>12. FinishedTo(p, r, gr[1], c, dx[1])
  BY <1>3, <1>6, <1>7, <1>8, <1>10, <1>11 DEF FinishedTo, prog
<1>13. gr = Topped(fr, FinishedFrame(fr[Len(fr)]))
  BY <1>1 DEF gr, s, r
<1> QED BY <1>1, <1>2, <1>10, <1>11, <1>12, <1>13 DEF r, c, dx

LEMMA FinishKeeps ==
  ASSUME NEW p, NEW fr, NEW cx, NEW err, Inv(p, fr, cx, FALSE, err), Finishing(p, fr),
         NEW e, Reports(err, fr[Len(fr)], e)
  PROVE  Inv(p, Topped(fr, FinishedFrame(fr[Len(fr)])), FinishedCtxs(cx), TRUE, e)
<1> DEFINE gr == Topped(fr, FinishedFrame(fr[Len(fr)]))
           dx == FinishedCtxs(cx)
           r == fr[1]
           s == gr[1]
<1>1. Shape(p, fr, cx, FALSE) /\ Stacked(fr, cx, FALSE) /\ Single(fr, cx) /\ Kept(p, fr, cx)
      /\ Read(fr, FALSE, err)
  BY DEF Inv
<1>2. /\ IsSequence(gr) /\ Len(gr) = 1 /\ IsSequence(dx) /\ Len(dx) = 1 /\ Len(cx) = 1
      /\ IsCall(p, r) /\ FinishedTo(p, r, s, cx[1], dx[1])
  BY <1>1, FinishSays
<1>3. Len(fr) = 1 /\ r.next > Len(p[r.file]) /\ r.ctx = 1 /\ IsProject(p)
  BY <1>1 DEF Finishing, Shape
<1> HIDE DEF gr, dx, r, s
<1>4. /\ IsCall(p, s) /\ s.file = r.file /\ s.import = r.import /\ s.ctx = 1 /\ s.next = r.next
      /\ ReturnsTo(p, r, s.decls)
      /\ IsContext(dx[1]) /\ dx[1].active = cx[1].active /\ dx[1].resolved = cx[1].resolved
      /\ dx[1].dropped = cx[1].dropped
  BY <1>2, <1>3 DEF FinishedTo
<1>5. \A i \in 1 .. 1 : i = 1 /\ gr[i] = s /\ fr[i] = r
  BY DEF r, s
<1>6. /\ Len(s.decls) = Len(r.decls)
      /\ \A n \in 1 .. Len(s.decls) :
           SameItem(r.decls[n], s.decls[n]) /\ s.decls[n].filtered = r.decls[n].filtered
  BY <1>4 DEF ReturnsTo, HandsBack
<1>7. Shape(p, gr, dx, TRUE)
  <2>1. \A i \in 1 .. Len(gr) : IsCall(p, gr[i])
    BY <1>2, <1>4, <1>5
  <2>2. \A k \in 1 .. Len(dx) : IsContext(dx[k])
    BY <1>2, <1>4
  <2>3. \A i, j \in 1 .. Len(gr) : i <= j => gr[i].ctx <= gr[j].ctx
    BY <1>2, <1>4, <1>5
  <2>4. gr[1] = s /\ gr[Len(gr)] = s
    BY <1>2 DEF s
  <2>5. \A i \in 1 .. Len(gr) - 1 : Calls(p, gr[i], gr[i + 1])
    BY <1>2
  <2> QED BY <1>2, <1>3, <1>4, <2>1, <2>2, <2>3, <2>4, <2>5 DEF Shape
<1>8. Stacked(gr, dx, TRUE)
  <2>1. cx[1].active = FilesUpto(fr, 1)
    <3>1. 1 \in 1 .. Len(fr) /\ LastOf(fr, 1) /\ Known(fr, 1) = 1
      BY <1>3 DEF LastOf, Known
    <3>2. fr[1].ctx = 1
      BY <1>3 DEF r
    <3> QED BY <1>1, <3>1, <3>2 DEF Stacked
  <2>2. FilesUpto(gr, 1) = FilesUpto(fr, 1)
    <3>1. \A i \in 1 .. 1 : gr[i].file = fr[i].file
      BY <1>4, <1>5
    <3> QED BY <3>1 DEF FilesUpto
  <2>3. Known(gr, 1) = 1
    BY <1>2 DEF Known
  <2> QED BY <1>2, <1>4, <1>5, <2>1, <2>2, <2>3 DEF Stacked
<1>9. Single(gr, dx)
  <2>1. NoneResolved(fr, cx) /\ AllAccounted(fr, cx) /\ AllApart(fr)
    BY <1>1, SingleParts
  <2>2. NoneResolved(gr, dx)
    BY <1>2, <1>3, <1>4, <1>5, <2>1 DEF NoneResolved
  <2>3. ASSUME NEW n \in 1 .. Len(s.decls) PROVE Accounted(s, dx[1].resolved, s.decls[n])
    <3>1. Accounted(r, cx[1].resolved, r.decls[n])
      BY <1>3, <1>5, <1>6, <2>1 DEF AllAccounted
    <3>2. /\ SameItem(r.decls[n], s.decls[n]) /\ s.decls[n].filtered = r.decls[n].filtered
          /\ s.file = r.file /\ s.import = r.import /\ s.next = r.next
          /\ dx[1].resolved = cx[1].resolved
      BY <1>4, <1>6, Zenon
    <3> QED BY <3>1, <3>2 DEF Accounted, SameItem
  <2>4. ASSUME NEW m \in 1 .. Len(s.decls), NEW n \in 1 .. Len(s.decls) PROVE Apart(gr, 1, m, 1, n)
    <3>1. Apart(fr, 1, m, 1, n)
      BY <1>3, <1>5, <1>6, <2>1 DEF AllApart
    <3>2. gr[1].decls = s.decls /\ fr[1].decls = r.decls /\ gr[1].ctx = fr[1].ctx
      BY <1>3, <1>4, <1>5
    <3>3. /\ SameItem(r.decls[m], s.decls[m]) /\ s.decls[m].filtered = r.decls[m].filtered
          /\ SameItem(r.decls[n], s.decls[n]) /\ s.decls[n].filtered = r.decls[n].filtered
      BY <1>6, Zenon
    <3>4. SameItem(s.decls[m], s.decls[n]) => SameItem(r.decls[m], r.decls[n])
      BY <3>3, Zenon DEF SameItem
    <3> QED BY <3>1, <3>2, <3>3, <3>4, Zenon DEF Apart
  <2>5. AllAccounted(gr, dx) /\ AllApart(gr)
    BY <1>2, <1>4, <1>5, <2>3, <2>4 DEF AllAccounted, AllApart
  <2> QED BY <2>2, <2>5, SingleParts
<1>10. Kept(p, gr, dx)
  <2>1. \A f, n : CollectedBy(r, f, n) => CollectedBy(s, f, n)
    BY <1>6 DEF CollectedBy, SameItem
  <2>2. ASSUME NEW i \in 1 .. Len(gr), NEW n \in 1 .. gr[i].next - 1
        PROVE  IsImport(p[gr[i].file][n]) \/ CollectedBy(gr[i], gr[i].file, n)
    <3>1. i = 1 /\ gr[i] = s /\ fr[1] = r /\ 1 \in 1 .. Len(fr) /\ n \in 1 .. r.next - 1
      BY <1>2, <1>3, <1>4, <1>5
    <3>2. IsImport(p[r.file][n]) \/ CollectedBy(r, r.file, n)
      BY <1>1, <3>1 DEF Kept
    <3> QED BY <1>4, <2>1, <3>1, <3>2
  <2>3. ASSUME NEW k \in 1 .. Len(dx), NEW f \in dx[k].resolved, NEW n \in DOMAIN p[f]
        PROVE  \/ IsImport(p[f][n])
               \/ \E i \in 1 .. Len(gr) : gr[i].ctx = k /\ CollectedBy(gr[i], f, n)
               \/ LeftOut(p, dx[k], f, n)
    <3>1. k = 1 /\ k \in 1 .. Len(cx) /\ f \in cx[k].resolved
      BY <1>2, <1>4
    <3>2. \/ IsImport(p[f][n])
          \/ \E i \in 1 .. Len(fr) : fr[i].ctx = k /\ CollectedBy(fr[i], f, n)
          \/ LeftOut(p, cx[k], f, n)
      BY <1>1, <3>1 DEF Kept
    <3>3. LeftOut(p, cx[k], f, n) => LeftOut(p, dx[k], f, n)
      BY <1>4, <3>1 DEF LeftOut
    <3>4. 1 \in 1 .. Len(gr) /\ gr[1].ctx = k /\ gr[1] = s
      BY <1>2, <1>4, <3>1 DEF s
    <3>5. \A i \in 1 .. Len(fr) : fr[i] = r
      BY <1>3, <1>5
    <3> QED BY <2>1, <3>2, <3>3, <3>4, <3>5
  <2> QED BY <2>2, <2>3 DEF Kept
<1>11. Read(gr, TRUE, e)
  <2>1. e \in BOOLEAN /\ (~ e => ~ err /\ ~ Missing(r))
    BY <1>1, <1>3 DEF Reports, Read, r
  <2>2. SUFFICES ASSUME ~ e, NEW i \in 1 .. Len(gr), NEW n \in 1 .. Len(gr[i].decls)
                 PROVE  ReadBy(gr[i], gr[i].decls[n]) /\ AllRead(gr[i].decls[n])
    BY <2>1, Zenon DEF Read
  <2>3. ~ err /\ ~ Missing(r)
    BY <2>1, <2>2
  <2>4. gr[i] = s /\ n \in 1 .. Len(s.decls) /\ n \in 1 .. Len(r.decls)
    BY <1>2, <1>5, <1>6
  <2>5. \A k \in 1 .. Len(fr) : \A m \in 1 .. Len(fr[k].decls) : ReadBy(fr[k], fr[k].decls[m])
    BY <1>1, <2>3, Zenon DEF Read
  <2>6. ReadBy(r, r.decls[n]) /\ IsSequence(r.decls)
    BY <1>2, <1>3, <2>4, <2>5 DEF r, IsCall
  <2> DEFINE x == s.decls[n]
  <2>7. HandsBack(p, r.file, r.decls[n], x)
    BY <1>4, <2>4 DEF ReturnsTo
  <2>8. ReadOut(r, n, x)
    BY <2>7 DEF HandsBack, SameItem, ReadOut
  <2> HIDE DEF x
  <2>9. Readable(r, n)
    BY <2>3, <2>4, <2>6, Zenon DEF Readable
  <2>10. FromOwnDirectory(x)
    BY <2>8, <2>9, DeclRead, Zenon
  <2>11. ReadBy(gr[i], x)
    BY <2>10, Zenon DEF FromOwnDirectory, ReadBy
  <2> QED BY <2>4, <2>10, <2>11 DEF x, FromOwnDirectory
<1> QED BY <1>7, <1>8, <1>9, <1>10, <1>11 DEF Inv, gr, dx

-----------------------------------------------------------------------------
(* The invariant holds initially and every step keeps it.                    *)

FirstFrame == EnteredFrame(Import(Absolute(Root), NoAlias, {}), Root, 1)
FirstCtx == [active |-> {Root}, resolved |-> {}, chain |-> <<Root>>, dropped |-> {}]

LEMMA FirstInv ==
  ASSUME NEW p, IsProject(p)
  PROVE  Inv(p, <<FirstFrame>>, <<FirstCtx>>, FALSE, FALSE)
<1> DEFINE fr == <<FirstFrame>>
           cx == <<FirstCtx>>
           r == fr[1]
           c == cx[1]
           item == Import(Absolute(Root), NoAlias, {})
<1>1. IsSequence(fr) /\ Len(fr) = 1 /\ IsSequence(cx) /\ Len(cx) = 1 /\ fr[1] = FirstFrame
      /\ cx[1] = FirstCtx
  BY DEF IsSequence
<1>2. /\ IsFrame(FirstFrame) /\ FirstFrame.file = Root /\ FirstFrame.import = item
      /\ FirstFrame.ctx = 1 /\ FirstFrame.next = 1 /\ FirstFrame.decls = <<>>
  BY DEF FirstFrame, EnteredFrame, Frame, IsFrame
<1>3. item.selected = {}
  BY DEF Import
<1>4. /\ IsContext(FirstCtx) /\ FirstCtx.active = {Root} /\ FirstCtx.resolved = {}
      /\ FirstCtx.chain = <<Root>>
  BY DEF FirstCtx, IsContext
<1> HIDE DEF fr, cx, item
<1>5. \A i \in 1 .. Len(fr) : i = 1 /\ fr[i] = r /\ Len(fr) = 1
  BY <1>1
<1>6. /\ IsFrame(r) /\ r.file = Root /\ r.import.selected = {} /\ r.ctx = 1 /\ r.next = 1
      /\ r.decls = <<>> /\ Len(r.decls) = 0 /\ IsSequence(r.decls)
  <2>1. Len(<<>>) = 0 /\ IsSequence(<<>>)
    BY DEF IsSequence
  <2>2. IsFrame(r) /\ r.file = Root /\ r.import = item /\ r.ctx = 1 /\ r.next = 1 /\ r.decls = <<>>
    BY <1>1, <1>2
  <2> QED BY <1>3, <2>1, <2>2
<1>7. IsContext(c) /\ c.active = {Root} /\ c.resolved = {} /\ c.chain = <<Root>>
  BY <1>1, <1>4
<1> HIDE DEF r, c
<1>8. \A n \in 1 .. Len(r.decls) : FALSE
  BY <1>6
<1>9. Shape(p, fr, cx, FALSE)
  <2>1. Root \in DOMAIN p /\ p[Root] # Unparsable
    BY DEF IsProject
  <2>2. Len(p[Root]) \in Nat
    BY <2>1, ItemAt
  <2>3. 1 \in 1 .. Len(p[Root]) + 1
    BY <2>2
  <2>4. IsCall(p, r)
    BY <1>6, <1>8, <2>1, <2>3 DEF IsCall
  <2>5. /\ \A i \in 1 .. Len(fr) : IsCall(p, fr[i])
        /\ \A i, j \in 1 .. Len(fr) : i <= j => fr[i].ctx <= fr[j].ctx
    BY <1>5, <1>6, <2>4
  <2>6. \A k \in 1 .. Len(cx) : IsContext(cx[k])
    BY <1>1, <1>7 DEF c
  <2>7. \A i \in 1 .. Len(fr) - 1 : Calls(p, fr[i], fr[i + 1])
    BY <1>1
  <2>8. fr[1].ctx = 1 /\ fr[Len(fr)].ctx = Len(cx) /\ Len(fr) >= 1
    BY <1>1, <1>6 DEF r
  <2> QED BY <1>1, <2>5, <2>6, <2>7, <2>8 DEF Shape
<1>10. Stacked(fr, cx, FALSE)
  <2>1. fr[1] = r /\ cx[1] = c /\ Known(fr, 1) = 1
    BY <1>1 DEF r, c, Known
  <2>2. FilesUpto(fr, 1) = {Root}
    <3>1. \A i \in 1 .. 1 : fr[i].file = Root
      BY <1>6, <2>1
    <3>2. 1 \in 1 .. 1
      OBVIOUS
    <3> QED BY <3>1, <3>2 DEF FilesUpto
  <2>3. ChainUpto(fr, 1) = <<Root>>
    <3>1. \A i \in 1 .. 1 : fr[i].file = Root
      BY <1>6, <2>1
    <3> QED BY <3>1 DEF ChainUpto
  <2> QED BY <1>5, <1>6, <1>7, <2>1, <2>2, <2>3 DEF Stacked
<1>11. Single(fr, cx)
  <2>1. NoneResolved(fr, cx)
    BY <1>5, <1>6, <1>7 DEF NoneResolved, c
  <2>2. AllAccounted(fr, cx) /\ AllApart(fr)
    BY <1>5, <1>8 DEF AllAccounted, AllApart
  <2> QED BY <2>1, <2>2, SingleParts
<1>12. Kept(p, fr, cx)
  <2>1. \A n \in 1 .. r.next - 1 : FALSE
    BY <1>6
  <2>2. \A k \in 1 .. Len(cx) : cx[k].resolved = {}
    BY <1>1, <1>7 DEF c
  <2> QED BY <1>5, <2>1, <2>2 DEF Kept
<1>13. Read(fr, FALSE, FALSE)
  BY <1>5, <1>8 DEF Read
<1> QED BY <1>9, <1>10, <1>11, <1>12, <1>13 DEF Inv, fr, cx

LEMMA ResolveInit == Init => ResolveInv
<1> SUFFICES ASSUME Init PROVE ResolveInv
  OBVIOUS
<1>1. project \in Projects /\ hadError = FALSE /\ finished = FALSE
  BY DEF Init
<1>2. IsProject(project)
  BY <1>1, ProjectsAssumption
<1>3. frames = <<FirstFrame>> /\ ctxs = <<FirstCtx>>
  BY Zenon DEF Init, FirstFrame, FirstCtx, EnteredFrame
<1>4. Inv(project, <<FirstFrame>>, <<FirstCtx>>, FALSE, FALSE)
  BY <1>2, FirstInv
<1> QED BY <1>1, <1>3, <1>4, Zenon DEF ResolveInv

LEMMA TopSays ==
  ASSUME ResolveInv
  PROVE  /\ Top = frames[Len(frames)] /\ TopCtx = ctxs[Len(ctxs)]
         /\ IsProject(project) /\ IsCall(project, Top) /\ finished \in BOOLEAN
         /\ hadError \in BOOLEAN
<1>1. Shape(project, frames, ctxs, finished)
  BY DEF ResolveInv, Inv
<1>2. hadError \in BOOLEAN
  BY DEF ResolveInv, Inv, Read
<1>3. /\ IsSequence(frames) /\ IsSequence(ctxs) /\ Len(frames) >= 1 /\ Len(ctxs) >= 1
      /\ Len(frames) \in 1 .. Len(frames)
  BY <1>1, ContextCount DEF Shape
<1>4. Top = frames[Len(frames)] /\ TopCtx = ctxs[Len(ctxs)]
  BY <1>3, FrontIs DEF Top, TopCtx
<1>5. IsProject(project) /\ IsCall(project, Top) /\ finished \in BOOLEAN
  BY <1>1, <1>3, <1>4 DEF Shape
<1> QED BY <1>2, <1>4, <1>5

LEMMA Unfinished ==
  ASSUME ResolveInv, ~ finished
  PROVE  Inv(project, frames, ctxs, FALSE, hadError) /\ finished = FALSE
<1>1. finished = FALSE
  BY TopSays
<1> QED BY <1>1, Zenon DEF ResolveInv

\* The steps that only deal with the next item of the innermost frame.
LEMMA AdvanceStep ==
  ASSUME ResolveInv, ~ finished, UNCHANGED <<project, ctxs, finished>>,
         NEW s, Advances(project, Top, s), frames' = ReplaceTop(s),
         Remembers(hadError, hadError')
  PROVE  ResolveInv'
<1>1. Inv(project, frames, ctxs, FALSE, hadError) /\ finished = FALSE
  BY Unfinished
<1>2. Advances(project, frames[Len(frames)], s)
  BY TopSays
<1>3. PICK e : e = hadError'
  OBVIOUS
<1>4. Remembers(hadError, e)
  BY <1>3, Zenon
<1>5. Inv(project, Topped(frames, s), ctxs, FALSE, e)
  BY <1>1, <1>2, <1>4, AdvanceKeeps, Zenon
<1>6. frames' = Topped(frames, s)
  BY DEF ReplaceTop, Topped
<1>7. project' = project /\ ctxs' = ctxs /\ finished' = FALSE
  BY <1>1
<1> QED BY <1>3, <1>5, <1>6, <1>7, Zenon DEF ResolveInv

\* An import that is passed over.
LEMMA PassStep ==
  ASSUME ResolveInv, AtItem, IsImport(Item), UNCHANGED <<project, ctxs, finished>>,
         frames' = ReplaceTop(Advanced(Top)), Remembers(hadError, hadError')
  PROVE  ResolveInv'
<1> DEFINE r == Top
           s == Advanced(r)
<1>1. IsFrame(r) /\ r.next <= Len(project[r.file]) /\ ~ finished
  BY TopSays DEF IsCall, AtItem, Items
<1>2. IsImport(project[r.file][r.next])
  BY DEF Item, Items
<1> HIDE DEF r
<1>3. s.decls = r.decls /\ s = [r EXCEPT !.next = @ + 1, !.decls = s.decls]
  BY <1>1 DEF Advanced, IsFrame
<1>4. frames' = ReplaceTop(s)
  BY DEF r
<1> HIDE DEF s
<1>5. Advances(project, r, s)
  BY <1>1, <1>2, <1>3 DEF Advances
<1> QED BY <1>1, <1>4, <1>5, AdvanceStep DEF r

LEMMA TakeDeclarationStep == ASSUME ResolveInv, TakeDeclaration PROVE ResolveInv'
<1> DEFINE r == Top
           d == [Item EXCEPT !.filtered = Top.import.selected # {}]
           D == Append(Advanced(r).decls, d)
           s == [Advanced(r) EXCEPT !.decls = D]
<1>1. IsFrame(r) /\ r.next <= Len(project[r.file]) /\ ~ finished
  BY TopSays DEF IsCall, TakeDeclaration, AtItem, Items
<1>2. ~ IsImport(project[r.file][r.next]) /\ Item = project[r.file][r.next]
  BY DEF TakeDeclaration, Item, Items
<1>3. /\ frames' = ReplaceTop(s) /\ UNCHANGED <<project, ctxs, finished>>
      /\ hadError' = hadError
  BY Zenon DEF TakeDeclaration
<1>4. d = [project[r.file][r.next] EXCEPT !.filtered = r.import.selected # {}]
  BY <1>2, Zenon
<1> HIDE DEF r, d
<1>5. D = Append(r.decls, d)
  BY <1>1 DEF Advanced, IsFrame
<1> HIDE DEF D
<1>6. s.decls = D /\ s = [r EXCEPT !.next = @ + 1, !.decls = D]
  BY <1>1 DEF Advanced, IsFrame
<1> HIDE DEF s
<1>7. Advances(project, r, s)
  <2>1. s = [r EXCEPT !.next = @ + 1, !.decls = s.decls]
    BY <1>6, Zenon
  <2>2. s.decls = Append(r.decls, [project[r.file][r.next] EXCEPT !.filtered = r.import.selected # {}])
    BY <1>4, <1>5, <1>6, Zenon
  <2> QED BY <1>1, <1>2, <2>1, <2>2, Zenon DEF Advances
<1>8. Remembers(hadError, hadError')
  BY <1>3, TopSays, Zenon DEF Remembers
<1> QED BY <1>1, <1>3, <1>7, <1>8, AdvanceStep DEF r

LEMMA PassedOverStep ==
  ASSUME ResolveInv, ImportUnresolved \/ ImportCircular \/ ImportAgain \/ ImportBroken
  PROVE  ResolveInv'
<1>1. /\ AtItem /\ IsImport(Item) /\ UNCHANGED <<project, ctxs, finished>>
      /\ frames' = ReplaceTop(Advanced(Top))
      /\ hadError' = TRUE \/ hadError' = hadError
  BY Zenon DEF ImportUnresolved, ImportCircular, ImportAgain, ImportBroken
<1>2. Remembers(hadError, hadError')
  <2>1. hadError \in BOOLEAN
    BY TopSays
  <2>2. hadError' \in BOOLEAN
    BY <1>1, <2>1
  <2>3. CASE hadError' = TRUE
    BY <2>3, Zenon DEF Remembers
  <2>4. CASE hadError' = hadError
    BY <2>2, <2>4, Zenon DEF Remembers
  <2> QED BY <1>1, <2>3, <2>4
<1> QED BY <1>1, <1>2, PassStep

LEMMA EnterImportStep == ASSUME ResolveInv, EnterImport PROVE ResolveInv'
<1> DEFINE g == ItemFile
           item == Item
           r == Top
           dx == EnteredCtxs(ctxs, item, g)
           K == Len(ctxs)
<1>1. /\ Top = frames[Len(frames)] /\ TopCtx = ctxs[K] /\ IsProject(project)
      /\ IsCall(project, Top) /\ finished \in BOOLEAN
  BY TopSays
<1>2. /\ ~ finished /\ r.next <= Len(project[r.file]) /\ IsImport(item) /\ MustLoad
      /\ project[g] # Unparsable /\ item = project[r.file][r.next]
      /\ UNCHANGED <<project, hadError, finished>>
  BY DEF EnterImport, AtItem, Item, Items
<1>3. Inv(project, frames, ctxs, FALSE, hadError) /\ finished = FALSE
  BY <1>2, Unfinished
<1>4. /\ ctxs' = (IF item.alias = NoAlias
                  THEN [ctxs EXCEPT ![K] = EnteredCtx(TopCtx, g)]
                  ELSE Append([ctxs EXCEPT ![K] = EnteredCtx(TopCtx, g)],
                              ChildContext(EnteredCtx(TopCtx, g))))
      /\ frames' = Append(frames, EnteredFrame(item, g, Len(ctxs')))
  BY Zenon DEF EnterImport, EnteredCtx, EnteredFrame
<1>5. ctxs' = dx
  BY <1>1, <1>4, Zenon DEF EnteredCtxs
<1>6. frames' = Append(frames, EnteredFrame(item, g, Len(dx)))
  BY <1>4, <1>5, Zenon
<1>7. g # NotFound /\ g \notin TopCtx.active /\ ~ (IsPlain(item) /\ g \in TopCtx.resolved)
  BY <1>2 DEF MustLoad
<1>8. g = ResolveImportPath(r.file, item.path)
  BY DEF ItemFile
<1> HIDE DEF r, item, g, dx
<1>9. g \in DOMAIN project /\ <<>> \notin item.selected
  <2>1. r.file \in DOMAIN project /\ project[r.file] # Unparsable
        /\ r.next \in 1 .. Len(project[r.file]) + 1
    BY <1>1 DEF IsCall, r
  <2>2. Len(project[r.file]) \in Nat
    BY <1>1, <2>1, ItemAt
  <2>3. r.next \in 1 .. Len(project[r.file])
    BY <1>2, <2>1, <2>2
  <2>4. IsItem(r.file, r.next, item) /\ ResolveImportPath(r.file, item.path) \in DOMAIN project \cup {NotFound}
    BY <1>1, <1>2, <2>1, <2>3, ItemAt
  <2> QED BY <1>2, <1>7, <1>8, <2>4 DEF IsItem
<1>10. Entering(project, frames, ctxs, item, g)
  <2>1. frames[Len(frames)] = r
    BY <1>1 DEF r
  <2> QED BY <1>1, <1>2, <1>7, <1>9, <2>1 DEF Entering
<1>11. Inv(project, Append(frames, EnteredFrame(item, g, Len(dx))), dx, FALSE, hadError)
  BY <1>3, <1>10, EnterKeeps, Zenon DEF dx
<1>12. project' = project /\ hadError' = hadError /\ finished' = FALSE
  BY <1>2, <1>3
<1> QED BY <1>5, <1>6, <1>11, <1>12, Zenon DEF ResolveInv

LEMMA LeaveImportStep == ASSUME ResolveInv, LeaveImport PROVE ResolveInv'
<1> DEFINE r == Top
           q == frames[Len(frames) - 1]
           outer == OuterCtxs(ctxs, r)
<1>1. /\ Top = frames[Len(frames)] /\ TopCtx = ctxs[Len(ctxs)] /\ finished \in BOOLEAN
  BY TopSays
<1>2. /\ ~ finished /\ r.next > Len(project[r.file]) /\ Len(frames) > 1
      /\ UNCHANGED <<project, finished>>
      /\ hadError' = (hadError \/ Missing(r))
  BY DEF LeaveImport, AtEnd, Items, Missing
<1>3. Inv(project, frames, ctxs, FALSE, hadError) /\ finished = FALSE
  BY <1>2, Unfinished
<1>4. TakenOver = TakenOf(r) /\ Returned = ReturnedOf(r)
  BY Zenon DEF TakenOver, TakenOf, Returned, ReturnedOf, MarkedDecl
<1>5. \A c : AfterImport(c) = AfterOf(c, ctxs, r)
  <2>1. DroppedBelow = BelowOf(ctxs, r)
    BY <1>1, Zenon DEF DroppedBelow, BelowOf
  <2>2. {Dropped(Returned[i], Top.import) :
           i \in DOMAIN Returned \ Included(Returned, Top.import)} = DroppedOf(r)
    BY <1>4, Zenon DEF DroppedOf
  <2> QED BY <2>1, <2>2, Zenon DEF AfterImport, AfterOf
<1>6. frames' = Append(SubSeq(frames, 1, Len(frames) - 2), TakingFrame(q, r))
  <2>1. frames' = Append(SubSeq(frames, 1, Len(frames) - 2),
                    [Advanced(q) EXCEPT !.decls = @ \o TakenOver,
                                        !.aliases = @ \cup ({r.import.alias} \ {NoAlias})])
    BY Zenon DEF LeaveImport
  <2> QED BY <1>4, <2>1, Zenon DEF TakingFrame
<1>7. frames' = LeftFrames(frames)
  BY <1>1, <1>6, Zenon DEF LeftFrames
<1>8. ctxs' = LeftCtxs(ctxs, r)
  <2>1. ctxs' = [outer EXCEPT ![Len(outer)] = AfterImport(outer[Len(outer)])]
    BY Zenon DEF LeaveImport, OuterCtxs
  <2>2. AfterImport(outer[Len(outer)]) = AfterOf(outer[Len(outer)], ctxs, r)
    BY <1>5
  <2> QED BY <2>1, <2>2, Zenon DEF LeftCtxs
<1>9. Leaving(project, frames)
  <2>1. Len(frames) \in Nat
    BY <1>3, ContextCount DEF Inv
  <2>2. Len(frames) >= 2
    BY <1>2, <2>1
  <2> QED BY <1>1, <1>2, <2>2 DEF Leaving
<1>10. PICK e : e = hadError'
  OBVIOUS
<1>11. Reports(hadError, frames[Len(frames)], e)
  BY <1>1, <1>2, <1>10, Zenon DEF Reports
<1>12. Inv(project, LeftFrames(frames), LeftCtxs(ctxs, frames[Len(frames)]), FALSE, e)
  BY <1>3, <1>9, <1>11, LeaveKeeps, Zenon
<1>13. project' = project /\ finished' = FALSE
  BY <1>2, <1>3
<1> QED BY <1>1, <1>7, <1>8, <1>10, <1>12, <1>13, Zenon DEF ResolveInv

LEMMA FinishStep == ASSUME ResolveInv, Finish PROVE ResolveInv'
<1> DEFINE r == Top
<1>1. Top = frames[Len(frames)] /\ finished \in BOOLEAN
  BY TopSays
<1>2. /\ ~ finished /\ r.next > Len(project[r.file]) /\ Len(frames) = 1
      /\ project' = project /\ finished' = TRUE
      /\ hadError' = (hadError \/ Missing(r))
  BY DEF Finish, AtEnd, Items, Missing
<1>3. Inv(project, frames, ctxs, FALSE, hadError)
  BY <1>2, Unfinished
<1>4. Returned = ReturnedOf(r)
  BY Zenon DEF Returned, ReturnedOf
<1>5. frames' = Topped(frames, FinishedFrame(r)) /\ ctxs' = FinishedCtxs(ctxs)
  <2>1. frames' = [frames EXCEPT ![Len(frames)] = [r EXCEPT !.decls = Returned]]
        /\ ctxs' = FinishedCtxs(ctxs)
    BY Zenon DEF Finish, ReplaceTop, FinishedCtxs
  <2> QED BY <1>4, <2>1, Zenon DEF Topped, FinishedFrame
<1>6. Finishing(project, frames)
  BY <1>1, <1>2 DEF Finishing
<1>7. PICK e : e = hadError'
  OBVIOUS
<1>8. Reports(hadError, frames[Len(frames)], e)
  BY <1>1, <1>2, <1>7, Zenon DEF Reports
<1>9. Inv(project, Topped(frames, FinishedFrame(frames[Len(frames)])), FinishedCtxs(ctxs), TRUE, e)
  BY <1>3, <1>6, <1>8, FinishKeeps, Zenon
<1> QED BY <1>1, <1>2, <1>5, <1>7, <1>9, Zenon DEF ResolveInv

LEMMA ResolveStep == ResolveInv /\ [Next]_vars => ResolveInv'
<1> SUFFICES ASSUME ResolveInv, [Next]_vars PROVE ResolveInv'
  OBVIOUS
<1>1. CASE TakeDeclaration
  BY <1>1, TakeDeclarationStep
<1>2. CASE ImportUnresolved \/ ImportCircular \/ ImportAgain \/ ImportBroken
  BY <1>2, PassedOverStep
<1>3. CASE EnterImport
  BY <1>3, EnterImportStep
<1>4. CASE LeaveImport
  BY <1>4, LeaveImportStep
<1>5. CASE Finish
  BY <1>5, FinishStep
<1>6. CASE Stop \/ UNCHANGED vars
  <2>1. UNCHANGED <<project, frames, ctxs, hadError, finished>>
    BY <1>6 DEF Stop, vars
  <2> QED BY <2>1, Zenon DEF ResolveInv
<1> QED BY <1>1, <1>2, <1>3, <1>4, <1>5, <1>6 DEF Next

LEMMA ResolveAlways == Spec => []ResolveInv
BY ResolveInit, ResolveStep, PTL DEF Spec

-----------------------------------------------------------------------------
(* What the invariant says.                                                  *)

LEMMA FramesAre ==
  ASSUME ResolveInv
  PROVE  /\ DOMAIN frames = 1 .. Len(frames) /\ DOMAIN ctxs = 1 .. Len(ctxs)
         /\ Len(frames) \in Nat /\ Len(frames) \in 1 .. Len(frames) /\ Len(ctxs) \in Nat
         /\ \A i \in 1 .. Len(frames) :
              /\ frames[i].ctx \in 1 .. Len(ctxs) /\ IsCall(project, frames[i])
              /\ DOMAIN frames[i].decls = 1 .. Len(frames[i].decls)
<1>1. Shape(project, frames, ctxs, finished)
  BY DEF ResolveInv, Inv
<1>2. IsSequence(frames) /\ IsSequence(ctxs) /\ \A i \in 1 .. Len(frames) : IsCall(project, frames[i])
  BY <1>1 DEF Shape
<1>3. DOMAIN frames = 1 .. Len(frames) /\ DOMAIN ctxs = 1 .. Len(ctxs)
  BY <1>2, SeqTyped
<1>4. /\ Len(frames) \in Nat /\ Len(frames) \in 1 .. Len(frames) /\ Len(ctxs) \in Nat
      /\ \A i \in 1 .. Len(frames) : frames[i].ctx \in 1 .. Len(ctxs)
  BY <1>1, ContextCount
<1>5. ASSUME NEW i \in 1 .. Len(frames) PROVE DOMAIN frames[i].decls = 1 .. Len(frames[i].decls)
  BY <1>2, SeqTyped DEF IsCall
<1> QED BY <1>2, <1>3, <1>4, <1>5

LEMMA OnceFromInv == ResolveInv => EachFileOnce
<1> SUFFICES ASSUME ResolveInv PROVE EachFileOnce
  OBVIOUS
<1> DEFINE t == Len(frames)
<1>1. /\ DOMAIN frames = 1 .. t /\ DOMAIN ctxs = 1 .. Len(ctxs) /\ t \in Nat /\ t \in 1 .. t
      /\ \A i \in 1 .. t : DOMAIN frames[i].decls = 1 .. Len(frames[i].decls)
  BY FramesAre
<1>2. Stacked(frames, ctxs, finished) /\ Single(frames, ctxs) /\ Kept(project, frames, ctxs)
  BY DEF ResolveInv, Inv
<1>3. NoModuleInsideItself
  <2>1. LastOf(frames, t) /\ Known(frames, t) = t
    BY DEF LastOf, Known
  <2>2. TopCtx = ctxs[frames[t].ctx]
    <3>1. TopCtx = ctxs[Len(ctxs)]
      BY TopSays
    <3>2. frames[t].ctx = Len(ctxs)
      BY DEF ResolveInv, Inv, Shape
    <3> QED BY <3>1, <3>2
  <2>3. /\ TopCtx.active = FilesUpto(frames, t)
        /\ ~ finished => TopCtx.chain = ChainUpto(frames, t)
    BY <1>1, <1>2, <2>1, <2>2, Zenon DEF Stacked
  <2>4. \A i, k \in 1 .. t : i # k => frames[i].file # frames[k].file
    BY <1>2 DEF Stacked
  <2>5. FilesUpto(frames, t) = {frames[i].file : i \in DOMAIN frames}
        /\ ChainUpto(frames, t) = [i \in DOMAIN frames |-> frames[i].file]
    BY <1>1, Zenon DEF FilesUpto, ChainUpto
  <2> HIDE DEF t
  <2> QED BY <1>1, <2>3, <2>4, <2>5, Zenon DEF NoModuleInsideItself
<1> DEFINE PlacedIn(k, a) == \E i \in 1 .. t : \E n \in 1 .. Len(frames[i].decls) :
               a = <<i, n>> /\ frames[i].ctx = k /\ CollectedDecl(a) = frames[i].decls[n]
<1>4. ASSUME NEW k, NEW a \in Collected(k)
      PROVE  PlacedIn(k, a)
  <2>1. PICK i \in 1 .. t : frames[i].ctx = k /\ a \in {<<i, n>> : n \in DOMAIN frames[i].decls}
    BY <1>1 DEF Collected
  <2>2. PICK n \in 1 .. Len(frames[i].decls) : a = <<i, n>>
    BY <1>1, <2>1
  <2>3. CollectedDecl(a) = frames[i].decls[n]
    BY <2>2 DEF CollectedDecl
  <2> QED BY <2>1, <2>2, <2>3
<1>5. ASSUME NEW k, NEW a \in Collected(k), NEW b \in Collected(k), a # b,
             CollectedDecl(a).file = CollectedDecl(b).file,
             CollectedDecl(a).at = CollectedDecl(b).at
      PROVE  CollectedDecl(a).filtered \/ CollectedDecl(b).filtered
  <2>0. PlacedIn(k, a) /\ PlacedIn(k, b)
    <3> HIDE DEF PlacedIn
    <3> QED BY <1>4
  <2>1. PICK i \in 1 .. t : \E n \in 1 .. Len(frames[i].decls) :
               a = <<i, n>> /\ frames[i].ctx = k /\ CollectedDecl(a) = frames[i].decls[n]
    BY <2>0, Zenon
  <2>2. PICK m \in 1 .. Len(frames[i].decls) :
               a = <<i, m>> /\ frames[i].ctx = k /\ CollectedDecl(a) = frames[i].decls[m]
    BY <2>1
  <2>3. PICK j \in 1 .. t : \E n \in 1 .. Len(frames[j].decls) :
               b = <<j, n>> /\ frames[j].ctx = k /\ CollectedDecl(b) = frames[j].decls[n]
    BY <2>0, Zenon
  <2>4. PICK n \in 1 .. Len(frames[j].decls) :
               b = <<j, n>> /\ frames[j].ctx = k /\ CollectedDecl(b) = frames[j].decls[n]
    BY <2>3
  <2>5. Apart(frames, i, m, j, n)
    <3>1. AllApart(frames)
      BY <1>2, SingleParts
    <3> QED BY <3>1, Zenon DEF AllApart, t
  <2>6. SameItem(frames[i].decls[m], frames[j].decls[n]) /\ <<i, m>> # <<j, n>>
    BY <1>5, <2>2, <2>4 DEF SameItem
  <2>7. frames[i].decls[m].filtered \/ frames[j].decls[n].filtered
    <3>1. frames[i].ctx = frames[j].ctx
      BY <2>2, <2>4, Zenon
    <3> QED BY <2>5, <2>6, <3>1, Zenon DEF Apart
  <2> QED BY <2>2, <2>4, <2>7
<1>6. ASSUME NEW k \in DOMAIN ctxs, NEW f \in ctxs[k].resolved, NEW n \in DOMAIN Items(f)
      PROVE  \/ IsImport(Items(f)[n])
             \/ \E a \in Collected(k) : CollectedDecl(a).file = f /\ CollectedDecl(a).at = n
             \/ LeftOut(project, ctxs[k], f, n)
  <2>1. k \in 1 .. Len(ctxs) /\ Items(f) = project[f] /\ n \in DOMAIN project[f]
    BY <1>1 DEF Items
  <2>2. \/ IsImport(project[f][n])
        \/ \E i \in 1 .. t : frames[i].ctx = k /\ CollectedBy(frames[i], f, n)
        \/ LeftOut(project, ctxs[k], f, n)
    BY <1>2, <2>1 DEF Kept
  <2>3. CASE \E i \in 1 .. t : frames[i].ctx = k /\ CollectedBy(frames[i], f, n)
    <3>1. PICK i \in 1 .. t : frames[i].ctx = k /\ CollectedBy(frames[i], f, n)
      BY <2>3
    <3>2. PICK m \in 1 .. Len(frames[i].decls) : frames[i].decls[m].file = f /\ frames[i].decls[m].at = n
      BY <3>1 DEF CollectedBy
    <3> DEFINE a == <<i, m>>
    <3>3. a \in {<<i, l>> : l \in DOMAIN frames[i].decls}
      BY <1>1, <3>2
    <3>4. a \in Collected(k)
      BY <1>1, <3>1, <3>3 DEF Collected
    <3>5. CollectedDecl(a) = frames[i].decls[m]
      BY DEF CollectedDecl
    <3> QED BY <3>2, <3>4, <3>5
  <2> QED BY <2>1, <2>2, <2>3
<1>7. PlainModulesOnce
  <2>1. \A k \in DOMAIN ctxs : \A f \in ctxs[k].resolved : \A n \in DOMAIN Items(f) :
          \/ IsImport(Items(f)[n])
          \/ \E a \in Collected(k) : CollectedDecl(a).file = f /\ CollectedDecl(a).at = n
          \/ \E d \in ctxs[k].dropped :
               d.file = f /\ d.at = n /\ ~ d.nested /\ (d.selective \/ ~ Exported(Items(f)[n]))
    BY <1>6, Zenon DEF LeftOut, Items
  <2> QED BY <1>5, <2>1, Zenon DEF PlainModulesOnce
<1> QED BY <1>3, <1>7 DEF EachFileOnce

\* A file is processed once and taken over once.  Whatever the files of a
\* project import, in cycles, by several ways and with any aliases and filters,
\* process_imports_recursive never enters a file it is processing, the chain it
\* prints is the chain of its calls, no declaration comes twice through plain
\* imports, and none of a file that counts as resolved is missing unless a
\* filter left it out, an exported one only a selective import.
THEOREM ResolvesEachFileOnce == Spec => []EachFileOnce
BY ResolveAlways, OnceFromInv, PTL

LEMMA NeededFromInv == ResolveInv => TakesWhatIsNeeded
<1> SUFFICES ASSUME ResolveInv, AtEnd, Len(frames) > 1
             PROVE  LET prog == Returned
                        got == Included(prog, Top.import)
                        closed(S) == /\ Wanted(prog, Top.import) \subseteq S
                                     /\ \A i \in S : Needs(prog, Top.import, i) \subseteq S
                    IN \/ (got = DOMAIN prog /\ Wanted(prog, Top.import) = {})
                       \/ (closed(got) /\ \A S \in SUBSET got : closed(S) => S = got)
  BY Zenon DEF TakesWhatIsNeeded
<1> DEFINE prog == Returned
           import == Top.import
           got == Included(prog, import)
           closed(S) == /\ Wanted(prog, import) \subseteq S
                        /\ \A i \in S : Needs(prog, import, i) \subseteq S
<1>1. IsCall(project, Top)
  BY TopSays
<1>2. prog = ReturnedOf(Top)
  BY Zenon DEF Returned, ReturnedOf
<1>3. ReturnsTo(project, Top, ReturnedOf(Top))
  BY <1>1, ReturnSays
<1>4. IsProg(prog) /\ <<>> \notin import.selected
  BY <1>1, <1>2, <1>3 DEF ReturnsTo, IsCall
<1> HIDE DEF prog, import
<1>5. Takes(prog, import)
  BY <1>4, IncludedTakes
<1>6. \A S : closed(S) <=> Closed(prog, import, S)
  BY DEF Closed
<1>7. CASE got = DOMAIN prog /\ Wanted(prog, import) = {}
  BY <1>7 DEF prog, import
<1>8. CASE /\ Closed(prog, import, got)
           /\ \A S \in SUBSET (1 .. Len(prog)) : Closed(prog, import, S) => got \subseteq S
  <2>1. got \subseteq 1 .. Len(prog)
    BY <1>5 DEF Takes
  <2> HIDE DEF got
  <2>2. ASSUME NEW S \in SUBSET got, Closed(prog, import, S) PROVE S = got
    <3>1. S \in SUBSET (1 .. Len(prog))
      BY <2>1
    <3>2. got \subseteq S
      BY <1>8, <2>2, <3>1
    <3> QED BY <3>2
  <2>3. closed(got) /\ \A S \in SUBSET got : closed(S) => S = got
    <3> HIDE DEF closed
    <3> QED BY <1>6, <1>8, <2>2
  <2> QED BY <2>3, Zenon DEF prog, import, got
<1> QED BY <1>5, <1>7, <1>8 DEF Takes

\* What an import takes over is the least set with the exported or selected
\* declarations that has, with each one, those whose names it uses; all of them
\* when the file exports nothing.  The worklist and the sweeps of the resolver
\* stop with it, for programs of any length and shape.
THEOREM ImportsTakeWhatIsNeeded == Spec => []TakesWhatIsNeeded
BY ResolveAlways, NeededFromInv, PTL

LEMMA TextsFromInv == ResolveInv => TextsFromOwnDirectory
<1> SUFFICES ASSUME ResolveInv, finished, ~ hadError, NEW i \in DOMAIN Result
             PROVE  /\ \A x \in Result[i].texts : x.text = ResolveImportPath(Result[i].file, x.path)
                    /\ \A e \in Result[i].embeds : ~ e.walked
  BY Zenon DEF TextsFromOwnDirectory
<1>1. Len(frames) \in Nat /\ Len(frames) \in 1 .. Len(frames)
      /\ \A k \in 1 .. Len(frames) : DOMAIN frames[k].decls = 1 .. Len(frames[k].decls)
  BY FramesAre
<1>2. 1 \in 1 .. Len(frames)
  BY <1>1
<1>3. i \in 1 .. Len(frames[1].decls)
  BY <1>1, <1>2 DEF Result
<1>4. ReadBy(frames[1], frames[1].decls[i]) /\ AllRead(frames[1].decls[i])
  BY <1>2, <1>3, Zenon DEF ResolveInv, Inv, Read
<1> QED BY <1>4 DEF ReadBy, AllRead, Result

\* An embedded file is one next to the file that embeds it.  When the resolver
\* ends without an error, every import_str of the flat program that the walk of
\* process_import_strs_in_node gets to is replaced by the text found from the
\* directory of the file that wrote it, however deep below the importer; what is
\* left stands where the walk does not look.
THEOREM TextsAreFromOwnDirectory == Spec => []TextsFromOwnDirectory
BY ResolveAlways, TextsFromInv, PTL


=============================================================================
