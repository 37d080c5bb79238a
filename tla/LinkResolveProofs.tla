-------------------------- MODULE LinkResolveProofs --------------------------
(***************************************************************************)
(* Proofs about LinkResolve: section merging is sound for every command    *)
(* line and every set of object files.                                     *)
(***************************************************************************)
EXTENDS LinkResolve, FiniteFacts

\* A bounded set of natural numbers has a greatest element.
LEMMA GreatestNat ==
  ASSUME NEW T, NEW b \in Nat, T # {}, \A x \in T : x \in Nat /\ x <= b
  PROVE  \E x \in T : \A y \in T : y <= x
<1> DEFINE U == {n \in Nat : \A y \in T : y <= n}
<1>1. b \in U
  OBVIOUS
<1>2. PICK u \in U : \A y \in U : u <= y
  <2>1. U \subseteq Nat /\ U # {}
    BY <1>1
  <2> HIDE DEF U
  <2> QED
    BY <2>1, LeastNat
<1>3. u \in T
  <2> SUFFICES ASSUME u \notin T PROVE FALSE
    OBVIOUS
  <2>1. u \in Nat /\ \A y \in T : y <= u
    BY <1>2
  <2>2. \A y \in T : y <= u - 1
    BY <2>1
  <2>3. u > 0
    BY <2>1, <2>2
  <2>4. u - 1 \in U
    BY <2>1, <2>2, <2>3
  <2> QED
    BY <1>2, <2>1, <2>4
<1> QED
  BY <1>2, <1>3

\* The values of finitely many symbols have a bound.
LEMMA SeqBounded ==
  ASSUME NEW s, NEW len \in Nat, \A i \in 1 .. len : s[i] \in Nat
  PROVE  \E b \in Nat : \A i \in 1 .. len : s[i] <= b
<1> DEFINE Bounds(n) == {b \in Nat : \A i \in 1 .. n : s[i] <= b}
           T == {n \in 0 .. len : Bounds(n) = {}}
<1>1. 0 \in Bounds(0)
  OBVIOUS
<1>2. ASSUME NEW n \in Nat, n + 1 <= len, NEW b \in Bounds(n)
      PROVE  b + s[n + 1] \in Bounds(n + 1)
  <2>1. s[n + 1] \in Nat
    BY <1>2
  <2>2. ASSUME NEW i \in 1 .. n + 1 PROVE s[i] <= b + s[n + 1]
    <3>1. CASE i = n + 1
      BY <2>1, <3>1
    <3>2. CASE i # n + 1
      <4>1. i \in 1 .. n /\ i \in 1 .. len
        BY <1>2, <3>2
      <4>2. s[i] <= b /\ s[i] \in Nat /\ b \in Nat
        BY <4>1
      <4> QED
        BY <2>1, <4>2
    <3> QED
      BY <3>1, <3>2
  <2> QED
    BY <2>1, <2>2
<1>3. T = {}
  <2> SUFFICES ASSUME T # {} PROVE FALSE
    OBVIOUS
  <2>1. T \subseteq Nat
    OBVIOUS
  <2>2. PICK n \in T : \A m \in T : n <= m
    <3> HIDE DEF T
    <3> QED
      BY <2>1, LeastNat
  <2>3. n \in 0 .. len /\ Bounds(n) = {}
    OBVIOUS
  <2> HIDE DEF Bounds
  <2>4. n # 0
    BY <1>1, <2>3
  <2>5. n - 1 \in Nat /\ (n - 1) + 1 <= len /\ (n - 1) + 1 = n /\ n - 1 \in 0 .. len
    BY <2>3, <2>4
  <2>6. Bounds(n - 1) # {}
    <3>1. n - 1 \notin T
      <4> HIDE DEF T
      <4> QED
        BY <2>1, <2>2, <2>5
    <3> QED
      BY <2>5, <3>1
  <2>7. PICK b : b \in Bounds(n - 1)
    BY <2>6
  <2> QED
    BY <1>2, <2>3, <2>5, <2>7
<1>4. Bounds(len) # {}
  <2> HIDE DEF Bounds
  <2> QED
    BY <1>3
<1> QED
  BY <1>4

-----------------------------------------------------------------------------
\* linker_align_up never goes back.
LEMMA AlignUpGrows ==
  ASSUME NEW v \in Nat, NEW a \in Nat \ {0}
  PROVE  AlignUp(v, a) \in Nat /\ AlignUp(v, a) >= v
<1>1. v % a \in Nat /\ v % a < a
  OBVIOUS
<1> QED
  BY <1>1 DEF AlignUp

\* linker_align_up reaches a multiple of the alignment.
LEMMA AlignUpAligned ==
  ASSUME NEW v \in Nat, NEW a \in Nat \ {0}
  PROVE  AlignUp(v, a) % a = 0
<1>1. v = a * (v \div a) + (v % a) /\ v % a \in Nat /\ v % a < a /\ v \div a \in Nat
  OBVIOUS
<1>2. CASE v % a = 0
  BY <1>2 DEF AlignUp
<1>3. CASE v % a # 0
  <2>1. AlignUp(v, a) = v + (a - (v % a))
    BY <1>1, <1>3 DEF AlignUp
  <2>2. AlignUp(v, a) = a * ((v \div a) + 1)
    BY <1>1, <2>1
  <2>3. \A q \in Nat : (a * q) % a = 0
    OBVIOUS
  <2> QED
    BY <1>1, <2>2, <2>3
<1> QED
  BY <1>2, <1>3

\* link_section_alignment never returns zero.
LEMMA AlignmentPositive ==
  ASSUME NEW section \in SectionRecord
  PROVE  AlignmentOf(section) \in Nat \ {0}
<1>1. section.align \in Nat
  BY DEF SectionRecord
<1> QED
  BY <1>1, AlignmentAssumption DEF AlignmentOf, FallbackAlignment

\* link_estimate_section_size returns a size.
LEMMA EstimateNat ==
  ASSUME NEW f \in ObjectFiles, NEW s \in 1 .. Len(f.sections)
  PROVE  EstimatedSize(f, s) \in Nat
<1> DEFINE section == f.sections[s]
           base == Larger(section.raw, section.virtual)
           hits == {j \in DOMAIN f.symbols : ~f.symbols[j].auxiliary /\ f.symbols[j].section = s}
           ends == {f.symbols[i].value + 1 : i \in hits}
           all == {base} \cup ends
<1>1. section \in SectionRecord
  BY FilesAssumption
<1>2. section.aux \in Nat /\ section.raw \in Nat /\ section.virtual \in Nat
  BY <1>1 DEF SectionRecord
<1>3. base \in Nat
  BY <1>2 DEF Larger
<1>4. f.symbols \in Seq(SymbolRecord)
  BY FilesAssumption
<1> DEFINE len == Len(f.symbols)
           value == [i \in 1 .. len |-> f.symbols[i].value]
<1>5. len \in Nat /\ DOMAIN f.symbols = 1 .. len
  BY <1>4
<1>6. \A i \in 1 .. len : f.symbols[i].value \in Nat
  <2>1. \A i \in 1 .. len : f.symbols[i] \in SymbolRecord
    BY <1>4
  <2>2. \A r \in SymbolRecord : r.value \in Nat
    BY DEF SymbolRecord
  <2> QED
    BY <2>1, <2>2
<1>7. PICK b \in Nat : \A i \in 1 .. len : value[i] <= b
  <2>1. \A i \in 1 .. len : value[i] \in Nat
    BY <1>6
  <2> HIDE DEF value, len
  <2> QED
    BY <1>5, <2>1, SeqBounded
<1>8. \A x \in all : x \in Nat /\ x <= base + b + 1
  <2>1. ASSUME NEW x \in ends PROVE x \in Nat /\ x <= base + b + 1
    <3>1. PICK i \in hits : x = f.symbols[i].value + 1
      BY <2>1
    <3>2. i \in 1 .. len
      BY <1>5, <3>1
    <3>3. value[i] = f.symbols[i].value
      BY <3>2
    <3> HIDE DEF value, len, base
    <3> QED
      BY <1>3, <1>6, <1>7, <3>1, <3>2, <3>3
  <2> HIDE DEF ends, base
  <2> QED
    BY <1>3, <1>7, <2>1
<1>9. \E n \in all : \A m \in all : m <= n
  <2>1. all # {} /\ base + b + 1 \in Nat
    BY <1>3, <1>7
  <2> HIDE DEF all, base
  <2> QED
    BY <1>8, <2>1, GreatestNat
<1>10. (CHOOSE n \in all : \A m \in all : m <= n) \in Nat
  <2> HIDE DEF all
  <2> QED
    BY <1>8, <1>9
<1> QED
  <2> HIDE DEF ends, hits
  <2>1. EstimatedSize(f, s) = IF section.aux # 0 THEN section.aux
                              ELSE IF section.kind # "bss" THEN base
                              ELSE CHOOSE n \in all : \A m \in all : m <= n
    BY DEF EstimatedSize, ends, hits
  <2> HIDE DEF all, base, section
  <2> QED
    BY <1>2, <1>3, <1>10, <2>1

-----------------------------------------------------------------------------
\* The types of a merged section.
Parts == Seq([id : Nat \X Nat, offset : Nat, used : Nat, align : Nat \ {0}])
\* Who may have written a segment: padding, a table of the linker, a section.
Authors == {"zero", "descriptors", "ilt", "hint", "names", "iat", "thunk"} \cup (Nat \X Nat)
Writes == Seq([from : Nat, to : Nat, by : Authors])
Merged == [size : Nat, vsize : Nat, align : Nat, parts : Parts, writes : Writes]

Ordered(m) ==
  /\ \A i \in 1 .. Len(m.parts) : m.parts[i].offset + m.parts[i].used <= m.vsize
  /\ \A i, j \in 1 .. Len(m.parts) :
       i < j => m.parts[i].offset + m.parts[i].used <= m.parts[j].offset
PartsAligned(m) == \A i \in 1 .. Len(m.parts) : m.parts[i].offset % m.parts[i].align = 0
\* The segments w cover 0 .. n - 1, one after the other.
Covers(w, n) ==
  /\ n = IF w = <<>> THEN 0 ELSE w[Len(w)].to
  /\ w # <<>> => w[1].from = 0
  /\ \A i \in 1 .. Len(w) - 1 : w[i + 1].from = w[i].to

\* What holds of each merged section; that data never outgrows address space is
\* what makes the next contribution's padding start where the data ends.
SectionSound(m) ==
  /\ m \in Merged
  /\ m.size <= m.vsize
  /\ Ordered(m)
  /\ PartsAligned(m)
  /\ Covers(m.writes, m.size)

\* Only a .bss has address space without bytes.
DataOnly(m) == m.size = m.vsize

\* A new last part, behind all others.
LEMMA AppendPart ==
  ASSUME NEW m \in Merged, NEW n \in Merged, Ordered(m), PartsAligned(m),
         NEW p \in [id : Nat \X Nat, offset : Nat, used : Nat, align : Nat \ {0}],
         n.parts = Append(m.parts, p),
         p.offset >= m.vsize, p.offset % p.align = 0,
         n.vsize >= m.vsize, n.vsize >= p.offset + p.used
  PROVE  Ordered(n) /\ PartsAligned(n)
<1> DEFINE Part == [id : Nat \X Nat, offset : Nat, used : Nat, align : Nat \ {0}]
           len == Len(m.parts)
<1>0. /\ \A a, b, c \in Nat : a <= b /\ c >= b => a <= c
      /\ \A a, b \in Nat : a + b \in Nat
  OBVIOUS
<1>1. m.parts \in Seq(Part) /\ m.vsize \in Nat /\ n.vsize \in Nat
  BY DEF Merged, Parts
<1>2. /\ len \in Nat
      /\ Len(n.parts) = len + 1
      /\ n.parts[len + 1] = p
      /\ \A i \in 1 .. len : n.parts[i] = m.parts[i] /\ m.parts[i] \in Part
  <2>1. p \in Part
    OBVIOUS
  <2> HIDE DEF Part
  <2> QED
    BY <1>1, <2>1
<1>3. \A r \in Part : r.offset \in Nat /\ r.used \in Nat
  OBVIOUS
<1>4. p.offset \in Nat /\ p.used \in Nat
  BY <1>3
<1> HIDE DEF len, Part
<1>5. \A i \in 1 .. len : /\ m.parts[i].offset + m.parts[i].used <= m.vsize
                          /\ m.parts[i].offset \in Nat /\ m.parts[i].used \in Nat
                          /\ m.parts[i].offset % m.parts[i].align = 0
  BY <1>2, <1>3 DEF Ordered, PartsAligned, len
<1>6. \A i \in 1 .. len + 1 : i = len + 1 \/ i \in 1 .. len
  BY <1>2
<1>7. ASSUME NEW i \in 1 .. len + 1
      PROVE  n.parts[i].offset + n.parts[i].used <= n.vsize
  <2>1. CASE i = len + 1
    BY <1>2, <2>1
  <2>2. CASE i \in 1 .. len
    <3>1. n.parts[i] = m.parts[i]
      BY <1>2, <2>2
    <3>2. m.parts[i].offset + m.parts[i].used <= m.vsize
      BY <1>5, <2>2
    <3>3. m.parts[i].offset \in Nat /\ m.parts[i].used \in Nat
      BY <1>5, <2>2
    <3>4. m.parts[i].offset + m.parts[i].used \in Nat
      BY <1>0, <3>3, Zenon
    <3>5. m.parts[i].offset + m.parts[i].used <= n.vsize
      BY <1>0, <1>1, <3>2, <3>4, Zenon
    <3> QED
      BY <3>1, <3>5, Zenon
  <2> QED
    BY <1>6, <2>1, <2>2
<1>8. ASSUME NEW i \in 1 .. len + 1, NEW j \in 1 .. len + 1, i < j
      PROVE  n.parts[i].offset + n.parts[i].used <= n.parts[j].offset
  <2>1. i \in 1 .. len
    BY <1>2, <1>8
  <2>2. CASE j = len + 1
    <3>1. n.parts[i] = m.parts[i] /\ n.parts[j] = p
      BY <1>2, <2>1, <2>2
    <3>2. m.parts[i].offset + m.parts[i].used <= m.vsize
      BY <1>5, <2>1
    <3>3. m.parts[i].offset \in Nat /\ m.parts[i].used \in Nat
      BY <1>5, <2>1
    <3>4. m.parts[i].offset + m.parts[i].used \in Nat
      BY <1>0, <3>3, Zenon
    <3>5. m.parts[i].offset + m.parts[i].used <= p.offset
      BY <1>0, <1>1, <1>4, <3>2, <3>4, Zenon
    <3> QED
      BY <3>1, <3>5, Zenon
  <2>3. CASE j \in 1 .. len
    BY <1>2, <1>8, <2>1, <2>3 DEF Ordered, len
  <2> QED
    BY <1>6, <2>2, <2>3
<1>9. \A i \in 1 .. len + 1 : n.parts[i].offset % n.parts[i].align = 0
  BY <1>2, <1>5, <1>6
<1> QED
  BY <1>2, <1>7, <1>8, <1>9 DEF Ordered, PartsAligned

\* Writing the bytes from n to k behind the n bytes already written.
LEMMA AppendSegment ==
  ASSUME NEW w \in Writes, NEW n \in Nat, NEW k \in Nat, n <= k, Covers(w, n),
         NEW by \in Authors
  PROVE  w \o Segment(n, k, by) \in Writes /\ Covers(w \o Segment(n, k, by), k)
<1> DEFINE Write == [from : Nat, to : Nat, by : Authors]
           r == [from |-> n, to |-> k, by |-> by]
           v == w \o <<r>>
           len == Len(w)
<1>1. r \in Write /\ w \in Seq(Write)
  BY DEF Writes
<1>2. CASE n = k
  <2>1. Segment(n, k, by) = <<>>
    BY <1>2 DEF Segment
  <2>2. w \o <<>> = w
    <3> HIDE DEF Write, r
    <3> QED
      BY <1>1
  <2> QED
    BY <1>2, <2>1, <2>2
<1>3. CASE n < k
  <2>1. Segment(n, k, by) = <<r>>
    BY <1>3 DEF Segment
  <2>2. /\ v \in Seq(Write) /\ len \in Nat /\ Len(v) = len + 1
        /\ v[len + 1] = r /\ \A i \in 1 .. len : v[i] = w[i]
    <3> HIDE DEF Write, r
    <3> QED
      BY <1>1
  <2>3. r.from = n /\ r.to = k
    OBVIOUS
  <2>4. v # <<>> /\ (w = <<>> <=> len = 0)
    <3> HIDE DEF Write, r, v
    <3> QED
      BY <1>1, <2>2
  <2> HIDE DEF Write, r, v, len
  <2>5. v[1].from = 0
    <3>1. CASE len = 0
      BY <2>2, <2>3, <2>4, <3>1 DEF Covers
    <3>2. CASE len # 0
      <4>1. v[1] = w[1]
        BY <2>2, <3>2
      <4> QED
        BY <2>4, <3>2, <4>1 DEF Covers
    <3> QED
      BY <3>1, <3>2
  <2>6. ASSUME NEW i \in 1 .. len PROVE v[i + 1].from = v[i].to
    <3>1. CASE i = len
      <4>1. v[i + 1] = r /\ v[i] = w[len] /\ w # <<>>
        BY <2>2, <2>4, <3>1
      <4> QED
        BY <2>3, <4>1 DEF Covers, len
    <3>2. CASE i # len
      <4>1. i \in 1 .. len - 1 /\ i + 1 \in 1 .. len
        BY <2>2, <3>2
      <4>2. v[i + 1] = w[i + 1] /\ v[i] = w[i]
        BY <2>2, <4>1
      <4> QED
        BY <4>1, <4>2 DEF Covers, len
    <3> QED
      BY <3>1, <3>2
  <2>7. Covers(v, k)
    <3>1. Len(v) - 1 = len /\ v[Len(v)] = r
      BY <2>2
    <3> QED
      BY <2>3, <2>4, <2>5, <2>6, <3>1 DEF Covers
  <2> QED
    BY <2>1, <2>2, <2>7 DEF v, Writes, Write
<1> QED
  BY <1>2, <1>3

\* One contribution keeps a merged section sound.
LEMMA ContributeSound ==
  ASSUME NEW m, SectionSound(m), NEW id \in Nat \X Nat,
         NEW section \in SectionRecord, NEW size \in Nat
  PROVE  /\ SectionSound(Contribute(m, id, section, size))
         /\ section.kind # "bss" => DataOnly(Contribute(m, id, section, size))
<1> DEFINE a == AlignmentOf(section)
           start == Start(m, a)
           end == start + section.raw
           used == IF section.kind = "bss" THEN size ELSE section.raw
           part == [id |-> id, offset |-> start, used |-> used, align |-> a]
           n == Contribute(m, id, section, size)
<1>1. m \in Merged /\ m.size <= m.vsize /\ Ordered(m) /\ PartsAligned(m) /\ Covers(m.writes, m.size)
  BY DEF SectionSound
<1>2. m.size \in Nat /\ m.vsize \in Nat /\ m.align \in Nat /\ m.writes \in Writes /\ m.parts \in Parts
  BY <1>1 DEF Merged
<1>3. a \in Nat \ {0}
  BY AlignmentPositive
<1>4. start \in Nat /\ start >= m.vsize /\ start % a = 0
  BY <1>2, <1>3, AlignUpGrows, AlignUpAligned DEF Start
<1>5. section.raw \in Nat
  BY DEF SectionRecord
<1>6. used \in Nat
  BY <1>5
<1>7. part \in [id : Nat \X Nat, offset : Nat, used : Nat, align : Nat \ {0}]
  <2> HIDE DEF used, start, a
  <2> QED
    BY <1>3, <1>4, <1>6
<1>8. Append(m.parts, part) \in Parts
  <2> HIDE DEF part
  <2> QED
    BY <1>2, <1>7 DEF Parts
<1>9. part.offset = start /\ part.align = a /\ part.used = used
  OBVIOUS
<1>0. "zero" \in Authors /\ id \in Authors
  BY DEF Authors
<1>10. CASE section.kind = "bss"
  <2>1. n = [m EXCEPT !.align = Larger(@, a), !.vsize = Larger(@, start + size),
                      !.parts = Append(@, part)]
    BY <1>10 DEF Contribute
  <2>2. Larger(m.align, a) \in Nat /\ Larger(m.vsize, start + size) \in Nat
        /\ Larger(m.vsize, start + size) >= m.vsize /\ Larger(m.vsize, start + size) >= start + size
    <3> HIDE DEF start, a
    <3> QED
      BY <1>2, <1>3, <1>4 DEF Larger
  <2> HIDE DEF n, part, start, a
  <2>3. n \in Merged
    BY <1>1, <1>8, <2>1, <2>2 DEF Merged
  <2>4. /\ n.parts = Append(m.parts, part) /\ n.vsize = Larger(m.vsize, start + size)
        /\ n.writes = m.writes /\ n.size = m.size
    BY <1>1, <2>1 DEF Merged
  <2>5. used = size
    BY <1>10
  <2> HIDE DEF used
  <2>6. n.size <= n.vsize
    BY <1>1, <1>2, <2>2, <2>4
  <2>7. Ordered(n) /\ PartsAligned(n)
    BY <1>1, <1>4, <1>7, <1>9, <2>2, <2>3, <2>4, <2>5, AppendPart
  <2> QED
    BY <1>1, <1>10, <2>3, <2>4, <2>6, <2>7 DEF SectionSound, n
<1>11. CASE section.kind # "bss"
  <2> DEFINE padded == m.writes \o Padding(m, start)
             writes == padded \o Segment(start, end, id)
  <2>1. n = [size |-> end, vsize |-> Larger(m.vsize, end), align |-> Larger(m.align, a),
             parts |-> Append(m.parts, part), writes |-> writes]
    BY <1>11 DEF Contribute
  <2>2. end \in Nat /\ end >= start /\ end >= m.vsize /\ used = section.raw
    <3> HIDE DEF start, a
    <3> QED
      BY <1>2, <1>4, <1>5, <1>11
  <2>3. Larger(m.align, a) \in Nat /\ Larger(m.vsize, end) = end
    <3> HIDE DEF end, a
    <3> QED
      BY <1>2, <1>3, <2>2 DEF Larger
  <2>4. padded \in Writes /\ Covers(padded, start)
    <3>1. m.size <= start
      <4> HIDE DEF start
      <4> QED
        BY <1>1, <1>2, <1>4
    <3> HIDE DEF start
    <3> QED
      BY <1>1, <1>2, <1>4, <3>1, <1>0, AppendSegment DEF Padding
  <2>5. writes \in Writes /\ Covers(writes, end)
    <3>1. start <= end
      BY <1>4, <2>2
    <3> HIDE DEF start, end, padded
    <3> QED
      BY <1>4, <2>2, <2>4, <3>1, <1>0, AppendSegment
  <2>6. end = start + section.raw
    OBVIOUS
  <2> HIDE DEF n, part, start, a, end, writes, padded, used
  <2>7. n \in Merged
    BY <1>8, <2>1, <2>2, <2>3, <2>5 DEF Merged
  <2>8. /\ n.parts = Append(m.parts, part) /\ n.vsize = end
        /\ n.writes = writes /\ n.size = end
    BY <2>1, <2>3
  <2>9. Ordered(n) /\ PartsAligned(n)
    <3>1. n.vsize >= m.vsize /\ n.vsize >= part.offset + part.used
      BY <1>4, <1>9, <2>2, <2>6, <2>8
    <3> QED
      BY <1>1, <1>4, <1>7, <1>9, <2>7, <2>8, <3>1, AppendPart
  <2> QED
    BY <2>2, <2>5, <2>7, <2>8, <2>9 DEF SectionSound, DataOnly, n
<1> QED
  BY <1>10, <1>11

-----------------------------------------------------------------------------
\* The inductive invariant: the inputs and the cursor, and every merged section.
MergeInv ==
  /\ objects \in Seq(ObjectFiles)
  /\ at \in (Nat \ {0}) \X (Nat \ {0})
  /\ DOMAIN merged = MergedKinds
  /\ \A k \in MergedKinds : SectionSound(merged[k]) /\ (k # "bss" => DataOnly(merged[k]))

\* Nothing is merged at first.
LEMMA MergeInit == LinkInit => MergeInv
<1> SUFFICES ASSUME LinkInit PROVE MergeInv
  OBVIOUS
<1>1. objects \in Seq(ObjectFiles)
  <2>1. PICK n \in 1 .. MaxObjects : objects \in [1 .. n -> ObjectFiles]
    BY DEF LinkInit, CommandLines
  <2> QED
    BY <2>1, BoundAssumption
<1>2. SectionSound(EmptySection)
  <2>1. EmptySection \in Merged
    BY DEF EmptySection, Merged, Parts, Writes
  <2> QED
    BY <2>1 DEF EmptySection, SectionSound, Ordered, PartsAligned, Covers
<1>3. DataOnly(EmptySection)
  BY DEF DataOnly, EmptySection
<1> QED
  BY <1>1, <1>2, <1>3 DEF LinkInit, MergeInv

\* MergeSection, the only step that changes a merged section.
LEMMA MergeSectionStep == MergeInv /\ MergeSection => MergeInv'
<1> SUFFICES ASSUME MergeInv, MergeSection PROVE MergeInv'
  OBVIOUS
<1> DEFINE object == objects[at[1]]
           section == object.sections[at[2]]
           size == EstimatedSize(object, at[2])
<1>1. /\ at[1] \in 1 .. Len(objects) /\ at[2] \in 1 .. Len(object.sections)
      /\ at \in Nat \X Nat /\ at' \in (Nat \ {0}) \X (Nat \ {0})
  <2>1. /\ objects \in Seq(ObjectFiles)
        /\ at[1] \in Nat \ {0} /\ at[2] \in Nat \ {0} /\ at = <<at[1], at[2]>>
        /\ at[1] <= Len(objects) /\ at[2] <= Len(object.sections)
        /\ at' = <<at[1], at[2] + 1>>
    BY DEF MergeInv, MergeSection
  <2>2. object \in ObjectFiles
    BY <2>1
  <2>3. Len(object.sections) \in Nat
    <3>1. object.sections \in Seq(SectionRecord)
      BY <2>2, FilesAssumption
    <3> QED
      BY <3>1
  <2> QED
    BY <2>1, <2>3
<1>2. object \in ObjectFiles
  BY <1>1 DEF MergeInv
<1>3. section \in SectionRecord
  BY <1>1, <1>2, FilesAssumption
<1>4. size \in Nat
  BY <1>1, <1>2, EstimateNat
<1>5. objects' = objects
  BY DEF MergeSection
<1>6. /\ DOMAIN merged' = MergedKinds
      /\ \A k \in MergedKinds : SectionSound(merged'[k]) /\ (k # "bss" => DataOnly(merged'[k]))
  <2>1. CASE section.kind \notin MergedKinds
    <3>1. merged' = merged
      BY <2>1 DEF MergeSection
    <3> QED
      BY <3>1 DEF MergeInv
  <2>2. CASE section.kind \in MergedKinds
    <3> DEFINE new == Contribute(merged[section.kind], at, section, size)
    <3>1. merged' = [merged EXCEPT ![section.kind] = new]
      BY <2>2 DEF MergeSection
    <3>2. SectionSound(merged[section.kind])
      BY <2>2 DEF MergeInv
    <3>3. SectionSound(new) /\ (section.kind # "bss" => DataOnly(new))
      <4> HIDE DEF section, size
      <4> QED
        BY <1>1, <1>3, <1>4, <3>2, ContributeSound
    <3> HIDE DEF new, section
    <3>4. DOMAIN merged' = MergedKinds
      BY <3>1 DEF MergeInv
    <3>5. \A k \in MergedKinds : merged'[k] = IF k = section.kind THEN new ELSE merged[k]
      BY <3>1 DEF MergeInv
    <3> QED
      BY <3>3, <3>4, <3>5, Zenon DEF MergeInv
  <2> QED
    BY <2>1, <2>2
<1> QED
  BY <1>1, <1>5, <1>6 DEF MergeInv

\* Every other step leaves the merged sections alone.
LEMMA MergeStep == MergeInv /\ [LinkNext]_linkvars => MergeInv'
<1> SUFFICES ASSUME MergeInv, [LinkNext]_linkvars PROVE MergeInv'
  OBVIOUS
<1>1. CASE MergeSection
  BY <1>1, MergeSectionStep
<1>2. CASE UNCHANGED <<objects, merged>> /\ at' \in (Nat \ {0}) \X (Nat \ {0})
  BY <1>2 DEF MergeInv
<1>3. at \in (Nat \ {0}) \X (Nat \ {0}) /\ at = <<at[1], at[2]>>
      /\ at[1] \in Nat \ {0} /\ at[2] \in Nat \ {0}
  BY DEF MergeInv
<1>4. /\ <<at[1] + 1, 1>> \in (Nat \ {0}) \X (Nat \ {0})
      /\ <<at[1], at[2] + 1>> \in (Nat \ {0}) \X (Nat \ {0})
      /\ <<1, 1>> \in (Nat \ {0}) \X (Nat \ {0})
  BY <1>3
<1>5. CASE LoadObject \/ EndLoad \/ MergeNextObject \/ EndMerge
  BY <1>2, <1>4, <1>5 DEF LoadObject, EndLoad, MergeNextObject, EndMerge
<1>6. CASE BuildSymbol
  BY <1>2, <1>4, <1>6, Zenon DEF BuildSymbol
<1>7. CASE SymbolsNextObject
  BY <1>2, <1>4, <1>7 DEF SymbolsNextObject
<1>8. CASE EndSymbols \/ AssignVirtualAddresses \/ ValidateExternals
  BY <1>2, <1>3, <1>8 DEF EndSymbols, AssignVirtualAddresses, ValidateExternals
<1>9. CASE UNCHANGED linkvars
  BY <1>2, <1>3, <1>9 DEF linkvars
<1> QED
  BY <1>1, <1>5, <1>6, <1>7, <1>8, <1>9 DEF LinkNext

\* Merging keeps its invariant.
LEMMA MergeInvariant == LinkSpec => []MergeInv
  BY MergeInit, MergeStep, PTL DEF LinkSpec

\* No two contributions of any object files share a byte of a merged section,
\* whatever their sizes, alignments and order (link_resolution_merge_sections).
LEMMA Disjoint == LinkSpec => []ContributionsDisjoint
<1>1. MergeInv => ContributionsDisjoint
  BY DEF MergeInv, SectionSound, Ordered, ContributionsDisjoint
<1> QED
  BY <1>1, MergeInvariant, PTL

\* Every contribution starts at a multiple of its alignment.
LEMMA StartsAligned == LinkSpec => []ContributionsAligned
<1>1. MergeInv => ContributionsAligned
  BY DEF MergeInv, SectionSound, PartsAligned, ContributionsAligned
<1> QED
  BY <1>1, MergeInvariant, PTL

\* Merging places every contribution soundly, for all object files.
THEOREM Placed == LinkSpec => []ContributionsPlaced
  BY Disjoint, StartsAligned, PTL DEF ContributionsPlaced

\* Every byte of a merged section has been written exactly once, so none of the
\* buffer realloc returned is left in the image.
THEOREM WrittenOnce == LinkSpec => []BytesWrittenOnce
<1>1. MergeInv => BytesWrittenOnce
  BY DEF MergeInv, SectionSound, Covers, BytesWrittenOnce
<1> QED
  BY <1>1, MergeInvariant, PTL

-----------------------------------------------------------------------------
Phases == {"load", "merge", "symbols", "addresses", "validate", "resolved", "failed"}
Places == [kind : MergedKinds \cup {"none"}, offset : Nat]

\* The invariant behind LinkTypeOK: a symbol is only defined through a place, so
\* the places of all sections have to be typed as well.
TypeInv ==
  /\ MergeInv
  /\ phase \in Phases
  /\ place \in [SectionIds(objects) -> Places]
  /\ \A id \in DOMAIN syms : syms[id].defined => syms[id].kind \in MergedKinds

\* MergeSection records where it put the section.
LEMMA PlaceStep == TypeInv /\ MergeSection => TypeInv'
<1> SUFFICES ASSUME TypeInv, MergeSection PROVE TypeInv'
  OBVIOUS
<1> DEFINE object == objects[at[1]]
           section == object.sections[at[2]]
           new == [kind |-> section.kind,
                   offset |-> Start(merged[section.kind], AlignmentOf(section))]
<1>1. MergeInv'
  BY MergeSectionStep DEF TypeInv
<1>2. section \in SectionRecord
  <2>1. /\ objects \in Seq(ObjectFiles)
        /\ at[1] \in Nat \ {0} /\ at[2] \in Nat \ {0}
        /\ at[1] <= Len(objects) /\ at[2] <= Len(object.sections)
    BY DEF TypeInv, MergeInv, MergeSection
  <2>2. object \in ObjectFiles
    BY <2>1
  <2>3. object.sections \in Seq(SectionRecord)
    BY <2>2, FilesAssumption
  <2> HIDE DEF object
  <2> QED
    BY <2>1, <2>3
<1>3. UNCHANGED <<phase, objects, syms>>
  BY DEF MergeSection
<1>4. place' \in [SectionIds(objects) -> Places]
  <2>1. CASE section.kind \notin MergedKinds
    <3>1. place' = place
      BY <2>1 DEF MergeSection
    <3> QED
      BY <3>1 DEF TypeInv
  <2>2. CASE section.kind \in MergedKinds
    <3>1. place' = [place EXCEPT ![at] = new]
      BY <2>2 DEF MergeSection
    <3>2. merged[section.kind].vsize \in Nat
      <4>1. SectionSound(merged[section.kind])
        BY <2>2 DEF TypeInv, MergeInv
      <4> HIDE DEF section
      <4> QED
        BY <4>1 DEF SectionSound, Merged
    <3>3. AlignmentOf(section) \in Nat \ {0}
      BY <1>2, AlignmentPositive
    <3>4. new.offset \in Nat
      <4> HIDE DEF section
      <4> QED
        BY <3>2, <3>3, AlignUpGrows DEF Start
    <3>5. new \in Places
      <4> HIDE DEF section
      <4> QED
        BY <2>2, <3>4 DEF Places
    <3> HIDE DEF new
    <3> QED
      BY <3>1, <3>5 DEF TypeInv
  <2> QED
    BY <2>1, <2>2
<1> QED
  BY <1>1, <1>3, <1>4 DEF TypeInv

\* A symbol BuildSymbol resolves is defined only in a merged section.
LEMMA SymbolStep == TypeInv /\ BuildSymbol => TypeInv'
<1> SUFFICES ASSUME TypeInv, BuildSymbol PROVE TypeInv'
  OBVIOUS
<1> DEFINE object == objects[at[1]]
           symbol == object.symbols[at[2]]
           outside == ~symbol.auxiliary /\ symbol.section > Len(object.sections)
           r == Resolved(at[1], symbol)
<1>1. MergeInv'
  BY MergeStep DEF TypeInv, LinkNext
<1>2. UNCHANGED <<objects, place>> /\ phase' \in Phases
  <2>1. UNCHANGED <<objects, place>> /\ (phase' = phase \/ phase' = "failed")
    BY Zenon DEF BuildSymbol, Fail
  <2> QED
    BY <2>1 DEF TypeInv, Phases
<1>3. syms' = syms \/ (~outside /\ syms' = [syms EXCEPT ![at] = r])
  BY Zenon DEF BuildSymbol
<1>4. ASSUME ~outside PROVE r.defined => r.kind \in MergedKinds
  <2>1. /\ objects \in Seq(ObjectFiles)
        /\ at[1] \in Nat \ {0} /\ at[2] \in Nat \ {0}
        /\ at[1] <= Len(objects) /\ at[2] <= Len(object.symbols)
    BY DEF TypeInv, MergeInv, BuildSymbol
  <2>2. object \in ObjectFiles /\ at[1] \in 1 .. Len(objects)
    BY <2>1
  <2>3. object.symbols \in Seq(SymbolRecord) /\ object.sections \in Seq(SectionRecord)
    BY <2>2, FilesAssumption
  <2>4. symbol \in SymbolRecord
    <3> HIDE DEF object
    <3> QED
      BY <2>1, <2>3
  <2>5. symbol.section \in Int /\ Len(object.sections) \in Nat
    <3>1. symbol.section \in Int
      <4> HIDE DEF symbol
      <4> QED
        BY <2>4 DEF SymbolRecord
    <3>2. Len(object.sections) \in Nat
      BY <2>3
    <3> QED
      BY <3>1, <3>2
  <2> DEFINE p == PlaceOf(at[1], symbol)
  <2>6. r.defined = (~symbol.auxiliary /\ p.kind # "none")
        /\ r.kind = IF ~symbol.auxiliary /\ p.kind # "none" THEN p.kind ELSE "none"
    BY DEF Resolved, ObjectSymbol
  <2>7. CASE symbol.auxiliary
    BY <2>6, <2>7, Zenon
  <2>8. CASE ~symbol.auxiliary
    <3>1. symbol.section <= Len(object.sections)
      BY <1>4, <2>5, <2>8
    <3>2. p.kind \in MergedKinds \cup {"none"}
      <4>1. CASE symbol.section > 0
        <5>1. <<at[1], symbol.section>> \in SectionIds(objects)
          BY <2>2, <2>5, <3>1, <4>1 DEF SectionIds
        <5>2. place[<<at[1], symbol.section>>] \in Places
          BY <5>1, Zenon DEF TypeInv
        <5>3. p = place[<<at[1], symbol.section>>]
          BY <4>1 DEF PlaceOf
        <5> HIDE DEF p
        <5> QED
          BY <5>2, <5>3 DEF Places
      <4>2. CASE ~(symbol.section > 0)
        BY <4>2 DEF PlaceOf, Unplaced
      <4> QED
        BY <4>1, <4>2
    <3> HIDE DEF p, r
    <3> QED
      BY <2>6, <2>8, <3>2
  <2> QED
    BY <2>7, <2>8
<1>5. \A id \in DOMAIN syms' : syms'[id].defined => syms'[id].kind \in MergedKinds
  <2>1. CASE syms' = syms
    BY <2>1 DEF TypeInv
  <2>2. CASE ~outside /\ syms' = [syms EXCEPT ![at] = r]
    <3>1. r.defined => r.kind \in MergedKinds
      BY <1>4, <2>2
    <3> HIDE DEF r
    <3>2. \A id \in DOMAIN syms' : id \in DOMAIN syms /\ (syms'[id] = r \/ syms'[id] = syms[id])
      BY <2>2
    <3> QED
      BY <3>1, <3>2, Zenon DEF TypeInv
  <2> QED
    BY <1>3, <2>1, <2>2
<1> QED
  BY <1>1, <1>2, <1>5 DEF TypeInv

\* The initial state is well typed.
LEMMA TypeInit == LinkInit => TypeInv
<1> SUFFICES ASSUME LinkInit PROVE TypeInv
  OBVIOUS
<1>1. MergeInv
  BY MergeInit
<1>2. phase \in Phases
  BY DEF LinkInit, Phases
<1>3. place \in [SectionIds(objects) -> Places]
  <2>1. Unplaced \in Places
    BY DEF Unplaced, Places
  <2> QED
    BY <2>1 DEF LinkInit
<1>4. \A id \in DOMAIN syms : ~syms[id].defined
  BY DEF LinkInit, NoSymbol
<1> QED
  BY <1>1, <1>2, <1>3, <1>4 DEF TypeInv

\* Every step keeps the types.
LEMMA TypeStep == TypeInv /\ [LinkNext]_linkvars => TypeInv'
<1> SUFFICES ASSUME TypeInv, [LinkNext]_linkvars PROVE TypeInv'
  OBVIOUS
<1>1. CASE MergeSection
  BY <1>1, PlaceStep
<1>2. CASE BuildSymbol
  BY <1>2, SymbolStep
<1>3. CASE UNCHANGED <<objects, place, syms>> /\ phase' \in Phases
  BY <1>3, MergeStep DEF TypeInv
<1>4. CASE LoadObject \/ EndLoad \/ MergeNextObject \/ EndMerge \/ SymbolsNextObject
  BY <1>3, <1>4 DEF LoadObject, EndLoad, MergeNextObject, EndMerge, SymbolsNextObject,
                    Fail, TypeInv, Phases
<1>5. CASE EndSymbols \/ AssignVirtualAddresses \/ ValidateExternals
  BY <1>3, <1>5 DEF EndSymbols, AssignVirtualAddresses, ValidateExternals, Fail, TypeInv, Phases
<1>6. CASE UNCHANGED linkvars
  BY <1>3, <1>6 DEF linkvars, TypeInv
<1> QED
  BY <1>1, <1>2, <1>4, <1>5, <1>6 DEF LinkNext

\* Every state of the first half of the link is well typed, for any object files:
\* in particular no symbol counts as defined without a merged section to be in.
THEOREM LinkTyping == LinkSpec => []LinkTypeOK
<1>1. TypeInv => LinkTypeOK
  <2> SUFFICES ASSUME TypeInv PROVE LinkTypeOK
    OBVIOUS
  <2>1. \A k \in MergedKinds : merged[k].size \in Nat /\ merged[k].vsize \in Nat
                                /\ merged[k].align \in Nat
    BY DEF TypeInv, MergeInv, SectionSound, Merged
  <2>2. \A id \in DOMAIN place : place[id] \in Places
    BY DEF TypeInv
  <2>3. \A x \in Places : x.kind \in MergedKinds \cup {"none"} /\ x.offset \in Nat
    BY DEF Places
  <2> QED
    BY <2>1, <2>2, <2>3 DEF TypeInv, LinkTypeOK, Phases
<1> QED
  BY <1>1, TypeInit, TypeStep, PTL DEF LinkSpec

-----------------------------------------------------------------------------
\* A contribution of the section `id' starts at `offset'.
HasPart(parts, id, offset) ==
  \E i \in 1 .. Len(parts) : parts[i].id = id /\ parts[i].offset = offset

\* Every section that has a place has its contribution there.
PlacedInParts ==
  \A id \in SectionIds(objects) : place[id].kind # "none" =>
    HasPart(merged[place[id].kind].parts, id, place[id].offset)

\* SymbolsFollowTheirSection needs the places as well: a symbol is resolved
\* through the place of its section, not through the contribution itself.
FollowInv == TypeInv /\ PlacedInParts /\ SymbolsFollowTheirSection

\* The object, section and symbol the cursor is at.
LEMMA CursorSection ==
  ASSUME MergeInv, MergeSection
  PROVE  /\ at[1] \in 1 .. Len(objects) /\ at[2] \in 1 .. Len(objects[at[1]].sections)
         /\ at = <<at[1], at[2]>> /\ at \in SectionIds(objects)
         /\ objects[at[1]].sections[at[2]] \in SectionRecord
<1> DEFINE object == objects[at[1]]
<1>1. /\ objects \in Seq(ObjectFiles)
      /\ at[1] \in Nat \ {0} /\ at[2] \in Nat \ {0} /\ at = <<at[1], at[2]>>
      /\ at[1] <= Len(objects) /\ at[2] <= Len(object.sections)
  BY DEF MergeInv, MergeSection
<1>2. object \in ObjectFiles /\ at[1] \in 1 .. Len(objects)
  BY <1>1
<1>3. object.sections \in Seq(SectionRecord)
  BY <1>2, FilesAssumption
<1>4. at[2] \in 1 .. Len(object.sections) /\ object.sections[at[2]] \in SectionRecord
  <2> HIDE DEF object
  <2> QED BY <1>1, <1>3
<1>5. at \in SectionIds(objects)
  BY <1>1, <1>2, <1>4 DEF SectionIds
<1> QED BY <1>1, <1>2, <1>4, <1>5

LEMMA CursorSymbol ==
  ASSUME MergeInv, BuildSymbol
  PROVE  /\ at[1] \in 1 .. Len(objects) /\ at[2] \in 1 .. Len(objects[at[1]].symbols)
         /\ at = <<at[1], at[2]>> /\ at \in SymbolIds(objects)
         /\ objects[at[1]].symbols[at[2]] \in SymbolRecord
         /\ objects[at[1]].symbols[at[2]].section \in Int
         /\ Len(objects[at[1]].sections) \in Nat
<1> DEFINE object == objects[at[1]]
<1>1. /\ objects \in Seq(ObjectFiles)
      /\ at[1] \in Nat \ {0} /\ at[2] \in Nat \ {0} /\ at = <<at[1], at[2]>>
      /\ at[1] <= Len(objects) /\ at[2] <= Len(object.symbols)
  BY DEF MergeInv, BuildSymbol
<1>2. object \in ObjectFiles /\ at[1] \in 1 .. Len(objects)
  BY <1>1
<1>3. object.symbols \in Seq(SymbolRecord) /\ object.sections \in Seq(SectionRecord)
  BY <1>2, FilesAssumption
<1>4. at[2] \in 1 .. Len(object.symbols) /\ object.symbols[at[2]] \in SymbolRecord
  <2> HIDE DEF object
  <2> QED BY <1>1, <1>3
<1>5. at \in SymbolIds(objects)
  BY <1>1, <1>2, <1>4 DEF SymbolIds
<1>6. \A x \in SymbolRecord : x.section \in Int
  BY DEF SymbolRecord
<1>7. Len(object.sections) \in Nat
  BY <1>3
<1> QED BY <1>1, <1>2, <1>4, <1>5, <1>6, <1>7

\* A contribution is appended: those before it stay where they are.
LEMMA ContributeAppends ==
  ASSUME NEW m, SectionSound(m), NEW id \in Nat \X Nat,
         NEW section \in SectionRecord, NEW size \in Nat,
         NEW p, p = Contribute(m, id, section, size).parts
  PROVE  /\ HasPart(p, id, Start(m, AlignmentOf(section)))
         /\ \A i \in 1 .. Len(m.parts) : i \in 1 .. Len(p) /\ p[i] = m.parts[i]
<1> DEFINE Part == [id : Nat \X Nat, offset : Nat, used : Nat, align : Nat \ {0}]
           a == AlignmentOf(section)
           start == Start(m, a)
           used == IF section.kind = "bss" THEN size ELSE section.raw
           part == [id |-> id, offset |-> start, used |-> used, align |-> a]
<1>1. m \in Merged
  BY DEF SectionSound
<1>2. p = Append(m.parts, part)
  BY <1>1 DEF Contribute, Merged
<1>3. m.parts \in Seq(Part)
  BY <1>1 DEF Merged, Parts
<1>4. part.id = id /\ part.offset = start
  OBVIOUS
<1> HIDE DEF part, Part, start
<1>5. /\ Len(m.parts) \in Nat /\ Len(p) = Len(m.parts) + 1
      /\ p[Len(p)] = part
      /\ \A i \in 1 .. Len(m.parts) : i \in 1 .. Len(p) /\ p[i] = m.parts[i]
  BY <1>2, <1>3
<1>6. Len(p) \in 1 .. Len(p)
  BY <1>5
<1>7. HasPart(p, id, start)
  BY <1>4, <1>5, <1>6, Zenon DEF HasPart
<1> QED BY <1>5, <1>7 DEF start

\* Merging a section gives it its place and leaves the others theirs.
LEMMA FollowMerge == FollowInv /\ MergeSection => PlacedInParts' /\ SymbolsFollowTheirSection'
<1> SUFFICES ASSUME FollowInv, MergeSection PROVE PlacedInParts' /\ SymbolsFollowTheirSection'
  OBVIOUS
<1> DEFINE object == objects[at[1]]
           section == object.sections[at[2]]
           size == EstimatedSize(object, at[2])
           kind == section.kind
           offset == Start(merged[kind], AlignmentOf(section))
           new == Contribute(merged[kind], at, section, size)
<1>1. MergeInv /\ TypeInv
  BY DEF FollowInv, TypeInv
<1>2. /\ at[1] \in 1 .. Len(objects) /\ at[2] \in 1 .. Len(object.sections)
      /\ at = <<at[1], at[2]>> /\ at \in SectionIds(objects) /\ section \in SectionRecord
  BY <1>1, CursorSection
<1>3. UNCHANGED <<objects, syms>>
  BY DEF MergeSection
<1>4. CASE kind \notin MergedKinds
  <2>1. UNCHANGED <<merged, place>>
    BY <1>4 DEF MergeSection
  <2> QED
    BY <1>3, <2>1, Zenon DEF FollowInv, PlacedInParts, SymbolsFollowTheirSection
<1>5. CASE kind \in MergedKinds
  <2>1. /\ merged' = [merged EXCEPT ![kind] = new]
        /\ place' = [place EXCEPT ![at] = [kind |-> kind, offset |-> offset]]
    BY <1>5 DEF MergeSection
  <2>2. size \in Nat
    <3>1. object \in ObjectFiles
      BY <1>1, <1>2 DEF MergeInv
    <3> QED BY <1>2, <3>1, EstimateNat
  <2>3. /\ HasPart(new.parts, at, offset)
        /\ \A i \in 1 .. Len(merged[kind].parts) :
             i \in 1 .. Len(new.parts) /\ new.parts[i] = merged[kind].parts[i]
    <3>1. SectionSound(merged[kind]) /\ at \in Nat \X Nat
      BY <1>1, <1>2, <1>5 DEF MergeInv
    <3> HIDE DEF section, size, kind
    <3> QED BY <1>2, <2>2, <3>1, ContributeAppends
  <2> HIDE DEF new, offset, kind, section
  <2>4. \A k \in MergedKinds : merged'[k] = IF k = kind THEN new ELSE merged[k]
    BY <1>1, <2>1 DEF MergeInv
  <2>5. \A k \in MergedKinds : \A i \in 1 .. Len(merged[k].parts) :
          i \in 1 .. Len(merged'[k].parts) /\ merged'[k].parts[i] = merged[k].parts[i]
    BY <2>3, <2>4, Zenon
  <2>6. \A id \in SectionIds(objects) :
          place'[id] = IF id = at THEN [kind |-> kind, offset |-> offset] ELSE place[id]
    BY <1>1, <2>1 DEF TypeInv
  <2>7. PlacedInParts'
    <3> SUFFICES ASSUME NEW id \in SectionIds(objects), place'[id].kind # "none"
                 PROVE  HasPart(merged'[place'[id].kind].parts, id, place'[id].offset)
      BY <1>3 DEF PlacedInParts
    <3>1. CASE id = at
      <4>1. place'[id].kind = kind /\ place'[id].offset = offset
        BY <2>6, <3>1
      <4> QED BY <1>5, <2>3, <2>4, <3>1, <4>1, Zenon
    <3>2. CASE id # at
      <4>1. place'[id] = place[id]
        BY <2>6, <3>2
      <4>2. place[id] \in Places
        BY <1>1 DEF TypeInv
      <4>3. place[id].kind \in MergedKinds
        BY <4>1, <4>2 DEF Places
      <4>4. HasPart(merged[place[id].kind].parts, id, place[id].offset)
        BY <4>1, Zenon DEF FollowInv, PlacedInParts
      <4> QED BY <2>5, <4>1, <4>3, <4>4, Zenon DEF HasPart
    <3> QED BY <3>1, <3>2
  <2>8. SymbolsFollowTheirSection'
    <3> SUFFICES ASSUME NEW id \in DOMAIN syms, syms[id].defined
                 PROVE  \E i \in 1 .. Len(merged'[syms[id].kind].parts) :
                          /\ merged'[syms[id].kind].parts[i].id
                               = <<id[1], objects[id[1]].symbols[id[2]].section>>
                          /\ syms[id].offset = merged'[syms[id].kind].parts[i].offset
                                               + objects[id[1]].symbols[id[2]].value
      BY <1>3, Zenon DEF SymbolsFollowTheirSection
    <3>1. syms[id].kind \in MergedKinds
      BY <1>1 DEF TypeInv
    <3>2. \E i \in 1 .. Len(merged[syms[id].kind].parts) :
            /\ merged[syms[id].kind].parts[i].id
                 = <<id[1], objects[id[1]].symbols[id[2]].section>>
            /\ syms[id].offset = merged[syms[id].kind].parts[i].offset
                                 + objects[id[1]].symbols[id[2]].value
      BY Zenon DEF FollowInv, SymbolsFollowTheirSection
    <3> QED BY <2>5, <3>1, <3>2, Zenon
  <2> QED BY <2>7, <2>8
<1> QED BY <1>4, <1>5

\* A symbol is resolved through the place of its section.
LEMMA FollowSymbol == FollowInv /\ BuildSymbol => PlacedInParts' /\ SymbolsFollowTheirSection'
<1> SUFFICES ASSUME FollowInv, BuildSymbol PROVE PlacedInParts' /\ SymbolsFollowTheirSection'
  OBVIOUS
<1> DEFINE object == objects[at[1]]
           symbol == object.symbols[at[2]]
           outside == ~symbol.auxiliary /\ symbol.section > Len(object.sections)
           r == Resolved(at[1], symbol)
           p == PlaceOf(at[1], symbol)
           home == <<at[1], symbol.section>>
<1>1. MergeInv /\ TypeInv
  BY DEF FollowInv, TypeInv
<1>2. /\ at[1] \in 1 .. Len(objects) /\ at = <<at[1], at[2]>>
      /\ symbol.section \in Int /\ Len(object.sections) \in Nat
  BY <1>1, CursorSymbol
<1>3. UNCHANGED <<objects, merged, place>>
  BY Zenon DEF BuildSymbol
<1>4. syms' = syms \/ (~outside /\ syms' = [syms EXCEPT ![at] = r])
  BY Zenon DEF BuildSymbol
<1>5. PlacedInParts'
  BY <1>3, Zenon DEF FollowInv, PlacedInParts
<1>6. ASSUME ~outside, r.defined
      PROVE  HasPart(merged[r.kind].parts, home, p.offset) /\ r.offset = p.offset + symbol.value
  <2>1. ~symbol.auxiliary /\ p.kind # "none" /\ r.kind = p.kind /\ r.offset = p.offset + symbol.value
    BY <1>6 DEF Resolved, ObjectSymbol
  <2>2. symbol.section > 0 /\ p = place[home]
    <3>1. CASE symbol.section > 0
      BY <3>1 DEF PlaceOf
    <3>2. CASE ~(symbol.section > 0)
      BY <2>1, <3>2 DEF PlaceOf, Unplaced
    <3> QED BY <3>1, <3>2
  <2>3. symbol.section \in 1 .. Len(object.sections)
    <3>1. ~(symbol.section > Len(object.sections))
      BY <1>6, <2>1, Zenon
    <3> HIDE DEF symbol, object, r, p, home
    <3> QED BY <1>2, <2>2, <3>1
  <2>4. home \in SectionIds(objects)
    BY <1>2, <2>3 DEF SectionIds
  <2> HIDE DEF p, home, r, symbol
  <2> QED BY <2>1, <2>2, <2>4, Zenon DEF FollowInv, PlacedInParts
<1>7. SymbolsFollowTheirSection'
  <2>1. CASE syms' = syms
    BY <1>3, <2>1, Zenon DEF FollowInv, SymbolsFollowTheirSection
  <2>2. CASE ~outside /\ syms' = [syms EXCEPT ![at] = r]
    <3> SUFFICES ASSUME NEW id \in DOMAIN syms', syms'[id].defined
                 PROVE  \E i \in 1 .. Len(merged[syms'[id].kind].parts) :
                          /\ merged[syms'[id].kind].parts[i].id
                               = <<id[1], objects[id[1]].symbols[id[2]].section>>
                          /\ syms'[id].offset = merged[syms'[id].kind].parts[i].offset
                                               + objects[id[1]].symbols[id[2]].value
      BY <1>3, Zenon DEF SymbolsFollowTheirSection
    <3>1. CASE id = at
      <4>1. syms'[id] = r
        <5> HIDE DEF r
        <5> QED BY <2>2, <3>1
      <4>2. HasPart(merged[r.kind].parts, home, p.offset) /\ r.offset = p.offset + symbol.value
        BY <1>6, <2>2, <4>1, Zenon
      <4> HIDE DEF r, p
      <4> QED BY <3>1, <4>1, <4>2, Zenon DEF HasPart
    <3>2. CASE id # at
      <4>1. id \in DOMAIN syms /\ syms'[id] = syms[id]
        <5> HIDE DEF r
        <5> QED BY <2>2, <3>2
      <4> QED BY <4>1, Zenon DEF FollowInv, SymbolsFollowTheirSection
    <3> QED BY <3>1, <3>2
  <2> QED BY <1>4, <2>1, <2>2
<1> QED BY <1>5, <1>7

\* Every symbol that counts as defined stands as far from the start of its own
\* object's contribution as in the object file, for any object files in any
\* order (link_resolution_build_symbols).
THEOREM SymbolsPlaced == LinkSpec => []SymbolsFollowTheirSection
<1>1. LinkInit => FollowInv
  <2> SUFFICES ASSUME LinkInit PROVE FollowInv
    OBVIOUS
  <2>1. TypeInv
    BY TypeInit
  <2>2. \A id \in SectionIds(objects) : place[id].kind = "none"
    BY DEF LinkInit, Unplaced
  <2>3. \A id \in DOMAIN syms : ~syms[id].defined
    BY DEF LinkInit, NoSymbol
  <2> QED BY <2>1, <2>2, <2>3, Zenon DEF FollowInv, PlacedInParts, SymbolsFollowTheirSection
<1>2. FollowInv /\ [LinkNext]_linkvars => FollowInv'
  <2> SUFFICES ASSUME FollowInv, [LinkNext]_linkvars PROVE FollowInv'
    OBVIOUS
  <2>1. TypeInv'
    BY TypeStep DEF FollowInv
  <2>2. CASE MergeSection
    BY <2>1, <2>2, FollowMerge DEF FollowInv
  <2>3. CASE BuildSymbol
    BY <2>1, <2>3, FollowSymbol DEF FollowInv
  <2>4. CASE UNCHANGED <<objects, merged, place, syms>>
    BY <2>1, <2>4, Zenon DEF FollowInv, PlacedInParts, SymbolsFollowTheirSection
  <2>5. CASE LoadObject \/ EndLoad \/ MergeNextObject \/ EndMerge \/ SymbolsNextObject
    BY <2>4, <2>5 DEF LoadObject, EndLoad, MergeNextObject, EndMerge, SymbolsNextObject
  <2>6. CASE EndSymbols \/ AssignVirtualAddresses \/ ValidateExternals
    BY <2>4, <2>6 DEF EndSymbols, AssignVirtualAddresses, ValidateExternals
  <2>7. CASE UNCHANGED linkvars
    BY <2>4, <2>7 DEF linkvars
  <2> QED BY <2>2, <2>3, <2>5, <2>6, <2>7 DEF LinkNext
<1>3. FollowInv => SymbolsFollowTheirSection
  BY DEF FollowInv
<1> QED BY <1>1, <1>2, <1>3, PTL DEF LinkSpec


-----------------------------------------------------------------------------
\* Whether the loops' cursor has passed an id.
Passed(id) == id[1] < at[1] \/ (id[1] = at[1] /\ id[2] < at[2])

Early == {"load", "merge"}
\* The symbols link_resolution_build_symbols has been through.
Seen == {id \in SymbolIds(objects) : phase \notin Early /\ Passed(id)}
SeenExternals == ExternalSymbols \cap Seen

\* The symbols that define a name, and the names of all symbols.
Defining ==
  {id \in ExternalSymbols :
     /\ SymbolAt(id).section \in 1 .. Len(objects[id[1]].sections)
     /\ objects[id[1]].sections[SymbolAt(id).section].kind \in MergedKinds}
SeenDefining == Defining \cap Seen
Names == [id \in SymbolIds(objects) |-> SymbolAt(id).name]

\* How far the loops have come, and which files were read.
CursorInv ==
  /\ phase \in {"addresses", "validate", "resolved"} => at[1] > Len(objects)
  /\ phase = "load" => \A o \in 1 .. Len(objects) : o < at[1] => objects[o].readable
  /\ phase # "load" => \A o \in 1 .. Len(objects) : objects[o].readable

SectionAt(id) == objects[id[1]].sections[id[2]]

\* The sections passed so far have a place exactly if they are merged.
PlaceInv ==
  \A id \in SectionIds(objects) :
    /\ place[id].kind \in {"none", SectionAt(id).kind}
    /\ SectionAt(id).kind \notin MergedKinds => place[id].kind = "none"
    /\ SectionAt(id).kind \in MergedKinds /\ (phase \notin Early \/ (phase = "merge" /\ Passed(id)))
         => place[id].kind # "none"

InsideTable(id) ==
  SymbolAt(id).auxiliary \/ SymbolAt(id).section <= Len(objects[id[1]].sections)

\* The symbols passed so far are resolved, and none lies outside its object.
SymsInv == \A id \in Seen : InsideTable(id) /\ syms[id] = Resolved(id[1], SymbolAt(id))

\* An entry against the symbols D that define the names nm, resolved as in t.
EntrySays(e, D, nm, t) ==
  /\ e.defined <=> \E id \in D : nm[id] = e.name
  /\ \A id \in D : nm[id] = e.name => e.owner = id
  /\ e.defined => e.offset = t[e.owner].offset /\ e.kind = t[e.owner].kind

\* A table against the external symbols E: no other name, none twice, and of
\* each name the one definition there is.
TableSays(g, E, D, nm, t) ==
  /\ \A i, j \in 1 .. Len(g) : g[i].name = g[j].name => i = j
  /\ \A id \in E : \E i \in 1 .. Len(g) : g[i].name = nm[id]
  /\ \A i \in 1 .. Len(g) : \E id \in E : g[i].name = nm[id]
  /\ \A i \in 1 .. Len(g) : EntrySays(g[i], D, nm, t)

\* The table of global names is what the symbols passed so far say.
GlobalsInv == TableSays(globals, SeenExternals, SeenDefining, Names, syms)

GlobalRecord ==
  [name : STRING, defined : BOOLEAN, owner : Nat \X Nat,
   kind : MergedKinds \cup {"none"}, offset : Nat]

\* What the command line has to offer for the link to succeed.
Linkable ==
  /\ WellFormedInput
  /\ Definitions(EntryName) # {}
  /\ AllowUnresolved \/ \A id \in ExternalSymbols : Definitions(SymbolAt(id).name) # {}

\* The inductive invariant behind OutcomeAsSpecified.
OutcomeInv ==
  /\ TypeInv
  /\ DOMAIN syms = SymbolIds(objects)
  /\ globals \in Seq(GlobalRecord)
  /\ phase # "failed" => CursorInv /\ PlaceInv /\ SymsInv /\ GlobalsInv
  /\ phase = "failed" => ~Linkable
  /\ phase = "resolved" => ExternalsValid

\* Whether the files can be linked is fixed by the command line.
LEMMA InputsFixed ==
  ASSUME objects' = objects
  PROVE  /\ ExternalSymbols' = ExternalSymbols
         /\ Defining' = Defining /\ Names' = Names
         /\ \A id : SymbolAt(id)' = SymbolAt(id) /\ SectionAt(id)' = SectionAt(id)
                    /\ InsideTable(id)' = InsideTable(id)
         /\ Linkable' <=> Linkable
<1>1. /\ ExternalSymbols' = ExternalSymbols
      /\ \A id : SymbolAt(id)' = SymbolAt(id) /\ SectionAt(id)' = SectionAt(id)
  BY Zenon DEF ExternalSymbols, SymbolAt, SectionAt, SymbolIds
<1>2. Defining' = Defining /\ Names' = Names
  BY DEF Defining, Names, SymbolAt, ExternalSymbols, SymbolIds
<1>3. \A id : InsideTable(id)' = InsideTable(id)
  BY <1>1, Zenon DEF InsideTable, SymbolAt
<1>4. WellFormedInput' <=> WellFormedInput
  BY DEF WellFormedInput, SymbolIds, SymbolAt, ExternalSymbols, Definitions
<1>5. Linkable' <=> Linkable
  <2>1. (Definitions(EntryName) # {})' <=> Definitions(EntryName) # {}
    BY DEF Definitions, SymbolAt, ExternalSymbols, SymbolIds
  <2>2. (\A id \in ExternalSymbols : Definitions(SymbolAt(id).name) # {})'
          <=> \A id \in ExternalSymbols : Definitions(SymbolAt(id).name) # {}
    BY DEF Definitions, SymbolAt, ExternalSymbols, SymbolIds
  <2> QED BY <1>4, <2>1, <2>2, Zenon DEF Linkable
<1> QED BY <1>1, <1>2, <1>3, <1>5

\* The ids of symbols and sections.
LEMMA Ids ==
  ASSUME objects \in Seq(ObjectFiles)
  PROVE  /\ \A id \in SymbolIds(objects) :
              /\ id = <<id[1], id[2]>> /\ id[1] \in 1 .. Len(objects)
              /\ id[2] \in 1 .. Len(objects[id[1]].symbols)
         /\ \A id \in SectionIds(objects) :
              /\ id = <<id[1], id[2]>> /\ id[1] \in 1 .. Len(objects)
              /\ id[2] \in 1 .. Len(objects[id[1]].sections)
         /\ Len(objects) \in Nat
         /\ \A o \in 1 .. Len(objects) : Len(objects[o].symbols) \in Nat
                                          /\ Len(objects[o].sections) \in Nat
<1>1. \A o \in 1 .. Len(objects) : objects[o] \in ObjectFiles
  OBVIOUS
<1>2. \A f \in ObjectFiles : Len(f.sections) \in Nat /\ Len(f.symbols) \in Nat
  <2> SUFFICES ASSUME NEW f \in ObjectFiles
               PROVE  Len(f.sections) \in Nat /\ Len(f.symbols) \in Nat
    OBVIOUS
  <2>1. f.sections \in Seq(SectionRecord) /\ f.symbols \in Seq(SymbolRecord)
    BY FilesAssumption
  <2> QED BY <2>1
<1> QED BY <1>1, <1>2 DEF SymbolIds, SectionIds

\* The cursor goes through an object's symbols in order.
LEMMA CursorSteps ==
  ASSUME MergeInv, objects' = objects, NEW id \in SymbolIds(objects) \cup SectionIds(objects)
  PROVE  /\ at' = <<at[1], at[2] + 1>> => (Passed(id)' <=> Passed(id) \/ id = at)
         /\ at' = <<1, 1>> => ~Passed(id)'
         /\ at[1] > Len(objects) => Passed(id)
         /\ at' = at => (Passed(id)' <=> Passed(id))
         /\ id = at => ~Passed(id)
<1>1. /\ at[1] \in Nat \ {0} /\ at[2] \in Nat \ {0} /\ at = <<at[1], at[2]>>
      /\ objects \in Seq(ObjectFiles)
  BY DEF MergeInv
<1>2. id = <<id[1], id[2]>> /\ id[1] \in Nat \ {0} /\ id[2] \in Nat \ {0} /\ id[1] <= Len(objects)
      /\ Len(objects) \in Nat
  BY <1>1, Ids
<1>3. ASSUME at' = <<at[1], at[2] + 1>> PROVE Passed(id)' <=> Passed(id) \/ id = at
  <2>1. at'[1] = at[1] /\ at'[2] = at[2] + 1
    BY <1>3
  <2>2. id = at <=> id[1] = at[1] /\ id[2] = at[2]
    BY <1>1, <1>2
  <2> QED BY <1>1, <1>2, <2>1, <2>2 DEF Passed
<1>4. ASSUME at' = <<1, 1>> PROVE ~Passed(id)'
  <2>1. at'[1] = 1 /\ at'[2] = 1
    BY <1>4
  <2> QED BY <1>2, <2>1 DEF Passed
<1>5. ASSUME at[1] > Len(objects) PROVE Passed(id)
  BY <1>1, <1>2, <1>5 DEF Passed
<1>6. ASSUME at' = at PROVE Passed(id)' <=> Passed(id)
  BY <1>6 DEF Passed
<1>7. ASSUME id = at PROVE ~Passed(id)
  BY <1>1, <1>7 DEF Passed
<1> QED BY <1>3, <1>4, <1>5, <1>6, <1>7

\* Going on to the next object passes nothing when all of this one has been.
LEMMA CursorNextObject ==
  ASSUME MergeInv, objects' = objects, at' = <<at[1] + 1, 1>>, NEW id, NEW n \in Nat,
         at[2] > n, id[1] \in Nat, id[2] \in Nat \ {0},
         id[1] = at[1] => id[2] <= n
  PROVE  Passed(id)' <=> Passed(id)
<1>1. at[1] \in Nat \ {0} /\ at[2] \in Nat \ {0}
  BY DEF MergeInv
<1>2. at'[1] = at[1] + 1 /\ at'[2] = 1
  OBVIOUS
<1>3. CASE id[1] = at[1]
  BY <1>1, <1>2, <1>3 DEF Passed
<1>4. CASE id[1] # at[1]
  BY <1>1, <1>2, <1>4 DEF Passed
<1> QED BY <1>3, <1>4

\* What link_resolution_find_symbol returns.
LEMMA FoundIndex ==
  ASSUME globals \in Seq(GlobalRecord), NEW name
  PROVE  \/ /\ GlobalIndex(name) = 0
            /\ \A i \in 1 .. Len(globals) : globals[i].name # name
         \/ /\ GlobalIndex(name) \in 1 .. Len(globals) /\ GlobalIndex(name) # 0
            /\ globals[GlobalIndex(name)].name = name
<1> DEFINE found == {i \in 1 .. Len(globals) : globals[i].name = name}
<1>1. GlobalIndex(name) = IF found = {} THEN 0 ELSE CHOOSE i \in found : TRUE
  BY Zenon DEF GlobalIndex
<1>2. CASE found = {}
  BY <1>1, <1>2
<1>3. CASE found # {}
  <2>1. GlobalIndex(name) \in found
    <3> HIDE DEF found
    <3> QED BY <1>1, <1>3, Zenon
  <2>2. \A i \in 1 .. Len(globals) : i # 0
    OBVIOUS
  <2> QED BY <2>1, <2>2
<1> QED BY <1>2, <1>3

\* A step that resolves no symbol keeps what is known of the symbols.
LEMMA SameSymbols ==
  ASSUME UNCHANGED <<objects, place, syms, globals>>, Seen' = Seen, SymsInv, GlobalsInv
  PROVE  SymsInv' /\ GlobalsInv'
<1>1. \A id : SymbolAt(id)' = SymbolAt(id) /\ InsideTable(id)' = InsideTable(id)
  BY InputsFixed
<1>2. \A id : Resolved(id[1], SymbolAt(id))' = Resolved(id[1], SymbolAt(id))
  BY Zenon DEF Resolved, PlaceOf, SymbolAt
<1>3. SymsInv'
  BY <1>1, <1>2, Zenon DEF SymsInv
<1>4. SeenExternals' = SeenExternals /\ SeenDefining' = SeenDefining /\ Names' = Names
  BY InputsFixed, Zenon DEF SeenExternals, SeenDefining
<1> QED BY <1>3, <1>4, Zenon DEF GlobalsInv

LEMMA Kept ==
  ASSUME OutcomeInv, TypeInv', UNCHANGED <<objects, place, syms, globals>>,
         phase # "failed", phase' # "failed", Seen' = Seen, CursorInv', PlaceInv',
         phase' = "resolved" => ExternalsValid
  PROVE  OutcomeInv'
<1>1. SymsInv' /\ GlobalsInv'
  BY SameSymbols DEF OutcomeInv
<1>2. ExternalsValid' <=> ExternalsValid
  BY Zenon DEF ExternalsValid, Unresolved, EntryResolved, GlobalIndex
<1>3. DOMAIN syms' = SymbolIds(objects') /\ globals' \in Seq(GlobalRecord)
  BY Zenon DEF OutcomeInv
<1> QED BY <1>1, <1>2, <1>3, Zenon DEF OutcomeInv

\* A link that gives up does so on files that cannot be linked.
LEMMA GivenUp ==
  ASSUME OutcomeInv, TypeInv', objects' = objects, DOMAIN syms' = DOMAIN syms, globals' = globals,
         phase' = "failed", ~Linkable
  PROVE  OutcomeInv'
<1>1. ~Linkable'
  BY InputsFixed
<1>2. phase' # "resolved"
  OBVIOUS
<1> QED BY <1>1, <1>2, Zenon DEF OutcomeInv

LEMMA OutcomeInit == LinkInit => OutcomeInv
<1> SUFFICES ASSUME LinkInit PROVE OutcomeInv
  OBVIOUS
<1>1. TypeInv /\ objects \in Seq(ObjectFiles)
  BY TypeInit DEF TypeInv, MergeInv
<1>2. /\ phase = "load" /\ at = <<1, 1>> /\ globals = <<>>
      /\ place = [id \in SectionIds(objects) |-> Unplaced]
      /\ syms = [id \in SymbolIds(objects) |-> NoSymbol]
  BY DEF LinkInit
<1>3. Seen = {}
  BY <1>2 DEF Seen, Early
<1>4. CursorInv
  BY <1>2 DEF CursorInv
<1>5. PlaceInv
  BY <1>2 DEF PlaceInv, Unplaced, Early
<1>6. SymsInv
  BY <1>3, Zenon DEF SymsInv
<1>7. GlobalsInv
  <2>1. \A i \in 1 .. Len(globals) : FALSE
    BY <1>2
  <2> QED BY <1>3, <2>1, Zenon DEF GlobalsInv, TableSays, SeenExternals
<1>8. DOMAIN syms = SymbolIds(objects) /\ globals \in Seq(GlobalRecord)
  BY <1>2
<1> QED BY <1>1, <1>2, <1>4, <1>5, <1>6, <1>7, <1>8 DEF OutcomeInv

\* Loading: a file that cannot be read ends the link.
LEMMA OutcomeLoad == OutcomeInv /\ (LoadObject \/ EndLoad) => OutcomeInv'
<1> SUFFICES ASSUME OutcomeInv, LoadObject \/ EndLoad PROVE OutcomeInv'
  OBVIOUS
<1>1. TypeInv /\ TypeInv' /\ MergeInv
  BY TypeStep DEF OutcomeInv, LinkNext, TypeInv
<1>2. UNCHANGED <<objects, place, syms, globals>> /\ phase = "load"
  BY DEF LoadObject, EndLoad
<1>3. CursorInv /\ PlaceInv
  BY <1>2 DEF OutcomeInv
<1>4. at[1] \in Nat \ {0} /\ Len(objects) \in Nat
  BY <1>1 DEF MergeInv
<1>5. Seen = {}
  BY <1>2 DEF Seen, Early
<1>6. CASE LoadObject
  <2>1. CASE objects[at[1]].readable
    <3>1. phase' = "load" /\ at' = <<at[1] + 1, 1>> /\ at[1] <= Len(objects)
      BY <1>2, <1>6, <2>1 DEF LoadObject
    <3>2. Seen' = {}
      BY <3>1 DEF Seen, Early
    <3>3. CursorInv'
      <4>1. at'[1] = at[1] + 1
        BY <3>1
      <4>2. ASSUME NEW o \in 1 .. Len(objects), o < at[1] + 1 PROVE objects[o].readable
        <5>1. CASE o = at[1]
          BY <2>1, <5>1
        <5>2. CASE o # at[1]
          <6>1. o < at[1]
            BY <1>4, <4>2, <5>2
          <6> QED BY <1>2, <1>3, <6>1 DEF CursorInv
        <5> QED BY <5>1, <5>2
      <4> QED BY <1>2, <3>1, <4>1, <4>2 DEF CursorInv
    <3>4. PlaceInv'
      BY <1>2, <1>3, <3>1 DEF PlaceInv, SectionAt, Early
    <3>5. phase' # "failed" /\ phase' # "resolved" /\ phase # "failed"
      BY <1>2, <3>1
    <3> QED BY <1>1, <1>2, <1>5, <3>2, <3>3, <3>4, <3>5, Kept
  <2>2. CASE ~objects[at[1]].readable
    <3>1. phase' = "failed" /\ at[1] \in 1 .. Len(objects)
      BY <1>4, <1>6, <2>2 DEF LoadObject, Fail
    <3>2. ~Linkable
      BY <2>2, <3>1, Zenon DEF Linkable, WellFormedInput
    <3>3. DOMAIN syms' = DOMAIN syms /\ objects' = objects /\ globals' = globals
      BY <1>2
    <3> QED BY <1>1, <3>1, <3>2, <3>3, GivenUp
  <2> QED BY <2>1, <2>2
<1>7. CASE EndLoad
  <2>1. phase' = "merge" /\ at' = <<1, 1>> /\ at[1] > Len(objects)
    BY <1>7 DEF EndLoad
  <2>2. Seen' = {}
    BY <2>1 DEF Seen, Early
  <2>3. \A o \in 1 .. Len(objects) : o < at[1]
    BY <1>4, <2>1
  <2>4. CursorInv'
    BY <1>2, <1>3, <2>1, <2>3 DEF CursorInv
  <2>5. \A id \in SectionIds(objects) : ~Passed(id)'
    BY <1>1, <1>2, <2>1, CursorSteps
  <2>6. PlaceInv'
    BY <1>2, <1>3, <2>1, <2>5 DEF PlaceInv, SectionAt, Early
  <2>7. phase' # "failed" /\ phase' # "resolved" /\ phase # "failed"
    BY <1>2, <2>1
  <2> QED BY <1>1, <1>2, <1>5, <2>2, <2>4, <2>6, <2>7, Kept
<1> QED BY <1>6, <1>7

\* Merging gives every section passed its place.
LEMMA OutcomeMergeSection == OutcomeInv /\ MergeSection => OutcomeInv'
<1> SUFFICES ASSUME OutcomeInv, MergeSection PROVE OutcomeInv'
  OBVIOUS
<1> DEFINE section == objects[at[1]].sections[at[2]]
           offset == Start(merged[section.kind], AlignmentOf(section))
<1>1. TypeInv /\ TypeInv' /\ MergeInv
  BY TypeStep DEF OutcomeInv, LinkNext, TypeInv
<1>2. /\ UNCHANGED <<objects, syms, globals>>
      /\ phase = "merge" /\ phase' = "merge" /\ at' = <<at[1], at[2] + 1>>
  BY DEF MergeSection
<1>3. CursorInv /\ PlaceInv /\ SymsInv /\ GlobalsInv
  BY <1>2 DEF OutcomeInv
<1>4. at \in SectionIds(objects)
  BY <1>1, CursorSection
<1>5. Seen = {} /\ Seen' = {}
  BY <1>2 DEF Seen, Early
<1>6. CursorInv'
  BY <1>2, <1>3 DEF CursorInv
<1>7. \A id \in SectionIds(objects) : Passed(id)' <=> Passed(id) \/ id = at
  BY <1>1, <1>2, CursorSteps
<1>8. SectionAt(at) = section /\ \A id : SectionAt(id)' = SectionAt(id)
  BY <1>2, InputsFixed DEF SectionAt
<1>9. PlaceInv'
  <2>1. CASE section.kind \notin MergedKinds
    <3>1. place' = place
      BY <2>1 DEF MergeSection
    <3> HIDE DEF section
    <3> QED BY <1>2, <1>3, <1>7, <1>8, <2>1, <3>1, Zenon DEF PlaceInv, Early
  <2>2. CASE section.kind \in MergedKinds
    <3>1. place' = [place EXCEPT ![at] = [kind |-> section.kind, offset |-> offset]]
      BY <2>2 DEF MergeSection
    <3>2. section.kind # "none"
      <4> HIDE DEF section
      <4> QED BY <2>2 DEF MergedKinds
    <3> HIDE DEF section, offset
    <3>3. \A id \in SectionIds(objects) :
            (id = at => place'[id].kind = section.kind) /\ (id # at => place'[id] = place[id])
      BY <1>1, <3>1 DEF TypeInv
    <3> SUFFICES ASSUME NEW id \in SectionIds(objects)
                 PROVE  /\ place'[id].kind \in {"none", SectionAt(id)'.kind}
                        /\ SectionAt(id)'.kind \notin MergedKinds => place'[id].kind = "none"
                        /\ SectionAt(id)'.kind \in MergedKinds
                             /\ (phase' \notin Early \/ (phase' = "merge" /\ Passed(id)'))
                             => place'[id].kind # "none"
      BY <1>2, Zenon DEF PlaceInv
    <3>4. CASE id = at
      BY <1>8, <2>2, <3>2, <3>3, <3>4, Zenon
    <3>5. CASE id # at
      <4>1. /\ place'[id] = place[id] /\ SectionAt(id)' = SectionAt(id)
            /\ Passed(id)' <=> Passed(id)
        BY <1>7, <1>8, <3>3, <3>5, Zenon
      <4>2. phase' = phase
        BY <1>2
      <4>3. /\ place[id].kind \in {"none", SectionAt(id).kind}
            /\ SectionAt(id).kind \notin MergedKinds => place[id].kind = "none"
            /\ SectionAt(id).kind \in MergedKinds
                 /\ (phase \notin Early \/ (phase = "merge" /\ Passed(id)))
                 => place[id].kind # "none"
        BY <1>3, Zenon DEF PlaceInv
      <4> QED BY <4>1, <4>2, <4>3
    <3> QED BY <3>4, <3>5
  <2> QED BY <2>1, <2>2
<1>10. SymsInv'
  BY <1>5, Zenon DEF SymsInv
<1>11. SeenExternals = {} /\ SeenExternals' = {}
  BY <1>5 DEF SeenExternals
<1>12. SeenDefining = {} /\ SeenDefining' = {}
  BY <1>5 DEF SeenDefining
<1>13. GlobalsInv'
  <2>1. \A i \in 1 .. Len(globals) : FALSE
    BY <1>3, <1>11, Zenon DEF GlobalsInv, TableSays
  <2> QED BY <1>2, <1>11, <1>12, <2>1, Zenon DEF GlobalsInv, TableSays
<1>14. phase' # "failed" /\ phase' # "resolved"
  BY <1>2
<1>15. DOMAIN syms' = SymbolIds(objects') /\ globals' \in Seq(GlobalRecord)
  BY <1>2, Zenon DEF OutcomeInv
<1> QED BY <1>1, <1>6, <1>9, <1>10, <1>13, <1>14, <1>15, Zenon DEF OutcomeInv

\* The other steps of the merging loops.
LEMMA OutcomeMergeEnds == OutcomeInv /\ (MergeNextObject \/ EndMerge) => OutcomeInv'
<1> SUFFICES ASSUME OutcomeInv, MergeNextObject \/ EndMerge PROVE OutcomeInv'
  OBVIOUS
<1>1. TypeInv /\ TypeInv' /\ MergeInv /\ objects \in Seq(ObjectFiles)
  BY TypeStep DEF OutcomeInv, LinkNext, TypeInv, MergeInv
<1>2. UNCHANGED <<objects, place, syms, globals>> /\ phase = "merge"
  BY DEF MergeNextObject, EndMerge
<1>3. CursorInv /\ PlaceInv
  BY <1>2 DEF OutcomeInv
<1>4. Seen = {}
  BY <1>2 DEF Seen, Early
<1>5. \A id : SectionAt(id)' = SectionAt(id)
  BY <1>2, InputsFixed
<1>6. CASE MergeNextObject
  <2>1. /\ phase' = "merge" /\ at' = <<at[1] + 1, 1>>
        /\ at[1] <= Len(objects) /\ at[2] > Len(objects[at[1]].sections)
    BY <1>2, <1>6 DEF MergeNextObject
  <2>2. Seen' = {}
    BY <2>1 DEF Seen, Early
  <2>3. CursorInv'
    BY <1>2, <1>3, <2>1 DEF CursorInv
  <2>4. ASSUME NEW id \in SectionIds(objects) PROVE Passed(id)' <=> Passed(id)
    <3>1. at[1] \in 1 .. Len(objects)
      BY <1>1, <2>1 DEF MergeInv
    <3>2. /\ id[1] \in 1 .. Len(objects) /\ id[2] \in 1 .. Len(objects[id[1]].sections)
          /\ Len(objects) \in Nat /\ Len(objects[at[1]].sections) \in Nat
      BY <1>1, <3>1, Ids
    <3>3. id[1] \in Nat /\ id[2] \in Nat \ {0}
      BY <3>2
    <3>4. id[1] = at[1] => id[2] <= Len(objects[at[1]].sections)
      BY <3>2
    <3> QED BY <1>1, <1>2, <2>1, <3>2, <3>3, <3>4, CursorNextObject
  <2>5. PlaceInv'
    BY <1>2, <1>3, <1>5, <2>1, <2>4, Zenon DEF PlaceInv
  <2>6. phase' # "failed" /\ phase' # "resolved" /\ phase # "failed"
    BY <1>2, <2>1
  <2> QED BY <1>1, <1>2, <1>4, <2>2, <2>3, <2>5, <2>6, Kept
<1>7. CASE EndMerge
  <2>1. phase' = "symbols" /\ at' = <<1, 1>> /\ at[1] > Len(objects)
    BY <1>7 DEF EndMerge
  <2>2. Seen' = {}
    <3>1. \A id \in SymbolIds(objects) : ~Passed(id)'
      BY <1>1, <1>2, <2>1, CursorSteps
    <3> QED BY <1>2, <3>1, Zenon DEF Seen
  <2>3. CursorInv'
    BY <1>2, <1>3, <2>1 DEF CursorInv
  <2>4. \A id \in SectionIds(objects) : Passed(id)
    BY <1>1, <1>2, <2>1, CursorSteps
  <2>5. PlaceInv'
    BY <1>2, <1>3, <1>5, <2>4, Zenon DEF PlaceInv
  <2>6. phase' # "failed" /\ phase' # "resolved" /\ phase # "failed"
    BY <1>2, <2>1
  <2> QED BY <1>1, <1>2, <1>4, <2>2, <2>3, <2>5, <2>6, Kept
<1> QED BY <1>6, <1>7

\* Past the merging, every section that is merged has a place.
LEMMA PlacesStay ==
  ASSUME PlaceInv, UNCHANGED <<objects, place>>, phase \notin Early
  PROVE  PlaceInv'
<1>1. \A id : SectionAt(id)' = SectionAt(id)
  BY InputsFixed
<1> QED BY <1>1, Zenon DEF PlaceInv

LEMMA OutcomeSymbolsEnds == OutcomeInv /\ (SymbolsNextObject \/ EndSymbols) => OutcomeInv'
<1> SUFFICES ASSUME OutcomeInv, SymbolsNextObject \/ EndSymbols PROVE OutcomeInv'
  OBVIOUS
<1>1. TypeInv /\ TypeInv' /\ MergeInv /\ objects \in Seq(ObjectFiles)
  BY TypeStep DEF OutcomeInv, LinkNext, TypeInv, MergeInv
<1>2. UNCHANGED <<objects, place, syms, globals>> /\ phase = "symbols"
  BY DEF SymbolsNextObject, EndSymbols
<1>3. CursorInv /\ PlaceInv
  BY <1>2 DEF OutcomeInv
<1>4. phase \notin Early
  BY <1>2 DEF Early
<1>5. PlaceInv'
  BY <1>2, <1>3, <1>4, PlacesStay
<1>6. CASE SymbolsNextObject
  <2>1. /\ phase' = "symbols" /\ at' = <<at[1] + 1, 1>>
        /\ at[1] <= Len(objects) /\ at[2] > Len(objects[at[1]].symbols)
    BY <1>2, <1>6 DEF SymbolsNextObject
  <2>2. CursorInv'
    BY <1>2, <1>3, <2>1 DEF CursorInv
  <2>3. ASSUME NEW id \in SymbolIds(objects) PROVE Passed(id)' <=> Passed(id)
    <3>1. at[1] \in 1 .. Len(objects)
      BY <1>1, <2>1 DEF MergeInv
    <3>2. /\ id[1] \in 1 .. Len(objects) /\ id[2] \in 1 .. Len(objects[id[1]].symbols)
          /\ Len(objects) \in Nat /\ Len(objects[at[1]].symbols) \in Nat
      BY <1>1, <3>1, Ids
    <3>3. id[1] \in Nat /\ id[2] \in Nat \ {0}
      BY <3>2
    <3>4. id[1] = at[1] => id[2] <= Len(objects[at[1]].symbols)
      BY <3>2
    <3> QED BY <1>1, <1>2, <2>1, <3>2, <3>3, <3>4, CursorNextObject
  <2>4. Seen' = Seen
    BY <1>2, <2>1, <2>3, Zenon DEF Seen
  <2>5. phase' # "failed" /\ phase' # "resolved" /\ phase # "failed"
    BY <1>2, <2>1
  <2> QED BY <1>1, <1>2, <1>5, <2>2, <2>4, <2>5, Kept
<1>7. CASE EndSymbols
  <2>1. phase' = "addresses" /\ at' = at /\ at[1] > Len(objects)
    BY <1>7 DEF EndSymbols
  <2>2. CursorInv'
    BY <1>2, <1>3, <2>1 DEF CursorInv
  <2>3. phase' \notin Early
    BY <2>1 DEF Early
  <2>4. Seen' = Seen
    BY <1>2, <1>4, <2>1, <2>3, Zenon DEF Seen, Passed
  <2>5. phase' # "failed" /\ phase' # "resolved" /\ phase # "failed"
    BY <1>2, <2>1
  <2> QED BY <1>1, <1>2, <1>5, <2>2, <2>4, <2>5, Kept
<1> QED BY <1>6, <1>7

\* The definitions of a name are finitely many, so two of them are more than one.
LEMMA TwoDefinitions ==
  ASSUME objects \in Seq(ObjectFiles), NEW name,
         NEW x \in Definitions(name), NEW y \in Definitions(name), x # y
  PROVE  ~(Cardinality(Definitions(name)) <= 1)
<1> DEFINE n == Len(objects)
           len == [o \in 1 .. n |-> Len(objects[o].symbols)]
           defs == Definitions(name)
<1>1. n \in Nat /\ \A o \in 1 .. n : len[o] \in Nat
  BY Ids
<1>2. PICK b \in Nat : \A o \in 1 .. n : len[o] <= b
  <2> HIDE DEF n, len
  <2> QED BY <1>1, SeqBounded
<1>3. IsFiniteSet((1 .. n) \X (1 .. b))
  <2>1. IsFiniteSet(1 .. n) /\ IsFiniteSet(1 .. b)
    BY <1>1, FS_Interval
  <2> DEFINE rows == 1 .. n
             columns == 1 .. b
  <2>2. IsFiniteSet(rows) /\ IsFiniteSet(columns)
    BY <2>1
  <2> HIDE DEF rows, columns
  <2>3. IsFiniteSet(rows \X columns)
    BY <2>2, FS_Product
  <2> QED BY <2>3 DEF rows, columns
<1>4. \A id \in SymbolIds(objects) : id \in (1 .. n) \X (1 .. b)
  <2> SUFFICES ASSUME NEW id \in SymbolIds(objects) PROVE id \in (1 .. n) \X (1 .. b)
    OBVIOUS
  <2>1. id = <<id[1], id[2]>> /\ id[1] \in 1 .. n /\ id[2] \in 1 .. len[id[1]]
    BY Ids
  <2>2. id[2] \in 1 .. b
    <3>1. len[id[1]] \in Nat /\ len[id[1]] <= b
      BY <1>1, <1>2, <2>1
    <3> HIDE DEF len
    <3> QED BY <2>1, <3>1
  <2> HIDE DEF n
  <2> QED BY <2>1, <2>2
<1>5. defs \subseteq SymbolIds(objects)
  BY DEF Definitions, ExternalSymbols
<1>6. IsFiniteSet(defs)
  <2>1. defs \in SUBSET ((1 .. n) \X (1 .. b))
    BY <1>4, <1>5, Zenon
  <2> HIDE DEF defs, n
  <2> QED BY <1>3, <2>1, FS_Subset
<1>7. Cardinality({x, y}) = 2
  <2>1. IsFiniteSet({x}) /\ Cardinality({x}) = 1
    BY FS_Singleton
  <2>2. Cardinality({x} \cup {y}) = 2
    <3> DEFINE one == {x}
    <3>1. IsFiniteSet(one) /\ Cardinality(one) = 1 /\ y \notin one
      BY <2>1
    <3> HIDE DEF one
    <3>2. Cardinality(one \cup {y}) = Cardinality(one) + 1
      BY <3>1, FS_AddElement
    <3>3. Cardinality(one \cup {y}) = 2
      BY <3>1, <3>2
    <3> QED BY <3>3 DEF one
  <2>3. {x} \cup {y} = {x, y}
    OBVIOUS
  <2> QED BY <2>2, <2>3, Zenon
<1>8. Cardinality({x, y}) <= Cardinality(defs) /\ Cardinality(defs) \in Nat
  <2>1. {x, y} \in SUBSET defs
    OBVIOUS
  <2> HIDE DEF defs
  <2> QED BY <1>6, <2>1, FS_Subset, FS_CardinalityType
<1> QED BY <1>7, <1>8

\* A symbol defines its name exactly when link_resolution_build_symbols says so.
LEMMA DefinedMeans ==
  ASSUME TypeInv, PlaceInv, phase \notin Early, NEW id \in SymbolIds(objects), InsideTable(id),
         NEW r, r = Resolved(id[1], SymbolAt(id))
  PROVE  /\ r.name = SymbolAt(id).name
         /\ r.external <=> id \in ExternalSymbols
         /\ r.external => (r.defined <=> id \in Defining)
<1> DEFINE symbol == SymbolAt(id)
           object == objects[id[1]]
           p == PlaceOf(id[1], symbol)
           home == <<id[1], symbol.section>>
<1>1. /\ r.name = symbol.name
      /\ r.external = (symbol.external /\ ~symbol.auxiliary)
      /\ r.defined = (~symbol.auxiliary /\ p.kind # "none")
  BY DEF Resolved, ObjectSymbol
<1>2. r.external <=> id \in ExternalSymbols
  BY <1>1, Zenon DEF ExternalSymbols, SymbolAt
<1>3. ASSUME r.external PROVE r.defined <=> id \in Defining
  <2>1. ~symbol.auxiliary /\ id \in ExternalSymbols
    BY <1>1, <1>2, <1>3, Zenon
  <2>2. /\ id[1] \in 1 .. Len(objects) /\ Len(object.sections) \in Nat
        /\ id[2] \in 1 .. Len(object.symbols) /\ object \in ObjectFiles
    BY Ids DEF TypeInv, MergeInv
  <2>3. symbol.section \in Int
    <3>1. object.symbols \in Seq(SymbolRecord)
      BY <2>2, FilesAssumption
    <3>2. object.symbols[id[2]] \in SymbolRecord
      <4> HIDE DEF object
      <4> QED BY <2>2, <3>1
    <3>3. \A x \in SymbolRecord : x.section \in Int
      BY DEF SymbolRecord
    <3> QED BY <3>2, <3>3 DEF SymbolAt
  <2>4. symbol.section <= Len(object.sections)
    BY <2>1 DEF InsideTable
  <2>5. id \in Defining <=> /\ symbol.section \in 1 .. Len(object.sections)
                            /\ object.sections[symbol.section].kind \in MergedKinds
    BY <1>1, <2>1, Zenon DEF Defining
  <2>6. CASE symbol.section > 0
    <3>1. symbol.section \in 1 .. Len(object.sections)
      BY <2>2, <2>3, <2>4, <2>6
    <3>2. home \in SectionIds(objects)
      BY <2>2, <3>1 DEF SectionIds
    <3>3. p = place[home]
      BY <2>6 DEF PlaceOf
    <3>4. home[1] = id[1] /\ home[2] = symbol.section
      OBVIOUS
    <3>5. SectionAt(home) = object.sections[symbol.section]
      <4> HIDE DEF home
      <4> QED BY <3>4, Zenon DEF SectionAt
    <3>6. object.sections[symbol.section].kind \in MergedKinds <=> p.kind # "none"
      <4> HIDE DEF home, p
      <4> QED BY <3>2, <3>3, <3>5, Zenon DEF PlaceInv
    <3> QED BY <1>1, <2>1, <2>5, <3>1, <3>6, Zenon
  <2>7. CASE ~(symbol.section > 0)
    <3>1. p.kind = "none"
      BY <2>7 DEF PlaceOf, Unplaced
    <3>2. symbol.section \notin 1 .. Len(object.sections)
      BY <2>2, <2>3, <2>7
    <3> QED BY <1>1, <2>5, <3>1, <3>2, Zenon
  <2> QED BY <2>6, <2>7
<1> QED BY <1>1, <1>2, <1>3, Zenon

\* An entry stays right when its definition's symbol is left alone.
LEMMA EntryKept ==
  ASSUME NEW e, NEW D, NEW nm, NEW t, NEW u, EntrySays(e, D, nm, t),
         \A id \in D : u[id] = t[id]
  PROVE  EntrySays(e, D, nm, u)
<1>1. ASSUME e.defined PROVE e.owner \in D
  <2>1. PICK id \in D : nm[id] = e.name
    BY <1>1, Zenon DEF EntrySays
  <2> QED BY <2>1, Zenon DEF EntrySays
<1> QED BY <1>1, Zenon DEF EntrySays

\* An entry of another name does not mind one more definition.
LEMMA EntryOther ==
  ASSUME NEW e, NEW D, NEW nm, NEW t, NEW x, EntrySays(e, D, nm, t), e.name # nm[x]
  PROVE  EntrySays(e, D \cup {x}, nm, t)
<1>1. \A id : id \in D \cup {x} <=> id \in D \/ id = x
  OBVIOUS
<1> QED BY <1>1, Zenon DEF EntrySays

\* The entry link_resolution_record_global_symbol writes for the symbol r of x,
\* the first definition of its name.
LEMMA EntryNew ==
  ASSUME NEW D, NEW nm, NEW t, NEW x, NEW r, t[x] = r, nm[x] = r.name,
         x \in D <=> r.defined, \A id \in D : nm[id] = r.name => id = x
  PROVE  EntrySays(GlobalSymbol(x, r), D, nm, t)
<1> DEFINE e == GlobalSymbol(x, r)
<1>1. /\ e.defined = r.defined /\ e.kind = r.kind /\ e.offset = r.offset /\ e.name = r.name
      /\ e.owner = IF r.defined THEN x ELSE <<0, 0>>
  BY DEF GlobalSymbol
<1> HIDE DEF e
<1>2. EntrySays(e, D, nm, t)
  BY <1>1, Zenon DEF EntrySays
<1> QED BY <1>2 DEF e

\* One more external symbol whose name is in the table, and no definition.
LEMMA TableSame ==
  ASSUME NEW g, NEW E, NEW D, NEW nm, NEW t, NEW u, TableSays(g, E, D, nm, t),
         NEW x, NEW F, F \subseteq E \cup {x}, E \subseteq F, \A id \in D : u[id] = t[id],
         x \in F => \E i \in 1 .. Len(g) : g[i].name = nm[x]
  PROVE  TableSays(g, F, D, nm, u)
<1>1. \A i \in 1 .. Len(g) : EntrySays(g[i], D, nm, u)
  BY EntryKept, ZenonT(40) DEF TableSays
<1>2. \A id \in F : id \in E \/ (id = x /\ x \in F)
  OBVIOUS
<1>3. \A id \in F : \E i \in 1 .. Len(g) : g[i].name = nm[id]
  BY <1>2, Zenon DEF TableSays
<1>4. \A i \in 1 .. Len(g) : \E id \in F : g[i].name = nm[id]
  BY Zenon DEF TableSays
<1> QED BY <1>1, <1>3, <1>4, Zenon DEF TableSays

\* x, resolved to r, is the next external symbol: t becomes u.
NextSymbol(g, E, D, nm, t, u, x, r) ==
  /\ g \in Seq(GlobalRecord) /\ GlobalSymbol(x, r) \in GlobalRecord
  /\ TableSays(g, E, D, nm, t)
  /\ D \subseteq E /\ x \notin E
  /\ \A id \in D : u[id] = t[id]
  /\ u[x] = r /\ nm[x] = r.name
NoEntry(g, name) == \A i \in 1 .. Len(g) : g[i].name # name

\* The first symbol of its name.
LEMMA TableAppend ==
  ASSUME NEW g, NEW E, NEW D, NEW nm, NEW t, NEW u, NEW x, NEW r,
         NextSymbol(g, E, D, nm, t, u, x, r), NoEntry(g, r.name),
         NEW F, F = E \cup {x}, NEW G, G = D \/ G = D \cup {x}, x \in G <=> r.defined,
         NEW h, h = Append(g, GlobalSymbol(x, r))
  PROVE  TableSays(h, F, G, nm, u) /\ h \in Seq(GlobalRecord)
<1> DEFINE e == GlobalSymbol(x, r)
           len == Len(g)
<1>a. /\ TableSays(g, E, D, nm, t) /\ D \subseteq E /\ x \notin E
      /\ \A id \in D : u[id] = t[id]
      /\ u[x] = r /\ nm[x] = r.name
      /\ \A i \in 1 .. len : g[i].name # r.name
  BY DEF NextSymbol, NoEntry
<1>b. g \in Seq(GlobalRecord) /\ e \in GlobalRecord
  BY DEF NextSymbol
<1>c. h = Append(g, e)
  OBVIOUS
<1>0. /\ \A i, j \in 1 .. len : g[i].name = g[j].name => i = j
      /\ \A id \in E : \E i \in 1 .. len : g[i].name = nm[id]
      /\ \A i \in 1 .. len : \E id \in E : g[i].name = nm[id]
      /\ \A i \in 1 .. len : EntrySays(g[i], D, nm, t)
  BY <1>a, Zenon DEF TableSays
<1>1. /\ h \in Seq(GlobalRecord) /\ Len(h) = len + 1 /\ len \in Nat
      /\ h[len + 1] = e /\ \A i \in 1 .. len : h[i] = g[i]
  <2> HIDE DEF e
  <2> QED BY <1>b, <1>c
<1>2. /\ \A i \in 1 .. Len(h) : i \in 1 .. len \/ i = len + 1
      /\ len + 1 \in 1 .. Len(h) /\ \A i \in 1 .. len : i \in 1 .. Len(h)
  BY <1>1
<1>3. e.name = r.name
  BY DEF GlobalSymbol
<1>4. \A id \in D : nm[id] # r.name
  BY <1>0, <1>a
<1>5. \A i \in 1 .. len : EntrySays(g[i], G, nm, u)
  <2> SUFFICES ASSUME NEW i \in 1 .. len PROVE EntrySays(g[i], G, nm, u)
    OBVIOUS
  <2>1. EntrySays(g[i], D, nm, u)
    BY <1>0, <1>a, EntryKept
  <2>2. g[i].name # nm[x]
    BY <1>a, Zenon
  <2>3. EntrySays(g[i], D \cup {x}, nm, u)
    BY <2>1, <2>2, EntryOther
  <2> QED BY <2>1, <2>3, Zenon
<1>6. EntrySays(e, G, nm, u)
  <2>1. \A id \in G : nm[id] = r.name => id = x
    BY <1>4
  <2> QED BY <1>a, <2>1, EntryNew
<1> HIDE DEF len, e
<1>7. \A i \in 1 .. Len(h) : EntrySays(h[i], G, nm, u)
  BY <1>1, <1>2, <1>5, <1>6, Zenon
<1>8. \A i, j \in 1 .. Len(h) : h[i].name = h[j].name => i = j
  <2> SUFFICES ASSUME NEW i \in 1 .. Len(h), NEW j \in 1 .. Len(h), h[i].name = h[j].name
               PROVE  i = j
    OBVIOUS
  <2>1. CASE i \in 1 .. len /\ j \in 1 .. len
    BY <1>0, <1>1, <2>1 DEF len
  <2>2. CASE i = len + 1 \/ j = len + 1
    <3>1. \A l \in 1 .. len : h[l].name # e.name
      BY <1>1, <1>3, <1>a, Zenon
    <3> QED BY <1>1, <1>2, <2>2, <3>1, Zenon
  <2> QED BY <1>2, <2>1, <2>2, Zenon
<1>9. \A id : id \in F <=> id \in E \/ id = x
  OBVIOUS
<1>10. \A id \in F : \E i \in 1 .. Len(h) : h[i].name = nm[id]
  <2>1. \A id \in E : \E i \in 1 .. len : g[i].name = nm[id]
    BY <1>0 DEF len
  <2>2. \A id \in E : \E i \in 1 .. Len(h) : h[i].name = nm[id]
    BY <1>1, <1>2, <2>1, Zenon
  <2>3. \E i \in 1 .. Len(h) : h[i].name = nm[x]
    BY <1>1, <1>2, <1>3, <1>a, Zenon
  <2> QED BY <1>9, <2>2, <2>3, Zenon
<1>11. \A i \in 1 .. Len(h) : \E id \in F : h[i].name = nm[id]
  <2>1. \A i \in 1 .. len : \E id \in E : h[i].name = nm[id]
    BY <1>0, <1>1 DEF len
  <2> QED BY <1>1, <1>2, <1>3, <1>9, <1>a, <2>1, ZenonT(40)
<1>12. TableSays(h, F, G, nm, u)
  BY <1>7, <1>8, <1>10, <1>11, Zenon DEF TableSays
<1> QED BY <1>1, <1>12

\* The definition of a name that was only referred to.
LEMMA TableReplace ==
  ASSUME NEW g, NEW E, NEW D, NEW nm, NEW t, NEW u, NEW x, NEW r,
         NextSymbol(g, E, D, nm, t, u, x, r), r.defined,
         NEW k \in 1 .. Len(g), g[k].name = r.name, ~g[k].defined,
         NEW F, F = E \cup {x}, NEW G, G = D \cup {x},
         NEW h, h = [g EXCEPT ![k] = GlobalSymbol(x, r)]
  PROVE  TableSays(h, F, G, nm, u) /\ h \in Seq(GlobalRecord)
<1> DEFINE e == GlobalSymbol(x, r)
           len == Len(g)
<1>a. /\ TableSays(g, E, D, nm, t) /\ D \subseteq E /\ x \notin E
      /\ \A id \in D : u[id] = t[id]
      /\ u[x] = r /\ nm[x] = r.name
  BY DEF NextSymbol
<1>b. g \in Seq(GlobalRecord) /\ e \in GlobalRecord
  BY DEF NextSymbol
<1>c. h = [g EXCEPT ![k] = e]
  OBVIOUS
<1>0. /\ \A i, j \in 1 .. len : g[i].name = g[j].name => i = j
      /\ \A id \in E : \E i \in 1 .. len : g[i].name = nm[id]
      /\ \A i \in 1 .. len : \E id \in E : g[i].name = nm[id]
      /\ \A i \in 1 .. len : EntrySays(g[i], D, nm, t)
  BY <1>a, Zenon DEF TableSays
<1>1. /\ h \in Seq(GlobalRecord) /\ Len(h) = len
      /\ h[k] = e /\ \A i \in 1 .. len : i # k => h[i] = g[i]
  <2> HIDE DEF e
  <2> QED BY <1>b, <1>c
<1>2. e.name = r.name
  BY DEF GlobalSymbol
<1>3. \A i \in 1 .. len : h[i].name = g[i].name
  BY <1>1, <1>2, Zenon
<1>4. \A id \in D : nm[id] # r.name
  <2>1. EntrySays(g[k], D, nm, t)
    BY <1>0
  <2> QED BY <2>1, Zenon DEF EntrySays
<1>5. ASSUME NEW i \in 1 .. len PROVE EntrySays(h[i], G, nm, u)
  <2>1. CASE i = k
    <3>1. \A id \in G : nm[id] = r.name => id = x
      BY <1>4
    <3>2. x \in G <=> r.defined
      OBVIOUS
    <3>3. EntrySays(e, G, nm, u)
      BY <1>a, <3>1, <3>2, EntryNew
    <3> QED BY <1>1, <2>1, <3>3, Zenon
  <2>2. CASE i # k
    <3>1. EntrySays(g[i], D, nm, u)
      BY <1>0, <1>a, EntryKept
    <3>2. g[i].name # nm[x]
      BY <1>0, <1>a, <2>2
    <3>3. EntrySays(g[i], G, nm, u)
      BY <3>1, <3>2, EntryOther
    <3> QED BY <1>1, <2>2, <3>3, Zenon
  <2> QED BY <2>1, <2>2
<1>6. \A id : id \in F <=> id \in E \/ id = x
  OBVIOUS
<1>7. \A i, j \in 1 .. len : h[i].name = h[j].name => i = j
  BY <1>0, <1>3
<1>8. \A id \in F : \E i \in 1 .. len : h[i].name = nm[id]
  <2>1. \A id \in E : \E i \in 1 .. len : h[i].name = nm[id]
    BY <1>0, <1>3
  <2>2. \E i \in 1 .. len : h[i].name = nm[x]
    BY <1>3, <1>a, Zenon
  <2> QED BY <1>6, <2>1, <2>2, Zenon
<1>9. \A i \in 1 .. len : \E id \in F : h[i].name = nm[id]
  BY <1>0, <1>3, <1>6
<1>10. TableSays(h, F, G, nm, u)
  <2>1. \A i \in 1 .. len : EntrySays(h[i], G, nm, u)
    BY <1>5
  <2>2. Len(h) = len
    BY <1>1
  <2> HIDE DEF len
  <2> QED BY <1>7, <1>8, <1>9, <2>1, <2>2, Zenon DEF TableSays
<1> QED BY <1>1, <1>10

\* The symbols passed grow by the one at the cursor.
LEMMA PassSymbol ==
  ASSUME MergeInv, objects' = objects, at' = <<at[1], at[2] + 1>>, at \in SymbolIds(objects),
         phase \notin Early, phase' \notin Early
  PROVE  /\ at \notin Seen /\ Seen' = Seen \cup {at}
         /\ at \in ExternalSymbols => SeenExternals' = SeenExternals \cup {at}
         /\ at \notin ExternalSymbols => SeenExternals' = SeenExternals
         /\ at \in Defining => SeenDefining' = SeenDefining \cup {at}
         /\ at \notin Defining => SeenDefining' = SeenDefining
<1>1. at \notin Seen
  BY CursorSteps DEF Seen
<1>2. \A id \in SymbolIds(objects) : Passed(id)' <=> Passed(id) \/ id = at
  BY CursorSteps
<1>3. \A id : id \in Seen' <=> id \in Seen \/ id = at
  BY <1>2, Zenon DEF Seen
<1>4. ExternalSymbols' = ExternalSymbols /\ Defining' = Defining
  BY InputsFixed
<1>5. /\ \A id : id \in SeenExternals' <=> id \in ExternalSymbols /\ id \in Seen'
      /\ \A id : id \in SeenExternals <=> id \in ExternalSymbols /\ id \in Seen
      /\ \A id : id \in SeenDefining' <=> id \in Defining /\ id \in Seen'
      /\ \A id : id \in SeenDefining <=> id \in Defining /\ id \in Seen
  BY <1>4, Zenon DEF SeenExternals, SeenDefining
<1> QED BY <1>1, <1>3, <1>5, Zenon

\* The symbol at the cursor is resolved and recorded.
LEMMA OutcomeBuildSymbol == OutcomeInv /\ BuildSymbol => OutcomeInv'
<1> SUFFICES ASSUME OutcomeInv, BuildSymbol PROVE OutcomeInv'
  OBVIOUS
<1> DEFINE object == objects[at[1]]
           symbol == object.symbols[at[2]]
           outside == ~symbol.auxiliary /\ symbol.section > Len(object.sections)
           r == Resolved(at[1], symbol)
           k == GlobalIndex(r.name)
<1>1. TypeInv /\ TypeInv' /\ MergeInv /\ objects \in Seq(ObjectFiles)
  BY TypeStep DEF OutcomeInv, LinkNext, TypeInv, MergeInv
<1>2. /\ UNCHANGED <<objects, place>> /\ phase = "symbols" /\ at' = <<at[1], at[2] + 1>>
  BY Zenon DEF BuildSymbol
<1>3. CursorInv /\ PlaceInv /\ SymsInv /\ GlobalsInv /\ globals \in Seq(GlobalRecord)
      /\ DOMAIN syms = SymbolIds(objects)
  BY <1>2 DEF OutcomeInv
<1>4. /\ at[1] \in 1 .. Len(objects) /\ at = <<at[1], at[2]>> /\ at \in SymbolIds(objects)
      /\ symbol \in SymbolRecord /\ symbol.section \in Int /\ Len(object.sections) \in Nat
  BY <1>1, CursorSymbol
<1>5. SymbolAt(at) = symbol /\ (InsideTable(at) <=> ~outside)
  BY <1>4 DEF SymbolAt, InsideTable
<1>6. \/ /\ outside \/ (r.external /\ Duplicate(k, r))
         /\ phase' = "failed" /\ UNCHANGED <<syms, globals>>
      \/ /\ ~outside /\ ~(r.external /\ Duplicate(k, r))
         /\ syms' = [syms EXCEPT ![at] = r]
         /\ globals' = IF r.external THEN Recorded(at, r) ELSE globals
         /\ phase' = phase
  BY Zenon DEF BuildSymbol, Fail
<1>7. phase \notin Early
  BY <1>2 DEF Early
<1>8. ASSUME ~outside
      PROVE  /\ r.name = symbol.name
             /\ r.external <=> at \in ExternalSymbols
             /\ r.external => (r.defined <=> at \in Defining)
  <2>1. InsideTable(at)
    BY <1>5, <1>8
  <2>2. r = Resolved(at[1], SymbolAt(at))
    BY <1>5, Zenon
  <2> HIDE DEF r, symbol, outside
  <2> QED BY <1>1, <1>3, <1>4, <1>5, <1>7, <2>1, <2>2, DefinedMeans
<1>9. CASE outside
  <2>1. ~Linkable
    <3>1. ~(SymbolAt(at).auxiliary \/ SymbolAt(at).section <= Len(objects[at[1]].sections))
      BY <1>5, <1>9 DEF InsideTable
    <3> QED BY <1>4, <3>1, Zenon DEF Linkable, WellFormedInput
  <2>2. phase' = "failed" /\ globals' = globals /\ DOMAIN syms' = DOMAIN syms /\ objects' = objects
    BY <1>2, <1>6, <1>9, Zenon
  <2> QED BY <1>1, <2>1, <2>2, GivenUp
<1>10. CASE ~outside /\ r.external /\ Duplicate(k, r)
  <2>1. phase' = "failed" /\ globals' = globals /\ DOMAIN syms' = DOMAIN syms /\ objects' = objects
    BY <1>2, <1>6, <1>10, Zenon
  <2>2. k # 0 /\ globals[k].defined /\ r.defined
    BY <1>10, Zenon DEF Duplicate
  <2>3. k \in 1 .. Len(globals) /\ globals[k].name = r.name
    BY <1>3, <2>2, FoundIndex
  <2>4. at \in Defining /\ r.name = symbol.name
    BY <1>8, <1>10, <2>2, Zenon
  <2>5. PICK id \in SeenDefining : Names[id] = r.name
    <3>1. EntrySays(globals[k], SeenDefining, Names, syms)
      BY <1>3, <2>3, Zenon DEF GlobalsInv, TableSays
    <3> QED BY <2>2, <2>3, <3>1, Zenon DEF EntrySays
  <2>6. id \in Seen /\ id \in Defining /\ id \in SymbolIds(objects)
    BY <2>5 DEF SeenDefining, Seen
  <2>7. at \notin Seen
    BY <1>1, <1>2, <1>4, CursorSteps DEF Seen
  <2>8. id # at
    BY <2>6, <2>7
  <2>9. SymbolAt(id).name = r.name
    BY <2>5, <2>6 DEF Names
  <2>10. id \in Definitions(r.name) /\ at \in Definitions(r.name)
    BY <1>5, <2>4, <2>6, <2>9, Zenon DEF Defining, Definitions
  <2>11. ~(Cardinality(Definitions(r.name)) <= 1)
    <3> HIDE DEF r
    <3> QED BY <1>1, <2>8, <2>10, TwoDefinitions
  <2>12. ~Linkable
    <3>1. at \in ExternalSymbols /\ SymbolAt(at).name = r.name
      BY <1>5, <2>4, <2>10, Zenon DEF Definitions
    <3> QED BY <2>11, <3>1, Zenon DEF Linkable, WellFormedInput
  <2> QED BY <1>1, <2>1, <2>12, GivenUp
<1>11. CASE ~outside /\ ~(r.external /\ Duplicate(k, r))
  <2>1. /\ syms' = [syms EXCEPT ![at] = r]
        /\ globals' = IF r.external THEN Recorded(at, r) ELSE globals
        /\ phase' = phase
    BY <1>6, <1>11, Zenon
  <2>2. /\ r.name = symbol.name
        /\ r.external <=> at \in ExternalSymbols
        /\ r.external => (r.defined <=> at \in Defining)
    BY <1>8, <1>11
  <2>3. phase' \notin Early /\ phase' # "failed" /\ phase' # "resolved"
    BY <1>2, <2>1 DEF Early
  <2>4. /\ at \notin Seen /\ Seen' = Seen \cup {at}
        /\ at \in ExternalSymbols => SeenExternals' = SeenExternals \cup {at}
        /\ at \notin ExternalSymbols => SeenExternals' = SeenExternals
        /\ at \in Defining => SeenDefining' = SeenDefining \cup {at}
        /\ at \notin Defining => SeenDefining' = SeenDefining
    BY <1>1, <1>2, <1>4, <1>7, <2>3, PassSymbol
  <2>5. CursorInv' /\ PlaceInv'
    <3>1. CursorInv'
      BY <1>2, <1>3, <2>1 DEF CursorInv
    <3>2. PlaceInv'
      BY <1>2, <1>3, <1>7, PlacesStay
    <3> QED BY <3>1, <3>2
  <2>6. /\ DOMAIN syms' = SymbolIds(objects') /\ syms'[at] = r
        /\ \A id \in SymbolIds(objects) : id # at => syms'[id] = syms[id]
    <3> HIDE DEF r
    <3> QED BY <1>2, <1>3, <1>4, <2>1
  <2>7. \A id \in Seen : id # at /\ syms'[id] = syms[id]
    BY <2>4, <2>6 DEF Seen
  <2>8. SymsInv'
    <3> SUFFICES ASSUME NEW id \in Seen'
                 PROVE  /\ InsideTable(id)'
                        /\ syms'[id] = Resolved(id[1], SymbolAt(id))'
      BY Zenon DEF SymsInv
    <3>1. SymbolAt(id)' = SymbolAt(id) /\ InsideTable(id)' = InsideTable(id)
      BY <1>2, InputsFixed
    <3>2. Resolved(id[1], SymbolAt(id))' = Resolved(id[1], SymbolAt(id))
      BY <1>2, Zenon DEF Resolved, PlaceOf, SymbolAt
    <3>3. CASE id \in Seen
      BY <1>3, <2>7, <3>1, <3>2, <3>3, Zenon DEF SymsInv
    <3>4. CASE id = at
      <4>1. InsideTable(id) /\ syms'[id] = Resolved(id[1], SymbolAt(id))
        BY <1>5, <1>11, <2>6, <3>4, Zenon
      <4> QED BY <3>1, <3>2, <4>1, Zenon
    <3> QED BY <2>4, <3>3, <3>4
  <2>9. GlobalSymbol(at, r) \in GlobalRecord
    <3> DEFINE p == PlaceOf(at[1], symbol)
    <3>1. symbol.name \in STRING /\ symbol.value \in Nat
      <4> HIDE DEF symbol
      <4> QED BY <1>4 DEF SymbolRecord
    <3>2. ASSUME ~symbol.auxiliary PROVE p \in Places
      <4>1. CASE symbol.section > 0
        <5>1. symbol.section \in 1 .. Len(object.sections)
          BY <1>4, <1>11, <3>2, <4>1
        <5>2. <<at[1], symbol.section>> \in SectionIds(objects)
          BY <1>4, <5>1 DEF SectionIds
        <5>3. p = place[<<at[1], symbol.section>>]
          BY <4>1 DEF PlaceOf
        <5> QED BY <1>1, <5>2, <5>3, Zenon DEF TypeInv
      <4>2. CASE ~(symbol.section > 0)
        BY <4>2 DEF PlaceOf, Unplaced, Places
      <4> QED BY <4>1, <4>2
    <3> DEFINE d == ~symbol.auxiliary /\ p.kind # "none"
    <3>3. /\ r.name = symbol.name /\ r.defined = d
          /\ r.kind = IF d THEN p.kind ELSE "none"
          /\ r.offset = IF d THEN p.offset + symbol.value ELSE 0
      BY DEF Resolved, ObjectSymbol
    <3>4. r.kind \in MergedKinds \cup {"none"} /\ r.offset \in Nat
      <4>1. CASE d
        <5>1. p.kind \in MergedKinds \cup {"none"} /\ p.offset \in Nat
          <6> HIDE DEF p
          <6> QED BY <3>2, <4>1 DEF Places
        <5> HIDE DEF p, r, symbol
        <5> QED BY <3>1, <3>3, <4>1, <5>1
      <4>2. CASE ~d
        <5> HIDE DEF p, r, symbol
        <5> QED BY <3>3, <4>2
      <4> QED BY <4>1, <4>2
    <3>5. r.defined \in BOOLEAN /\ r.name \in STRING
      <4> HIDE DEF r, symbol, p
      <4> QED BY <3>1, <3>3, Zenon
    <3>6. at \in Nat \X Nat /\ <<0, 0>> \in Nat \X Nat
      BY <1>1 DEF MergeInv
    <3> HIDE DEF r
    <3> QED BY <3>4, <3>5, <3>6 DEF GlobalSymbol, GlobalRecord
  <2>10. GlobalsInv' /\ globals' \in Seq(GlobalRecord)
    <3> DEFINE new == GlobalSymbol(at, r)
    <3>1. TableSays(globals, SeenExternals, SeenDefining, Names, syms)
      BY <1>3 DEF GlobalsInv
    <3>2. Names' = Names /\ Names[at] = r.name
      <4>1. Names' = Names
        BY <1>2, InputsFixed
      <4>2. Names[at] = symbol.name
        BY <1>4, <1>5 DEF Names
      <4> QED BY <2>2, <4>1, <4>2
    <3>3. /\ SeenDefining \subseteq SeenExternals /\ at \notin SeenExternals
          /\ \A id \in SeenDefining : syms'[id] = syms[id]
      BY <2>4, <2>7 DEF SeenDefining, SeenExternals, Defining
    <3>4. \/ k = 0 /\ \A i \in 1 .. Len(globals) : globals[i].name # r.name
          \/ k \in 1 .. Len(globals) /\ k # 0 /\ globals[k].name = r.name
      BY <1>3, FoundIndex
    <3>5. at \in Defining => at \in ExternalSymbols
      BY DEF Defining
    <3> HIDE DEF r, k, new, symbol, outside
    <3>6. r.external => globals' = IF k = 0 THEN Append(globals, new)
                                   ELSE IF r.defined THEN [globals EXCEPT ![k] = new] ELSE globals
      BY <2>1 DEF Recorded, k, new
    <3>a. NextSymbol(globals, SeenExternals, SeenDefining, Names, syms, syms', at, r)
      BY <1>3, <2>6, <2>9, <3>1, <3>2, <3>3 DEF NextSymbol
    <3>7. CASE globals' = globals /\ ~(r.external /\ r.defined) /\ (r.external => k # 0)
      <4>1. SeenDefining' = SeenDefining
        BY <2>2, <2>4, <3>5, <3>7, Zenon
      <4>2. SeenExternals' \subseteq SeenExternals \cup {at} /\ SeenExternals \subseteq SeenExternals'
        BY <2>4
      <4>3. at \in SeenExternals' => \E i \in 1 .. Len(globals) : globals[i].name = Names[at]
        BY <2>2, <2>4, <3>2, <3>3, <3>4, <3>7, Zenon
      <4>4. TableSays(globals, SeenExternals', SeenDefining, Names, syms')
        BY <3>1, <3>3, <4>2, <4>3, TableSame
      <4> QED BY <1>3, <3>2, <3>7, <4>1, <4>4, Zenon DEF GlobalsInv
    <3>8. CASE r.external /\ k = 0
      <4>1. SeenExternals' = SeenExternals \cup {at}
        BY <2>2, <2>4, <3>8, Zenon
      <4>2. SeenDefining' = SeenDefining \/ SeenDefining' = SeenDefining \cup {at}
        BY <2>4
      <4>3. at \in SeenDefining' <=> r.defined
        <5>1. at \notin SeenDefining
          BY <3>3
        <5> QED BY <2>2, <2>4, <3>8, <5>1
      <4>4. globals' = Append(globals, new) /\ NoEntry(globals, r.name)
        BY <3>4, <3>6, <3>8, Zenon DEF NoEntry
      <4>5. /\ TableSays(globals', SeenExternals', SeenDefining', Names, syms')
            /\ globals' \in Seq(GlobalRecord)
        <5>1. globals' = Append(globals, GlobalSymbol(at, r))
          BY <4>4 DEF new
        <5> QED BY <3>a, <4>1, <4>2, <4>3, <4>4, <5>1, TableAppend, Zenon
      <4> QED BY <3>2, <4>5, Zenon DEF GlobalsInv
    <3>9. CASE r.external /\ k # 0 /\ r.defined
      <4>1. SeenExternals' = SeenExternals \cup {at} /\ SeenDefining' = SeenDefining \cup {at}
        BY <2>2, <2>4, <3>9, Zenon
      <4>2. globals' = [globals EXCEPT ![k] = new]
        BY <3>6, <3>9, Zenon
      <4>3. k \in 1 .. Len(globals) /\ globals[k].name = r.name /\ ~globals[k].defined
        BY <1>11, <3>4, <3>9, Zenon DEF Duplicate
      <4>4. /\ TableSays(globals', SeenExternals', SeenDefining', Names, syms')
            /\ globals' \in Seq(GlobalRecord)
        BY <3>9, <3>a, <4>1, <4>2, <4>3, TableReplace DEF new
      <4> QED BY <3>2, <4>4, Zenon DEF GlobalsInv
    <3> QED BY <2>1, <3>6, <3>7, <3>8, <3>9, Zenon
  <2> QED BY <1>1, <2>3, <2>5, <2>6, <2>8, <2>10, Zenon DEF OutcomeInv
<1> QED BY <1>9, <1>10, <1>11, Zenon

\* When the loops are done every symbol has been passed.
LEMMA AllSeen ==
  ASSUME MergeInv, CursorInv, phase \in {"addresses", "validate", "resolved"}
  PROVE  /\ SymbolIds(objects) = Seen /\ SeenExternals = ExternalSymbols /\ SeenDefining = Defining
         /\ phase \notin Early
<1>1. at[1] > Len(objects) /\ phase \notin Early
  BY DEF CursorInv, Early
<1>2. \A id \in SymbolIds(objects) : Passed(id)
  <2> SUFFICES ASSUME NEW id \in SymbolIds(objects) PROVE Passed(id)
    OBVIOUS
  <2>1. /\ at[1] \in Nat /\ id[1] \in 1 .. Len(objects) /\ Len(objects) \in Nat
    BY Ids DEF MergeInv
  <2> QED BY <1>1, <2>1 DEF Passed
<1>3. SymbolIds(objects) = Seen
  BY <1>1, <1>2, Zenon DEF Seen
<1>4. ExternalSymbols \subseteq Seen /\ Defining \subseteq Seen
  BY <1>3 DEF ExternalSymbols, Defining
<1> QED BY <1>1, <1>3, <1>4 DEF SeenExternals, SeenDefining

\* The definitions of a name, by the table of names.
LEMMA DefinitionsByName ==
  ASSUME NEW name, NEW id
  PROVE  id \in Definitions(name) <=> id \in Defining /\ Names[id] = name
<1>1. ASSUME id \in Defining PROVE Names[id] = SymbolAt(id).name
  BY <1>1 DEF Names, Defining, ExternalSymbols
<1> QED BY <1>1, Zenon DEF Definitions, Defining

\* A name has a defined entry exactly if an object defines it.
LEMMA DefinedByName ==
  ASSUME GlobalsInv, SeenExternals = ExternalSymbols, SeenDefining = Defining,
         NEW i \in 1 .. Len(globals)
  PROVE  /\ globals[i].defined <=> Definitions(globals[i].name) # {}
         /\ \A id \in Definitions(globals[i].name) : globals[i].owner = id
         /\ globals[i].defined => /\ globals[i].offset = syms[globals[i].owner].offset
                                  /\ globals[i].kind = syms[globals[i].owner].kind
<1> DEFINE e == globals[i]
<1>1. EntrySays(e, Defining, Names, syms)
  BY Zenon DEF GlobalsInv, TableSays
<1>2. \A id : id \in Definitions(e.name) <=> id \in Defining /\ Names[id] = e.name
  BY DefinitionsByName
<1> HIDE DEF e
<1>3. /\ e.defined <=> Definitions(e.name) # {}
      /\ \A id \in Definitions(e.name) : e.owner = id
      /\ e.defined => e.offset = syms[e.owner].offset /\ e.kind = syms[e.owner].kind
  BY <1>1, <1>2, Zenon DEF EntrySays
<1> QED BY <1>3, Zenon DEF e

\* link_resolution_validate_externals decides what the object files say.
LEMMA ValidMeansLinkable ==
  ASSUME OutcomeInv, phase \in {"validate", "resolved"}
  PROVE  ExternalsValid <=> Linkable
<1>1. /\ MergeInv /\ CursorInv /\ SymsInv /\ GlobalsInv /\ globals \in Seq(GlobalRecord)
      /\ objects \in Seq(ObjectFiles)
  BY DEF OutcomeInv, TypeInv, MergeInv
<1>2. /\ SymbolIds(objects) = Seen /\ SeenExternals = ExternalSymbols /\ SeenDefining = Defining
  BY <1>1, AllSeen
<1>3. \A i \in 1 .. Len(globals) :
        /\ globals[i].defined <=> Definitions(globals[i].name) # {}
        /\ \A id \in Definitions(globals[i].name) : globals[i].owner = id
  BY <1>1, <1>2, DefinedByName
<1>4. \A id \in ExternalSymbols : id \in SymbolIds(objects) /\ Names[id] = SymbolAt(id).name
  BY DEF ExternalSymbols, Names
<1>5. /\ \A id \in ExternalSymbols :
           \E i \in 1 .. Len(globals) : globals[i].name = SymbolAt(id).name
      /\ \A i \in 1 .. Len(globals) : \E id \in ExternalSymbols : globals[i].name = SymbolAt(id).name
  <2>1. /\ \A id \in ExternalSymbols : \E i \in 1 .. Len(globals) : globals[i].name = Names[id]
        /\ \A i \in 1 .. Len(globals) : \E id \in ExternalSymbols : globals[i].name = Names[id]
    BY <1>1, <1>2, Zenon DEF GlobalsInv, TableSays
  <2>2. ASSUME NEW id \in ExternalSymbols
        PROVE  \E i \in 1 .. Len(globals) : globals[i].name = SymbolAt(id).name
    <3>1. PICK i \in 1 .. Len(globals) : globals[i].name = Names[id]
      BY <2>1, Zenon
    <3> QED BY <1>4, <3>1
  <2>3. ASSUME NEW i \in 1 .. Len(globals)
        PROVE  \E id \in ExternalSymbols : globals[i].name = SymbolAt(id).name
    <3>1. PICK id \in ExternalSymbols : globals[i].name = Names[id]
      BY <2>1, Zenon
    <3> QED BY <1>4, <3>1
  <2> QED BY <2>2, <2>3
<1>6. \A name : \A id \in Definitions(name) : id \in ExternalSymbols /\ SymbolAt(id).name = name
  BY Zenon DEF Definitions
<1>7. WellFormedInput
  <2>1. \A o \in 1 .. Len(objects) : objects[o].readable
    BY <1>1 DEF CursorInv
  <2>2. \A id \in SymbolIds(objects) :
          SymbolAt(id).auxiliary \/ SymbolAt(id).section <= Len(objects[id[1]].sections)
    BY <1>1, <1>2, Zenon DEF SymsInv, InsideTable
  <2>3. ASSUME NEW x \in ExternalSymbols PROVE Cardinality(Definitions(SymbolAt(x).name)) <= 1
    <3> DEFINE D == Definitions(SymbolAt(x).name)
    <3>1. \A y, z \in D : y = z
      BY <1>3, <1>5, Zenon
    <3>2. CASE D = {}
      <4>1. Cardinality(D) = 0
        BY <3>2, FS_EmptySet, Zenon
      <4> QED BY <4>1
    <3>3. CASE D # {}
      <4>1. PICK y : D = {y}
        BY <3>1, <3>3
      <4>2. Cardinality(D) = 1
        BY <4>1, FS_Singleton, Zenon
      <4> QED BY <4>2
    <3> QED BY <3>2, <3>3
  <2> QED BY <2>1, <2>2, <2>3, Zenon DEF WellFormedInput
<1>8. EntryResolved <=> Definitions(EntryName) # {}
  <2> DEFINE k == GlobalIndex(EntryName)
  <2>1. \/ k = 0 /\ \A i \in 1 .. Len(globals) : globals[i].name # EntryName
        \/ k \in 1 .. Len(globals) /\ k # 0 /\ globals[k].name = EntryName
    BY <1>1, FoundIndex
  <2>2. EntryResolved <=> k # 0 /\ globals[k].defined
    BY Zenon DEF EntryResolved
  <2> HIDE DEF k
  <2>3. CASE k = 0 /\ \A i \in 1 .. Len(globals) : globals[i].name # EntryName
    <3>1. \A id : id \notin Definitions(EntryName)
      <4> SUFFICES ASSUME NEW id \in Definitions(EntryName) PROVE FALSE
        OBVIOUS
      <4>1. id \in ExternalSymbols /\ SymbolAt(id).name = EntryName
        BY <1>6, Zenon
      <4>2. PICK i \in 1 .. Len(globals) : globals[i].name = SymbolAt(id).name
        BY <1>5, <4>1, Zenon
      <4> QED BY <2>3, <4>1, <4>2
    <3>2. Definitions(EntryName) = {}
      BY <3>1, Zenon
    <3> QED BY <2>2, <2>3, <3>2, Zenon
  <2>4. CASE k \in 1 .. Len(globals) /\ k # 0 /\ globals[k].name = EntryName
    BY <1>3, <2>2, <2>4, Zenon
  <2> QED BY <2>1, <2>3, <2>4
<1>9. Unresolved = {} <=> \A id \in ExternalSymbols : Definitions(SymbolAt(id).name) # {}
  <2>1. Unresolved = {} <=> \A i \in 1 .. Len(globals) : globals[i].defined
    <3>1. \A i : i \in Unresolved <=> i \in 1 .. Len(globals) /\ ~globals[i].defined
      BY Zenon DEF Unresolved
    <3>2. Unresolved = {} <=> \A i : i \notin Unresolved
      OBVIOUS
    <3> QED BY <3>1, <3>2, Zenon
  <2>2. (\A i \in 1 .. Len(globals) : globals[i].defined)
          <=> \A i \in 1 .. Len(globals) : Definitions(globals[i].name) # {}
    BY <1>3, Zenon
  <2>3. (\A i \in 1 .. Len(globals) : Definitions(globals[i].name) # {})
          <=> \A id \in ExternalSymbols : Definitions(SymbolAt(id).name) # {}
    BY <1>5, Zenon
  <2> QED BY <2>1, <2>2, <2>3, Zenon
<1> QED BY <1>7, <1>8, <1>9, Zenon DEF ExternalsValid, Linkable

\* Addresses and the last checks.
LEMMA OutcomeEnds == OutcomeInv /\ (AssignVirtualAddresses \/ ValidateExternals) => OutcomeInv'
<1> SUFFICES ASSUME OutcomeInv, AssignVirtualAddresses \/ ValidateExternals PROVE OutcomeInv'
  OBVIOUS
<1>1. TypeInv /\ TypeInv' /\ MergeInv
  BY TypeStep DEF OutcomeInv, LinkNext, TypeInv
<1>2. UNCHANGED <<objects, place, syms, globals, at>> /\ phase \in {"addresses", "validate"}
  BY DEF AssignVirtualAddresses, ValidateExternals
<1>3. CursorInv /\ PlaceInv
  BY <1>2 DEF OutcomeInv
<1>4. phase \notin Early
  BY <1>2 DEF Early
<1>5. PlaceInv'
  BY <1>2, <1>3, <1>4, PlacesStay
<1>6. CASE phase' \in {"validate", "resolved"} /\ (phase' = "resolved" => ExternalsValid)
  <2>1. CursorInv'
    BY <1>2, <1>3, <1>6 DEF CursorInv
  <2>2. phase' \notin Early
    BY <1>6 DEF Early
  <2>3. Seen' = Seen
    BY <1>2, <1>4, <2>2, Zenon DEF Seen, Passed
  <2>4. phase # "failed" /\ phase' # "failed"
    BY <1>2, <1>6
  <2> QED BY <1>1, <1>2, <1>5, <1>6, <2>1, <2>3, <2>4, Kept
<1>7. CASE AssignVirtualAddresses
  <2>1. phase' = "validate"
    BY <1>7 DEF AssignVirtualAddresses
  <2> QED BY <1>6, <2>1
<1>8. CASE ValidateExternals
  <2>1. CASE ExternalsValid
    <3>1. phase' = "resolved"
      BY <1>8, <2>1 DEF ValidateExternals
    <3> QED BY <1>6, <2>1, <3>1
  <2>2. CASE ~ExternalsValid
    <3>1. phase' = "failed" /\ phase = "validate"
      BY <1>8, <2>2 DEF ValidateExternals, Fail
    <3>2. ~Linkable
      BY <2>2, <3>1, ValidMeansLinkable
    <3>3. DOMAIN syms' = DOMAIN syms /\ objects' = objects /\ globals' = globals
      BY <1>2
    <3> QED BY <1>1, <3>1, <3>2, <3>3, GivenUp
  <2> QED BY <2>1, <2>2
<1> QED BY <1>7, <1>8

\* Every step of link_resolution_build keeps the invariant.
LEMMA OutcomeStep == OutcomeInv /\ [LinkNext]_linkvars => OutcomeInv'
<1> SUFFICES ASSUME OutcomeInv, [LinkNext]_linkvars PROVE OutcomeInv'
  OBVIOUS
<1>1. CASE LoadObject \/ EndLoad
  BY <1>1, OutcomeLoad
<1>2. CASE MergeSection
  BY <1>2, OutcomeMergeSection
<1>3. CASE MergeNextObject \/ EndMerge
  BY <1>3, OutcomeMergeEnds
<1>4. CASE BuildSymbol
  BY <1>4, OutcomeBuildSymbol
<1>5. CASE SymbolsNextObject \/ EndSymbols
  BY <1>5, OutcomeSymbolsEnds
<1>6. CASE AssignVirtualAddresses \/ ValidateExternals
  BY <1>6, OutcomeEnds
<1>7. CASE UNCHANGED linkvars
  <2>1. UNCHANGED <<phase, objects, at, merged, place, syms, globals>>
    BY <1>7 DEF linkvars
  <2>2. TypeInv'
    BY <1>7, TypeStep DEF OutcomeInv
  <2>3. CASE phase = "failed"
    <3>1. phase' = "failed" /\ DOMAIN syms' = DOMAIN syms /\ ~Linkable
      BY <2>1, <2>3 DEF OutcomeInv
    <3> QED BY <2>1, <2>2, <3>1, GivenUp
  <2>4. CASE phase # "failed"
    <3>1. CursorInv /\ PlaceInv
      BY <2>4 DEF OutcomeInv
    <3>2. CursorInv' /\ PlaceInv' /\ Seen' = Seen
      BY <2>1, <3>1, Zenon DEF CursorInv, PlaceInv, Seen, Passed, SectionAt
    <3>3. phase' # "failed" /\ (phase' = "resolved" => ExternalsValid)
      BY <2>1, <2>4 DEF OutcomeInv
    <3> QED BY <2>1, <2>2, <2>4, <3>2, <3>3, Kept
  <2> QED BY <2>3, <2>4
<1> QED BY <1>1, <1>2, <1>3, <1>4, <1>5, <1>6, <1>7 DEF LinkNext

\* link_resolution_build succeeds exactly on the command lines that can be
\* linked, and then its symbol table is what the object files say, whatever
\* their number, their order and the order of references and definitions.
THEOREM OutcomeProved == LinkSpec => []OutcomeAsSpecified
<1>2. OutcomeInv => OutcomeAsSpecified
  <2> SUFFICES ASSUME OutcomeInv PROVE OutcomeAsSpecified
    OBVIOUS
  <2>1. phase = "failed" => ~Linkable
    BY DEF OutcomeInv
  <2>2. ASSUME phase = "resolved" PROVE Linkable /\ GlobalsAgreeWithObjects
    <3>1. Linkable
      BY <2>2, ValidMeansLinkable DEF OutcomeInv
    <3>2. /\ MergeInv /\ CursorInv /\ GlobalsInv
      BY <2>2 DEF OutcomeInv, TypeInv, MergeInv
    <3>3. SeenExternals = ExternalSymbols /\ SeenDefining = Defining
      BY <2>2, <3>2, AllSeen
    <3>4. \A i \in 1 .. Len(globals) :
            /\ globals[i].defined <=> Definitions(globals[i].name) # {}
            /\ \A id \in Definitions(globals[i].name) : globals[i].owner = id
            /\ globals[i].defined => /\ globals[i].offset = syms[globals[i].owner].offset
                                     /\ globals[i].kind = syms[globals[i].owner].kind
      BY <3>2, <3>3, DefinedByName
    <3>5. \A id \in ExternalSymbols : Names[id] = SymbolAt(id).name
      BY DEF ExternalSymbols, Names
    <3>6. {globals[i].name : i \in 1 .. Len(globals)} = {SymbolAt(id).name : id \in ExternalSymbols}
      <4>1. /\ \A id \in ExternalSymbols : \E i \in 1 .. Len(globals) : globals[i].name = Names[id]
            /\ \A i \in 1 .. Len(globals) : \E id \in ExternalSymbols : globals[i].name = Names[id]
        BY <3>2, <3>3, Zenon DEF GlobalsInv, TableSays
      <4>2. /\ \A id \in ExternalSymbols :
                 \E i \in 1 .. Len(globals) : SymbolAt(id).name = globals[i].name
            /\ \A i \in 1 .. Len(globals) :
                 \E id \in ExternalSymbols : globals[i].name = SymbolAt(id).name
        <5>1. ASSUME NEW id \in ExternalSymbols
              PROVE  \E i \in 1 .. Len(globals) : SymbolAt(id).name = globals[i].name
          <6>1. PICK i \in 1 .. Len(globals) : globals[i].name = Names[id]
            BY <4>1, Zenon
          <6> QED BY <3>5, <6>1
        <5>2. ASSUME NEW i \in 1 .. Len(globals)
              PROVE  \E id \in ExternalSymbols : globals[i].name = SymbolAt(id).name
          <6>1. PICK id \in ExternalSymbols : globals[i].name = Names[id]
            BY <4>1, Zenon
          <6> QED BY <3>5, <6>1
        <5> QED BY <5>1, <5>2
      <4>3. \A y : y \in {globals[i].name : i \in 1 .. Len(globals)}
                   <=> \E i \in 1 .. Len(globals) : y = globals[i].name
        BY Zenon
      <4>4. \A y : y \in {SymbolAt(id).name : id \in ExternalSymbols}
                   <=> \E id \in ExternalSymbols : y = SymbolAt(id).name
        BY Zenon
      <4>5. \A y : (\E i \in 1 .. Len(globals) : y = globals[i].name)
                   <=> \E id \in ExternalSymbols : y = SymbolAt(id).name
        BY <4>2, Zenon
      <4> QED BY <4>3, <4>4, <4>5, Zenon
    <3>7. \A i, j \in 1 .. Len(globals) : globals[i].name = globals[j].name => i = j
      BY <3>2, Zenon DEF GlobalsInv, TableSays
    <3>8. \A i \in 1 .. Len(globals) :
            globals[i].defined => globals[i].owner \in Definitions(globals[i].name)
      BY <3>4, Zenon
    <3>9. GlobalsAgreeWithObjects
      BY <3>4, <3>6, <3>7, <3>8, Zenon DEF GlobalsAgreeWithObjects
    <3> QED BY <3>1, <3>9
  <2> QED BY <2>1, <2>2, Zenon DEF OutcomeAsSpecified, Linkable
<1> QED BY <1>2, OutcomeInit, OutcomeStep, PTL DEF LinkSpec

=============================================================================
