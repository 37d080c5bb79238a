---------------------------- MODULE PeImageProofs ----------------------------
(***************************************************************************)
(* Proofs about PeImage: for every command line, import library and DLL    *)
(* the image is laid out soundly, its import tables hold one slot for each *)
(* import, exactly the missing names are imported, and every relocation    *)
(* leads to what it names.                                                 *)
(***************************************************************************)
EXTENDS PeImage, LinkResolveProofs

-----------------------------------------------------------------------------
\* The constants of the image, one by one.
LEMMA ImageConstants ==
  /\ ImageBase \in Nat \ {0} /\ PeAlignment \in Nat \ {0} /\ FileAlignment \in Nat \ {0}
  /\ Int32 \in Nat \ {0} /\ Word32 \in Nat \ {0} /\ NameBytes \in Nat \ {0}
BY ImageAssumption, NameAssumption

\* linker_align_up reaches the first multiple.
LEMMA AlignUpFirst ==
  ASSUME NEW v \in Nat, NEW a \in Nat \ {0}, NEW w \in Nat, v <= w, w % a = 0
  PROVE  AlignUp(v, a) <= w
<1> DEFINE q == v \div a
           r == v % a
           p == w \div a
<1>1. /\ q \in Nat /\ r \in Nat /\ r < a /\ v = a * q + r
      /\ p \in Nat /\ w = a * p
  OBVIOUS
<1>2. AlignUp(v, a) = IF r = 0 THEN v ELSE a * q + a
  <2>1. CASE r = 0
    BY <2>1 DEF AlignUp
  <2>2. CASE r # 0
    <3>1. AlignUp(v, a) = v + (a - r)
      BY <2>2 DEF AlignUp
    <3> HIDE DEF q, r, p
    <3> QED BY <1>1, <2>2, <3>1
  <2> QED BY <2>1, <2>2
<1> HIDE DEF q, r, p
<1>3. CASE r = 0
  BY <1>2, <1>3
<1>4. CASE r # 0
  <2>1. q < p
    <3> SUFFICES ASSUME p <= q PROVE FALSE
      BY <1>1
    <3>1. a * p <= a * q
      BY <1>1
    <3> QED BY <1>1, <1>4, <3>1
  <2>2. a * (q + 1) <= a * p
    BY <1>1, <2>1
  <2>3. a * (q + 1) = a * q + a
    BY <1>1
  <2> QED BY <1>1, <1>2, <1>4, <2>2, <2>3
<1> QED BY <1>3, <1>4

\* A multiple of a multiple.
LEMMA MultipleOfMultiple ==
  ASSUME NEW a \in Nat \ {0}, NEW b \in Nat \ {0}, b % a = 0, NEW w \in Nat, w % b = 0
  PROVE  w % a = 0
<1> DEFINE c == b \div a
           d == w \div b
<1>1. c \in Nat /\ b = a * c /\ d \in Nat /\ w = b * d
  OBVIOUS
<1> HIDE DEF c, d
<1>2. w = a * (c * d) /\ c * d \in Nat
  BY <1>1
<1>3. \A q \in Nat : (a * q) % a = 0
  OBVIOUS
<1> QED BY <1>2, <1>3

\* What a section takes in the file is at most what it takes in memory.
LEMMA RawFits ==
  ASSUME NEW v \in Nat, NEW w \in Nat, v <= w, PeAlignment % FileAlignment = 0
  PROVE  AlignUp(v, FileAlignment) <= AlignUp(w, PeAlignment)
<1>1. PeAlignment \in Nat \ {0} /\ FileAlignment \in Nat \ {0}
  BY ImageConstants
<1>2. AlignUp(w, PeAlignment) \in Nat /\ AlignUp(w, PeAlignment) >= w
      /\ AlignUp(w, PeAlignment) % PeAlignment = 0
  BY <1>1, AlignUpGrows, AlignUpAligned
<1> DEFINE u == AlignUp(w, PeAlignment)
<1> HIDE DEF u
<1>3. u \in Nat /\ v <= u /\ u % PeAlignment = 0
  BY <1>2 DEF u
<1>4. u % FileAlignment = 0
  BY <1>1, <1>3, MultipleOfMultiple
<1>5. AlignUp(v, FileAlignment) <= u
  BY <1>1, <1>3, <1>4, AlignUpFirst
<1> QED BY <1>5 DEF u

-----------------------------------------------------------------------------
\* The sections the import tables and thunks may turn m into: sound, all data,
\* with the same contributions and no shorter.
Grows(m) == {g \in Merged : /\ SectionSound(g) /\ DataOnly(g)
                            /\ g.parts = m.parts /\ m.size <= g.size}

\* Bytes appended to a section go behind what is there.
LEMMA GrownGrows ==
  ASSUME NEW m, NEW g \in Grows(m), m.size \in Nat,
         NEW to \in Nat, g.size <= to, NEW by \in Authors
  PROVE  Grown(g, to, by) \in Grows(m) /\ Grown(g, to, by).size = to
<1> DEFINE n == Grown(g, to, by)
           w == g.writes \o Segment(g.size, to, by)
<1>1. /\ g \in Merged /\ SectionSound(g) /\ DataOnly(g) /\ g.parts = m.parts /\ m.size <= g.size
  BY DEF Grows
<1>2. /\ g.size \in Nat /\ g.vsize \in Nat /\ g.writes \in Writes /\ g.size = g.vsize
      /\ Ordered(g) /\ PartsAligned(g) /\ Covers(g.writes, g.size) /\ g.parts \in Parts
  BY <1>1 DEF SectionSound, DataOnly, Merged
<1>3. w \in Writes /\ Covers(w, to)
  BY <1>2, AppendSegment
<1>4. n = [g EXCEPT !.size = to, !.vsize = to, !.writes = w]
  <2>1. Larger(g.vsize, to) = to
    BY <1>2 DEF Larger
  <2> HIDE DEF w
  <2>2. n = [g EXCEPT !.size = to, !.vsize = Larger(@, to), !.writes = w]
    BY <1>1 DEF Grown, Merged, w
  <2> QED BY <1>1, <2>1, <2>2 DEF Merged
<1> HIDE DEF n, w
<1>5. /\ n \in Merged /\ n.size = to /\ n.vsize = to /\ n.writes = w /\ n.parts = g.parts
      /\ n.size <= n.vsize
  <2>1. n \in Merged
    BY <1>1, <1>3, <1>4 DEF Merged
  <2>2. n.size = to /\ n.vsize = to /\ n.writes = w /\ n.parts = g.parts
    BY <1>1, <1>4 DEF Merged
  <2> QED BY <2>1, <2>2
<1>6. Ordered(n) /\ PartsAligned(n)
  <2> DEFINE p == g.parts
             Part == [id : Nat \X Nat, offset : Nat, used : Nat, align : Nat \ {0}]
  <2>1. /\ \A i \in 1 .. Len(p) : p[i].offset + p[i].used <= g.vsize
        /\ \A i, j \in 1 .. Len(p) : i < j => p[i].offset + p[i].used <= p[j].offset
        /\ \A i \in 1 .. Len(p) : p[i].offset % p[i].align = 0
    BY <1>2 DEF Ordered, PartsAligned
  <2>2. \A i \in 1 .. Len(p) : p[i].offset \in Nat /\ p[i].used \in Nat
    <3>1. p \in Seq(Part)
      BY <1>2 DEF Parts
    <3>2. \A i \in 1 .. Len(p) : p[i] \in Part
      <4> HIDE DEF p, Part
      <4> QED BY <3>1
    <3> QED BY <3>2
  <2> HIDE DEF p
  <2>3. \A i \in 1 .. Len(p) : p[i].offset + p[i].used <= to
    BY <1>2, <2>1, <2>2
  <2>4. n.parts = p /\ n.vsize = to
    BY <1>5 DEF p
  <2> QED BY <2>1, <2>3, <2>4, Zenon DEF Ordered, PartsAligned
<1>7. SectionSound(n) /\ DataOnly(n)
  BY <1>3, <1>5, <1>6 DEF SectionSound, DataOnly
<1>8. n \in Grows(m)
  BY <1>1, <1>2, <1>5, <1>7 DEF Grows
<1> QED BY <1>5, <1>8 DEF n

\* pe_section_align.
LEMMA AlignedGrows ==
  ASSUME NEW m, NEW g \in Grows(m), m.size \in Nat, NEW a \in Nat \ {0}
  PROVE  /\ Aligned(g, a) \in Grows(m)
         /\ Aligned(g, a).size = AlignUp(g.size, a)
         /\ g.size <= Aligned(g, a).size /\ Aligned(g, a).size \in Nat
<1>1. g.size \in Nat
  BY DEF Grows, Merged
<1>2. AlignUp(g.size, a) \in Nat /\ g.size <= AlignUp(g.size, a)
  BY <1>1, AlignUpGrows
<1>3. "zero" \in Authors
  BY DEF Authors
<1> QED BY <1>1, <1>2, <1>3, GrownGrows DEF Aligned

\* pe_section_append_zeros and pe_section_append_bytes.
LEMMA AppendedGrows ==
  ASSUME NEW m, NEW g \in Grows(m), m.size \in Nat, NEW n \in Nat, NEW by \in Authors
  PROVE  /\ Appended(g, n, by) \in Grows(m)
         /\ Appended(g, n, by).size = g.size + n
         /\ g.size <= Appended(g, n, by).size /\ Appended(g, n, by).size \in Nat
<1>1. g.size \in Nat
  BY DEF Grows, Merged
<1>2. g.size + n \in Nat /\ g.size <= g.size + n
  BY <1>1
<1> QED BY <1>1, <1>2, GrownGrows DEF Appended

-----------------------------------------------------------------------------
\* The import plan: DLLs with their number of imports, and imports.
DllRecord == [name : STRING, count : Nat, ilt : Nat, iat : Nat]
ImportRecord ==
  [name : STRING, dll : STRING, index : Nat, slot : Nat, ordinal : BOOLEAN, thunk : BOOLEAN,
   iatsym : BOOLEAN, hint : Nat, thunkAt : Nat]
PlanTyped == dlls \in Seq(DllRecord) /\ imports \in Seq(ImportRecord)

\* A section the tables can be appended to.
Base(m) == m \in Grows(m) /\ m.size \in Nat

LEMMA TableBytesNat ==
  ASSUME PlanTyped
  PROVE  /\ Len(dlls) \in Nat /\ Len(imports) \in Nat
         /\ \A d \in 1 .. Len(dlls) :
              /\ dlls[d].count \in Nat /\ TableBytes(d) \in Nat
              /\ TableBytes(d) = 8 * dlls[d].count + 8
         /\ \A i \in 1 .. Len(imports) : imports[i].index \in Nat /\ imports[i].slot \in Nat
<1>1. /\ Len(dlls) \in Nat /\ \A d \in 1 .. Len(dlls) : dlls[d] \in DllRecord
      /\ Len(imports) \in Nat /\ \A i \in 1 .. Len(imports) : imports[i] \in ImportRecord
  BY DEF PlanTyped
<1>2. \A r \in DllRecord : r.count \in Nat
  BY DEF DllRecord
<1>3. \A r \in ImportRecord : r.index \in Nat /\ r.slot \in Nat
  BY DEF ImportRecord
<1>4. \A d \in 1 .. Len(dlls) : dlls[d].count \in Nat
  BY <1>1, <1>2
<1>5. \A d \in 1 .. Len(dlls) : TableBytes(d) \in Nat /\ TableBytes(d) = 8 * dlls[d].count + 8
  BY <1>4 DEF TableBytes
<1> QED BY <1>1, <1>3, <1>4, <1>5

\* The import descriptors and the lookup tables, one per DLL.
LEMMA IltChain ==
  ASSUME PlanTyped, NEW m, Base(m)
  PROVE  /\ IltAfter(m)[0] = Descriptors(m)
         /\ \A n \in 1 .. Len(dlls) :
              IltAfter(m)[n] = Appended(Aligned(IltAfter(m)[n - 1], 8), TableBytes(n), "ilt")
         /\ \A n \in 0 .. Len(dlls) : IltAfter(m)[n] \in Grows(m)
<1> DEFINE N == Len(dlls)
           S == Grows(m)
           After(n, g) == Appended(Aligned(g, 8), TableBytes(n), "ilt")
           x == Descriptors(m)
<1>0. N \in Nat /\ m \in S /\ m.size \in Nat
  BY TableBytesNat DEF Base
<1>1. x \in S
  <2>1. Aligned(m, 8) \in S
    BY <1>0, AlignedGrows
  <2>2. (N + 1) * 20 \in Nat /\ "descriptors" \in Authors
    BY <1>0 DEF Authors
  <2> HIDE DEF S
  <2> QED BY <1>0, <2>1, <2>2, AppendedGrows DEF Descriptors, S
<1>2. ASSUME NEW n \in 1 .. N, NEW g \in S PROVE After(n, g) \in S
  <2>1. Aligned(g, 8) \in S
    BY <1>0, AlignedGrows
  <2>2. TableBytes(n) \in Nat /\ "ilt" \in Authors
    BY TableBytesNat DEF Authors
  <2> QED BY <1>0, <2>1, <2>2, AppendedGrows
<1> HIDE DEF N, S, x
<1> DEFINE step == [n \in 1 .. N |-> [g \in S |-> After(n, g)]]
           R(f) == [n \in 0 .. N |-> IF n = 0 THEN x ELSE After(n, f[n - 1])]
<1> HIDE DEF After
<1>3. step \in [1 .. N -> [S -> S]]
  BY <1>2
<1>4. PICK f : IsChain(f, N, S, x, step)
  <2> HIDE DEF step
  <2> QED BY <1>0, <1>1, <1>3, ChainExists
<1>5. f \in [0 .. N -> S] /\ f[0] = x /\ \A n \in 1 .. N : f[n] = step[n][f[n - 1]]
  BY <1>4, Zenon DEF IsChain
<1>6. f = R(f)
  <2>1. \A n \in 1 .. N : f[n - 1] \in S
    BY <1>0, <1>5
  <2>2. \A n \in 1 .. N : \A g \in S : step[n][g] = After(n, g)
    OBVIOUS
  <2> HIDE DEF step
  <2>3. \A n \in 1 .. N : f[n] = After(n, f[n - 1])
    BY <1>5, <2>1, <2>2, Zenon
  <2> QED BY <1>0, <1>5, <2>3
<1> DEFINE F == IltAfter(m)
<1>7. F = CHOOSE h : h = R(h)
  BY Zenon DEF IltAfter, N, x, After
<1> HIDE DEF R, F
<1>8. F = R(F)
  BY <1>6, <1>7, Zenon
<1>9. F[0] = x /\ \A n \in 1 .. N : F[n] = After(n, F[n - 1])
  BY <1>0, <1>8 DEF R
<1>10. \A n \in 0 .. N : F[n] \in S
  <2>1. \A n \in 1 .. N : F[n - 1] \in S => F[n] \in S
    BY <1>0, <1>2, <1>9
  <2> QED BY <1>0, <1>1, <1>9, <2>1, ChainHolds
<1> QED BY <1>9, <1>10 DEF F, N, S, x, After

\* Hints and names, one per import that is bound by name.
LEMMA HintsChain ==
  ASSUME PlanTyped, NEW m, Base(m)
  PROVE  /\ HintsAfter(m)[0] = IltAfter(m)[Len(dlls)]
         /\ \A n \in 1 .. Len(imports) :
              HintsAfter(m)[n] = IF imports[n].ordinal THEN HintsAfter(m)[n - 1]
                 ELSE Appended(Aligned(HintsAfter(m)[n - 1], 2), 2 + NameBytes, "hint")
         /\ \A n \in 0 .. Len(imports) : HintsAfter(m)[n] \in Grows(m)
<1> DEFINE N == Len(imports)
           S == Grows(m)
           After(n, g) == IF imports[n].ordinal THEN g
                 ELSE Appended(Aligned(g, 2), 2 + NameBytes, "hint")
           x == IltAfter(m)[Len(dlls)]
<1>0. N \in Nat /\ m \in S /\ m.size \in Nat
  BY TableBytesNat DEF Base
<1>1. x \in S
  <2>1. Len(dlls) \in 0 .. Len(dlls)
    BY TableBytesNat
  <2> QED BY <2>1, IltChain
<1>2. ASSUME NEW n \in 1 .. N, NEW g \in S PROVE After(n, g) \in S
  <2>1. Aligned(g, 2) \in S
    BY <1>0, AlignedGrows
  <2>2. 2 + NameBytes \in Nat /\ "hint" \in Authors
    BY ImageConstants DEF Authors
  <2>3. Appended(Aligned(g, 2), 2 + NameBytes, "hint") \in S
    BY <1>0, <2>1, <2>2, AppendedGrows
  <2> QED BY <2>3
<1> HIDE DEF N, S, x
<1> DEFINE step == [n \in 1 .. N |-> [g \in S |-> After(n, g)]]
           R(f) == [n \in 0 .. N |-> IF n = 0 THEN x ELSE After(n, f[n - 1])]
<1> HIDE DEF After
<1>3. step \in [1 .. N -> [S -> S]]
  BY <1>2
<1>4. PICK f : IsChain(f, N, S, x, step)
  <2> HIDE DEF step
  <2> QED BY <1>0, <1>1, <1>3, ChainExists
<1>5. f \in [0 .. N -> S] /\ f[0] = x /\ \A n \in 1 .. N : f[n] = step[n][f[n - 1]]
  BY <1>4, Zenon DEF IsChain
<1>6. f = R(f)
  <2>1. \A n \in 1 .. N : f[n - 1] \in S
    BY <1>0, <1>5
  <2>2. \A n \in 1 .. N : \A g \in S : step[n][g] = After(n, g)
    OBVIOUS
  <2> HIDE DEF step
  <2>3. \A n \in 1 .. N : f[n] = After(n, f[n - 1])
    BY <1>5, <2>1, <2>2, Zenon
  <2> QED BY <1>0, <1>5, <2>3
<1> DEFINE F == HintsAfter(m)
<1>7. F = CHOOSE h : h = R(h)
  BY Zenon DEF HintsAfter, N, x, After
<1> HIDE DEF R, F
<1>8. F = R(F)
  BY <1>6, <1>7, Zenon
<1>9. F[0] = x /\ \A n \in 1 .. N : F[n] = After(n, F[n - 1])
  BY <1>0, <1>8 DEF R
<1>10. \A n \in 0 .. N : F[n] \in S
  <2>1. \A n \in 1 .. N : F[n - 1] \in S => F[n] \in S
    BY <1>0, <1>2, <1>9
  <2> QED BY <1>0, <1>1, <1>9, <2>1, ChainHolds
<1> QED BY <1>9, <1>10 DEF F, N, S, x, After

\* The address tables start behind the hints and the names of the DLLs.
IatStart(m) ==
  Aligned(Appended(HintsAfter(m)[Len(imports)], Len(dlls) * NameBytes, "names"), 8)

\* The address tables, one per DLL.
LEMMA IatChain ==
  ASSUME PlanTyped, NEW m, Base(m)
  PROVE  /\ IatAfter(m)[0] = IatStart(m)
         /\ \A n \in 1 .. Len(dlls) :
              IatAfter(m)[n] = Appended(IatAfter(m)[n - 1], TableBytes(n), "iat")
         /\ \A n \in 0 .. Len(dlls) : IatAfter(m)[n] \in Grows(m)
<1> DEFINE N == Len(dlls)
           S == Grows(m)
           After(n, g) == Appended(g, TableBytes(n), "iat")
           x == IatStart(m)
<1>0. N \in Nat /\ m \in S /\ m.size \in Nat
  BY TableBytesNat DEF Base
<1>1. x \in S
  <2> DEFINE h == HintsAfter(m)[Len(imports)]
  <2>1. h \in S
    <3>1. Len(imports) \in 0 .. Len(imports)
      BY TableBytesNat
    <3> QED BY <3>1, HintsChain
  <2> HIDE DEF h
  <2>2. N * NameBytes \in Nat /\ "names" \in Authors
    BY <1>0, ImageConstants DEF Authors
  <2>3. Appended(h, N * NameBytes, "names") \in S
    BY <1>0, <2>1, <2>2, AppendedGrows
  <2>4. Aligned(Appended(h, N * NameBytes, "names"), 8) \in S
    BY <1>0, <2>3, AlignedGrows
  <2> QED BY <2>4 DEF IatStart, h
<1>2. ASSUME NEW n \in 1 .. N, NEW g \in S PROVE After(n, g) \in S
  <2>1. TableBytes(n) \in Nat /\ "iat" \in Authors
    BY TableBytesNat DEF Authors
  <2> QED BY <1>0, <2>1, AppendedGrows
<1> HIDE DEF N, S, x
<1> DEFINE step == [n \in 1 .. N |-> [g \in S |-> After(n, g)]]
           R(f) == [n \in 0 .. N |-> IF n = 0 THEN x ELSE After(n, f[n - 1])]
<1> HIDE DEF After
<1>3. step \in [1 .. N -> [S -> S]]
  BY <1>2
<1>4. PICK f : IsChain(f, N, S, x, step)
  <2> HIDE DEF step
  <2> QED BY <1>0, <1>1, <1>3, ChainExists
<1>5. f \in [0 .. N -> S] /\ f[0] = x /\ \A n \in 1 .. N : f[n] = step[n][f[n - 1]]
  BY <1>4, Zenon DEF IsChain
<1>6. f = R(f)
  <2>1. \A n \in 1 .. N : f[n - 1] \in S
    BY <1>0, <1>5
  <2>2. \A n \in 1 .. N : \A g \in S : step[n][g] = After(n, g)
    OBVIOUS
  <2> HIDE DEF step
  <2>3. \A n \in 1 .. N : f[n] = After(n, f[n - 1])
    BY <1>5, <2>1, <2>2, Zenon
  <2> QED BY <1>0, <1>5, <2>3
<1> DEFINE F == IatAfter(m)
<1>7. F = CHOOSE h : h = R(h)
  BY Zenon DEF IatAfter, IatStart, N, x, After
<1> HIDE DEF R, F
<1>8. F = R(F)
  BY <1>6, <1>7, Zenon
<1>9. F[0] = x /\ \A n \in 1 .. N : F[n] = After(n, F[n - 1])
  BY <1>0, <1>8 DEF R
<1>10. \A n \in 0 .. N : F[n] \in S
  <2>1. \A n \in 1 .. N : F[n - 1] \in S => F[n] \in S
    BY <1>0, <1>2, <1>9
  <2> QED BY <1>0, <1>1, <1>9, <2>1, ChainHolds
<1> QED BY <1>9, <1>10 DEF F, N, S, x, After

\* The jump thunks, one per import that is called directly.
LEMMA ThunksChain ==
  ASSUME PlanTyped, NEW m, Base(m)
  PROVE  /\ ThunksAfter(m)[0] = m
         /\ \A n \in 1 .. Len(imports) :
              ThunksAfter(m)[n] = IF imports[n].thunk THEN Appended(Aligned(ThunksAfter(m)[n - 1], 16), 6, "thunk")
                 ELSE ThunksAfter(m)[n - 1]
         /\ \A n \in 0 .. Len(imports) : ThunksAfter(m)[n] \in Grows(m)
<1> DEFINE N == Len(imports)
           S == Grows(m)
           After(n, g) == IF imports[n].thunk THEN Appended(Aligned(g, 16), 6, "thunk")
                 ELSE g
           x == m
<1>0. N \in Nat /\ m \in S /\ m.size \in Nat
  BY TableBytesNat DEF Base
<1>1. x \in S
  BY <1>0
<1>2. ASSUME NEW n \in 1 .. N, NEW g \in S PROVE After(n, g) \in S
  <2>1. Aligned(g, 16) \in S
    BY <1>0, AlignedGrows
  <2>2. "thunk" \in Authors
    BY DEF Authors
  <2>3. Appended(Aligned(g, 16), 6, "thunk") \in S
    BY <1>0, <2>1, <2>2, AppendedGrows
  <2> QED BY <2>3
<1> HIDE DEF N, S, x
<1> DEFINE step == [n \in 1 .. N |-> [g \in S |-> After(n, g)]]
           R(f) == [n \in 0 .. N |-> IF n = 0 THEN x ELSE After(n, f[n - 1])]
<1> HIDE DEF After
<1>3. step \in [1 .. N -> [S -> S]]
  BY <1>2
<1>4. PICK f : IsChain(f, N, S, x, step)
  <2> HIDE DEF step
  <2> QED BY <1>0, <1>1, <1>3, ChainExists
<1>5. f \in [0 .. N -> S] /\ f[0] = x /\ \A n \in 1 .. N : f[n] = step[n][f[n - 1]]
  BY <1>4, Zenon DEF IsChain
<1>6. f = R(f)
  <2>1. \A n \in 1 .. N : f[n - 1] \in S
    BY <1>0, <1>5
  <2>2. \A n \in 1 .. N : \A g \in S : step[n][g] = After(n, g)
    OBVIOUS
  <2> HIDE DEF step
  <2>3. \A n \in 1 .. N : f[n] = After(n, f[n - 1])
    BY <1>5, <2>1, <2>2, Zenon
  <2> QED BY <1>0, <1>5, <2>3
<1> DEFINE F == ThunksAfter(m)
<1>7. F = CHOOSE h : h = R(h)
  BY Zenon DEF ThunksAfter, N, x, After
<1> HIDE DEF R, F
<1>8. F = R(F)
  BY <1>6, <1>7, Zenon
<1>9. F[0] = x /\ \A n \in 1 .. N : F[n] = After(n, F[n - 1])
  BY <1>0, <1>8 DEF R
<1>10. \A n \in 0 .. N : F[n] \in S
  <2>1. \A n \in 1 .. N : F[n - 1] \in S => F[n] \in S
    BY <1>0, <1>2, <1>9
  <2> QED BY <1>0, <1>1, <1>9, <2>1, ChainHolds
<1> QED BY <1>9, <1>10 DEF F, N, S, x, After

\* Where the tables of a DLL start.
IltOf(m, d) == Aligned(IltAfter(m)[d - 1], 8).size
IatOf(m, d) == IatAfter(m)[d - 1].size

\* The sizes of the sections of a chain are natural numbers.
LEMMA GrowsSize == ASSUME NEW m, NEW g \in Grows(m) PROVE g.size \in Nat /\ m.size <= g.size
BY DEF Grows, Merged

\* The tables of different DLLs, and the two tables of one, are apart; all start
\* behind the bytes of the object files.
LEMMA TablesApart ==
  ASSUME PlanTyped, NEW m, Base(m)
  PROVE  \A d \in 1 .. Len(dlls) :
           /\ IltOf(m, d) \in Nat /\ IatOf(m, d) \in Nat
           /\ m.size <= IltOf(m, d) /\ m.size <= IatOf(m, d)
           /\ \A e \in 1 .. Len(dlls) :
                /\ d < e => /\ IltOf(m, d) + TableBytes(d) <= IltOf(m, e)
                            /\ IatOf(m, d) + TableBytes(d) <= IatOf(m, e)
                /\ IltOf(m, d) + TableBytes(d) <= IatOf(m, e)
           /\ IatOf(m, d) + TableBytes(d) <= IatAfter(m)[Len(dlls)].size
<1> DEFINE N == Len(dlls)
           M == Len(imports)
           F == [n \in 0 .. N |-> IltAfter(m)[n].size]
           H == [n \in 0 .. M |-> HintsAfter(m)[n].size]
           T == [n \in 0 .. N |-> IatAfter(m)[n].size]
<1>0. /\ N \in Nat /\ M \in Nat /\ m \in Grows(m) /\ m.size \in Nat
      /\ \A d \in 1 .. N : TableBytes(d) \in Nat
  BY TableBytesNat DEF Base
<1>1. ASSUME NEW n \in 1 .. N
      PROVE  /\ IltOf(m, n) \in Nat /\ F[n - 1] <= IltOf(m, n) /\ F[n] = IltOf(m, n) + TableBytes(n)
             /\ m.size <= IltOf(m, n)
  <2> DEFINE g == IltAfter(m)[n - 1]
             h == Aligned(g, 8)
  <2>1. n - 1 \in 0 .. N /\ n \in 0 .. N
    BY <1>0
  <2>2. g \in Grows(m) /\ IltAfter(m)[n] = Appended(h, TableBytes(n), "ilt")
    BY <2>1, IltChain
  <2>3. "ilt" \in Authors
    BY DEF Authors
  <2>4. F[n - 1] = g.size /\ F[n] = IltAfter(m)[n].size
    BY <2>1
  <2> HIDE DEF g
  <2>5. h \in Grows(m) /\ g.size <= h.size /\ h.size \in Nat
    BY <1>0, <2>2, AlignedGrows
  <2> HIDE DEF h
  <2>6. Appended(h, TableBytes(n), "ilt").size = h.size + TableBytes(n)
    BY <1>0, <2>3, <2>5, AppendedGrows
  <2>7. m.size <= h.size
    BY <2>5, GrowsSize
  <2>8. IltOf(m, n) = h.size
    BY DEF IltOf, h, g
  <2> HIDE DEF F
  <2> QED BY <2>2, <2>4, <2>5, <2>6, <2>7, <2>8
<1>2. ASSUME NEW n \in 1 .. N
      PROVE  /\ IatOf(m, n) \in Nat /\ T[n - 1] = IatOf(m, n) /\ T[n] = IatOf(m, n) + TableBytes(n)
             /\ m.size <= IatOf(m, n)
  <2> DEFINE g == IatAfter(m)[n - 1]
  <2>1. n - 1 \in 0 .. N /\ n \in 0 .. N
    BY <1>0
  <2>2. g \in Grows(m) /\ IatAfter(m)[n] = Appended(g, TableBytes(n), "iat")
    BY <2>1, IatChain
  <2>3. "iat" \in Authors
    BY DEF Authors
  <2>4. T[n - 1] = g.size /\ T[n] = IatAfter(m)[n].size /\ IatOf(m, n) = g.size
    BY <2>1 DEF IatOf
  <2> HIDE DEF g, T
  <2>5. Appended(g, TableBytes(n), "iat").size = g.size + TableBytes(n)
    BY <1>0, <2>2, <2>3, AppendedGrows
  <2>6. g.size \in Nat /\ m.size <= g.size
    BY <2>2, GrowsSize
  <2> QED BY <2>2, <2>4, <2>5, <2>6
<1>3. \A n \in 1 .. M : H[n - 1] <= H[n]
  <2> SUFFICES ASSUME NEW n \in 1 .. M PROVE H[n - 1] <= H[n]
    OBVIOUS
  <2> DEFINE g == HintsAfter(m)[n - 1]
             h == Aligned(g, 2)
  <2>1. n - 1 \in 0 .. M /\ n \in 0 .. M
    BY <1>0
  <2>2. /\ g \in Grows(m)
        /\ HintsAfter(m)[n] = IF imports[n].ordinal THEN g ELSE Appended(h, 2 + NameBytes, "hint")
    BY <2>1, HintsChain
  <2>3. "hint" \in Authors /\ 2 + NameBytes \in Nat
    BY ImageConstants DEF Authors
  <2>4. H[n - 1] = g.size /\ H[n] = HintsAfter(m)[n].size
    BY <2>1
  <2> HIDE DEF g, H
  <2>5. h \in Grows(m) /\ g.size <= h.size /\ h.size \in Nat /\ g.size \in Nat
    BY <1>0, <2>2, AlignedGrows, GrowsSize
  <2> HIDE DEF h
  <2>6. Appended(h, 2 + NameBytes, "hint").size = h.size + (2 + NameBytes)
    BY <1>0, <2>3, <2>5, AppendedGrows
  <2> QED BY <2>2, <2>3, <2>4, <2>5, <2>6
<1>4. /\ \A n \in 0 .. N : F[n] \in Int /\ T[n] \in Int
      /\ \A n \in 0 .. M : H[n] \in Int
  <2>1. \A n \in 0 .. N : IltAfter(m)[n] \in Grows(m) /\ IatAfter(m)[n] \in Grows(m)
    BY IltChain, IatChain
  <2>2. \A n \in 0 .. M : HintsAfter(m)[n] \in Grows(m)
    BY HintsChain
  <2>3. \A g \in Grows(m) : g.size \in Int
    BY GrowsSize
  <2> QED BY <2>1, <2>2, <2>3
<1>5. F[N] = H[0]
  <2>1. HintsAfter(m)[0] = IltAfter(m)[N]
    BY HintsChain
  <2> QED BY <1>0, <2>1
<1>6. H[M] <= T[0]
  <2> DEFINE g == HintsAfter(m)[M]
             h == Appended(g, N * NameBytes, "names")
  <2>1. M \in 0 .. M /\ 0 \in 0 .. N
    BY <1>0
  <2>2. g \in Grows(m) /\ IatAfter(m)[0] = Aligned(h, 8)
    BY <2>1, HintsChain, IatChain DEF IatStart
  <2>3. "names" \in Authors /\ N * NameBytes \in Nat
    BY <1>0, ImageConstants DEF Authors
  <2>4. H[M] = g.size /\ T[0] = IatAfter(m)[0].size
    BY <2>1
  <2> HIDE DEF g, H, T, N
  <2>5. h \in Grows(m) /\ g.size <= h.size /\ h.size \in Nat /\ g.size \in Nat
    BY <1>0, <2>2, <2>3, AppendedGrows, GrowsSize
  <2> HIDE DEF h
  <2>6. h.size <= Aligned(h, 8).size /\ Aligned(h, 8).size \in Nat
    BY <1>0, <2>5, AlignedGrows
  <2> QED BY <2>2, <2>4, <2>5, <2>6
<1>7. T[N] = IatAfter(m)[N].size
  BY <1>0
<1> HIDE DEF N, M, F, H, T
<1>8. \A i, j \in 0 .. N : i <= j => F[i] <= F[j]
  <2>1. \A n \in 1 .. N : F[n - 1] <= F[n]
    <3> SUFFICES ASSUME NEW n \in 1 .. N PROVE F[n - 1] <= F[n]
      OBVIOUS
    <3>1. n - 1 \in 0 .. N /\ F[n - 1] \in Int /\ TableBytes(n) \in Nat
      BY <1>0, <1>4
    <3> QED BY <1>1, <3>1
  <2> QED BY <1>0, <1>4, <2>1, ChainGrows
<1>9. \A i, j \in 0 .. N : i <= j => T[i] <= T[j]
  <2>1. \A n \in 1 .. N : T[n - 1] <= T[n]
    BY <1>0, <1>2
  <2> QED BY <1>0, <1>4, <2>1, ChainGrows
<1>10. \A i, j \in 0 .. M : i <= j => H[i] <= H[j]
  BY <1>0, <1>3, <1>4, ChainGrows
<1>11. F[N] <= T[0]
  <2>1. 0 \in 0 .. M /\ M \in 0 .. M /\ 0 <= M /\ 0 \in 0 .. N
    BY <1>0
  <2> QED BY <1>4, <1>5, <1>6, <1>10, <2>1
<1> SUFFICES ASSUME NEW d \in 1 .. N
             PROVE  /\ IltOf(m, d) \in Nat /\ IatOf(m, d) \in Nat
                    /\ m.size <= IltOf(m, d) /\ m.size <= IatOf(m, d)
                    /\ \A e \in 1 .. N :
                         /\ d < e => /\ IltOf(m, d) + TableBytes(d) <= IltOf(m, e)
                                     /\ IatOf(m, d) + TableBytes(d) <= IatOf(m, e)
                         /\ IltOf(m, d) + TableBytes(d) <= IatOf(m, e)
                    /\ IatOf(m, d) + TableBytes(d) <= T[N]
  BY <1>7 DEF N
<1>12. /\ IltOf(m, d) \in Nat /\ IatOf(m, d) \in Nat
       /\ m.size <= IltOf(m, d) /\ m.size <= IatOf(m, d)
       /\ F[d] = IltOf(m, d) + TableBytes(d) /\ T[d] = IatOf(m, d) + TableBytes(d)
  BY <1>1, <1>2
<1>13. ASSUME NEW e \in 1 .. N
       PROVE  /\ d < e => F[d] <= IltOf(m, e) /\ T[d] <= IatOf(m, e)
              /\ F[d] <= IatOf(m, e)
  <2>1. /\ e - 1 \in 0 .. N /\ d \in 0 .. N /\ N \in 0 .. N /\ 0 \in 0 .. N
        /\ d <= N /\ 0 <= e - 1 /\ (d < e => d <= e - 1)
    BY <1>0
  <2>2. F[e - 1] <= IltOf(m, e) /\ IltOf(m, e) \in Nat /\ T[e - 1] = IatOf(m, e)
    BY <1>1, <1>2
  <2>3. /\ F[d] \in Int /\ F[e - 1] \in Int /\ T[d] \in Int /\ T[e - 1] \in Int
        /\ F[N] \in Int /\ T[0] \in Int
    BY <1>4, <2>1
  <2>4. /\ d < e => F[d] <= F[e - 1] /\ T[d] <= T[e - 1]
        /\ F[d] <= F[N] /\ T[0] <= T[e - 1]
    BY <1>8, <1>9, <2>1
  <2> QED BY <1>11, <2>2, <2>3, <2>4
<1>14. T[d] <= T[N]
  <2>1. d \in 0 .. N /\ N \in 0 .. N /\ d <= N
    BY <1>0
  <2> QED BY <1>9, <2>1
<1> QED BY <1>12, <1>13, <1>14

-----------------------------------------------------------------------------
LEMMA LeastIn ==
  ASSUME NEW S, S \subseteq Nat, S # {}
  PROVE  Least(S) \in S /\ \A y \in S : Least(S) <= y
<1>1. \E x \in S : \A y \in S : x <= y
  BY LeastNat
<1> QED BY <1>1, Zenon DEF Least

LEMMA GreatestIn ==
  ASSUME NEW S, NEW b \in Nat, S # {}, \A x \in S : x \in Nat /\ x <= b
  PROVE  Greatest(S) \in S /\ \A y \in S : y <= Greatest(S)
<1>1. \E x \in S : \A y \in S : y <= x
  BY GreatestNat
<1> QED BY <1>1, Zenon DEF Greatest

\* pe_find_import_symbol: an offer of the first library that has the name.
LEMMA FoundImport ==
  ASSUME NEW ls \in Seq(Seq(OfferRecord)), NEW name, OfferedBy(ls, name) # {}
  PROVE  /\ FindImport(ls, name) \in OfferRecord
         /\ FindImport(ls, name).name = name
         /\ \E i \in 1 .. Len(ls) :
              /\ i = Least(OfferedBy(ls, name))
              /\ i \in OfferedBy(ls, name) /\ \A k \in OfferedBy(ls, name) : i <= k
              /\ \E j \in 1 .. Len(ls[i]) : /\ FindImport(ls, name) = ls[i][j]
                                            /\ j = Least(LibraryOffers(ls[i], name))
<1> DEFINE S == OfferedBy(ls, name)
           i == Least(S)
           T == LibraryOffers(ls[i], name)
           j == Least(T)
<1>1. Len(ls) \in Nat /\ \A n \in 1 .. Len(ls) : ls[n] \in Seq(OfferRecord)
  OBVIOUS
<1>2. S \subseteq Nat /\ S # {} /\ S \subseteq 1 .. Len(ls)
  <2>1. S \subseteq 1 .. Len(ls)
    BY Zenon DEF OfferedBy
  <2>2. 1 .. Len(ls) \subseteq Nat
    BY <1>1
  <2> QED BY <2>1, <2>2, Zenon
<1>3. i \in S /\ \A k \in S : i <= k
  BY <1>2, LeastIn
<1>4. i \in 1 .. Len(ls) /\ LibraryOffers(ls[i], name) # {}
  BY <1>3 DEF OfferedBy
<1>5. ls[i] \in Seq(OfferRecord) /\ Len(ls[i]) \in Nat
  BY <1>1, <1>4
<1>6. T \subseteq Nat /\ T # {}
  BY <1>4, <1>5 DEF LibraryOffers
<1>7. j \in T
  BY <1>6, LeastIn
<1>8. j \in 1 .. Len(ls[i]) /\ ls[i][j].name = name
  BY <1>7 DEF LibraryOffers
<1>9. ls[i][j] \in OfferRecord
  BY <1>5, <1>8
<1>10. FindImport(ls, name) = ls[i][j]
  BY DEF FindImport
<1> HIDE DEF S, i, T, j
<1>11. /\ i = Least(OfferedBy(ls, name)) /\ j = Least(LibraryOffers(ls[i], name))
       /\ S = OfferedBy(ls, name)
  BY DEF S, i, T, j
<1> QED BY <1>3, <1>4, <1>8, <1>9, <1>10, <1>11

\* Names of the global table and of imports.
LEMMA CanonicalString == ASSUME NEW name \in STRING PROVE Canonical(name) \in STRING
BY ImpAssumption DEF Canonical, IsImp

-----------------------------------------------------------------------------
PePhases == {"libraries", "dlls", "plan", "storage", "unresolved", "layout", "apply",
             "finalize", "relocate", "write", "linked"}

\* Every import has a slot of its own in the tables of its DLL.
SlotsApart(d, m) ==
  /\ \A i \in 1 .. Len(m) : m[i].index \in 1 .. Len(d) /\ m[i].slot < d[m[i].index].count
  /\ \A i, j \in 1 .. Len(m) : m[i].index = m[j].index /\ m[i].slot = m[j].slot => i = j

\* The types of the state, and the shape of the import plan.
PeTypes ==
  /\ phase \in Phases \cup PePhases
  /\ MergeInv
  /\ globals \in Seq(GlobalRecord)
  /\ libs \in Seq(Seq(OfferRecord))
  /\ PlanTyped
  /\ SlotsApart(dlls, imports)

LEMMA DllFound ==
  ASSUME PlanTyped, NEW name
  PROVE  \/ DllIndex(name) = 0 /\ \A i \in 1 .. Len(dlls) : dlls[i].name # name
         \/ DllIndex(name) \in 1 .. Len(dlls) /\ DllIndex(name) # 0 /\ dlls[DllIndex(name)].name = name
<1> DEFINE found == {i \in 1 .. Len(dlls) : dlls[i].name = name}
<1>1. DllIndex(name) = IF found = {} THEN 0 ELSE Least(found)
  BY DEF DllIndex
<1>2. CASE found = {}
  BY <1>1, <1>2
<1>3. CASE found # {}
  <2>1. found \subseteq Nat
    BY TableBytesNat
  <2>2. Least(found) \in found
    <3> HIDE DEF found
    <3> QED BY <1>3, <2>1, LeastIn
  <2> QED BY <1>1, <1>3, <2>2
<1> QED BY <1>2, <1>3

LEMMA ImportFound ==
  ASSUME PlanTyped, NEW name, NEW dll
  PROVE  \/ ImportIndex(name, dll) = 0
              /\ \A i \in 1 .. Len(imports) : ~(imports[i].name = name /\ imports[i].dll = dll)
         \/ /\ ImportIndex(name, dll) \in 1 .. Len(imports) /\ ImportIndex(name, dll) # 0
            /\ imports[ImportIndex(name, dll)].name = name
            /\ imports[ImportIndex(name, dll)].dll = dll
<1> DEFINE found == {i \in 1 .. Len(imports) : imports[i].name = name /\ imports[i].dll = dll}
<1>1. ImportIndex(name, dll) = IF found = {} THEN 0 ELSE Least(found)
  BY DEF ImportIndex
<1>2. CASE found = {}
  BY <1>1, <1>2
<1>3. CASE found # {}
  <2>1. found \subseteq Nat
    BY TableBytesNat
  <2>2. Least(found) \in found
    <3> HIDE DEF found
    <3> QED BY <1>3, <2>1, LeastIn
  <2> QED BY <1>1, <1>3, <2>2
<1> QED BY <1>2, <1>3

\* A plan whose DLLs have grown and whose imports keep their slots.
GrownPlan(d, e) ==
  /\ d \in Seq(DllRecord) /\ e \in Seq(DllRecord) /\ Len(d) <= Len(e)
  /\ \A k \in 1 .. Len(d) : d[k].count <= e[k].count

LEMMA SlotsKept ==
  ASSUME NEW d, NEW e, GrownPlan(d, e), NEW m, NEW n, m \in Seq(ImportRecord),
         n \in Seq(ImportRecord), Len(n) = Len(m),
         \A i \in 1 .. Len(m) : n[i].index = m[i].index /\ n[i].slot = m[i].slot,
         SlotsApart(d, m)
  PROVE  SlotsApart(e, n)
<1>1. /\ Len(d) \in Nat /\ Len(e) \in Nat /\ Len(d) <= Len(e)
      /\ \A k \in 1 .. Len(d) : d[k].count <= e[k].count
      /\ \A k \in 1 .. Len(d) : d[k] \in DllRecord /\ e[k] \in DllRecord
      /\ \A i \in 1 .. Len(m) : m[i] \in ImportRecord
  BY DEF GrownPlan
<1>2. /\ \A k \in 1 .. Len(d) : d[k].count \in Nat /\ e[k].count \in Nat
      /\ \A i \in 1 .. Len(m) : m[i].index \in Nat /\ m[i].slot \in Nat
  <2>1. \A r \in DllRecord : r.count \in Nat
    BY DEF DllRecord
  <2>2. \A r \in ImportRecord : r.index \in Nat /\ r.slot \in Nat
    BY DEF ImportRecord
  <2> QED BY <1>1, <2>1, <2>2
<1>3. ASSUME NEW i \in 1 .. Len(m)
      PROVE  n[i].index \in 1 .. Len(e) /\ n[i].slot < e[n[i].index].count
  <2>1. m[i].index \in 1 .. Len(d) /\ m[i].slot < d[m[i].index].count /\ m[i].slot \in Nat
    BY <1>2 DEF SlotsApart
  <2>2. n[i].index = m[i].index /\ n[i].slot = m[i].slot
    OBVIOUS
  <2> DEFINE k == m[i].index
  <2> HIDE DEF k
  <2>3. k \in 1 .. Len(d) /\ m[i].slot < d[k].count
    BY <2>1 DEF k
  <2>4. k \in 1 .. Len(e) /\ m[i].slot < e[k].count
    BY <1>1, <1>2, <2>1, <2>3
  <2> QED BY <2>2, <2>4 DEF k
<1>4. \A i, j \in 1 .. Len(m) : n[i].index = n[j].index /\ n[i].slot = n[j].slot => i = j
  BY Zenon DEF SlotsApart
<1> QED BY <1>3, <1>4, Zenon DEF SlotsApart

LEMMA SlotsNew ==
  ASSUME NEW d, NEW e, GrownPlan(d, e), NEW m, m \in Seq(ImportRecord),
         NEW r \in ImportRecord, NEW n, n = Append(m, r), SlotsApart(d, m),
         r.index \in 1 .. Len(e), r.slot < e[r.index].count,
         \A i \in 1 .. Len(m) : m[i].index = r.index => m[i].slot < r.slot
  PROVE  SlotsApart(e, n) /\ n \in Seq(ImportRecord)
<1> DEFINE M == Len(m)
<1>1. /\ M \in Nat /\ Len(n) = M + 1 /\ n[M + 1] = r /\ \A i \in 1 .. M : n[i] = m[i]
      /\ n \in Seq(ImportRecord)
  OBVIOUS
<1>2. SlotsApart(e, m)
  BY SlotsKept
<1>3. \A i \in 1 .. M : m[i].slot \in Nat
  <2>1. \A i \in 1 .. M : m[i] \in ImportRecord
    OBVIOUS
  <2>2. \A x \in ImportRecord : x.slot \in Nat
    BY DEF ImportRecord
  <2> QED BY <2>1, <2>2
<1>4. r.slot \in Nat
  BY DEF ImportRecord
<1>5. \A i \in 1 .. M + 1 : i \in 1 .. M \/ i = M + 1
  BY <1>1
<1> HIDE DEF M
<1>6. \A i \in 1 .. M + 1 : n[i].index \in 1 .. Len(e) /\ n[i].slot < e[n[i].index].count
  BY <1>1, <1>2, <1>5, Zenon DEF SlotsApart, M
<1>7. \A i \in 1 .. M : m[i].index = r.index => m[i].slot # r.slot
  BY <1>3, <1>4 DEF M
<1>8. ASSUME NEW i \in 1 .. M + 1, NEW j \in 1 .. M + 1,
             n[i].index = n[j].index, n[i].slot = n[j].slot
      PROVE  i = j
  <2>1. CASE i \in 1 .. M /\ j \in 1 .. M
    <3>1. n[i] = m[i] /\ n[j] = m[j]
      BY <1>1, <2>1
    <3> QED BY <1>2, <1>8, <2>1, <3>1, Zenon DEF SlotsApart, M
  <2>2. CASE i = M + 1 /\ j \in 1 .. M
    <3>1. n[i] = r /\ n[j] = m[j]
      BY <1>1, <2>2
    <3> QED BY <1>7, <1>8, <2>2, <3>1, Zenon
  <2>3. CASE j = M + 1 /\ i \in 1 .. M
    <3>1. n[j] = r /\ n[i] = m[i]
      BY <1>1, <2>3
    <3> QED BY <1>7, <1>8, <2>3, <3>1, Zenon
  <2> QED BY <1>5, <2>1, <2>2, <2>3
<1> QED BY <1>1, <1>6, <1>8 DEF SlotsApart

\* pe_bind_import_symbol keeps the types and gives a new import a new slot.
LEMMA BindTypes ==
  ASSUME PlanTyped, SlotsApart(dlls, imports), NEW offer \in OfferRecord, NEW name \in STRING,
         NEW via \in BOOLEAN, Bind(offer, name, via)
  PROVE  PlanTyped' /\ SlotsApart(dlls, imports)'
<1> DEFINE d == DllIndex(offer.dll)
           i == ImportIndex(name, offer.dll)
           dllAt == IF d = 0 THEN Len(dlls) + 1 ELSE d
           slot == IF d = 0 THEN 0 ELSE Slot(d)
           new == [name |-> name, dll |-> offer.dll, index |-> dllAt, slot |-> slot,
                   ordinal |-> offer.ordinal, thunk |-> ~via, iatsym |-> via,
                   hint |-> 0, thunkAt |-> 0]
           fresh == [name |-> offer.dll, count |-> 1, ilt |-> 0, iat |-> 0]
<1>1. /\ imports' = IF i = 0 THEN Append(imports, new)
                    ELSE [imports EXCEPT ![i].thunk = @ \/ ~via, ![i].iatsym = @ \/ via]
      /\ dlls' = IF d = 0 THEN Append(dlls, fresh)
                 ELSE IF i = 0 THEN [dlls EXCEPT ![d].count = @ + 1] ELSE dlls
  BY DEF Bind
<1>2. /\ dlls \in Seq(DllRecord) /\ imports \in Seq(ImportRecord)
      /\ Len(dlls) \in Nat /\ Len(imports) \in Nat
      /\ \A k \in 1 .. Len(dlls) : dlls[k] \in DllRecord /\ dlls[k].count \in Nat
      /\ \A k \in 1 .. Len(imports) : imports[k] \in ImportRecord
  <2>1. dlls \in Seq(DllRecord) /\ imports \in Seq(ImportRecord)
    BY DEF PlanTyped
  <2> QED BY <2>1, TableBytesNat
<1>3. d = 0 \/ (d \in 1 .. Len(dlls) /\ d # 0)
  BY DllFound
<1>4. i = 0 \/ (i \in 1 .. Len(imports) /\ i # 0)
  BY ImportFound
<1> HIDE DEF d, i
<1>5. offer.dll \in STRING /\ offer.ordinal \in BOOLEAN
  BY DEF OfferRecord
<1>6. fresh \in DllRecord /\ fresh.count = 1
  BY <1>5 DEF DllRecord
<1>7. dllAt \in Nat /\ slot \in Nat
  BY <1>2, <1>3 DEF Slot
<1>8. new \in ImportRecord /\ new.index = dllAt /\ new.slot = slot
  <2> HIDE DEF dllAt, slot
  <2> QED BY <1>5, <1>7 DEF ImportRecord
<1> HIDE DEF new, fresh
<1>9. GrownPlan(dlls, dlls')
  <2>1. CASE d = 0
    <3>1. dlls' = Append(dlls, fresh)
      BY <1>1, <2>1
    <3>2. /\ dlls' \in Seq(DllRecord) /\ Len(dlls') = Len(dlls) + 1
          /\ \A k \in 1 .. Len(dlls) : dlls'[k] = dlls[k]
      BY <1>2, <1>6, <3>1
    <3> QED BY <1>2, <3>2 DEF GrownPlan
  <2>2. CASE d # 0 /\ i = 0
    <3>1. d \in 1 .. Len(dlls)
      BY <1>3, <2>2
    <3> DEFINE r == [dlls[d] EXCEPT !.count = @ + 1]
    <3>2. dlls' = [dlls EXCEPT ![d] = r]
      BY <1>1, <2>2
    <3>3. r \in DllRecord /\ r.count = dlls[d].count + 1
      <4>1. dlls[d] \in DllRecord
        BY <1>2, <3>1
      <4> QED BY <4>1 DEF DllRecord
    <3> HIDE DEF r
    <3>4. /\ dlls' \in Seq(DllRecord) /\ Len(dlls') = Len(dlls)
          /\ \A k \in 1 .. Len(dlls) : dlls'[k] = IF k = d THEN r ELSE dlls[k]
      BY <1>2, <3>1, <3>2, <3>3
    <3>5. \A k \in 1 .. Len(dlls) : dlls[k].count <= dlls'[k].count
      BY <1>2, <3>3, <3>4
    <3> QED BY <1>2, <3>4, <3>5 DEF GrownPlan
  <2>3. CASE d # 0 /\ i # 0
    <3>1. dlls' = dlls
      BY <1>1, <2>3
    <3> QED BY <1>2, <3>1 DEF GrownPlan
  <2> QED BY <2>1, <2>2, <2>3
<1>10. dlls' \in Seq(DllRecord)
  BY <1>9 DEF GrownPlan
<1>11. CASE i = 0
  <2>1. imports' = Append(imports, new)
    BY <1>1, <1>11
  <2>2. /\ dllAt \in 1 .. Len(dlls') /\ slot < dlls'[dllAt].count
        /\ \A k \in 1 .. Len(imports) : imports[k].index = dllAt => imports[k].slot < slot
    <3>1. CASE d = 0
      <4>1. dlls' = Append(dlls, fresh) /\ dllAt = Len(dlls) + 1 /\ slot = 0
        BY <1>1, <3>1
      <4>2. Len(dlls') = Len(dlls) + 1 /\ dlls'[Len(dlls) + 1] = fresh
        BY <1>2, <1>6, <4>1
      <4>3. \A k \in 1 .. Len(imports) : imports[k].index \in 1 .. Len(dlls)
        BY Zenon DEF SlotsApart
      <4> QED BY <1>2, <1>6, <4>1, <4>2, <4>3
    <3>2. CASE d # 0
      <4>1. d \in 1 .. Len(dlls)
        BY <1>3, <3>2
      <4>2. dlls' = [dlls EXCEPT ![d].count = @ + 1] /\ dllAt = d /\ slot = dlls[d].count
        BY <1>1, <1>11, <3>2 DEF Slot
      <4>3. Len(dlls') = Len(dlls) /\ dlls'[d] = [dlls[d] EXCEPT !.count = @ + 1]
        BY <1>2, <4>1, <4>2
      <4>4. dlls'[d].count = dlls[d].count + 1
        <5>1. dlls[d] \in DllRecord
          BY <1>2, <4>1
        <5> QED BY <4>3, <5>1 DEF DllRecord
      <4>5. \A k \in 1 .. Len(imports) : imports[k].index = d => imports[k].slot < dlls[d].count
        BY DEF SlotsApart
      <4> HIDE DEF dllAt, slot
      <4> QED BY <1>2, <4>1, <4>2, <4>3, <4>4, <4>5
    <3> QED BY <3>1, <3>2
  <2> HIDE DEF dllAt, slot
  <2>3. SlotsApart(dlls', imports') /\ imports' \in Seq(ImportRecord)
    BY <1>2, <1>8, <1>9, <2>1, <2>2, SlotsNew
  <2> QED BY <1>10, <2>3 DEF PlanTyped
<1>12. CASE i # 0
  <2> DEFINE r == [imports[i] EXCEPT !.thunk = @ \/ ~via, !.iatsym = @ \/ via]
  <2>1. i \in 1 .. Len(imports) /\ imports[i] \in ImportRecord
    BY <1>2, <1>4, <1>12
  <2>2. imports' = [imports EXCEPT ![i] = r]
    BY <1>1, <1>2, <1>12, <2>1
  <2>3. r \in ImportRecord /\ r.index = imports[i].index /\ r.slot = imports[i].slot
    BY <2>1 DEF ImportRecord
  <2> HIDE DEF r
  <2>4. /\ imports' \in Seq(ImportRecord) /\ Len(imports') = Len(imports)
        /\ \A k \in 1 .. Len(imports) : imports'[k] = IF k = i THEN r ELSE imports[k]
    BY <1>2, <2>1, <2>2, <2>3
  <2>5. \A k \in 1 .. Len(imports) :
          imports'[k].index = imports[k].index /\ imports'[k].slot = imports[k].slot
    BY <2>3, <2>4, Zenon
  <2>6. SlotsApart(dlls', imports')
    BY <1>2, <1>9, <2>4, <2>5, SlotsKept
  <2> QED BY <1>10, <2>4, <2>6 DEF PlanTyped
<1> QED BY <1>11, <1>12

-----------------------------------------------------------------------------
\* What pe_emit_import_storage decides: where the hint and the thunk of an import
\* are, and what becomes of a name that an import supplies.
HintOf(m, i) == Aligned(HintsAfter(m)[i - 1], 2).size
ThunkOf(m, i) == Aligned(ThunksAfter(m)[i - 1], 16).size
Supplied(g) == ~g.defined /\ ImportOf(g.name) # 0
SuppliedAt(g, i) ==
  IF IsImp(g.name) THEN IatOf(merged["rdata"], imports[i].index) + imports[i].slot * 8
  ELSE ThunkOf(merged["text"], i)
BoundTo(g) ==
  [g EXCEPT !.defined = TRUE, !.kind = IF IsImp(g.name) THEN "rdata" ELSE "text",
            !.offset = SuppliedAt(g, ImportOf(g.name))]

LEMMA StoreImportsIs ==
  ASSUME StoreImports, imports # <<>>
  PROVE  /\ merged' = [merged EXCEPT !["rdata"] = IatAfter(merged["rdata"])[Len(dlls)],
                                     !["text"] = ThunksAfter(merged["text"])[Len(imports)]]
         /\ dlls' = [d \in 1 .. Len(dlls) |->
                       [dlls[d] EXCEPT !.ilt = IltOf(merged["rdata"], d),
                                       !.iat = IatOf(merged["rdata"], d)]]
         /\ imports' = [i \in 1 .. Len(imports) |->
                          [imports[i] EXCEPT !.hint = HintOf(merged["rdata"], i),
                                             !.thunkAt = ThunkOf(merged["text"], i)]]
         /\ globals' = [g \in 1 .. Len(globals) |->
                          IF Supplied(globals[g]) THEN BoundTo(globals[g]) ELSE globals[g]]
BY Zenon DEF StoreImports, IltOf, IatOf, HintOf, ThunkOf, Supplied, SuppliedAt, BoundTo

\* The import that supplies a name is the last that fits it.
Supplies(i, name) ==
  /\ imports[i].name = Canonical(name)
  /\ IF IsImp(name) THEN imports[i].iatsym ELSE imports[i].thunk
LEMMA ImportOfFound ==
  ASSUME PlanTyped, NEW name
  PROVE  \/ ImportOf(name) = 0 /\ \A i \in 1 .. Len(imports) : ~Supplies(i, name)
         \/ /\ ImportOf(name) \in 1 .. Len(imports) /\ ImportOf(name) # 0
            /\ Supplies(ImportOf(name), name)
<1> DEFINE found == {i \in 1 .. Len(imports) : Supplies(i, name)}
<1>1. ImportOf(name) = IF found = {} THEN 0 ELSE Greatest(found)
  BY Zenon DEF ImportOf, Supplies
<1>2. CASE found = {}
  BY <1>1, <1>2
<1>3. CASE found # {}
  <2>1. Len(imports) \in Nat /\ \A x \in found : x \in Nat /\ x <= Len(imports)
    BY TableBytesNat
  <2>2. Greatest(found) \in found
    <3> HIDE DEF found
    <3> QED BY <1>3, <2>1, GreatestIn
  <2> QED BY <1>1, <1>3, <2>2
<1> QED BY <1>2, <1>3

LEMMA TextAndRdata ==
  ASSUME MergeInv
  PROVE  Base(merged["rdata"]) /\ Base(merged["text"])
<1> SUFFICES ASSUME NEW k \in {"rdata", "text"} PROVE Base(merged[k])
  OBVIOUS
<1> DEFINE m == merged[k]
<1>1. SectionSound(m) /\ DataOnly(m)
  BY DEF MergeInv, MergedKinds
<1>2. m \in Merged /\ m.size \in Nat
  BY <1>1 DEF SectionSound, Merged
<1> HIDE DEF m
<1>3. m.size <= m.size
  BY <1>2
<1>4. Base(m)
  BY <1>1, <1>2, <1>3 DEF Base, Grows
<1> QED BY <1>4 DEF m

\* Where things are put is a number.
LEMMA StorageNat ==
  ASSUME MergeInv, PlanTyped, SlotsApart(dlls, imports)
  PROVE  /\ \A d \in 1 .. Len(dlls) :
              IltOf(merged["rdata"], d) \in Nat /\ IatOf(merged["rdata"], d) \in Nat
         /\ \A i \in 1 .. Len(imports) :
              /\ HintOf(merged["rdata"], i) \in Nat /\ ThunkOf(merged["text"], i) \in Nat
              /\ IatOf(merged["rdata"], imports[i].index) + imports[i].slot * 8 \in Nat
<1> DEFINE r == merged["rdata"]
           t == merged["text"]
<1>1. Base(r) /\ Base(t)
  BY TextAndRdata
<1> HIDE DEF r, t
<1>2. r.size \in Nat /\ t.size \in Nat
  BY <1>1 DEF Base
<1>3. \A d \in 1 .. Len(dlls) : IltOf(r, d) \in Nat /\ IatOf(r, d) \in Nat
  BY <1>1, TablesApart
<1>4. ASSUME NEW i \in 1 .. Len(imports) PROVE HintOf(r, i) \in Nat /\ ThunkOf(t, i) \in Nat
  <2>1. i - 1 \in 0 .. Len(imports)
    BY TableBytesNat
  <2>2. HintsAfter(r)[i - 1] \in Grows(r) /\ ThunksAfter(t)[i - 1] \in Grows(t)
    BY <1>1, <2>1, HintsChain, ThunksChain
  <2> QED BY <1>2, <2>2, AlignedGrows DEF HintOf, ThunkOf
<1>5. ASSUME NEW i \in 1 .. Len(imports) PROVE IatOf(r, imports[i].index) + imports[i].slot * 8 \in Nat
  <2>1. imports[i].index \in 1 .. Len(dlls) /\ imports[i].slot \in Nat
    BY TableBytesNat DEF SlotsApart
  <2>2. IatOf(r, imports[i].index) \in Nat
    BY <1>3, <2>1
  <2> QED BY <2>1, <2>2
<1> QED BY <1>3, <1>4, <1>5 DEF r, t

\* pe_emit_import_storage keeps the types.
LEMMA StoreTypes ==
  ASSUME PeTypes, StoreImports
  PROVE  MergeInv' /\ PlanTyped' /\ SlotsApart(dlls, imports)' /\ globals' \in Seq(GlobalRecord)
<1>0. /\ MergeInv /\ PlanTyped /\ SlotsApart(dlls, imports) /\ globals \in Seq(GlobalRecord)
      /\ dlls \in Seq(DllRecord) /\ imports \in Seq(ImportRecord)
  BY DEF PeTypes, PlanTyped
<1>1. UNCHANGED <<objects, at>>
  BY DEF StoreImports, LinkKept
<1>2. CASE imports = <<>>
  <2>1. UNCHANGED <<merged, globals, dlls, imports>>
    BY <1>2 DEF StoreImports
  <2> QED BY <1>0, <1>1, <2>1, Zenon DEF MergeInv, PlanTyped, SlotsApart
<1>3. CASE imports # <<>>
  <2> DEFINE r == merged["rdata"]
             t == merged["text"]
             R == IatAfter(r)[Len(dlls)]
             T == ThunksAfter(t)[Len(imports)]
  <2>1. Base(r) /\ Base(t) /\ Len(dlls) \in Nat /\ Len(imports) \in Nat /\ Len(globals) \in Nat
    BY <1>0, TextAndRdata, TableBytesNat
  <2>2. R \in Grows(r) /\ T \in Grows(t)
    <3> HIDE DEF r, t
    <3>1. Len(dlls) \in 0 .. Len(dlls) /\ Len(imports) \in 0 .. Len(imports)
      BY <2>1
    <3> QED BY <1>0, <2>1, <3>1, IatChain, ThunksChain
  <2>3. SectionSound(R) /\ DataOnly(R) /\ SectionSound(T) /\ DataOnly(T)
    <3> HIDE DEF R, T, r, t
    <3> QED BY <2>2 DEF Grows
  <2>4. merged' = [merged EXCEPT !["rdata"] = R, !["text"] = T]
    BY <1>3, StoreImportsIs
  <2>5. MergeInv'
    <3> HIDE DEF R, T, r, t
    <3>1. /\ DOMAIN merged' = MergedKinds
          /\ \A k \in MergedKinds : merged'[k] = IF k = "text" THEN T ELSE IF k = "rdata" THEN R ELSE merged[k]
      BY <1>0, <2>4 DEF MergeInv
    <3> QED BY <1>0, <1>1, <2>3, <3>1, Zenon DEF MergeInv
  <2>6. /\ \A d \in 1 .. Len(dlls) : IltOf(r, d) \in Nat /\ IatOf(r, d) \in Nat
        /\ \A i \in 1 .. Len(imports) :
             HintOf(r, i) \in Nat /\ ThunkOf(t, i) \in Nat
             /\ IatOf(r, imports[i].index) + imports[i].slot * 8 \in Nat
    BY <1>0, StorageNat
  <2>7. /\ dlls' = [d \in 1 .. Len(dlls) |->
                      [dlls[d] EXCEPT !.ilt = IltOf(r, d), !.iat = IatOf(r, d)]]
        /\ imports' = [i \in 1 .. Len(imports) |->
                         [imports[i] EXCEPT !.hint = HintOf(r, i), !.thunkAt = ThunkOf(t, i)]]
        /\ globals' = [g \in 1 .. Len(globals) |->
                         IF Supplied(globals[g]) THEN BoundTo(globals[g]) ELSE globals[g]]
    BY <1>3, StoreImportsIs
  <2> HIDE DEF r, t
  <2>8. /\ \A d \in 1 .. Len(dlls) : dlls'[d] \in DllRecord /\ dlls'[d].count = dlls[d].count
        /\ Len(dlls') = Len(dlls) /\ dlls' \in Seq(DllRecord)
    <3>1. ASSUME NEW d \in 1 .. Len(dlls)
          PROVE  dlls'[d] \in DllRecord /\ dlls'[d].count = dlls[d].count
      <4>1. dlls[d] \in DllRecord /\ IltOf(r, d) \in Nat /\ IatOf(r, d) \in Nat
        BY <1>0, <2>6
      <4>2. dlls'[d] = [dlls[d] EXCEPT !.ilt = IltOf(r, d), !.iat = IatOf(r, d)]
        BY <2>7
      <4> QED BY <4>1, <4>2 DEF DllRecord
    <3>2. DOMAIN dlls' = 1 .. Len(dlls)
      BY <2>7
    <3>3. dlls' \in [1 .. Len(dlls) -> DllRecord]
      BY <2>7, <3>1, <3>2
    <3> QED BY <2>1, <3>1, <3>3
  <2>9. /\ \A i \in 1 .. Len(imports) : /\ imports'[i] \in ImportRecord
                                        /\ imports'[i].index = imports[i].index
                                        /\ imports'[i].slot = imports[i].slot
        /\ Len(imports') = Len(imports) /\ imports' \in Seq(ImportRecord)
    <3>1. ASSUME NEW i \in 1 .. Len(imports)
          PROVE  /\ imports'[i] \in ImportRecord
                 /\ imports'[i].index = imports[i].index /\ imports'[i].slot = imports[i].slot
      <4>1. imports[i] \in ImportRecord /\ HintOf(r, i) \in Nat /\ ThunkOf(t, i) \in Nat
        BY <1>0, <2>6
      <4>2. imports'[i] = [imports[i] EXCEPT !.hint = HintOf(r, i), !.thunkAt = ThunkOf(t, i)]
        BY <2>7
      <4> QED BY <4>1, <4>2 DEF ImportRecord
    <3>2. DOMAIN imports' = 1 .. Len(imports)
      BY <2>7
    <3>3. imports' \in [1 .. Len(imports) -> ImportRecord]
      BY <2>7, <3>1, <3>2
    <3> QED BY <2>1, <3>1, <3>3
  <2>10. GrownPlan(dlls, dlls')
    <3>1. \A d \in 1 .. Len(dlls) : dlls[d].count \in Nat
      BY <1>0, TableBytesNat
    <3> QED BY <1>0, <2>1, <2>8, <3>1 DEF GrownPlan
  <2>11. SlotsApart(dlls', imports')
    BY <1>0, <2>9, <2>10, SlotsKept
  <2>12. globals' \in Seq(GlobalRecord)
    <3>1. ASSUME NEW g \in 1 .. Len(globals) PROVE globals'[g] \in GlobalRecord
      <4> DEFINE e == globals[g]
      <4>1. e \in GlobalRecord /\ globals'[g] = IF Supplied(e) THEN BoundTo(e) ELSE e
        <5>1. e \in GlobalRecord
          BY <1>0
        <5>2. globals'[g] = IF Supplied(e) THEN BoundTo(e) ELSE e
          BY <2>7, Zenon
        <5> QED BY <5>1, <5>2
      <4>2. ASSUME Supplied(e) PROVE SuppliedAt(e, ImportOf(e.name)) \in Nat
        <5> DEFINE i == ImportOf(e.name)
        <5>1. i \in 1 .. Len(imports)
          BY <1>0, <4>2, ImportOfFound DEF Supplied
        <5> HIDE DEF i, e
        <5>2. ThunkOf(t, i) \in Nat /\ IatOf(r, imports[i].index) + imports[i].slot * 8 \in Nat
          BY <2>6, <5>1
        <5> QED BY <5>2 DEF SuppliedAt, i, r, t
      <4>3. "rdata" \in MergedKinds /\ "text" \in MergedKinds
        BY DEF MergedKinds
      <4> HIDE DEF e
      <4>4. Supplied(e) => BoundTo(e) \in GlobalRecord
        BY <4>1, <4>2, <4>3 DEF BoundTo, GlobalRecord
      <4> QED BY <4>1, <4>4
    <3>2. DOMAIN globals' = 1 .. Len(globals)
      BY <2>7
    <3>3. globals' \in [1 .. Len(globals) -> GlobalRecord]
      BY <2>7, <3>1, <3>2
    <3> QED BY <2>1, <3>3
  <2> QED BY <2>5, <2>8, <2>9, <2>11, <2>12 DEF PlanTyped
<1> QED BY <1>2, <1>3

-----------------------------------------------------------------------------
\* The names DLL `dll' is asked for, and what it then offers.
Wanted(dll, i) ==
  /\ ~globals[i].defined
  /\ OfferedBy(libs, Canonical(globals[i].name)) = {}
  /\ Exports(dll, globals[i].name)
Probe(dll, i) ==
  [name |-> Canonical(globals[i].name), dll |-> dll.name, code |-> TRUE, ordinal |-> FALSE]
Has(lib, name) == \E j \in 1 .. Len(lib) : lib[j].name = name

LEMMA OffersAre == ASSUME NEW lib, NEW name PROVE LibraryOffers(lib, name) # {} <=> Has(lib, name)
BY DEF LibraryOffers, Has

\* The library after the first n names of the table.
Probing(dll, n, lib) ==
  /\ lib \in Seq(OfferRecord)
  /\ \A j \in 1 .. Len(lib) : \E i \in 1 .. Len(globals) : Wanted(dll, i) /\ lib[j] = Probe(dll, i)
  /\ \A i \in 1 .. n : Wanted(dll, i) => Has(lib, Canonical(globals[i].name))

\* One more name of the table.
Probed(dll, n, lib) ==
  IF Wanted(dll, n) /\ LibraryOffers(lib, Canonical(globals[n].name)) = {}
  THEN Append(lib, Probe(dll, n)) ELSE lib

LEMMA ProbeTyped ==
  ASSUME globals \in Seq(GlobalRecord), NEW dll, dll.name \in STRING,
         NEW n \in 1 .. Len(globals)
  PROVE  Probe(dll, n) \in OfferRecord /\ Probe(dll, n).name = Canonical(globals[n].name)
<1>1. globals[n].name \in STRING
  <2>1. globals[n] \in GlobalRecord
    OBVIOUS
  <2> QED BY <2>1 DEF GlobalRecord
<1>2. Canonical(globals[n].name) \in STRING
  BY <1>1, CanonicalString
<1> QED BY <1>2 DEF Probe, OfferRecord

LEMMA ProbeStep ==
  ASSUME globals \in Seq(GlobalRecord), NEW dll, dll.name \in STRING,
         NEW n \in 1 .. Len(globals), NEW lib, Probing(dll, n - 1, lib)
  PROVE  Probing(dll, n, Probed(dll, n, lib))
<1> DEFINE new == Probed(dll, n, lib)
           name(i) == Canonical(globals[i].name)
           p == Probe(dll, n)
<1>0. /\ lib \in Seq(OfferRecord) /\ Len(lib) \in Nat /\ Len(globals) \in Nat
      /\ \A j \in 1 .. Len(lib) : \E i \in 1 .. Len(globals) : Wanted(dll, i) /\ lib[j] = Probe(dll, i)
      /\ \A i \in 1 .. n - 1 : Wanted(dll, i) => Has(lib, name(i))
  BY DEF Probing
<1>1. \A i \in 1 .. n : i = n \/ i \in 1 .. n - 1
  BY <1>0
<1>2. p \in OfferRecord /\ p.name = name(n)
  BY ProbeTyped
<1> HIDE DEF name, p
<1>3. CASE Wanted(dll, n) /\ LibraryOffers(lib, name(n)) = {}
  <2>1. new = Append(lib, p)
    BY <1>3, Zenon DEF Probed, name, p
  <2> HIDE DEF new
  <2>2. /\ new \in Seq(OfferRecord) /\ Len(new) = Len(lib) + 1 /\ new[Len(lib) + 1] = p
        /\ \A j \in 1 .. Len(lib) : new[j] = lib[j]
    BY <1>0, <1>2, <2>1
  <2>3. \A j \in 1 .. Len(new) : j = Len(lib) + 1 \/ j \in 1 .. Len(lib)
    BY <1>0, <2>2
  <2>4. /\ Len(lib) + 1 \in 1 .. Len(new) /\ \A j \in 1 .. Len(lib) : j \in 1 .. Len(new)
    BY <1>0, <2>2
  <2>5. \A j \in 1 .. Len(new) : \E i \in 1 .. Len(globals) : Wanted(dll, i) /\ new[j] = Probe(dll, i)
    BY <1>0, <1>3, <2>2, <2>3, Zenon DEF p
  <2>6. \A x : Has(lib, x) => Has(new, x)
    BY <2>2, <2>4, Zenon DEF Has
  <2>7. Has(new, name(n))
    BY <1>2, <2>2, <2>4, Zenon DEF Has
  <2>8. \A i \in 1 .. n : Wanted(dll, i) => Has(new, name(i))
    BY <1>0, <1>1, <2>6, <2>7, Zenon
  <2> QED BY <2>2, <2>5, <2>8, Zenon DEF Probing, name, new
<1>4. CASE ~(Wanted(dll, n) /\ LibraryOffers(lib, name(n)) = {})
  <2>1. new = lib
    BY <1>4, Zenon DEF Probed, name
  <2>2. Wanted(dll, n) => Has(lib, name(n))
    BY <1>4, OffersAre
  <2> HIDE DEF new
  <2>3. \A i \in 1 .. n : Wanted(dll, i) => Has(new, name(i))
    BY <1>0, <1>1, <2>1, <2>2, Zenon
  <2> QED BY <1>0, <2>1, <2>3, Zenon DEF Probing, name, new
<1> QED BY <1>3, <1>4

\* pe_append_imports_from_dlls: what the synthetic library of a DLL holds.
LEMMA ProbedLibrarySays ==
  ASSUME globals \in Seq(GlobalRecord), NEW dll, dll.name \in STRING
  PROVE  Probing(dll, Len(globals), ProbedLibrary(dll))
<1> DEFINE N == Len(globals)
           S == Seq(OfferRecord)
           x == <<>>
           After(n, g) == Probed(dll, n, g)
<1>0. N \in Nat
  OBVIOUS
<1>1. x \in S
  OBVIOUS
<1>2. ASSUME NEW n \in 1 .. N, NEW g \in S PROVE After(n, g) \in S
  <2>1. Probe(dll, n) \in OfferRecord
    BY ProbeTyped
  <2>2. Append(g, Probe(dll, n)) \in S
    BY <2>1
  <2> QED BY <2>2 DEF Probed
<1> HIDE DEF N, S, x
<1> DEFINE step == [n \in 1 .. N |-> [g \in S |-> After(n, g)]]
           R(f) == [n \in 0 .. N |-> IF n = 0 THEN x ELSE After(n, f[n - 1])]
<1> HIDE DEF After
<1>3. step \in [1 .. N -> [S -> S]]
  BY <1>2
<1>4. PICK f : IsChain(f, N, S, x, step)
  <2> HIDE DEF step
  <2> QED BY <1>0, <1>1, <1>3, ChainExists
<1>5. f \in [0 .. N -> S] /\ f[0] = x /\ \A n \in 1 .. N : f[n] = step[n][f[n - 1]]
  BY <1>4, Zenon DEF IsChain
<1>6. f = R(f)
  <2>1. \A n \in 1 .. N : f[n - 1] \in S
    BY <1>0, <1>5
  <2>2. \A n \in 1 .. N : \A g \in S : step[n][g] = After(n, g)
    OBVIOUS
  <2> HIDE DEF step
  <2>3. \A n \in 1 .. N : f[n] = After(n, f[n - 1])
    BY <1>5, <2>1, <2>2, Zenon
  <2> QED BY <1>0, <1>5, <2>3
<1> DEFINE F == CHOOSE h : h = R(h)
<1>7. ProbedLibrary(dll) = F[N]
  BY Zenon DEF ProbedLibrary, N, x, After, Probed, Wanted, Probe
<1> HIDE DEF R
<1>8. F = R(F)
  BY <1>6, Zenon
<1> HIDE DEF F
<1>9. F[0] = x /\ \A n \in 1 .. N : F[n] = After(n, F[n - 1])
  BY <1>0, <1>8 DEF R
<1> DEFINE G == {n \in 0 .. N : Probing(dll, n, F[n])}
           id == [n \in 0 .. N |-> n]
<1>10. 0 \in G
  <2>1. Probing(dll, 0, x)
    BY DEF Probing, x
  <2> QED BY <1>0, <1>9, <2>1
<1>11. ASSUME NEW n \in 1 .. N, n - 1 \in G PROVE n \in G
  <2>1. Probing(dll, n, Probed(dll, n, F[n - 1]))
    BY <1>11, ProbeStep DEF N
  <2>2. F[n] = Probed(dll, n, F[n - 1])
    BY <1>9 DEF After
  <2> QED BY <2>1, <2>2
<1> HIDE DEF G
<1>12. \A n \in 0 .. N : id[n] \in G
  <2>1. id[0] \in G /\ \A n \in 1 .. N : id[n - 1] \in G => id[n] \in G
    BY <1>0, <1>10, <1>11
  <2> HIDE DEF id
  <2> QED BY <1>0, <2>1, ChainHolds
<1>13. N \in G
  BY <1>0, <1>12
<1> QED BY <1>7, <1>13 DEF G, N

-----------------------------------------------------------------------------
\* As long as link_resolution_build is at work its own invariant holds.
Linking == Phases \ {"failed"}
InLink == phase \in Linking => OutcomeInv

LEMMA LinkSteps == LinkNext => phase \in {"load", "merge", "symbols", "addresses", "validate"}
BY DEF LinkNext, LoadObject, EndLoad, MergeSection, MergeNextObject, EndMerge, BuildSymbol,
       SymbolsNextObject, EndSymbols, AssignVirtualAddresses, ValidateExternals

\* The phases of pe_emit_executable, and what no step of it changes.
LEMMA PeSteps ==
  PeNext => /\ phase \in {"resolved"} \cup (PePhases \ {"linked"})
            /\ phase' \in PePhases \cup {"failed"}
            /\ UNCHANGED <<objects, place, syms>>
<1> SUFFICES ASSUME PeNext
             PROVE  /\ phase \in {"resolved"} \cup (PePhases \ {"linked"})
                    /\ phase' \in PePhases \cup {"failed"}
                    /\ UNCHANGED <<objects, place, syms>>
  OBVIOUS
<1> USE DEF PePhases, LinkKept, Fail
<1>1. CASE CheckOptions
  BY <1>1 DEF CheckOptions
<1>2. CASE LoadLibrary
  BY <1>2 DEF LoadLibrary
<1>3. CASE EndLibraries \/ ProbeDll \/ EndDlls
  BY <1>3 DEF EndLibraries, ProbeDll, EndDlls
<1>4. CASE PlanImport \/ EndPlan
  <2>1. UNCHANGED <<objects, place, syms>> /\ phase = "plan" /\ phase' \in {"plan", "failed", "storage"}
    BY <1>4, Zenon DEF PlanImport, EndPlan
  <2> QED BY <2>1
<1>5. CASE StoreImports
  <2>1. UNCHANGED <<objects, place, syms>> /\ phase = "storage" /\ phase' = "unresolved"
    BY <1>5, Zenon DEF StoreImports
  <2> QED BY <2>1
<1>6. CASE ValidateUnresolved \/ LayoutSections \/ ApplyLayout
  <2>1. /\ UNCHANGED <<objects, place, syms>> /\ phase \in {"unresolved", "layout", "apply"}
        /\ phase' \in {"layout", "failed", "apply", "finalize"}
    BY <1>6 DEF ValidateUnresolved, LayoutSections, ApplyLayout
  <2> QED BY <2>1
<1>7. CASE FinalizeImports
  <2>1. UNCHANGED <<objects, place, syms>> /\ phase = "finalize" /\ phase' \in {"relocate", "failed"}
    BY <1>7, Zenon DEF FinalizeImports
  <2> QED BY <2>1
<1>8. CASE RelocateSection \/ RelocateNextObject \/ EndRelocate
  <2>1. UNCHANGED <<objects, place, syms>> /\ phase = "relocate" /\ phase' \in {"relocate", "failed", "write"}
    BY <1>8, Zenon DEF RelocateSection, RelocateNextObject, EndRelocate
  <2> QED BY <2>1
<1>9. CASE WriteImage
  BY <1>9 DEF WriteImage
<1> QED BY <1>1, <1>2, <1>3, <1>4, <1>5, <1>6, <1>7, <1>8, <1>9 DEF PeNext

LEMMA InLinkInit == Init => InLink
BY OutcomeInit DEF Init, InLink

LEMMA InLinkStep == InLink /\ [Next]_vars => InLink'
<1> SUFFICES ASSUME InLink, [Next]_vars PROVE InLink'
  OBVIOUS
<1>1. CASE LinkNext \/ UNCHANGED vars
  <2>1. [LinkNext]_linkvars
    BY <1>1 DEF vars
  <2>2. CASE phase \in Linking
    BY <2>1, <2>2, OutcomeStep DEF InLink
  <2>3. CASE phase \notin Linking
    <3>1. UNCHANGED vars
      BY <1>1, <2>3, LinkSteps DEF Linking, Phases
    <3>2. phase' = phase
      BY <3>1 DEF vars, linkvars
    <3> QED BY <2>3, <3>2 DEF InLink
  <2> QED BY <2>2, <2>3
<1>2. CASE PeNext
  <2>1. phase' \notin Linking
    BY <1>2, PeSteps DEF PePhases, Linking, Phases
  <2> QED BY <2>1 DEF InLink
<1> QED BY <1>1, <1>2 DEF Next

\* Elements of sequences, stated so that the set stays abstract.
LEMMA SeqElement == ASSUME NEW S, NEW s \in Seq(S), NEW i \in 1 .. Len(s) PROVE s[i] \in S
OBVIOUS

LEMMA SeqAppend == ASSUME NEW S, NEW s \in Seq(S), NEW e \in S PROVE Append(s, e) \in Seq(S)
OBVIOUS

\* Loading and probing libraries keeps their types.
LEMMA LibrariesTyped ==
  ASSUME PeTypes, LoadLibrary \/ ProbeDll
  PROVE  libs' \in Seq(Seq(OfferRecord)) /\ phase' \in {"libraries", "dlls", "failed"}
         /\ at' \in (Nat \ {0}) \X (Nat \ {0})
         /\ UNCHANGED <<objects, merged, globals, dlls, imports>>
<1>1. /\ libs \in Seq(Seq(OfferRecord)) /\ globals \in Seq(GlobalRecord)
      /\ at[1] \in Nat \ {0} /\ Libraries \in Seq(Seq(OfferRecord)) /\ Len(Libraries) \in Nat
  BY LibrariesAssumption DEF PeTypes, MergeInv
<1>2. <<at[1] + 1, 1>> \in (Nat \ {0}) \X (Nat \ {0})
  BY <1>1
<1>3. CASE LoadLibrary
  <2>1. phase = "libraries" /\ at' = <<at[1] + 1, 1>> /\ at[1] \in 1 .. Len(Libraries)
    BY <1>1, <1>3 DEF LoadLibrary
  <2>2. Libraries[at[1]] \in Seq(OfferRecord)
    BY <1>1, <2>1
  <2>3. libs' = libs \/ libs' = Append(libs, Libraries[at[1]])
    BY <1>3 DEF LoadLibrary
  <2>4. libs' \in Seq(Seq(OfferRecord))
    <3>1. Append(libs, Libraries[at[1]]) \in Seq(Seq(OfferRecord))
      BY <1>1, <2>2, SeqAppend, Zenon
    <3> QED BY <1>1, <2>3, <3>1, Zenon
  <2>5. phase' = phase \/ phase' = "failed"
    BY <1>3, Zenon DEF LoadLibrary, Fail
  <2>6. UNCHANGED <<objects, merged, globals, dlls, imports>>
    BY <1>3, Zenon DEF LoadLibrary, LinkKept
  <2>7. phase' \in {"libraries", "dlls", "failed"}
    BY <2>1, <2>5
  <2> QED BY <1>2, <2>1, <2>4, <2>6, <2>7, Zenon
<1>4. CASE ProbeDll
  <2> DEFINE dll == Dlls[at[1]]
             P == ProbedLibrary(dll)
  <2>1. /\ phase = "dlls" /\ phase' = phase /\ at' = <<at[1] + 1, 1>> /\ at[1] <= Len(Dlls)
        /\ (libs' = libs \/ libs' = Append(libs, P))
        /\ UNCHANGED <<objects, merged, globals, dlls, imports>>
    BY <1>4, Zenon DEF ProbeDll, LinkKept
  <2>2. dll.name \in STRING
    <3>1. Len(Dlls) \in Nat /\ at[1] \in 1 .. Len(Dlls)
      BY <1>1, <2>1, DllsAssumption
    <3>2. dll \in [name : STRING, loads : BOOLEAN, exports : SUBSET STRING]
      BY <3>1, DllsAssumption, SeqElement, Zenon
    <3> QED BY <3>2
  <2>3. P \in Seq(OfferRecord)
    <3> HIDE DEF dll
    <3> QED BY <1>1, <2>2, ProbedLibrarySays DEF Probing
  <2> HIDE DEF P
  <2>4. libs' \in Seq(Seq(OfferRecord))
    <3>1. Append(libs, P) \in Seq(Seq(OfferRecord))
      BY <1>1, <2>3, SeqAppend, Zenon
    <3> QED BY <1>1, <2>1, <3>1, Zenon
  <2>5. phase' \in {"libraries", "dlls", "failed"}
    BY <2>1
  <2> QED BY <1>2, <2>1, <2>4, <2>5, Zenon
<1> QED BY <1>3, <1>4

\* pe_build_import_plan keeps the types.
LEMMA PlanTypes ==
  ASSUME PeTypes, PlanImport
  PROVE  /\ PlanTyped' /\ SlotsApart(dlls, imports)' /\ phase' \in {"plan", "failed"}
         /\ at' \in (Nat \ {0}) \X (Nat \ {0}) /\ UNCHANGED <<objects, merged, globals, libs>>
<1> DEFINE g == globals[at[1]]
           name == Canonical(g.name)
           offer == FindImport(libs, name)
<1>1. /\ PlanTyped /\ SlotsApart(dlls, imports)
      /\ libs \in Seq(Seq(OfferRecord)) /\ globals \in Seq(GlobalRecord) /\ at[1] \in Nat \ {0}
  BY DEF PeTypes, MergeInv
<1>2. /\ phase = "plan" /\ at[1] <= Len(globals) /\ at' = <<at[1] + 1, 1>>
      /\ UNCHANGED <<objects, merged, globals, libs>>
      /\ \/ UNCHANGED <<phase, dlls, imports>>
         \/ phase' = "failed" /\ UNCHANGED <<dlls, imports>>
         \/ /\ OfferedBy(libs, name) # {} /\ Bind(offer, name, IsImp(g.name)) /\ phase' = phase
  BY Zenon DEF PlanImport, LinkKept, Fail
<1>3. at' \in (Nat \ {0}) \X (Nat \ {0})
  BY <1>1, <1>2
<1>4. ASSUME UNCHANGED <<dlls, imports>> PROVE PlanTyped' /\ SlotsApart(dlls, imports)'
  <2>1. dlls' = dlls /\ imports' = imports
    BY <1>4
  <2> QED BY <1>1, <2>1 DEF PlanTyped, SlotsApart
<1>5. ASSUME OfferedBy(libs, name) # {}, Bind(offer, name, IsImp(g.name))
      PROVE  PlanTyped' /\ SlotsApart(dlls, imports)'
  <2>1. g.name \in STRING
    <3>1. g \in GlobalRecord
      BY <1>1, <1>2
    <3> QED BY <3>1 DEF GlobalRecord
  <2>2. name \in STRING
    BY <2>1, CanonicalString
  <2>3. offer \in OfferRecord
    BY <1>1, <1>5, FoundImport
  <2>4. IsImp(g.name) \in BOOLEAN
    BY DEF IsImp
  <2> DEFINE via == IsImp(g.name)
  <2>5. via \in BOOLEAN /\ Bind(offer, name, via)
    BY <1>5, <2>4
  <2> HIDE DEF offer, name, g, via
  <2> QED BY <1>1, <2>2, <2>3, <2>5, BindTypes, Zenon
<1>6. PlanTyped' /\ SlotsApart(dlls, imports)'
  BY <1>2, <1>4, <1>5
<1>7. phase' \in {"plan", "failed"}
  BY <1>2
<1> QED BY <1>2, <1>3, <1>6, <1>7

\* The steps that only move on: they change neither sections, names nor plan.
Quiet ==
  \/ CheckOptions \/ EndLibraries \/ EndDlls \/ EndPlan \/ ValidateUnresolved \/ LayoutSections
  \/ ApplyLayout \/ FinalizeImports \/ RelocateSection \/ RelocateNextObject \/ EndRelocate
  \/ WriteImage

LEMMA QuietKeeps ==
  ASSUME Quiet
  PROVE  UNCHANGED <<objects, merged, globals, libs, dlls, imports>>
<1> USE DEF LinkKept, pevars
<1>1. CASE CheckOptions \/ EndLibraries \/ EndDlls \/ EndPlan
  BY <1>1 DEF CheckOptions, EndLibraries, EndDlls, EndPlan
<1>2. CASE ValidateUnresolved \/ LayoutSections \/ ApplyLayout \/ WriteImage
  BY <1>2 DEF ValidateUnresolved, LayoutSections, ApplyLayout, WriteImage
<1>3. CASE FinalizeImports
  BY <1>3, Zenon DEF FinalizeImports
<1>4. CASE RelocateSection
  BY <1>4, Zenon DEF RelocateSection
<1>5. CASE RelocateNextObject \/ EndRelocate
  BY <1>5 DEF RelocateNextObject, EndRelocate
<1> QED BY <1>1, <1>2, <1>3, <1>4, <1>5 DEF Quiet

LEMMA QuietCursor ==
  ASSUME Quiet, at \in (Nat \ {0}) \X (Nat \ {0})
  PROVE  at' \in (Nat \ {0}) \X (Nat \ {0})
<1>1. at' = at \/ at' = <<1, 1>> \/ at' = <<at[1], at[2] + 1>> \/ at' = <<at[1] + 1, 1>>
  <2>1. CASE CheckOptions \/ EndLibraries \/ EndDlls \/ EndPlan
    BY <2>1 DEF CheckOptions, EndLibraries, EndDlls, EndPlan
  <2>2. CASE ValidateUnresolved \/ LayoutSections \/ ApplyLayout \/ WriteImage
    BY <2>2 DEF ValidateUnresolved, LayoutSections, ApplyLayout, WriteImage
  <2>3. CASE FinalizeImports
    BY <2>3, Zenon DEF FinalizeImports
  <2>4. CASE RelocateSection
    BY <2>4, Zenon DEF RelocateSection
  <2>5. CASE RelocateNextObject \/ EndRelocate
    BY <2>5 DEF RelocateNextObject, EndRelocate
  <2> QED BY <2>1, <2>2, <2>3, <2>4, <2>5 DEF Quiet
<1> QED BY <1>1

LEMMA PeNextIs == PeNext <=> \/ Quiet \/ LoadLibrary \/ ProbeDll \/ PlanImport \/ StoreImports
BY Zenon DEF PeNext, Quiet

LEMMA PeTypesInit == Init => PeTypes
<1> SUFFICES ASSUME Init PROVE PeTypes
  OBVIOUS
<1>1. LinkInit /\ libs = <<>> /\ dlls = <<>> /\ imports = <<>>
  BY DEF Init
<1>2. MergeInv /\ phase = "load" /\ globals = <<>>
  BY <1>1, MergeInit DEF LinkInit
<1>3. PlanTyped /\ SlotsApart(dlls, imports)
  BY <1>1 DEF PlanTyped, SlotsApart
<1> QED BY <1>1, <1>2, <1>3 DEF PeTypes, Phases

\* Every step of the linker keeps the types.
LEMMA PeTypesStep == PeTypes /\ InLink /\ [Next]_vars => PeTypes'
<1> SUFFICES ASSUME PeTypes, InLink, [Next]_vars PROVE PeTypes'
  OBVIOUS
<1>1. /\ phase \in Phases \cup PePhases /\ MergeInv /\ globals \in Seq(GlobalRecord)
      /\ libs \in Seq(Seq(OfferRecord)) /\ PlanTyped /\ SlotsApart(dlls, imports)
  BY DEF PeTypes
<1>a. ASSUME UNCHANGED <<dlls, imports>> PROVE PlanTyped' /\ SlotsApart(dlls, imports)'
  <2>1. dlls' = dlls /\ imports' = imports
    BY <1>a
  <2> QED BY <1>1, <2>1 DEF PlanTyped, SlotsApart
<1>b. ASSUME UNCHANGED <<objects, merged>>, at' \in (Nat \ {0}) \X (Nat \ {0}) PROVE MergeInv'
  BY <1>1, <1>b DEF MergeInv
<1>2. CASE UNCHANGED vars
  <2>1. UNCHANGED <<phase, objects, at, merged, globals, libs, dlls, imports>>
    BY <1>2 DEF vars, linkvars, pevars
  <2>2. at' \in (Nat \ {0}) \X (Nat \ {0})
    BY <1>1, <2>1 DEF MergeInv
  <2>3. MergeInv' /\ PlanTyped' /\ SlotsApart(dlls, imports)'
    BY <1>a, <1>b, <2>1, <2>2
  <2> QED BY <1>1, <2>1, <2>3 DEF PeTypes
<1>3. CASE LinkNext /\ UNCHANGED pevars
  <2>1. phase \in Linking /\ OutcomeInv /\ [LinkNext]_linkvars
    BY <1>3, LinkSteps DEF InLink, Linking, Phases
  <2>2. OutcomeInv'
    BY <2>1, OutcomeStep
  <2>3. MergeInv' /\ globals' \in Seq(GlobalRecord) /\ phase' \in Phases
    BY <2>2 DEF OutcomeInv, TypeInv
  <2>4. UNCHANGED <<libs, dlls, imports>>
    BY <1>3 DEF pevars
  <2>5. PlanTyped' /\ SlotsApart(dlls, imports)'
    BY <1>a, <2>4
  <2> QED BY <1>1, <2>3, <2>4, <2>5 DEF PeTypes
<1>4. CASE PeNext
  <2>0. phase' \in Phases \cup PePhases
    BY <1>4, PeSteps DEF Phases
  <2>1. CASE Quiet
    <3>1. at' \in (Nat \ {0}) \X (Nat \ {0})
      BY <1>1, <2>1, QuietCursor DEF MergeInv
    <3>2. UNCHANGED <<objects, merged, globals, libs, dlls, imports>>
      BY <2>1, QuietKeeps
    <3>3. MergeInv' /\ PlanTyped' /\ SlotsApart(dlls, imports)'
      BY <1>a, <1>b, <3>1, <3>2
    <3> QED BY <1>1, <2>0, <3>2, <3>3 DEF PeTypes
  <2>2. CASE LoadLibrary \/ ProbeDll
    <3>1. /\ libs' \in Seq(Seq(OfferRecord)) /\ at' \in (Nat \ {0}) \X (Nat \ {0})
          /\ UNCHANGED <<objects, merged, globals, dlls, imports>>
      BY <2>2, LibrariesTyped
    <3>2. MergeInv' /\ PlanTyped' /\ SlotsApart(dlls, imports)'
      BY <1>a, <1>b, <3>1
    <3> QED BY <1>1, <2>0, <3>1, <3>2 DEF PeTypes
  <2>3. CASE PlanImport
    <3>1. /\ PlanTyped' /\ SlotsApart(dlls, imports)' /\ at' \in (Nat \ {0}) \X (Nat \ {0})
          /\ UNCHANGED <<objects, merged, globals, libs>>
      BY <2>3, PlanTypes
    <3>2. MergeInv'
      BY <1>b, <3>1
    <3> QED BY <1>1, <2>0, <3>1, <3>2 DEF PeTypes
  <2>4. CASE StoreImports
    <3>1. MergeInv' /\ PlanTyped' /\ SlotsApart(dlls, imports)' /\ globals' \in Seq(GlobalRecord)
      BY <2>4, StoreTypes
    <3>2. libs' = libs
      BY <2>4, Zenon DEF StoreImports
    <3> QED BY <1>1, <2>0, <3>1, <3>2 DEF PeTypes
  <2> QED BY <1>4, <2>1, <2>2, <2>3, <2>4, PeNextIs
<1> QED BY <1>2, <1>3, <1>4 DEF Next

\* The linker's types, its resolution first.
LEMMA PeTyped == Spec => [](PeTypes /\ InLink)
<1>1. Init => PeTypes /\ InLink
  BY PeTypesInit, InLinkInit
<1>2. PeTypes /\ InLink /\ [Next]_vars => (PeTypes /\ InLink)'
  BY PeTypesStep, InLinkStep
<1> QED BY <1>1, <1>2, PTL DEF Spec

\* No byte of the image's sections is left unwritten or written twice, the import
\* tables and thunks included that pe_emit_import_storage appends
\* (pe_section_align, pe_section_append_zeros).
THEOREM ImageWrittenOnce == Spec => []BytesWrittenOnce
<1>1. PeTypes => BytesWrittenOnce
  BY DEF PeTypes, MergeInv, BytesWrittenOnce, SectionSound, Covers
<1> QED BY <1>1, PeTyped, PTL

-----------------------------------------------------------------------------
\* The sections pe_collect_sections has taken after n kinds.
EmittedAfter[n \in 0 .. Len(KindOrder)] ==
  IF n = 0 THEN <<>>
  ELSE IF merged[KindOrder[n]].vsize # 0 THEN Append(EmittedAfter[n - 1], KindOrder[n])
  ELSE EmittedAfter[n - 1]

LEMMA Kinds ==
  /\ Len(KindOrder) = 6 /\ \A n \in 1 .. 6 : KindOrder[n] \in MergedKinds
  /\ \A k \in MergedKinds : \E n \in 1 .. 6 : KindOrder[n] = k
<1>1. Len(KindOrder) = 6 /\ \A n \in 1 .. 6 : KindOrder[n] \in MergedKinds
  BY DEF KindOrder, MergedKinds
<1>2. ASSUME NEW k \in MergedKinds PROVE \E n \in 1 .. 6 : KindOrder[n] = k
  <2>1. /\ KindOrder[1] = "text" /\ KindOrder[2] = "rdata" /\ KindOrder[3] = "data"
        /\ KindOrder[4] = "bss" /\ KindOrder[5] = "pdata" /\ KindOrder[6] = "xdata"
    BY DEF KindOrder
  <2> QED BY <2>1 DEF MergedKinds
<1> QED BY <1>1, <1>2

\* Collecting them, one kind after the other.
LEMMA EmittedChain ==
  /\ EmittedAfter[0] = <<>>
  /\ \A n \in 1 .. Len(KindOrder) :
       EmittedAfter[n] = IF merged[KindOrder[n]].vsize # 0
                         THEN Append(EmittedAfter[n - 1], KindOrder[n]) ELSE EmittedAfter[n - 1]
  /\ \A n \in 0 .. Len(KindOrder) : EmittedAfter[n] \in Seq(MergedKinds)
<1> DEFINE N == Len(KindOrder)
           S == Seq(MergedKinds)
           After(n, g) == IF merged[KindOrder[n]].vsize # 0 THEN Append(g, KindOrder[n]) ELSE g
           x == <<>>
<1>0. N \in Nat
  BY Kinds
<1>1. x \in S
  OBVIOUS
<1>2. ASSUME NEW n \in 1 .. N, NEW g \in S PROVE After(n, g) \in S
  BY Kinds
<1> HIDE DEF N, S, x
<1> DEFINE step == [n \in 1 .. N |-> [g \in S |-> After(n, g)]]
           R(f) == [n \in 0 .. N |-> IF n = 0 THEN x ELSE After(n, f[n - 1])]
<1> HIDE DEF After
<1>3. step \in [1 .. N -> [S -> S]]
  BY <1>2
<1>4. PICK f : IsChain(f, N, S, x, step)
  <2> HIDE DEF step
  <2> QED BY <1>0, <1>1, <1>3, ChainExists
<1>5. f \in [0 .. N -> S] /\ f[0] = x /\ \A n \in 1 .. N : f[n] = step[n][f[n - 1]]
  BY <1>4, Zenon DEF IsChain
<1>6. f = R(f)
  <2>1. \A n \in 1 .. N : f[n - 1] \in S
    BY <1>0, <1>5
  <2>2. \A n \in 1 .. N : \A g \in S : step[n][g] = After(n, g)
    OBVIOUS
  <2> HIDE DEF step
  <2>3. \A n \in 1 .. N : f[n] = After(n, f[n - 1])
    BY <1>5, <2>1, <2>2, Zenon
  <2> QED BY <1>0, <1>5, <2>3
<1> DEFINE F == EmittedAfter
<1>7. F = CHOOSE h : h = R(h)
  BY Zenon DEF EmittedAfter, N, x, After
<1> HIDE DEF R, F
<1>8. F = R(F)
  BY <1>6, <1>7, Zenon
<1>9. F[0] = x /\ \A n \in 1 .. N : F[n] = After(n, F[n - 1])
  BY <1>0, <1>8 DEF R
<1>10. \A n \in 0 .. N : F[n] \in S
  <2>1. \A n \in 1 .. N : F[n - 1] \in S => F[n] \in S
    BY <1>0, <1>2, <1>9
  <2> QED BY <1>0, <1>1, <1>9, <2>1, ChainHolds
<1> QED BY <1>9, <1>10 DEF F, N, S, x, After

\* An emitted section has bytes or address space, and every one that has is
\* emitted.
LEMMA EmittedAre ==
  /\ Emitted \in Seq(MergedKinds) /\ Len(Emitted) \in Nat
  /\ \A i \in 1 .. Len(Emitted) : Emitted[i] \in MergedKinds
  /\ \A k \in MergedKinds : merged[k].vsize # 0 => \E i \in 1 .. Len(Emitted) : Emitted[i] = k
<1> DEFINE F == EmittedAfter
           Holds(n, e) == \A m \in 1 .. n : merged[KindOrder[m]].vsize # 0
                            => \E i \in 1 .. Len(e) : e[i] = KindOrder[m]
           G == {n \in 0 .. 6 : Holds(n, F[n])}
           id == [n \in 0 .. 6 |-> n]
<1>1. /\ F[0] = <<>> /\ \A n \in 0 .. 6 : F[n] \in Seq(MergedKinds)
      /\ \A n \in 1 .. 6 : F[n] = IF merged[KindOrder[n]].vsize # 0
                                  THEN Append(F[n - 1], KindOrder[n]) ELSE F[n - 1]
  BY EmittedChain, Kinds
<1>2. Emitted = F[6]
  <2>1. Emitted = F[Len(KindOrder)]
    BY Zenon DEF Emitted, EmittedAfter
  <2> QED BY <2>1, Kinds
<1> HIDE DEF F
<1>3. 0 \in G
  OBVIOUS
<1>4. ASSUME NEW n \in 1 .. 6, n - 1 \in G PROVE n \in G
  <2> DEFINE e == F[n - 1]
             k == KindOrder[n]
  <2>1. Holds(n - 1, e) /\ n - 1 \in 0 .. 6 /\ e \in Seq(MergedKinds) /\ k \in MergedKinds
    BY <1>1, <1>4, Kinds
  <2>2. F[n] = IF merged[k].vsize # 0 THEN Append(e, k) ELSE e
    BY <1>1
  <2> HIDE DEF e
  <2>3. CASE merged[k].vsize # 0
    <3> DEFINE g == Append(e, k)
    <3>1. /\ Len(e) \in Nat /\ Len(g) = Len(e) + 1 /\ g[Len(e) + 1] = k
          /\ \A i \in 1 .. Len(e) : g[i] = e[i]
      BY <2>1
    <3>2. F[n] = g
      BY <2>2, <2>3
    <3> HIDE DEF g
    <3>3. Holds(n, g)
      <4> SUFFICES ASSUME NEW m \in 1 .. n, merged[KindOrder[m]].vsize # 0
                   PROVE  \E i \in 1 .. Len(g) : g[i] = KindOrder[m]
        OBVIOUS
      <4>1. CASE m = n
        <5>1. Len(e) + 1 \in 1 .. Len(g)
          BY <3>1
        <5> QED BY <3>1, <4>1, <5>1
      <4>2. CASE m # n
        <5>1. PICK i \in 1 .. Len(e) : e[i] = KindOrder[m]
          BY <2>1, <4>2
        <5>2. i \in 1 .. Len(g)
          BY <3>1
        <5> QED BY <3>1, <5>1, <5>2
      <4> QED BY <4>1, <4>2
    <3> QED BY <3>2, <3>3
  <2>4. CASE merged[k].vsize = 0
    <3>1. F[n] = e
      BY <2>2, <2>4
    <3> QED BY <2>1, <2>4, <3>1
  <2> QED BY <2>3, <2>4
<1>5. \A n \in 0 .. 6 : id[n] \in G
  <2> HIDE DEF G
  <2>1. id[0] \in G /\ \A n \in 1 .. 6 : id[n - 1] \in G => id[n] \in G
    BY <1>3, <1>4
  <2> HIDE DEF id
  <2> QED BY <2>1, ChainHolds
<1>6. Holds(6, F[6])
  <2>1. id[6] = 6
    OBVIOUS
  <2> QED BY <1>5, <2>1
<1>7. Emitted \in Seq(MergedKinds)
  BY <1>1, <1>2
<1>8. ASSUME NEW k \in MergedKinds, merged[k].vsize # 0
      PROVE  \E i \in 1 .. Len(Emitted) : Emitted[i] = k
  <2>1. PICK n \in 1 .. 6 : KindOrder[n] = k
    BY Kinds
  <2> QED BY <1>2, <1>6, <1>8, <2>1
<1> QED BY <1>7, <1>8

-----------------------------------------------------------------------------
\* Where pe_layout_sections has come to after i sections, in memory and in the
\* file, and where it would be with unbounded addresses.
ImageRva[i \in 0 .. Len(Emitted)] ==
  IF i = 0 THEN AlignUp(SizeOfHeaders(Len(Emitted)), PeAlignment)
  ELSE (ImageRva[i - 1] + Advance(Emitted[i])) % Word32
ImageRaw[i \in 0 .. Len(Emitted)] ==
  IF i = 0 THEN SizeOfHeaders(Len(Emitted))
  ELSE (ImageRaw[i - 1] + RawSize(Emitted[i])) % Word32
ImageEnd[n \in 0 .. Len(layout)] ==
  IF n = 0 THEN AlignUp(SizeOfHeaders(Len(layout)), PeAlignment)
  ELSE ImageEnd[n - 1] + AlignUp(layout[n].vsize, PeAlignment)

LEMMA ModNat == ASSUME NEW v \in Nat PROVE v % Word32 \in Nat
BY ImageConstants

LEMMA HeadersNat ==
  ASSUME NEW n \in Nat
  PROVE  SizeOfHeaders(n) \in Nat /\ AlignUp(SizeOfHeaders(n), PeAlignment) \in Nat
<1>1. 128 + 4 + 20 + 240 + n * 40 \in Nat
  OBVIOUS
<1> QED BY <1>1, ImageConstants, AlignUpGrows DEF SizeOfHeaders

\* What a section takes in memory and in the file.
LEMMA SectionSpans ==
  ASSUME MergeInv, NEW k \in MergedKinds
  PROVE  /\ merged[k].size \in Nat /\ merged[k].vsize \in Nat
         /\ Advance(k) \in Nat /\ merged[k].vsize <= Advance(k) /\ Advance(k) % PeAlignment = 0
         /\ RawSize(k) \in Nat
         /\ k # "bss" => merged[k].size <= RawSize(k)
         /\ PeAlignment % FileAlignment = 0 => RawSize(k) <= Advance(k)
<1>1. merged[k].size \in Nat /\ merged[k].vsize \in Nat /\ merged[k].size <= merged[k].vsize
  BY DEF MergeInv, SectionSound, Merged
<1> DEFINE s == merged[k].size
           v == merged[k].vsize
<1> HIDE DEF s, v
<1>2. s \in Nat /\ v \in Nat /\ s <= v
  BY <1>1 DEF s, v
<1>3. AlignUp(v, PeAlignment) \in Nat /\ v <= AlignUp(v, PeAlignment)
      /\ AlignUp(v, PeAlignment) % PeAlignment = 0
  BY <1>2, ImageConstants, AlignUpGrows, AlignUpAligned
<1>4. AlignUp(s, FileAlignment) \in Nat /\ s <= AlignUp(s, FileAlignment)
  BY <1>2, ImageConstants, AlignUpGrows
<1>5. PeAlignment % FileAlignment = 0 => AlignUp(s, FileAlignment) <= AlignUp(v, PeAlignment)
  BY <1>2, RawFits
<1>6. Advance(k) = AlignUp(v, PeAlignment)
      /\ RawSize(k) = IF k = "bss" THEN 0 ELSE AlignUp(s, FileAlignment)
  BY DEF Advance, RawSize, s, v
<1> QED BY <1>1, <1>2, <1>3, <1>4, <1>5, <1>6 DEF s, v

\* Addresses in memory.
LEMMA RvaChain ==
  ASSUME MergeInv
  PROVE  /\ ImageRva[0] = AlignUp(SizeOfHeaders(Len(Emitted)), PeAlignment)
         /\ \A n \in 1 .. Len(Emitted) :
              ImageRva[n] = (ImageRva[n - 1] + Advance(Emitted[n])) % Word32
         /\ \A n \in 0 .. Len(Emitted) : ImageRva[n] \in Nat
<1> DEFINE N == Len(Emitted)
           S == Nat
           After(n, g) == (g + Advance(Emitted[n])) % Word32
           x == AlignUp(SizeOfHeaders(Len(Emitted)), PeAlignment)
<1>0. N \in Nat
  BY EmittedAre
<1>1. x \in S
  BY <1>0, HeadersNat
<1>2. ASSUME NEW n \in 1 .. N, NEW g \in S PROVE After(n, g) \in S
  <2>1. Emitted[n] \in MergedKinds
    BY EmittedAre
  <2>2. Advance(Emitted[n]) \in Nat
    BY <2>1, SectionSpans
  <2>3. g + Advance(Emitted[n]) \in Nat
    BY <2>2
  <2> QED BY <2>3, ModNat
<1> HIDE DEF N, S, x
<1> DEFINE step == [n \in 1 .. N |-> [g \in S |-> After(n, g)]]
           R(f) == [n \in 0 .. N |-> IF n = 0 THEN x ELSE After(n, f[n - 1])]
<1> HIDE DEF After
<1>3. step \in [1 .. N -> [S -> S]]
  BY <1>2
<1>4. PICK f : IsChain(f, N, S, x, step)
  <2> HIDE DEF step
  <2> QED BY <1>0, <1>1, <1>3, ChainExists
<1>5. f \in [0 .. N -> S] /\ f[0] = x /\ \A n \in 1 .. N : f[n] = step[n][f[n - 1]]
  BY <1>4, Zenon DEF IsChain
<1>6. f = R(f)
  <2>1. \A n \in 1 .. N : f[n - 1] \in S
    BY <1>0, <1>5
  <2>2. \A n \in 1 .. N : \A g \in S : step[n][g] = After(n, g)
    OBVIOUS
  <2> HIDE DEF step
  <2>3. \A n \in 1 .. N : f[n] = After(n, f[n - 1])
    BY <1>5, <2>1, <2>2, Zenon
  <2> QED BY <1>0, <1>5, <2>3
<1> DEFINE F == ImageRva
<1>7. F = CHOOSE h : h = R(h)
  BY Zenon DEF ImageRva, N, x, After
<1> HIDE DEF R, F
<1>8. F = R(F)
  BY <1>6, <1>7, Zenon
<1>9. F[0] = x /\ \A n \in 1 .. N : F[n] = After(n, F[n - 1])
  BY <1>0, <1>8 DEF R
<1>10. \A n \in 0 .. N : F[n] \in S
  <2>1. \A n \in 1 .. N : F[n - 1] \in S => F[n] \in S
    BY <1>0, <1>2, <1>9
  <2> QED BY <1>0, <1>1, <1>9, <2>1, ChainHolds
<1> QED BY <1>9, <1>10 DEF F, N, S, x, After

\* Addresses in the file.
LEMMA RawChain ==
  ASSUME MergeInv
  PROVE  /\ ImageRaw[0] = SizeOfHeaders(Len(Emitted))
         /\ \A n \in 1 .. Len(Emitted) :
              ImageRaw[n] = (ImageRaw[n - 1] + RawSize(Emitted[n])) % Word32
         /\ \A n \in 0 .. Len(Emitted) : ImageRaw[n] \in Nat
<1> DEFINE N == Len(Emitted)
           S == Nat
           After(n, g) == (g + RawSize(Emitted[n])) % Word32
           x == SizeOfHeaders(Len(Emitted))
<1>0. N \in Nat
  BY EmittedAre
<1>1. x \in S
  BY <1>0, HeadersNat
<1>2. ASSUME NEW n \in 1 .. N, NEW g \in S PROVE After(n, g) \in S
  <2>1. Emitted[n] \in MergedKinds
    BY EmittedAre
  <2>2. RawSize(Emitted[n]) \in Nat
    BY <2>1, SectionSpans
  <2>3. g + RawSize(Emitted[n]) \in Nat
    BY <2>2
  <2> QED BY <2>3, ModNat
<1> HIDE DEF N, S, x
<1> DEFINE step == [n \in 1 .. N |-> [g \in S |-> After(n, g)]]
           R(f) == [n \in 0 .. N |-> IF n = 0 THEN x ELSE After(n, f[n - 1])]
<1> HIDE DEF After
<1>3. step \in [1 .. N -> [S -> S]]
  BY <1>2
<1>4. PICK f : IsChain(f, N, S, x, step)
  <2> HIDE DEF step
  <2> QED BY <1>0, <1>1, <1>3, ChainExists
<1>5. f \in [0 .. N -> S] /\ f[0] = x /\ \A n \in 1 .. N : f[n] = step[n][f[n - 1]]
  BY <1>4, Zenon DEF IsChain
<1>6. f = R(f)
  <2>1. \A n \in 1 .. N : f[n - 1] \in S
    BY <1>0, <1>5
  <2>2. \A n \in 1 .. N : \A g \in S : step[n][g] = After(n, g)
    OBVIOUS
  <2> HIDE DEF step
  <2>3. \A n \in 1 .. N : f[n] = After(n, f[n - 1])
    BY <1>5, <2>1, <2>2, Zenon
  <2> QED BY <1>0, <1>5, <2>3
<1> DEFINE F == ImageRaw
<1>7. F = CHOOSE h : h = R(h)
  BY Zenon DEF ImageRaw, N, x, After
<1> HIDE DEF R, F
<1>8. F = R(F)
  BY <1>6, <1>7, Zenon
<1>9. F[0] = x /\ \A n \in 1 .. N : F[n] = After(n, F[n - 1])
  BY <1>0, <1>8 DEF R
<1>10. \A n \in 0 .. N : F[n] \in S
  <2>1. \A n \in 1 .. N : F[n - 1] \in S => F[n] \in S
    BY <1>0, <1>2, <1>9
  <2> QED BY <1>0, <1>1, <1>9, <2>1, ChainHolds
<1> QED BY <1>9, <1>10 DEF F, N, S, x, After

\* Unbounded addresses.
LayoutTyped == Len(layout) \in Nat /\ \A n \in 1 .. Len(layout) : layout[n].vsize \in Nat

LEMMA EndChain ==
  ASSUME LayoutTyped
  PROVE  /\ ImageEnd[0] = AlignUp(SizeOfHeaders(Len(layout)), PeAlignment)
         /\ \A n \in 1 .. Len(layout) :
              ImageEnd[n] = ImageEnd[n - 1] + AlignUp(layout[n].vsize, PeAlignment)
         /\ \A n \in 0 .. Len(layout) : ImageEnd[n] \in Nat
<1> DEFINE N == Len(layout)
           S == Nat
           After(n, g) == g + AlignUp(layout[n].vsize, PeAlignment)
           x == AlignUp(SizeOfHeaders(Len(layout)), PeAlignment)
<1>0. N \in Nat
  BY DEF LayoutTyped
<1>1. x \in S
  BY <1>0, HeadersNat
<1>2. ASSUME NEW n \in 1 .. N, NEW g \in S PROVE After(n, g) \in S
  <2>1. AlignUp(layout[n].vsize, PeAlignment) \in Nat
    BY ImageConstants, AlignUpGrows DEF LayoutTyped
  <2> QED BY <2>1
<1> HIDE DEF N, S, x
<1> DEFINE step == [n \in 1 .. N |-> [g \in S |-> After(n, g)]]
           R(f) == [n \in 0 .. N |-> IF n = 0 THEN x ELSE After(n, f[n - 1])]
<1> HIDE DEF After
<1>3. step \in [1 .. N -> [S -> S]]
  BY <1>2
<1>4. PICK f : IsChain(f, N, S, x, step)
  <2> HIDE DEF step
  <2> QED BY <1>0, <1>1, <1>3, ChainExists
<1>5. f \in [0 .. N -> S] /\ f[0] = x /\ \A n \in 1 .. N : f[n] = step[n][f[n - 1]]
  BY <1>4, Zenon DEF IsChain
<1>6. f = R(f)
  <2>1. \A n \in 1 .. N : f[n - 1] \in S
    BY <1>0, <1>5
  <2>2. \A n \in 1 .. N : \A g \in S : step[n][g] = After(n, g)
    OBVIOUS
  <2> HIDE DEF step
  <2>3. \A n \in 1 .. N : f[n] = After(n, f[n - 1])
    BY <1>5, <2>1, <2>2, Zenon
  <2> QED BY <1>0, <1>5, <2>3
<1> DEFINE F == ImageEnd
<1>7. F = CHOOSE h : h = R(h)
  BY Zenon DEF ImageEnd, N, x, After
<1> HIDE DEF R, F
<1>8. F = R(F)
  BY <1>6, <1>7, Zenon
<1>9. F[0] = x /\ \A n \in 1 .. N : F[n] = After(n, F[n - 1])
  BY <1>0, <1>8 DEF R
<1>10. \A n \in 0 .. N : F[n] \in S
  <2>1. \A n \in 1 .. N : F[n - 1] \in S => F[n] \in S
    BY <1>0, <1>2, <1>9
  <2> QED BY <1>0, <1>1, <1>9, <2>1, ChainHolds
<1> QED BY <1>9, <1>10 DEF F, N, S, x, After

\* The three sums side by side: adv is how far each section moves the next one in
\* memory, rs in the file.
SideBySide(n, end, rva, raw, adv, rs, h) ==
  /\ n \in Nat /\ h \in Nat
  /\ \A i \in 1 .. n : /\ adv[i] \in Nat /\ adv[i] % PeAlignment = 0
                       /\ rs[i] \in Nat /\ rs[i] <= adv[i]
  /\ \A i \in 0 .. n : end[i] \in Nat
  /\ end[0] = AlignUp(h, PeAlignment) /\ rva[0] = end[0] /\ raw[0] = h
  /\ \A i \in 1 .. n : /\ end[i] = end[i - 1] + adv[i]
                       /\ rva[i] = (rva[i - 1] + adv[i]) % Word32
                       /\ raw[i] = (raw[i - 1] + rs[i]) % Word32

\* As long as nothing wraps around, the file stays behind memory, and both only
\* move forward.
InStep(n, end, rva, raw, rs, h) ==
  /\ \A i \in 0 .. n : /\ rva[i] = end[i] /\ end[i] % PeAlignment = 0
                       /\ raw[i] \in Nat /\ raw[i] <= end[i]
  /\ \A i \in 1 .. n : raw[i] = raw[i - 1] + rs[i]
  /\ \A i, j \in 0 .. n : i <= j => end[i] <= end[j] /\ raw[i] <= raw[j]

LEMMA SumOfMultiples ==
  ASSUME NEW a \in Nat \ {0}, NEW u \in Nat, NEW v \in Nat, u % a = 0, v % a = 0
  PROVE  (u + v) % a = 0
<1> DEFINE p == u \div a
           q == v \div a
<1>1. p \in Nat /\ q \in Nat /\ u = a * p /\ v = a * q
  OBVIOUS
<1> HIDE DEF p, q
<1>2. u + v = a * (p + q)
  BY <1>1
<1>3. \A c \in Nat : (a * c) % a = 0
  OBVIOUS
<1> QED BY <1>1, <1>2, <1>3

LEMMA NoWrap ==
  ASSUME NEW n, NEW end, NEW rva, NEW raw, NEW adv, NEW rs, NEW h,
         SideBySide(n, end, rva, raw, adv, rs, h), end[n] < Word32
  PROVE  InStep(n, end, rva, raw, rs, h)
<1>0. PeAlignment \in Nat \ {0} /\ Word32 \in Nat \ {0}
  BY ImageConstants
<1>1. /\ n \in Nat /\ h \in Nat /\ \A i \in 0 .. n : end[i] \in Nat
      /\ \A i \in 1 .. n : adv[i] \in Nat /\ rs[i] \in Nat /\ rs[i] <= adv[i]
      /\ \A i \in 1 .. n : end[i] = end[i - 1] + adv[i]
  BY Zenon DEF SideBySide
<1>2. \A i, j \in 0 .. n : i <= j => end[i] <= end[j]
  <2>1. \A i \in 1 .. n : end[i - 1] <= end[i]
    BY <1>1
  <2>2. \A i \in 0 .. n : end[i] \in Int
    BY <1>1
  <2> QED BY <1>1, <2>1, <2>2, ChainGrows
<1>3. \A i \in 0 .. n : end[i] < Word32
  BY <1>0, <1>1, <1>2
<1> DEFINE Good(i) == /\ rva[i] = end[i] /\ end[i] % PeAlignment = 0
                      /\ raw[i] \in Nat /\ raw[i] <= end[i]
           G == {i \in 0 .. n : Good(i)}
           id == [i \in 0 .. n |-> i]
<1>4. 0 \in G
  <2>1. end[0] = AlignUp(h, PeAlignment) /\ rva[0] = end[0] /\ raw[0] = h
    BY Zenon DEF SideBySide
  <2>2. AlignUp(h, PeAlignment) \in Nat /\ h <= AlignUp(h, PeAlignment)
        /\ AlignUp(h, PeAlignment) % PeAlignment = 0
    BY <1>0, <1>1, AlignUpGrows, AlignUpAligned
  <2> QED BY <1>1, <2>1, <2>2
<1>5. ASSUME NEW i \in 1 .. n, i - 1 \in G PROVE i \in G /\ raw[i] = raw[i - 1] + rs[i]
  <2>1. /\ end[i] = end[i - 1] + adv[i] /\ rva[i] = (rva[i - 1] + adv[i]) % Word32
        /\ raw[i] = (raw[i - 1] + rs[i]) % Word32
    BY Zenon DEF SideBySide
  <2>2. adv[i] \in Nat /\ adv[i] % PeAlignment = 0 /\ rs[i] \in Nat /\ rs[i] <= adv[i]
    BY Zenon DEF SideBySide
  <2>3. i - 1 \in 0 .. n /\ i \in 0 .. n /\ Good(i - 1)
    BY <1>1, <1>5
  <2>4. end[i] \in Nat /\ end[i - 1] \in Nat /\ end[i] < Word32
    BY <1>1, <1>3, <2>3
  <2>5. \A v \in Nat : v < Word32 => v % Word32 = v
    BY <1>0
  <2>6. rva[i] = end[i]
    BY <2>1, <2>3, <2>4, <2>5
  <2>7. raw[i - 1] + rs[i] \in Nat /\ raw[i - 1] + rs[i] <= end[i]
    BY <2>1, <2>2, <2>3, <2>4
  <2>8. raw[i] = raw[i - 1] + rs[i]
    <3> DEFINE v == raw[i - 1] + rs[i]
    <3>1. v \in Nat /\ v < Word32
      BY <1>0, <2>4, <2>7
    <3> HIDE DEF v
    <3>2. raw[i] = v % Word32
      BY <2>1 DEF v
    <3>3. raw[i] = v
      BY <2>5, <3>1, <3>2
    <3> QED BY <3>3 DEF v
  <2>9. end[i] % PeAlignment = 0
    <3> DEFINE u == end[i - 1]
               v == adv[i]
    <3>1. u \in Nat /\ v \in Nat /\ u % PeAlignment = 0 /\ v % PeAlignment = 0
      BY <2>2, <2>3, <2>4
    <3> HIDE DEF u, v
    <3>2. (u + v) % PeAlignment = 0
      BY <1>0, <3>1, SumOfMultiples
    <3> QED BY <2>1, <3>2 DEF u, v
  <2> QED BY <2>3, <2>6, <2>7, <2>8, <2>9
<1> HIDE DEF G
<1>6. \A i \in 0 .. n : i \in G
  <2>1. id[0] \in G /\ \A i \in 1 .. n : id[i - 1] \in G => id[i] \in G
    BY <1>1, <1>4, <1>5
  <2>2. \A i \in 0 .. n : id[i] = i
    OBVIOUS
  <2> HIDE DEF id
  <2>3. \A i \in 0 .. n : id[i] \in G
    BY <1>1, <2>1, ChainHolds
  <2> QED BY <2>2, <2>3
<1>7. \A i \in 1 .. n : raw[i] = raw[i - 1] + rs[i]
  BY <1>1, <1>5, <1>6
<1>8. \A i \in 0 .. n : Good(i)
  BY <1>6 DEF G
<1>9. \A i, j \in 0 .. n : i <= j => raw[i] <= raw[j]
  <2>1. \A i \in 1 .. n : raw[i - 1] <= raw[i]
    BY <1>1, <1>7, <1>8
  <2>2. \A i \in 0 .. n : raw[i] \in Int
    BY <1>8
  <2> QED BY <1>1, <2>1, <2>2, ChainGrows
<1> QED BY <1>2, <1>7, <1>8, <1>9 DEF InStep

-----------------------------------------------------------------------------
\* The layout, read off the sums.
LEMMA LayoutIs ==
  Layout = [i \in 1 .. Len(Emitted) |->
              [kind |-> Emitted[i], rva |-> ImageRva[i - 1], vsize |-> merged[Emitted[i]].vsize,
               rawAt |-> IF RawSize(Emitted[i]) = 0 THEN 0 ELSE ImageRaw[i - 1],
               rawSize |-> RawSize(Emitted[i])]]
BY Zenon DEF Layout, ImageRva, ImageRaw

\* l is what pe_layout_sections makes of the merged sections m when it has come to
\* rva and raw after each section.
Advances(m, k) == AlignUp(m[k].vsize, PeAlignment)
Stores(m, k) == IF k = "bss" THEN 0 ELSE AlignUp(m[k].size, FileAlignment)
LaidOutAs(l, m, rva, raw) ==
  /\ Len(l) \in Nat
  /\ \A i \in 1 .. Len(l) :
       /\ l[i].kind \in MergedKinds /\ l[i].vsize = m[l[i].kind].vsize
       /\ l[i].rva = rva[i - 1] /\ l[i].rawSize = Stores(m, l[i].kind)
       /\ l[i].rawAt = IF l[i].rawSize = 0 THEN 0 ELSE raw[i - 1]
       /\ rva[i] = (rva[i - 1] + Advances(m, l[i].kind)) % Word32
       /\ raw[i] = (raw[i - 1] + Stores(m, l[i].kind)) % Word32
  /\ rva[0] = AlignUp(SizeOfHeaders(Len(l)), PeAlignment) /\ raw[0] = SizeOfHeaders(Len(l))
  /\ \A i \in 0 .. Len(l) : rva[i] \in Nat /\ raw[i] \in Nat
  /\ \A k \in MergedKinds : m[k].vsize # 0 => \E i \in 1 .. Len(l) : l[i].kind = k

LEMMA LayoutSays == ASSUME MergeInv PROVE LaidOutAs(Layout, merged, ImageRva, ImageRaw)
<1> DEFINE e == Emitted
           l == Layout
           n == Len(e)
           rva == ImageRva
           raw == ImageRaw
<1>1. /\ n \in Nat /\ \A i \in 1 .. n : e[i] \in MergedKinds
      /\ \A k \in MergedKinds : merged[k].vsize # 0 => \E i \in 1 .. n : e[i] = k
  BY EmittedAre
<1>2. /\ rva[0] = AlignUp(SizeOfHeaders(n), PeAlignment)
      /\ \A i \in 1 .. n : rva[i] = (rva[i - 1] + Advance(e[i])) % Word32
      /\ \A i \in 0 .. n : rva[i] \in Nat
  BY RvaChain
<1>3. /\ raw[0] = SizeOfHeaders(n)
      /\ \A i \in 1 .. n : raw[i] = (raw[i - 1] + RawSize(e[i])) % Word32
      /\ \A i \in 0 .. n : raw[i] \in Nat
  BY RawChain
<1>4. l = [i \in 1 .. n |->
             [kind |-> e[i], rva |-> rva[i - 1], vsize |-> merged[e[i]].vsize,
              rawAt |-> IF RawSize(e[i]) = 0 THEN 0 ELSE raw[i - 1],
              rawSize |-> RawSize(e[i])]]
  BY LayoutIs, Zenon
<1> HIDE DEF e, l, n, rva, raw
<1>5. Len(l) = n
  BY <1>1, <1>4
<1>6. \A k : Advance(k) = Advances(merged, k) /\ RawSize(k) = Stores(merged, k)
  BY Zenon DEF Advance, Advances, RawSize, Stores
<1>7. ASSUME NEW i \in 1 .. n
      PROVE  /\ l[i].kind = e[i] /\ l[i].rva = rva[i - 1] /\ l[i].vsize = merged[e[i]].vsize
             /\ l[i].rawSize = Stores(merged, e[i])
             /\ l[i].rawAt = IF l[i].rawSize = 0 THEN 0 ELSE raw[i - 1]
  BY <1>4, <1>6
<1>8. ASSUME NEW i \in 1 .. n
      PROVE  /\ l[i].kind \in MergedKinds
             /\ rva[i] = (rva[i - 1] + Advances(merged, l[i].kind)) % Word32
             /\ raw[i] = (raw[i - 1] + Stores(merged, l[i].kind)) % Word32
  <2>1. l[i].kind = e[i]
    BY <1>7
  <2>2. rva[i] = (rva[i - 1] + Advance(e[i])) % Word32
    BY <1>2
  <2>3. raw[i] = (raw[i - 1] + RawSize(e[i])) % Word32
    BY <1>3
  <2> QED BY <1>1, <1>6, <2>1, <2>2, <2>3
<1>9. \A k \in MergedKinds : merged[k].vsize # 0 => \E i \in 1 .. n : l[i].kind = k
  <2>1. \A i \in 1 .. n : l[i].kind = e[i]
    BY <1>7
  <2> QED BY <1>1, <2>1
<1>10. LaidOutAs(l, merged, rva, raw)
  <2>1. \A i \in 1 .. n :
          /\ l[i].kind \in MergedKinds /\ l[i].vsize = merged[l[i].kind].vsize
          /\ l[i].rva = rva[i - 1] /\ l[i].rawSize = Stores(merged, l[i].kind)
          /\ l[i].rawAt = IF l[i].rawSize = 0 THEN 0 ELSE raw[i - 1]
          /\ rva[i] = (rva[i - 1] + Advances(merged, l[i].kind)) % Word32
          /\ raw[i] = (raw[i - 1] + Stores(merged, l[i].kind)) % Word32
    BY <1>7, <1>8
  <2> QED BY <1>1, <1>2, <1>3, <1>5, <1>9, <2>1 DEF LaidOutAs
<1> QED BY <1>10 DEF l, rva, raw

\* From the layout on, the image is the one the sections ask for, and the options
\* were accepted.
LayoutInv ==
  /\ phase \in PePhases => FileAlignment <= PeAlignment
  /\ phase \in PhasesAfterLayout => \E rva, raw : LaidOutAs(layout, merged, rva, raw)

LEMMA LayoutInit == Init => LayoutInv
BY DEF Init, LinkInit, LayoutInv, PePhases, PhasesAfterLayout

\* The steps after the layout change neither the sections nor the layout.
LEMMA LayoutKept ==
  ASSUME PeNext, phase' \in PhasesAfterLayout
  PROVE  \/ LayoutSections /\ layout' = Layout /\ merged' = merged
         \/ phase \in PhasesAfterLayout /\ UNCHANGED <<layout, merged>>
<1>1. CASE CheckOptions \/ LoadLibrary \/ EndLibraries \/ ProbeDll \/ EndDlls
  <2>1. phase \in {"resolved", "libraries", "dlls"}
        /\ phase' \in {"failed", "libraries", "dlls", "plan"}
    <3>1. CASE CheckOptions \/ EndLibraries \/ EndDlls
      BY <3>1 DEF CheckOptions, EndLibraries, EndDlls
    <3>2. CASE LoadLibrary
      BY <3>2 DEF LoadLibrary, Fail
    <3>3. CASE ProbeDll
      <4>1. phase = "dlls" /\ phase' = phase
        BY <3>3, Zenon DEF ProbeDll
      <4> QED BY <4>1
    <3> QED BY <1>1, <3>1, <3>2, <3>3
  <2> QED BY <2>1 DEF PhasesAfterLayout
<1>2. CASE PlanImport \/ EndPlan \/ StoreImports
  <2>1. phase' \in {"plan", "failed", "storage", "unresolved"}
    <3>1. CASE PlanImport
      <4>1. phase = "plan" /\ (phase' = phase \/ phase' = "failed")
        BY <3>1, Zenon DEF PlanImport, Fail
      <4> QED BY <4>1
    <3>2. CASE EndPlan
      BY <3>2 DEF EndPlan
    <3>3. CASE StoreImports
      <4>1. phase' = "unresolved"
        BY <3>3, Zenon DEF StoreImports
      <4> QED BY <4>1
    <3> QED BY <1>2, <3>1, <3>2, <3>3
  <2> QED BY <2>1 DEF PhasesAfterLayout
<1>3. CASE ValidateUnresolved
  BY <1>3 DEF ValidateUnresolved, PhasesAfterLayout
<1>4. CASE LayoutSections
  <2>1. (phase' = "failed" \/ layout' = Layout) /\ merged' = merged
    BY <1>4, Zenon DEF LayoutSections, Fail
  <2> QED BY <1>4, <2>1 DEF PhasesAfterLayout
<1>5. CASE ApplyLayout \/ RelocateNextObject \/ EndRelocate \/ WriteImage
  BY <1>5 DEF ApplyLayout, RelocateNextObject, EndRelocate, WriteImage, PhasesAfterLayout, pevars
<1>6. CASE FinalizeImports \/ RelocateSection
  <2>1. phase \in {"finalize", "relocate"} /\ layout' = layout /\ merged' = merged
    <3>1. CASE FinalizeImports
      <4>1. phase = "finalize" /\ layout' = layout /\ merged' = merged
        BY <3>1, Zenon DEF FinalizeImports
      <4> QED BY <4>1
    <3>2. CASE RelocateSection
      <4>1. phase = "relocate" /\ layout' = layout /\ merged' = merged
        BY <3>2, Zenon DEF RelocateSection
      <4> QED BY <4>1
    <3> QED BY <1>6, <3>1, <3>2
  <2> QED BY <2>1 DEF PhasesAfterLayout
<1> QED BY <1>1, <1>2, <1>3, <1>4, <1>5, <1>6 DEF PeNext

LEMMA LayoutStep == PeTypes /\ InLink /\ LayoutInv /\ [Next]_vars => LayoutInv'
<1> SUFFICES ASSUME PeTypes, InLink, LayoutInv, [Next]_vars PROVE LayoutInv'
  OBVIOUS
<1>0. PhasesAfterLayout \subseteq PePhases /\ PePhases \cap Phases = {}
  BY DEF PhasesAfterLayout, PePhases, Phases
<1>1. CASE UNCHANGED vars
  <2>1. UNCHANGED <<phase, layout, merged>>
    BY <1>1 DEF vars, linkvars, pevars
  <2> QED BY <2>1, Zenon DEF LayoutInv
<1>2. CASE LinkNext
  <2>1. phase' \in Phases
    <3>1. phase \in Linking /\ OutcomeInv /\ [LinkNext]_linkvars
      BY <1>2, LinkSteps DEF InLink, Linking, Phases
    <3>2. OutcomeInv'
      BY <3>1, OutcomeStep
    <3> QED BY <3>2 DEF OutcomeInv, TypeInv
  <2>2. phase' \notin PePhases /\ phase' \notin PhasesAfterLayout
    BY <1>0, <2>1
  <2> QED BY <2>2 DEF LayoutInv
<1>3. CASE PeNext
  <2>1. phase' \in PePhases => FileAlignment <= PeAlignment
    <3>1. CASE CheckOptions
      BY <3>1, ImageConstants DEF CheckOptions, PePhases
    <3>2. CASE ~CheckOptions
      <4>1. phase # "resolved"
        <5> SUFFICES ASSUME phase = "resolved" PROVE FALSE
          OBVIOUS
        <5>1. ~EndLibraries /\ ~EndDlls /\ ~EndPlan /\ ~ValidateUnresolved /\ ~LayoutSections
              /\ ~ApplyLayout /\ ~RelocateNextObject /\ ~EndRelocate /\ ~WriteImage /\ ~LoadLibrary
          BY DEF EndLibraries, EndDlls, EndPlan, ValidateUnresolved, LayoutSections, ApplyLayout,
                 RelocateNextObject, EndRelocate, WriteImage, LoadLibrary
        <5>2. /\ ProbeDll => phase = "dlls"
              /\ PlanImport => phase = "plan"
              /\ StoreImports => phase = "storage"
              /\ FinalizeImports => phase = "finalize"
              /\ RelocateSection => phase = "relocate"
          BY Zenon DEF ProbeDll, PlanImport, StoreImports, FinalizeImports, RelocateSection
        <5> QED BY <1>3, <3>2, <5>1, <5>2 DEF PeNext
      <4>2. phase \in PePhases
        BY <1>3, <4>1, PeSteps
      <4> QED BY <4>2 DEF LayoutInv
    <3> QED BY <3>1, <3>2
  <2>2. ASSUME phase' \in PhasesAfterLayout
        PROVE  \E rva, raw : LaidOutAs(layout', merged', rva, raw)
    <3>1. CASE LayoutSections /\ layout' = Layout /\ merged' = merged
      <4>1. LaidOutAs(Layout, merged, ImageRva, ImageRaw)
        BY LayoutSays DEF PeTypes
      <4> HIDE DEF ImageRva, ImageRaw
      <4> QED BY <3>1, <4>1, Zenon
    <3>2. CASE phase \in PhasesAfterLayout /\ UNCHANGED <<layout, merged>>
      BY <3>2, Zenon DEF LayoutInv
    <3> QED BY <1>3, <2>2, <3>1, <3>2, LayoutKept
  <2> QED BY <2>1, <2>2, Zenon DEF LayoutInv
<1> QED BY <1>1, <1>2, <1>3 DEF Next

LEMMA LaidOut == Spec => [](PeTypes /\ InLink /\ LayoutInv)
<1>1. Init => PeTypes /\ InLink /\ LayoutInv
  BY PeTypesInit, InLinkInit, LayoutInit
<1>2. PeTypes /\ InLink /\ LayoutInv /\ [Next]_vars => (PeTypes /\ InLink /\ LayoutInv)'
  BY PeTypesStep, InLinkStep, LayoutStep
<1> QED BY <1>1, <1>2, PTL DEF Spec

\* Sections do not overlap: the conclusion of ImageLayoutSound.
Apart(l, m) ==
  /\ \A i \in 1 .. Len(l) :
       /\ l[i].rva >= SizeOfHeaders(Len(l))
       /\ l[i].rva % PeAlignment = 0
       /\ l[i].kind # "bss" => l[i].rawSize >= m[l[i].kind].size
       /\ \A j \in i + 1 .. Len(l) : l[i].rva + l[i].vsize <= l[j].rva
  /\ \A i \in {i \in 1 .. Len(l) : l[i].rawSize # 0} :
       /\ l[i].rawAt >= SizeOfHeaders(Len(l))
       /\ \A j \in {j \in 1 .. Len(l) : l[j].rawSize # 0} :
            i < j => l[i].rawAt + l[i].rawSize <= l[j].rawAt

LEMMA LayoutApart ==
  ASSUME MergeInv, FileAlignment <= PeAlignment, NEW rva, NEW raw,
         LaidOutAs(layout, merged, rva, raw), ImageEnd[Len(layout)] < Word32
  PROVE  Apart(layout, merged)
<1> DEFINE n == Len(layout)
           h == SizeOfHeaders(n)
           end == ImageEnd
           adv == [i \in 1 .. n |-> Advances(merged, layout[i].kind)]
           rs == [i \in 1 .. n |-> layout[i].rawSize]
<1>1. /\ n \in Nat
      /\ \A i \in 1 .. n :
           /\ layout[i].kind \in MergedKinds /\ layout[i].vsize = merged[layout[i].kind].vsize
           /\ layout[i].rva = rva[i - 1] /\ layout[i].rawSize = Stores(merged, layout[i].kind)
           /\ layout[i].rawAt = IF layout[i].rawSize = 0 THEN 0 ELSE raw[i - 1]
           /\ rva[i] = (rva[i - 1] + Advances(merged, layout[i].kind)) % Word32
           /\ raw[i] = (raw[i - 1] + Stores(merged, layout[i].kind)) % Word32
      /\ rva[0] = AlignUp(h, PeAlignment) /\ raw[0] = h
      /\ \A i \in 0 .. n : rva[i] \in Nat /\ raw[i] \in Nat
  BY Zenon DEF LaidOutAs
<1>2. PeAlignment % FileAlignment = 0
  BY NestedAssumption, ImageConstants
<1>3. ASSUME NEW i \in 1 .. n
      PROVE  /\ layout[i].vsize \in Nat /\ layout[i].vsize <= adv[i]
             /\ adv[i] \in Nat /\ adv[i] % PeAlignment = 0
             /\ rs[i] \in Nat /\ rs[i] <= adv[i] /\ rs[i] = layout[i].rawSize
             /\ layout[i].kind # "bss" => merged[layout[i].kind].size <= rs[i]
             /\ adv[i] = AlignUp(layout[i].vsize, PeAlignment)
  <2> DEFINE k == layout[i].kind
  <2>1. k \in MergedKinds /\ layout[i].vsize = merged[k].vsize /\ adv[i] = Advances(merged, k)
        /\ layout[i].rawSize = Stores(merged, k) /\ rs[i] = layout[i].rawSize
    BY <1>1
  <2> HIDE DEF k, adv, rs
  <2>2. Advance(k) = Advances(merged, k) /\ RawSize(k) = Stores(merged, k)
    BY Zenon DEF Advance, Advances, RawSize, Stores
  <2>3. /\ merged[k].vsize \in Nat /\ Advance(k) \in Nat /\ merged[k].vsize <= Advance(k)
        /\ Advance(k) % PeAlignment = 0 /\ RawSize(k) \in Nat /\ RawSize(k) <= Advance(k)
        /\ k # "bss" => merged[k].size <= RawSize(k)
    BY <1>2, <2>1, SectionSpans
  <2>4. Advances(merged, k) = AlignUp(merged[k].vsize, PeAlignment)
    BY DEF Advances
  <2> QED BY <2>1, <2>2, <2>3, <2>4 DEF k
<1>4. h \in Nat
  BY <1>1, HeadersNat
<1>5. /\ end[0] = AlignUp(h, PeAlignment)
      /\ \A i \in 1 .. n : end[i] = end[i - 1] + AlignUp(layout[i].vsize, PeAlignment)
      /\ \A i \in 0 .. n : end[i] \in Nat
  <2>1. LayoutTyped
    BY <1>1, <1>3 DEF LayoutTyped
  <2> QED BY <2>1, EndChain
<1> HIDE DEF end, adv, rs, h
<1>6. SideBySide(n, end, rva, raw, adv, rs, h)
  <2>1. \A i \in 1 .. n : /\ end[i] = end[i - 1] + adv[i]
                          /\ rva[i] = (rva[i - 1] + adv[i]) % Word32
                          /\ raw[i] = (raw[i - 1] + rs[i]) % Word32
    <3> SUFFICES ASSUME NEW i \in 1 .. n
                 PROVE  /\ end[i] = end[i - 1] + adv[i]
                        /\ rva[i] = (rva[i - 1] + adv[i]) % Word32
                        /\ raw[i] = (raw[i - 1] + rs[i]) % Word32
      OBVIOUS
    <3>1. end[i] = end[i - 1] + adv[i]
      BY <1>3, <1>5
    <3>2. adv[i] = Advances(merged, layout[i].kind) /\ rs[i] = Stores(merged, layout[i].kind)
      BY <1>1 DEF adv, rs
    <3>3. /\ rva[i] = (rva[i - 1] + Advances(merged, layout[i].kind)) % Word32
          /\ raw[i] = (raw[i - 1] + Stores(merged, layout[i].kind)) % Word32
      BY <1>1
    <3> QED BY <3>1, <3>2, <3>3
  <2>2. \A i \in 1 .. n : /\ adv[i] \in Nat /\ adv[i] % PeAlignment = 0
                          /\ rs[i] \in Nat /\ rs[i] <= adv[i]
    BY <1>3
  <2> QED BY <1>1, <1>4, <1>5, <2>1, <2>2 DEF SideBySide
<1>7. end[n] < Word32
  BY DEF end
<1>8. InStep(n, end, rva, raw, rs, h)
  BY <1>6, <1>7, NoWrap
<1>9. /\ \A i \in 0 .. n : /\ rva[i] = end[i] /\ end[i] % PeAlignment = 0
                           /\ raw[i] \in Nat /\ raw[i] <= end[i]
      /\ \A i \in 1 .. n : raw[i] = raw[i - 1] + rs[i]
      /\ \A i, j \in 0 .. n : i <= j => end[i] <= end[j] /\ raw[i] <= raw[j]
  BY <1>8, Zenon DEF InStep
<1>10. end[0] >= h
  BY <1>4, <1>5, AlignUpGrows, ImageConstants
<1>11. ASSUME NEW i \in 1 .. n
       PROVE  /\ layout[i].rva >= h /\ layout[i].rva % PeAlignment = 0
              /\ layout[i].kind # "bss" => layout[i].rawSize >= merged[layout[i].kind].size
              /\ \A j \in i + 1 .. n : layout[i].rva + layout[i].vsize <= layout[j].rva
  <2>1. i - 1 \in 0 .. n /\ 0 \in 0 .. n /\ 0 <= i - 1 /\ i \in 0 .. n
    BY <1>1
  <2>2. layout[i].rva = end[i - 1] /\ end[i - 1] \in Nat /\ end[0] <= end[i - 1] /\ end[0] \in Nat
    BY <1>1, <1>5, <1>9, <2>1
  <2>3. layout[i].kind # "bss" => layout[i].rawSize >= merged[layout[i].kind].size
    <3> SUFFICES ASSUME layout[i].kind # "bss"
                 PROVE  layout[i].rawSize >= merged[layout[i].kind].size
      OBVIOUS
    <3>1. merged[layout[i].kind].size \in Nat
      BY <1>1, SectionSpans
    <3> QED BY <1>3, <3>1
  <2>4. ASSUME NEW j \in i + 1 .. n PROVE layout[i].rva + layout[i].vsize <= layout[j].rva
    <3>1. j - 1 \in 0 .. n /\ i <= j - 1 /\ j \in 1 .. n
      BY <1>1
    <3>2. layout[j].rva = end[j - 1] /\ end[i] <= end[j - 1] /\ end[j - 1] \in Nat /\ end[i] \in Nat
      BY <1>1, <1>5, <1>9, <2>1, <3>1
    <3>3. end[i] = end[i - 1] + adv[i] /\ layout[i].vsize <= adv[i]
          /\ layout[i].vsize \in Nat /\ adv[i] \in Nat
      BY <1>3, <1>5
    <3>4. \A a, b, c, d, v \in Nat : b = a + d /\ v <= d /\ b <= c => a + v <= c
      OBVIOUS
    <3>5. end[i - 1] + layout[i].vsize <= end[j - 1]
      BY <2>2, <3>2, <3>3, <3>4, Zenon
    <3> QED BY <2>2, <3>2, <3>5
  <2>5. layout[i].rva >= h
    BY <1>4, <1>10, <2>2
  <2>6. layout[i].rva % PeAlignment = 0
    BY <1>9, <2>1, <2>2
  <2> QED BY <2>3, <2>4, <2>5, <2>6
<1>12. ASSUME NEW i \in 1 .. n, layout[i].rawSize # 0
       PROVE  /\ layout[i].rawAt >= h
              /\ \A j \in 1 .. n : layout[j].rawSize # 0 /\ i < j
                                     => layout[i].rawAt + layout[i].rawSize <= layout[j].rawAt
  <2>1. i - 1 \in 0 .. n /\ 0 \in 0 .. n /\ 0 <= i - 1 /\ i \in 0 .. n
    BY <1>1
  <2>2. layout[i].rawAt = raw[i - 1] /\ raw[0] = h /\ raw[0] <= raw[i - 1] /\ raw[i - 1] \in Nat
    BY <1>1, <1>9, <1>12, <2>1
  <2>3. raw[i] = raw[i - 1] + layout[i].rawSize
    BY <1>3, <1>9
  <2>4. ASSUME NEW j \in 1 .. n, layout[j].rawSize # 0, i < j
        PROVE  layout[i].rawAt + layout[i].rawSize <= layout[j].rawAt
    <3>1. j - 1 \in 0 .. n /\ i <= j - 1
      BY <1>1, <2>4
    <3>2. layout[j].rawAt = raw[j - 1] /\ raw[i] <= raw[j - 1]
      BY <1>1, <1>9, <2>1, <2>4, <3>1
    <3> QED BY <2>2, <2>3, <3>2
  <2> QED BY <1>4, <2>2, <2>4
<1> QED BY <1>11, <1>12, Zenon DEF Apart, h

\* No two sections of the image overlap in memory or in the file, nor the headers,
\* and each starts on an aligned address, for any object files, import libraries
\* and alignments (pe_layout_sections).
THEOREM LayoutProved == Spec => []ImageLayoutSound
<1>1. PeTypes /\ LayoutInv => ImageLayoutSound
  <2> SUFFICES ASSUME PeTypes, LayoutInv, phase \in PhasesAfterLayout,
                      ImageEnd[Len(layout)] < Word32
               PROVE  Apart(layout, merged)
    <3> HIDE DEF PeTypes, LayoutInv
    <3> QED BY Zenon DEF ImageLayoutSound, ImageEnd, Apart
  <2>1. MergeInv /\ FileAlignment <= PeAlignment
    BY DEF PeTypes, LayoutInv, PhasesAfterLayout, PePhases
  <2>2. PICK rva, raw : LaidOutAs(layout, merged, rva, raw)
    BY Zenon DEF LayoutInv
  <2> HIDE DEF ImageEnd
  <2> QED BY <2>1, <2>2, LayoutApart, Zenon
<1> QED BY <1>1, LaidOut, PTL

-----------------------------------------------------------------------------
\* What link_resolution_build hands over: the files are sound, every section is
\* placed if it is merged, and every symbol is resolved.
Settled ==
  /\ WellFormedInput
  /\ place \in [SectionIds(objects) -> Places]
  /\ \A id \in SectionIds(objects) : place[id].kind = SectionAt(id).kind
  /\ DOMAIN syms = SymbolIds(objects)
  /\ \A id \in SymbolIds(objects) : InsideTable(id) /\ syms[id] = Resolved(id[1], SymbolAt(id))
SettledInv == phase \in PePhases => Settled

\* Until imports are bound, the table of names is the one the files ask for.
Handed(g) == TableSays(g, ExternalSymbols, Defining, Names, syms)
BeforeStorage == {"libraries", "dlls", "plan", "storage"}
HandedInv == phase \in BeforeStorage => Handed(globals)

LEMMA SettledFixed == ASSUME Settled, UNCHANGED <<objects, place, syms>> PROVE Settled'
<1>1. \A id : /\ SymbolAt(id)' = SymbolAt(id) /\ SectionAt(id)' = SectionAt(id)
              /\ InsideTable(id)' = InsideTable(id)
  BY InputsFixed
<1>2. \A id : Resolved(id[1], SymbolAt(id))' = Resolved(id[1], SymbolAt(id))
  BY Zenon DEF Resolved, PlaceOf, SymbolAt
<1>3. WellFormedInput' <=> WellFormedInput
  BY DEF WellFormedInput, SymbolIds, SymbolAt, ExternalSymbols, Definitions
<1> QED BY <1>1, <1>2, <1>3, Zenon DEF Settled

LEMMA HandedFixed == ASSUME NEW g, UNCHANGED <<objects, syms>> PROVE Handed(g)' <=> Handed(g)
<1>1. ExternalSymbols' = ExternalSymbols /\ Defining' = Defining /\ Names' = Names /\ syms' = syms
  BY InputsFixed
<1> QED BY <1>1, Zenon DEF Handed

\* Sections that are not merged have the kind "none".
LEMMA SectionKinds ==
  ASSUME objects \in Seq(ObjectFiles), NEW id \in SectionIds(objects)
  PROVE  SectionAt(id) \in SectionRecord /\ SectionAt(id).kind \in MergedKinds \cup {"none"}
<1>1. id[1] \in 1 .. Len(objects) /\ id[2] \in 1 .. Len(objects[id[1]].sections)
  BY Ids
<1>2. objects[id[1]].sections \in Seq(SectionRecord)
  BY <1>1, FilesAssumption
<1>3. SectionAt(id) \in SectionRecord
  BY <1>1, <1>2 DEF SectionAt
<1> QED BY <1>3 DEF SectionRecord

LEMMA HandOver == ASSUME OutcomeInv, phase = "resolved" PROVE Settled /\ Handed(globals)
<1>1. /\ MergeInv /\ objects \in Seq(ObjectFiles) /\ CursorInv /\ PlaceInv /\ SymsInv /\ GlobalsInv
      /\ place \in [SectionIds(objects) -> Places] /\ DOMAIN syms = SymbolIds(objects)
  BY DEF OutcomeInv, TypeInv, MergeInv
<1>2. /\ SymbolIds(objects) = Seen /\ SeenExternals = ExternalSymbols /\ SeenDefining = Defining
      /\ phase \notin Early
  BY <1>1, AllSeen
<1>3. WellFormedInput
  <2>1. ExternalsValid
    BY DEF OutcomeInv
  <2> QED BY <2>1, ValidMeansLinkable DEF Linkable
<1>4. ASSUME NEW id \in SectionIds(objects) PROVE place[id].kind = SectionAt(id).kind
  <2>1. SectionAt(id).kind \in MergedKinds \cup {"none"}
    BY <1>1, SectionKinds
  <2>2. /\ place[id].kind \in {"none", SectionAt(id).kind}
        /\ SectionAt(id).kind \in MergedKinds => place[id].kind # "none"
    BY <1>1, <1>2, Zenon DEF PlaceInv
  <2> QED BY <2>1, <2>2
<1>5. \A id \in SymbolIds(objects) : InsideTable(id) /\ syms[id] = Resolved(id[1], SymbolAt(id))
  BY <1>1, <1>2, Zenon DEF SymsInv
<1>6. Handed(globals)
  BY <1>1, <1>2, Zenon DEF GlobalsInv, Handed
<1> QED BY <1>1, <1>3, <1>4, <1>5, <1>6, Zenon DEF Settled

\* Only CheckOptions starts from a finished resolution.
LEMMA FromResolved == ASSUME PeNext, phase = "resolved" PROVE CheckOptions
<1>1. ~EndLibraries /\ ~EndDlls /\ ~EndPlan /\ ~ValidateUnresolved /\ ~LayoutSections
      /\ ~ApplyLayout /\ ~RelocateNextObject /\ ~EndRelocate /\ ~WriteImage /\ ~LoadLibrary
  BY DEF EndLibraries, EndDlls, EndPlan, ValidateUnresolved, LayoutSections, ApplyLayout,
         RelocateNextObject, EndRelocate, WriteImage, LoadLibrary
<1>2. /\ ProbeDll => phase = "dlls"
      /\ PlanImport => phase = "plan"
      /\ StoreImports => phase = "storage"
      /\ FinalizeImports => phase = "finalize"
      /\ RelocateSection => phase = "relocate"
  BY Zenon DEF ProbeDll, PlanImport, StoreImports, FinalizeImports, RelocateSection
<1> QED BY <1>1, <1>2 DEF PeNext

\* Steps into the phases before storage leave the table alone.
LEMMA TableKept ==
  ASSUME PeNext, phase' \in BeforeStorage
  PROVE  phase \in {"resolved"} \cup BeforeStorage /\ globals' = globals
<1>1. CASE StoreImports
  <2>1. phase' = "unresolved"
    BY <1>1, Zenon DEF StoreImports
  <2> QED BY <2>1 DEF BeforeStorage
<1>2. CASE ValidateUnresolved \/ LayoutSections \/ ApplyLayout \/ RelocateNextObject
           \/ EndRelocate \/ WriteImage
  BY <1>2 DEF ValidateUnresolved, LayoutSections, ApplyLayout, RelocateNextObject, EndRelocate,
              WriteImage, Fail, BeforeStorage
<1>3. CASE FinalizeImports \/ RelocateSection
  <2>1. phase' \in {"relocate", "failed"}
    <3>1. CASE FinalizeImports
      BY <3>1, Zenon DEF FinalizeImports, Fail
    <3>2. CASE RelocateSection
      <4>1. phase = "relocate" /\ (phase' = phase \/ phase' = "failed")
        BY <3>2, Zenon DEF RelocateSection, Fail
      <4> QED BY <4>1
    <3> QED BY <1>3, <3>1, <3>2
  <2> QED BY <2>1 DEF BeforeStorage
<1>4. CASE CheckOptions \/ EndLibraries \/ EndDlls \/ EndPlan
  BY <1>4 DEF CheckOptions, EndLibraries, EndDlls, EndPlan, BeforeStorage
<1>5. CASE LoadLibrary \/ ProbeDll \/ PlanImport
  <2>1. phase \in {"libraries", "dlls", "plan"} /\ globals' = globals
    <3>1. CASE LoadLibrary
      BY <3>1 DEF LoadLibrary
    <3>2. CASE ProbeDll
      <4>1. phase = "dlls" /\ globals' = globals
        BY <3>2, Zenon DEF ProbeDll
      <4> QED BY <4>1
    <3>3. CASE PlanImport
      <4>1. phase = "plan" /\ globals' = globals
        BY <3>3, Zenon DEF PlanImport
      <4> QED BY <4>1
    <3> QED BY <1>5, <3>1, <3>2, <3>3
  <2> QED BY <2>1 DEF BeforeStorage
<1> QED BY <1>1, <1>2, <1>3, <1>4, <1>5 DEF PeNext

\* What no step of the link itself or stuttering can disturb.
LEMMA LinkLeaves ==
  ASSUME InLink, LinkNext PROVE phase' \notin PePhases /\ phase \notin PePhases
<1>1. phase \in Linking /\ OutcomeInv /\ [LinkNext]_linkvars
  BY LinkSteps DEF InLink, Linking, Phases
<1>2. OutcomeInv'
  BY <1>1, OutcomeStep
<1>3. phase' \in Phases
  BY <1>2 DEF OutcomeInv, TypeInv
<1> QED BY <1>1, <1>3 DEF Phases, Linking, PePhases

LEMMA SettledStep == InLink /\ SettledInv /\ HandedInv /\ [Next]_vars => SettledInv' /\ HandedInv'
<1> SUFFICES ASSUME InLink, SettledInv, HandedInv, [Next]_vars PROVE SettledInv' /\ HandedInv'
  OBVIOUS
<1>0. BeforeStorage \subseteq PePhases
  BY DEF BeforeStorage, PePhases
<1>1. CASE UNCHANGED vars
  <2>1. UNCHANGED <<phase, objects, place, syms, globals>>
    BY <1>1 DEF vars, linkvars
  <2> QED BY <2>1, SettledFixed, HandedFixed DEF SettledInv, HandedInv
<1>2. CASE LinkNext
  <2>1. phase' \notin PePhases
    BY <1>2, LinkLeaves
  <2> QED BY <1>0, <2>1 DEF SettledInv, HandedInv
<1>3. CASE PeNext
  <2>1. UNCHANGED <<objects, place, syms>> /\ phase \in {"resolved"} \cup PePhases
    BY <1>3, PeSteps
  <2>2. CASE phase = "resolved"
    <3>1. globals' = globals
      BY <1>3, <2>2, FromResolved DEF CheckOptions
    <3>2. OutcomeInv
      BY <2>2 DEF InLink, Linking, Phases
    <3>3. Settled /\ Handed(globals)
      BY <2>2, <3>2, HandOver
    <3> QED BY <2>1, <3>1, <3>3, SettledFixed, HandedFixed DEF SettledInv, HandedInv
  <2>3. CASE phase \in PePhases
    <3>1. Settled'
      BY <2>1, <2>3, SettledFixed DEF SettledInv
    <3>2. ASSUME phase' \in BeforeStorage PROVE Handed(globals)'
      <4>1. phase \in BeforeStorage /\ globals' = globals
        BY <1>3, <2>3, <3>2, TableKept DEF PePhases
      <4>2. Handed(globals)
        BY <4>1 DEF HandedInv
      <4> QED BY <2>1, <4>1, <4>2, HandedFixed
    <3> QED BY <3>1, <3>2 DEF SettledInv, HandedInv
  <2> QED BY <2>1, <2>2, <2>3
<1> QED BY <1>1, <1>2, <1>3 DEF Next

-----------------------------------------------------------------------------
\* pe_emit_import_storage in terms of the plan d, m it leaves behind: which import
\* supplies a name, its slot, and the entry of the table.
ImportIn(m, name) ==
  LET found == {i \in 1 .. Len(m) : /\ m[i].name = Canonical(name)
                                    /\ IF IsImp(name) THEN m[i].iatsym ELSE m[i].thunk}
  IN  IF found = {} THEN 0 ELSE Greatest(found)
SlotIn(d, m, i) == d[m[i].index].iat + m[i].slot * 8
BoundEntry(e, d, m) ==
  IF ~e.defined /\ ImportIn(m, e.name) # 0
  THEN [e EXCEPT !.defined = TRUE, !.kind = IF IsImp(e.name) THEN "rdata" ELSE "text",
                 !.offset = IF IsImp(e.name) THEN SlotIn(d, m, ImportIn(m, e.name))
                            ELSE m[ImportIn(m, e.name)].thunkAt]
  ELSE e
BoundTable(t, g, d, m) ==
  /\ g \in Seq(GlobalRecord) /\ Len(t) = Len(g)
  /\ \A x \in 1 .. Len(g) : t[x] = BoundEntry(g[x], d, m)

\* The tables lie one behind the other, behind the bytes of the object files.
TablesPlaced(d, r) ==
  \A x \in 1 .. Len(d) :
    /\ d[x].ilt \in Nat /\ d[x].iat \in Nat /\ d[x].count \in Nat
    /\ \A k \in 1 .. Len(r.parts) : /\ r.parts[k].offset + r.parts[k].used <= d[x].ilt
                                    /\ r.parts[k].offset + r.parts[k].used <= d[x].iat
    /\ \A y \in 1 .. Len(d) :
         /\ x < y => /\ d[x].ilt + (8 * d[x].count + 8) <= d[y].ilt
                     /\ d[x].iat + (8 * d[x].count + 8) <= d[y].iat
         /\ d[x].ilt + (8 * d[x].count + 8) <= d[y].iat
    /\ d[x].iat + (8 * d[x].count + 8) <= r.size

Stored == {"unresolved", "layout"} \cup PhasesAfterLayout
StoredInv ==
  phase \in Stored =>
    /\ \E g : Handed(g) /\ BoundTable(globals, g, dlls, imports)
    /\ imports # <<>> => TablesPlaced(dlls, merged["rdata"])

LEMMA ImportOfIs == \A name : ImportOf(name) = ImportIn(imports, name)
BY Zenon DEF ImportOf, ImportIn

\* The import that supplies a name is found by three of its fields.
LEMMA ImportInSame ==
  ASSUME NEW m, NEW n, Len(m) = Len(n),
         \A i \in 1 .. Len(m) : /\ m[i].name = n[i].name /\ m[i].iatsym = n[i].iatsym
                                /\ m[i].thunk = n[i].thunk,
         NEW name
  PROVE  ImportIn(m, name) = ImportIn(n, name)
<1> DEFINE F(s) == {i \in 1 .. Len(s) : /\ s[i].name = Canonical(name)
                                        /\ IF IsImp(name) THEN s[i].iatsym ELSE s[i].thunk}
<1>1. F(m) = F(n)
  OBVIOUS
<1>2. \A s : ImportIn(s, name) = IF F(s) = {} THEN 0 ELSE Greatest(F(s))
  BY Zenon DEF ImportIn
<1> HIDE DEF F
<1> QED BY <1>1, <1>2, Zenon

LEMMA NothingImported == ASSUME NEW name PROVE ImportIn(<<>>, name) = 0
<1> DEFINE found == {i \in 1 .. Len(<<>>) : /\ <<>>[i].name = Canonical(name)
                                  /\ IF IsImp(name) THEN <<>>[i].iatsym ELSE <<>>[i].thunk}
<1>1. found = {}
  OBVIOUS
<1>2. ImportIn(<<>>, name) = IF found = {} THEN 0 ELSE Greatest(found)
  BY Zenon DEF ImportIn
<1> QED BY <1>1, <1>2

\* The plan after storage.
LEMMA StoredPlan ==
  ASSUME PeTypes, StoreImports, imports # <<>>
  PROVE  /\ Len(dlls') = Len(dlls) /\ Len(imports') = Len(imports)
         /\ \A d \in 1 .. Len(dlls) :
              /\ dlls'[d].name = dlls[d].name /\ dlls'[d].count = dlls[d].count
              /\ dlls'[d].ilt = IltOf(merged["rdata"], d)
              /\ dlls'[d].iat = IatOf(merged["rdata"], d)
         /\ \A i \in 1 .. Len(imports) :
              /\ imports'[i].name = imports[i].name /\ imports'[i].dll = imports[i].dll
              /\ imports'[i].index = imports[i].index /\ imports'[i].slot = imports[i].slot
              /\ imports'[i].thunk = imports[i].thunk /\ imports'[i].iatsym = imports[i].iatsym
              /\ imports'[i].thunkAt = ThunkOf(merged["text"], i)
<1>1. /\ dlls' = [d \in 1 .. Len(dlls) |->
                    [dlls[d] EXCEPT !.ilt = IltOf(merged["rdata"], d),
                                    !.iat = IatOf(merged["rdata"], d)]]
      /\ imports' = [i \in 1 .. Len(imports) |->
                       [imports[i] EXCEPT !.hint = HintOf(merged["rdata"], i),
                                          !.thunkAt = ThunkOf(merged["text"], i)]]
  BY StoreImportsIs
<1>2. /\ dlls \in Seq(DllRecord) /\ imports \in Seq(ImportRecord)
      /\ Len(dlls) \in Nat /\ Len(imports) \in Nat
  BY DEF PeTypes, PlanTyped
<1>3. Len(dlls') = Len(dlls) /\ Len(imports') = Len(imports)
  <2> DEFINE D(d) == [dlls[d] EXCEPT !.ilt = IltOf(merged["rdata"], d),
                                     !.iat = IatOf(merged["rdata"], d)]
             I(i) == [imports[i] EXCEPT !.hint = HintOf(merged["rdata"], i),
                                        !.thunkAt = ThunkOf(merged["text"], i)]
  <2>1. dlls' = [d \in 1 .. Len(dlls) |-> D(d)] /\ imports' = [i \in 1 .. Len(imports) |-> I(i)]
    BY <1>1, Zenon
  <2> HIDE DEF D, I
  <2> QED BY <1>2, <2>1
<1>4. ASSUME NEW d \in 1 .. Len(dlls)
      PROVE  /\ dlls'[d].name = dlls[d].name /\ dlls'[d].count = dlls[d].count
             /\ dlls'[d].ilt = IltOf(merged["rdata"], d)
             /\ dlls'[d].iat = IatOf(merged["rdata"], d)
  <2>1. dlls'[d] = [dlls[d] EXCEPT !.ilt = IltOf(merged["rdata"], d),
                                   !.iat = IatOf(merged["rdata"], d)]
    BY <1>1
  <2>2. dlls[d] \in DllRecord
    BY <1>2
  <2> QED BY <2>1, <2>2 DEF DllRecord
<1>5. ASSUME NEW i \in 1 .. Len(imports)
      PROVE  /\ imports'[i].name = imports[i].name /\ imports'[i].dll = imports[i].dll
             /\ imports'[i].index = imports[i].index /\ imports'[i].slot = imports[i].slot
             /\ imports'[i].thunk = imports[i].thunk /\ imports'[i].iatsym = imports[i].iatsym
             /\ imports'[i].thunkAt = ThunkOf(merged["text"], i)
  <2>1. imports'[i] = [imports[i] EXCEPT !.hint = HintOf(merged["rdata"], i),
                                         !.thunkAt = ThunkOf(merged["text"], i)]
    BY <1>1
  <2>2. imports[i] \in ImportRecord
    BY <1>2
  <2> QED BY <2>1, <2>2 DEF ImportRecord
<1> QED BY <1>3, <1>4, <1>5

\* Imports define the names they supply.
LEMMA StoresTable ==
  ASSUME PeTypes, StoreImports
  PROVE  BoundTable(globals', globals, dlls', imports')
<1>1. globals \in Seq(GlobalRecord) /\ Len(globals) \in Nat /\ SlotsApart(dlls, imports)
      /\ PlanTyped
  BY DEF PeTypes
<1>2. CASE imports = <<>>
  <2>1. globals' = globals /\ imports' = <<>>
    BY <1>2, Zenon DEF StoreImports
  <2>2. \A x \in 1 .. Len(globals) : globals[x] = BoundEntry(globals[x], dlls', imports')
    BY <2>1, NothingImported, Zenon DEF BoundEntry
  <2> QED BY <1>1, <2>1, <2>2, Zenon DEF BoundTable
<1>3. CASE imports # <<>>
  <2>1. globals' = [g \in 1 .. Len(globals) |->
                      IF Supplied(globals[g]) THEN BoundTo(globals[g]) ELSE globals[g]]
    BY <1>3, StoreImportsIs
  <2>2. Len(globals') = Len(globals)
    BY <1>1, <2>1
  <2>3. \A name : ImportOf(name) = ImportIn(imports', name)
    <3>1. \A name : ImportIn(imports, name) = ImportIn(imports', name)
      BY <1>3, StoredPlan, ImportInSame
    <3> QED BY <3>1, ImportOfIs, Zenon
  <2>4. ASSUME NEW x \in 1 .. Len(globals) PROVE globals'[x] = BoundEntry(globals[x], dlls', imports')
    <3> DEFINE e == globals[x]
               i == ImportOf(e.name)
    <3>1. globals'[x] = IF Supplied(e) THEN BoundTo(e) ELSE e
      BY <2>1
    <3>2. Supplied(e) <=> ~e.defined /\ ImportIn(imports', e.name) # 0
      BY <2>3, Zenon DEF Supplied
    <3>3. ASSUME Supplied(e) PROVE BoundTo(e) = BoundEntry(e, dlls', imports')
      <4>1. i \in 1 .. Len(imports) /\ i = ImportIn(imports', e.name)
        BY <1>1, <2>3, <3>3, ImportOfFound DEF Supplied
      <4>2. imports[i].index \in 1 .. Len(dlls)
        BY <1>1, <4>1 DEF SlotsApart
      <4> HIDE DEF i
      <4>3. SlotIn(dlls', imports', i)
              = IatOf(merged["rdata"], imports[i].index) + imports[i].slot * 8
        BY <1>3, <4>1, <4>2, StoredPlan DEF SlotIn
      <4>4. imports'[i].thunkAt = ThunkOf(merged["text"], i)
        BY <1>3, <4>1, StoredPlan
      <4>5. SuppliedAt(e, i) = IF IsImp(e.name) THEN SlotIn(dlls', imports', i)
                               ELSE imports'[i].thunkAt
        BY <4>3, <4>4, Zenon DEF SuppliedAt
      <4>6. BoundTo(e) = [e EXCEPT !.defined = TRUE,
                                   !.kind = IF IsImp(e.name) THEN "rdata" ELSE "text",
                                   !.offset = SuppliedAt(e, i)]
        BY Zenon DEF BoundTo, i
      <4>7. BoundEntry(e, dlls', imports')
              = [e EXCEPT !.defined = TRUE, !.kind = IF IsImp(e.name) THEN "rdata" ELSE "text",
                          !.offset = IF IsImp(e.name) THEN SlotIn(dlls', imports', i)
                                     ELSE imports'[i].thunkAt]
        BY <3>2, <3>3, <4>1, Zenon DEF BoundEntry
      <4> QED BY <4>5, <4>6, <4>7, Zenon
    <3>4. ASSUME ~Supplied(e) PROVE e = BoundEntry(e, dlls', imports')
      BY <3>2, <3>4, Zenon DEF BoundEntry
    <3> HIDE DEF e
    <3>5. globals'[x] = BoundEntry(e, dlls', imports')
      BY <3>1, <3>3, <3>4, Zenon
    <3> QED BY <3>5 DEF e
  <2> QED BY <1>1, <2>2, <2>4, Zenon DEF BoundTable
<1> QED BY <1>2, <1>3

\* The tables' places, from the chain of appends that made them.
LEMMA StoresTables ==
  ASSUME PeTypes, StoreImports, imports # <<>>
  PROVE  TablesPlaced(dlls', merged'["rdata"])
<1> DEFINE r == merged["rdata"]
           s == merged'["rdata"]
           n == Len(dlls)
<1>1. MergeInv /\ PlanTyped
  BY DEF PeTypes
<1>2. Base(r) /\ r \in Merged /\ Ordered(r) /\ r.size = r.vsize /\ r.size \in Nat
  <2>1. Base(r)
    BY <1>1, TextAndRdata
  <2>2. SectionSound(r) /\ DataOnly(r)
    BY <1>1 DEF MergeInv, MergedKinds
  <2> QED BY <2>1, <2>2 DEF SectionSound, DataOnly, Base
<1>3. s = IatAfter(r)[n]
  <2>1. merged' = [merged EXCEPT !["rdata"] = IatAfter(r)[n],
                                 !["text"] = ThunksAfter(merged["text"])[Len(imports)]]
    BY StoreImportsIs
  <2>2. "rdata" \in DOMAIN merged
    BY <1>1 DEF MergeInv, MergedKinds
  <2> HIDE DEF n
  <2> QED BY <2>1, <2>2
<1>4. n \in Nat /\ \A d \in 1 .. n : dlls[d].count \in Nat /\ TableBytes(d) = 8 * dlls[d].count + 8
  BY <1>1, TableBytesNat
<1>5. s.parts = r.parts
  <2>1. IatAfter(r)[n] \in Grows(r)
    BY <1>1, <1>2, <1>4, IatChain
  <2> QED BY <1>3, <2>1 DEF Grows
<1>6. \A k \in 1 .. Len(r.parts) :
        /\ r.parts[k].offset \in Nat /\ r.parts[k].used \in Nat
        /\ r.parts[k].offset + r.parts[k].used <= r.size
  <2>1. r.parts \in Parts
    BY <1>2 DEF Merged
  <2>2. ASSUME NEW k \in 1 .. Len(r.parts)
        PROVE  r.parts[k].offset \in Nat /\ r.parts[k].used \in Nat
    <3>1. r.parts[k] \in [id : Nat \X Nat, offset : Nat, used : Nat, align : Nat \ {0}]
      BY <2>1, SeqElement, Zenon DEF Parts
    <3> QED BY <3>1
  <2>3. \A k \in 1 .. Len(r.parts) : r.parts[k].offset + r.parts[k].used <= r.vsize
    BY <1>2, Zenon DEF Ordered
  <2> QED BY <1>2, <2>2, <2>3
<1>7. \A d \in 1 .. n :
        /\ IltOf(r, d) \in Nat /\ IatOf(r, d) \in Nat
        /\ r.size <= IltOf(r, d) /\ r.size <= IatOf(r, d)
        /\ \A e \in 1 .. n :
             /\ d < e => /\ IltOf(r, d) + TableBytes(d) <= IltOf(r, e)
                         /\ IatOf(r, d) + TableBytes(d) <= IatOf(r, e)
             /\ IltOf(r, d) + TableBytes(d) <= IatOf(r, e)
        /\ IatOf(r, d) + TableBytes(d) <= s.size
  <2> HIDE DEF r
  <2> QED BY <1>1, <1>2, <1>3, TablesApart
<1>8. /\ Len(dlls') = n
      /\ \A d \in 1 .. n : /\ dlls'[d].count = dlls[d].count
                           /\ dlls'[d].ilt = IltOf(r, d) /\ dlls'[d].iat = IatOf(r, d)
  BY StoredPlan
<1> HIDE DEF r, s, n
<1>9. ASSUME NEW x \in 1 .. n
      PROVE  /\ dlls'[x].ilt \in Nat /\ dlls'[x].iat \in Nat /\ dlls'[x].count \in Nat
             /\ \A y \in 1 .. n :
                  /\ x < y => /\ dlls'[x].ilt + (8 * dlls'[x].count + 8) <= dlls'[y].ilt
                              /\ dlls'[x].iat + (8 * dlls'[x].count + 8) <= dlls'[y].iat
                  /\ dlls'[x].ilt + (8 * dlls'[x].count + 8) <= dlls'[y].iat
             /\ dlls'[x].iat + (8 * dlls'[x].count + 8) <= s.size
  <2>1. TableBytes(x) = 8 * dlls'[x].count + 8
    BY <1>4, <1>8
  <2> QED BY <1>4, <1>7, <1>8, <2>1
<1>10. ASSUME NEW x \in 1 .. n, NEW k \in 1 .. Len(r.parts)
       PROVE  /\ r.parts[k].offset + r.parts[k].used <= dlls'[x].ilt
              /\ r.parts[k].offset + r.parts[k].used <= dlls'[x].iat
  <2>1. \A a, b, c, d \in Nat : a + b <= c /\ c <= d => a + b <= d
    OBVIOUS
  <2>2. r.size \in Nat /\ r.size <= dlls'[x].ilt /\ r.size <= dlls'[x].iat
        /\ dlls'[x].ilt \in Nat /\ dlls'[x].iat \in Nat
    BY <1>2, <1>7, <1>8
  <2> QED BY <1>6, <2>1, <2>2
<1>11. TablesPlaced(dlls', s)
  BY <1>5, <1>8, <1>9, <1>10, Zenon DEF TablesPlaced
<1> QED BY <1>11 DEF s

\* Behind storage every step only moves on.
LEMMA AfterStorage ==
  ASSUME PeNext, phase' \in Stored
  PROVE  StoreImports \/ (phase \in Stored /\ Quiet)
<1>1. CASE CheckOptions \/ LoadLibrary \/ EndLibraries \/ ProbeDll \/ EndDlls
  <2>1. phase' \in {"failed", "libraries", "dlls", "plan"}
    <3>1. CASE CheckOptions \/ EndLibraries \/ EndDlls
      BY <3>1 DEF CheckOptions, EndLibraries, EndDlls
    <3>2. CASE LoadLibrary
      BY <3>2 DEF LoadLibrary, Fail
    <3>3. CASE ProbeDll
      <4>1. phase = "dlls" /\ phase' = phase
        BY <3>3, Zenon DEF ProbeDll
      <4> QED BY <4>1
    <3> QED BY <1>1, <3>1, <3>2, <3>3
  <2> QED BY <2>1 DEF Stored, PhasesAfterLayout
<1>2. CASE PlanImport \/ EndPlan
  <2>1. phase' \in {"plan", "failed", "storage"}
    <3>1. CASE PlanImport
      <4>1. phase = "plan" /\ (phase' = phase \/ phase' = "failed")
        BY <3>1, Zenon DEF PlanImport, Fail
      <4> QED BY <4>1
    <3>2. CASE EndPlan
      BY <3>2 DEF EndPlan
    <3> QED BY <1>2, <3>1, <3>2
  <2> QED BY <2>1 DEF Stored, PhasesAfterLayout
<1>3. CASE ValidateUnresolved \/ LayoutSections \/ ApplyLayout \/ RelocateNextObject
           \/ EndRelocate \/ WriteImage
  BY <1>3 DEF ValidateUnresolved, LayoutSections, ApplyLayout, RelocateNextObject, EndRelocate,
              WriteImage, Stored, PhasesAfterLayout, Quiet
<1>4. CASE FinalizeImports \/ RelocateSection
  <2>1. phase \in {"finalize", "relocate"} /\ Quiet
    <3>1. CASE FinalizeImports
      <4>1. phase = "finalize"
        BY <3>1, Zenon DEF FinalizeImports
      <4> QED BY <3>1, <4>1 DEF Quiet
    <3>2. CASE RelocateSection
      <4>1. phase = "relocate"
        BY <3>2, Zenon DEF RelocateSection
      <4> QED BY <3>2, <4>1 DEF Quiet
    <3> QED BY <1>4, <3>1, <3>2
  <2> QED BY <2>1 DEF Stored, PhasesAfterLayout
<1> QED BY <1>1, <1>2, <1>3, <1>4 DEF PeNext

LEMMA StoredStep ==
  PeTypes /\ InLink /\ HandedInv /\ StoredInv /\ [Next]_vars => StoredInv'
<1> SUFFICES ASSUME PeTypes, InLink, HandedInv, StoredInv, [Next]_vars, phase' \in Stored
             PROVE  /\ \E g : Handed(g)' /\ BoundTable(globals', g, dlls', imports')
                    /\ imports' # <<>> => TablesPlaced(dlls', merged'["rdata"])
  BY Zenon DEF StoredInv
<1>0. Stored \subseteq PePhases
  BY DEF Stored, PePhases, PhasesAfterLayout
<1>1. ASSUME phase \in Stored, UNCHANGED <<objects, syms, merged, globals, dlls, imports>>
      PROVE  /\ \E g : Handed(g)' /\ BoundTable(globals', g, dlls', imports')
             /\ imports' # <<>> => TablesPlaced(dlls', merged'["rdata"])
  <2>1. PICK g : Handed(g) /\ BoundTable(globals, g, dlls, imports)
    BY <1>1, Zenon DEF StoredInv
  <2>2. Handed(g)'
    BY <1>1, <2>1, HandedFixed
  <2> QED BY <1>1, <2>1, <2>2, Zenon DEF StoredInv
<1>2. CASE UNCHANGED vars
  <2>1. UNCHANGED <<phase, objects, syms, merged, globals, dlls, imports>>
    BY <1>2 DEF vars, linkvars, pevars
  <2> QED BY <1>1, <2>1
<1>3. CASE LinkNext
  BY <1>0, <1>3, LinkLeaves
<1>4. CASE PeNext
  <2>0. UNCHANGED <<objects, syms>>
    BY <1>4, PeSteps
  <2>1. CASE StoreImports
    <3>1. phase = "storage"
      BY <2>1, Zenon DEF StoreImports
    <3>2. Handed(globals)
      BY <3>1 DEF HandedInv, BeforeStorage
    <3>3. PICK g : g = globals
      OBVIOUS
    <3>4. Handed(g)' /\ BoundTable(globals', g, dlls', imports')
      <4>1. Handed(g)
        BY <3>2, <3>3
      <4>2. Handed(g)'
        BY <2>0, <4>1, HandedFixed
      <4> QED BY <2>1, <3>3, <4>2, StoresTable
    <3>5. ASSUME imports' # <<>> PROVE TablesPlaced(dlls', merged'["rdata"])
      <4>1. imports # <<>>
        BY <2>1, <3>5, Zenon DEF StoreImports
      <4> QED BY <2>1, <4>1, StoresTables
    <3> QED BY <3>4, <3>5, Zenon
  <2>2. CASE phase \in Stored /\ Quiet
    <3>1. UNCHANGED <<merged, globals, dlls, imports>>
      BY <2>2, QuietKeeps
    <3> QED BY <1>1, <2>0, <2>2, <3>1
  <2> QED BY <1>4, <2>1, <2>2, AfterStorage
<1> QED BY <1>2, <1>3, <1>4 DEF Next

-----------------------------------------------------------------------------
IltIn(d, m, i) == d[m[i].index].ilt + m[i].slot * 8

LEMMA SlotArithmetic ==
  /\ \A s, a, b \in Nat : a # b => s + a * 8 # s + b * 8
  /\ \A s, t, a, b \in Nat : s + a * 8 < t => s + a * 8 # t + b * 8 /\ t + b * 8 # s + a * 8
  /\ \A s, t, u, v \in Nat : u < v /\ s + (8 * v + 8) <= t => s + u * 8 < t
  /\ \A s, u, v \in Nat : \A z \in Int : u < v /\ s + (8 * v + 8) <= z => (s + u * 8) + 16 <= z
  /\ \A s, a \in Nat : s + a * 8 \in Nat /\ s <= s + a * 8
OBVIOUS

\* Slots inside tables that lie apart are apart.
LEMMA SlotsSound ==
  ASSUME NEW d, NEW m, NEW r, d \in Seq(DllRecord), m \in Seq(ImportRecord),
         SlotsApart(d, m), TablesPlaced(d, r), NEW i \in 1 .. Len(m)
  PROVE  /\ m[i].slot \in Nat /\ m[i].slot < d[m[i].index].count
         /\ SlotIn(d, m, i) \in Nat /\ IltIn(d, m, i) \in Nat
         /\ d[m[i].index].iat <= SlotIn(d, m, i) /\ d[m[i].index].ilt <= IltIn(d, m, i)
         /\ d[m[i].index].iat \in Nat /\ d[m[i].index].ilt \in Nat
         /\ \A j \in 1 .. Len(m) : i # j => /\ SlotIn(d, m, i) # SlotIn(d, m, j)
                                            /\ IltIn(d, m, i) # IltIn(d, m, j)
                                            /\ SlotIn(d, m, i) # IltIn(d, m, j)
         /\ SlotIn(d, m, i) + 16 <= r.size \/ r.size \notin Int
<1>1. ASSUME NEW j \in 1 .. Len(m)
      PROVE  /\ m[j].index \in 1 .. Len(d) /\ m[j].slot < d[m[j].index].count
             /\ m[j].slot \in Nat
             /\ d[m[j].index].ilt \in Nat /\ d[m[j].index].iat \in Nat
             /\ d[m[j].index].count \in Nat
  <2>1. m[j].index \in 1 .. Len(d) /\ m[j].slot < d[m[j].index].count
    BY Zenon DEF SlotsApart
  <2>2. m[j] \in ImportRecord
    BY SeqElement, Zenon
  <2>3. m[j].slot \in Nat
    BY <2>2 DEF ImportRecord
  <2>4. d[m[j].index].ilt \in Nat /\ d[m[j].index].iat \in Nat /\ d[m[j].index].count \in Nat
    BY <2>1, Zenon DEF TablesPlaced
  <2> QED BY <2>1, <2>3, <2>4
<1> DEFINE x == m[i].index
           a == m[i].slot
<1>2. /\ x \in 1 .. Len(d) /\ a \in Nat /\ a < d[x].count /\ d[x].ilt \in Nat /\ d[x].iat \in Nat
      /\ d[x].count \in Nat
  BY <1>1
<1>3. SlotIn(d, m, i) = d[x].iat + a * 8 /\ IltIn(d, m, i) = d[x].ilt + a * 8
  BY DEF SlotIn, IltIn
<1>4. ASSUME NEW j \in 1 .. Len(m), i # j
      PROVE  /\ SlotIn(d, m, i) # SlotIn(d, m, j) /\ IltIn(d, m, i) # IltIn(d, m, j)
             /\ SlotIn(d, m, i) # IltIn(d, m, j)
  <2> DEFINE y == m[j].index
             b == m[j].slot
  <2>1. /\ y \in 1 .. Len(d) /\ b \in Nat /\ b < d[y].count /\ d[y].ilt \in Nat
        /\ d[y].iat \in Nat /\ d[y].count \in Nat
    BY <1>1
  <2>2. SlotIn(d, m, j) = d[y].iat + b * 8 /\ IltIn(d, m, j) = d[y].ilt + b * 8
    BY DEF SlotIn, IltIn
  <2>3. x = y => a # b
    BY <1>4, Zenon DEF SlotsApart
  <2>4. \A p, q \in 1 .. Len(d) :
          /\ p < q => /\ d[p].ilt + (8 * d[p].count + 8) <= d[q].ilt
                      /\ d[p].iat + (8 * d[p].count + 8) <= d[q].iat
          /\ d[p].ilt + (8 * d[p].count + 8) <= d[q].iat
    BY Zenon DEF TablesPlaced
  <2>5. \A s, t, u, v \in Nat : u < v /\ s + (8 * v + 8) <= t => s + u * 8 < t
    BY SlotArithmetic
  <2> HIDE DEF x, y, a, b
  <2>6. CASE x = y
    <3>1. a # b /\ d[y].iat = d[x].iat /\ d[y].ilt = d[x].ilt
      BY <2>3, <2>6
    <3>2. d[y].ilt + b * 8 < d[x].iat
      BY <1>2, <2>1, <2>4, <2>5
    <3>3. d[x].iat + a * 8 # d[x].iat + b * 8 /\ d[x].ilt + a * 8 # d[x].ilt + b * 8
      BY <1>2, <2>1, <3>1, SlotArithmetic, Zenon
    <3>4. d[x].iat + a * 8 # d[y].ilt + b * 8
      BY <1>2, <2>1, <3>2, SlotArithmetic, Zenon
    <3> QED BY <1>3, <2>2, <3>1, <3>3, <3>4
  <2>7. CASE x < y
    <3>1. d[x].iat + a * 8 < d[y].iat /\ d[x].ilt + a * 8 < d[y].ilt
      BY <1>2, <2>1, <2>4, <2>5, <2>7
    <3>2. d[y].ilt + b * 8 < d[x].iat
      BY <1>2, <2>1, <2>4, <2>5
    <3>3. /\ d[x].iat + a * 8 # d[y].iat + b * 8 /\ d[x].ilt + a * 8 # d[y].ilt + b * 8
          /\ d[x].iat + a * 8 # d[y].ilt + b * 8
      BY <1>2, <2>1, <3>1, <3>2, SlotArithmetic, Zenon
    <3> QED BY <1>3, <2>2, <3>3
  <2>8. CASE y < x
    <3>1. d[y].iat + b * 8 < d[x].iat /\ d[y].ilt + b * 8 < d[x].ilt
      BY <1>2, <2>1, <2>4, <2>5, <2>8
    <3>2. d[y].ilt + b * 8 < d[x].iat
      BY <1>2, <2>1, <2>4, <2>5
    <3>3. /\ d[x].iat + a * 8 # d[y].iat + b * 8 /\ d[x].ilt + a * 8 # d[y].ilt + b * 8
          /\ d[x].iat + a * 8 # d[y].ilt + b * 8
      BY <1>2, <2>1, <3>1, <3>2, SlotArithmetic, Zenon
    <3> QED BY <1>3, <2>2, <3>3
  <2>9. x \in Int /\ y \in Int
    BY <1>2, <2>1
  <2> QED BY <2>6, <2>7, <2>8, <2>9
<1>5. d[x].iat + (8 * d[x].count + 8) <= r.size
  BY <1>2, Zenon DEF TablesPlaced
<1>6. SlotIn(d, m, i) + 16 <= r.size \/ r.size \notin Int
  <2> HIDE DEF x, a
  <2> SUFFICES ASSUME r.size \in Int PROVE SlotIn(d, m, i) + 16 <= r.size
    OBVIOUS
  <2>1. (d[x].iat + a * 8) + 16 <= r.size
    BY <1>2, <1>5, SlotArithmetic, Zenon
  <2> QED BY <1>3, <2>1
<1>7. /\ SlotIn(d, m, i) \in Nat /\ IltIn(d, m, i) \in Nat
      /\ d[x].iat <= SlotIn(d, m, i) /\ d[x].ilt <= IltIn(d, m, i)
  <2> HIDE DEF x, a
  <2> QED BY <1>2, <1>3
<1> QED BY <1>2, <1>4, <1>6, <1>7

-----------------------------------------------------------------------------
\* The image address of a section, and what pe_finalize_imports stores.
RvaIn(l, k) == l[CHOOSE i \in {j \in 1 .. Len(l) : l[j].kind = k} : TRUE].rva
EntryIn(l, m, i) ==
  IF m[i].ordinal THEN [ordinal |-> TRUE, rva |-> i]
  ELSE [ordinal |-> FALSE, rva |-> RvaIn(l, "rdata") + m[i].hint]
JumpIn(l, d, m, i) ==
  (RvaIn(l, "rdata") + d[m[i].index].iat + m[i].slot * 8) - (RvaIn(l, "text") + m[i].thunkAt + 6)
TableOf(l, d, m) ==
  {[kind |-> "rdata", at |-> d[m[i].index].ilt + m[i].slot * 8, value |-> EntryIn(l, m, i)] :
     i \in 1 .. Len(m)}
  \cup {[kind |-> "rdata", at |-> d[m[i].index].iat + m[i].slot * 8, value |-> EntryIn(l, m, i)] :
          i \in 1 .. Len(m)}
  \cup {[kind |-> "text", at |-> m[i].thunkAt,
         value |-> [ordinal |-> FALSE, rva |-> JumpIn(l, d, m, i)]] :
          i \in {j \in 1 .. Len(m) : m[j].thunk}}
InLayout(l, k) == \E i \in 1 .. Len(l) : l[i].kind = k

FinalInv ==
  phase \in PhasesAfterFinalize /\ imports # <<>> =>
    /\ tables = TableOf(layout, dlls, imports)
    /\ InLayout(layout, "text") /\ InLayout(layout, "rdata")

LEMMA RvaOfIs == \A k : RvaOf(k) = RvaIn(layout, k) /\ (LayoutOf(k) # {} <=> InLayout(layout, k))
<1>1. \A k : RvaOf(k) = RvaIn(layout, k)
  BY Zenon DEF RvaOf, LayoutOf, RvaIn
<1>2. \A k : LayoutOf(k) # {} <=> InLayout(layout, k)
  BY DEF LayoutOf, InLayout
<1> QED BY <1>1, <1>2

LEMMA FinalizeStores ==
  ASSUME FinalizeImports, imports # <<>>, phase' = "relocate"
  PROVE  /\ tables' = TableOf(layout, dlls, imports)
         /\ InLayout(layout, "text") /\ InLayout(layout, "rdata")
<1>1. \/ phase' = "failed"
      \/ /\ LayoutOf("text") # {} /\ LayoutOf("rdata") # {}
         /\ tables' = TableOf(layout, dlls, imports)
  BY Zenon DEF FinalizeImports, Fail, TableOf, EntryIn, JumpIn, Entry, Displacement, RvaOf, RvaIn,
               LayoutOf
<1> QED BY <1>1, RvaOfIs

LEMMA FinalStep == InLink /\ FinalInv /\ [Next]_vars => FinalInv'
<1> SUFFICES ASSUME InLink, FinalInv, [Next]_vars, phase' \in PhasesAfterFinalize, imports' # <<>>
             PROVE  /\ tables' = TableOf(layout', dlls', imports')
                    /\ InLayout(layout', "text") /\ InLayout(layout', "rdata")
  BY Zenon DEF FinalInv
<1>0. PhasesAfterFinalize \subseteq PePhases /\ PhasesAfterFinalize \subseteq Stored
  BY DEF PhasesAfterFinalize, PePhases, Stored, PhasesAfterLayout
<1>1. CASE UNCHANGED vars
  <2>1. UNCHANGED <<phase, layout, dlls, imports, tables>>
    BY <1>1 DEF vars, linkvars, pevars
  <2> QED BY <2>1, Zenon DEF FinalInv
<1>2. CASE LinkNext
  BY <1>0, <1>2, LinkLeaves
<1>3. CASE PeNext
  <2>1. ~StoreImports
    <3> SUFFICES ASSUME StoreImports PROVE FALSE
      OBVIOUS
    <3>1. phase' = "unresolved"
      BY Zenon DEF StoreImports
    <3> QED BY <3>1 DEF PhasesAfterFinalize
  <2>2. Quiet
    BY <1>0, <1>3, <2>1, AfterStorage
  <2>3. dlls' = dlls /\ imports' = imports
    BY <2>2, QuietKeeps
  <2>4. CASE FinalizeImports
    <3>1. layout' = layout /\ phase' \in {"relocate", "failed"}
      BY <2>4, Zenon DEF FinalizeImports, Fail
    <3>2. phase' = "relocate"
      BY <3>1 DEF PhasesAfterFinalize
    <3> QED BY <2>3, <2>4, <3>1, <3>2, FinalizeStores
  <2>5. CASE RelocateSection
    <3>1. phase = "relocate" /\ layout' = layout /\ tables' = tables
      BY <2>5, Zenon DEF RelocateSection
    <3> QED BY <2>3, <3>1 DEF FinalInv, PhasesAfterFinalize
  <2>6. CASE RelocateNextObject \/ EndRelocate \/ WriteImage
    <3>1. phase \in {"relocate", "write"} /\ layout' = layout /\ tables' = tables
      BY <2>6 DEF RelocateNextObject, EndRelocate, WriteImage, pevars
    <3> QED BY <2>3, <3>1 DEF FinalInv, PhasesAfterFinalize
  <2>7. CASE CheckOptions \/ EndLibraries \/ EndDlls \/ EndPlan \/ ValidateUnresolved
             \/ LayoutSections \/ ApplyLayout
    BY <2>7 DEF CheckOptions, EndLibraries, EndDlls, EndPlan, ValidateUnresolved, LayoutSections,
                ApplyLayout, PhasesAfterFinalize, Fail
  <2> QED BY <2>2, <2>4, <2>5, <2>6, <2>7 DEF Quiet
<1> QED BY <1>1, <1>2, <1>3 DEF Next

SlotsDiffer(d, m, i) ==
  \A j \in 1 .. Len(m) : i # j => /\ SlotIn(d, m, i) # SlotIn(d, m, j)
                                  /\ IltIn(d, m, i) # IltIn(d, m, j)
                                  /\ SlotIn(d, m, i) # IltIn(d, m, j)
                                  /\ SlotIn(d, m, j) # IltIn(d, m, i)

SlotValues(T, d, m, i) ==
  {t.value : t \in {y \in T : y.kind = "rdata" /\ y.at \in {SlotIn(d, m, i), IltIn(d, m, i)}}}

\* Both slots of an import hold its entry and nothing else.
LEMMA SlotsHold ==
  ASSUME NEW l, NEW d, NEW m, NEW i \in 1 .. Len(m), SlotsDiffer(d, m, i)
  PROVE  SlotValues(TableOf(l, d, m), d, m, i) = {EntryIn(l, m, i)}
<1> DEFINE T == TableOf(l, d, m)
           Ilt(j) == [kind |-> "rdata", at |-> IltIn(d, m, j), value |-> EntryIn(l, m, j)]
           Iat(j) == [kind |-> "rdata", at |-> SlotIn(d, m, j), value |-> EntryIn(l, m, j)]
           Stub(j) == [kind |-> "text", at |-> m[j].thunkAt,
                       value |-> [ordinal |-> FALSE, rva |-> JumpIn(l, d, m, j)]]
           X == {x \in T : x.kind = "rdata" /\ x.at \in {SlotIn(d, m, i), IltIn(d, m, i)}}
<1>1. T = {Ilt(j) : j \in 1 .. Len(m)} \cup {Iat(j) : j \in 1 .. Len(m)}
          \cup {Stub(j) : j \in {k \in 1 .. Len(m) : m[k].thunk}}
  BY Zenon DEF TableOf, SlotIn, IltIn
<1>2. \A j : /\ Ilt(j).kind = "rdata" /\ Ilt(j).at = IltIn(d, m, j) /\ Ilt(j).value = EntryIn(l, m, j)
             /\ Iat(j).kind = "rdata" /\ Iat(j).at = SlotIn(d, m, j) /\ Iat(j).value = EntryIn(l, m, j)
             /\ Stub(j).kind = "text"
  OBVIOUS
<1> HIDE DEF T, Ilt, Iat, Stub
<1>3. Ilt(i) \in T
  BY <1>1
<1>4. Ilt(i) \in X
  BY <1>2, <1>3
<1>5. ASSUME NEW t \in X PROVE t.value = EntryIn(l, m, i)
  <2>1. t \in T /\ t.kind = "rdata" /\ t.at \in {SlotIn(d, m, i), IltIn(d, m, i)}
    OBVIOUS
  <2>2. PICK j \in 1 .. Len(m) : t = Ilt(j) \/ t = Iat(j) \/ t = Stub(j)
    BY <1>1, <2>1
  <2>3. t # Stub(j)
    BY <1>2, <2>1
  <2>4. t.at \in {SlotIn(d, m, j), IltIn(d, m, j)} /\ t.value = EntryIn(l, m, j)
    BY <1>2, <2>2, <2>3
  <2>5. i = j
    BY <2>1, <2>4 DEF SlotsDiffer
  <2> QED BY <2>4, <2>5
<1>6. Ilt(i).value = EntryIn(l, m, i)
  BY <1>2
<1> HIDE DEF X
<1>7. {t.value : t \in X} = {EntryIn(l, m, i)}
  BY <1>4, <1>5, <1>6
<1> QED BY <1>7, Zenon DEF T, X, SlotValues

LEMMA StubIn ==
  ASSUME NEW l, NEW d, NEW m, NEW i \in 1 .. Len(m), m[i].thunk
  PROVE  [kind |-> "text", at |-> m[i].thunkAt,
          value |-> [ordinal |-> FALSE, rva |-> JumpIn(l, d, m, i)]] \in TableOf(l, d, m)
BY DEF TableOf

\* The address of a section that is in the image.
LEMMA RvaNat ==
  ASSUME NEW l, NEW mm, NEW rva, NEW raw, LaidOutAs(l, mm, rva, raw), NEW k, InLayout(l, k)
  PROVE  RvaIn(l, k) \in Nat
<1> DEFINE S == {j \in 1 .. Len(l) : l[j].kind = k}
           i == CHOOSE i \in S : TRUE
<1>1. S # {}
  BY DEF InLayout
<1>2. i \in S
  BY <1>1, Zenon
<1>3. RvaIn(l, k) = l[i].rva
  BY Zenon DEF RvaIn
<1> HIDE DEF i
<1>4. i \in 1 .. Len(l)
  BY <1>2
<1>5. /\ Len(l) \in Nat /\ \A j \in 1 .. Len(l) : l[j].rva = rva[j - 1]
      /\ \A j \in 0 .. Len(l) : rva[j] \in Nat
  BY Zenon DEF LaidOutAs
<1>6. i - 1 \in 0 .. Len(l)
  BY <1>4, <1>5
<1> QED BY <1>3, <1>4, <1>5, <1>6

\* Slots apart, tables apart and the entries stored are all there is to it.
LEMMA TablesSound == PeTypes /\ LayoutInv /\ StoredInv /\ FinalInv => ImportTablesSound
<1> SUFFICES ASSUME PeTypes, LayoutInv, StoredInv, FinalInv, phase \in PhasesAfterFinalize,
                    NEW i \in 1 .. Len(imports)
             PROVE  /\ imports[i].slot < dlls[imports[i].index].count
                    /\ \A j \in 1 .. Len(imports) : i # j =>
                         /\ IatSlot(i) # IatSlot(j) /\ IltSlot(i) # IltSlot(j)
                         /\ IatSlot(i) # IltSlot(j)
                    /\ {t.value : t \in {x \in tables : x.kind = "rdata"
                                                        /\ x.at \in {IatSlot(i), IltSlot(i)}}}
                         = {Entry(i)}
                    /\ \A k \in 1 .. Len(merged["rdata"].parts) :
                         LET p == merged["rdata"].parts[k]
                         IN  p.offset + p.used <= IltSlot(i) /\ p.offset + p.used <= IatSlot(i)
                    /\ IatSlot(i) + 16 <= merged["rdata"].size
                    /\ imports[i].thunk =>
                         \E t \in tables :
                           /\ t.kind = "text" /\ t.at = imports[i].thunkAt
                           /\ RvaOf("text") + t.at + 6 + t.value.rva = RvaOf("rdata") + IatSlot(i)
  BY Zenon DEF ImportTablesSound
<1> DEFINE d == dlls
           m == imports
           r == merged["rdata"]
           x == m[i].index
<1>1. /\ d \in Seq(DllRecord) /\ m \in Seq(ImportRecord) /\ SlotsApart(d, m) /\ m # <<>>
  BY DEF PeTypes, PlanTyped
<1>2. phase \in Stored /\ phase \in PhasesAfterLayout
  BY DEF PhasesAfterFinalize, Stored, PhasesAfterLayout
<1>3. TablesPlaced(d, r)
  BY <1>1, <1>2, Zenon DEF StoredInv
<1>4. tables = TableOf(layout, d, m) /\ InLayout(layout, "text") /\ InLayout(layout, "rdata")
  BY <1>1, Zenon DEF FinalInv
<1>5. /\ \A j : IatSlot(j) = SlotIn(d, m, j) /\ IltSlot(j) = IltIn(d, m, j)
      /\ Entry(i) = EntryIn(layout, m, i)
      /\ \A k : RvaOf(k) = RvaIn(layout, k)
  <2>1. \A j : IatSlot(j) = SlotIn(d, m, j) /\ IltSlot(j) = IltIn(d, m, j)
    BY Zenon DEF IatSlot, SlotIn, IltSlot, IltIn
  <2>2. Entry(i) = EntryIn(layout, m, i)
    BY RvaOfIs, Zenon DEF Entry, EntryIn
  <2> QED BY <2>1, <2>2, RvaOfIs
<1>6. r \in Merged /\ r.size \in Int
  BY DEF PeTypes, MergeInv, SectionSound, MergedKinds, Merged
<1>p. \A k \in 1 .. Len(r.parts) : r.parts[k].offset \in Nat /\ r.parts[k].used \in Nat
  <2> SUFFICES ASSUME NEW k \in 1 .. Len(r.parts)
               PROVE  r.parts[k].offset \in Nat /\ r.parts[k].used \in Nat
    OBVIOUS
  <2>1. r.parts \in Parts
    BY <1>6 DEF Merged
  <2> HIDE DEF r
  <2>2. r.parts[k] \in [id : Nat \X Nat, offset : Nat, used : Nat, align : Nat \ {0}]
    BY <2>1, SeqElement, Zenon DEF Parts
  <2> QED BY <2>2
<1>t. m[i].thunkAt \in Nat /\ m[i].thunk \in BOOLEAN
  <2>1. m[i] \in ImportRecord
    BY <1>1, SeqElement, Zenon
  <2> QED BY <2>1 DEF ImportRecord
<1>q. RvaIn(layout, "text") \in Nat /\ RvaIn(layout, "rdata") \in Nat
  <2>1. PICK rva, raw : LaidOutAs(layout, merged, rva, raw)
    BY <1>2, Zenon DEF LayoutInv
  <2> QED BY <1>4, <2>1, RvaNat
<1> HIDE DEF d, m, r
<1>7. ASSUME NEW n \in 1 .. Len(m)
      PROVE  /\ m[n].slot \in Nat /\ m[n].slot < d[m[n].index].count
             /\ SlotIn(d, m, n) \in Nat /\ IltIn(d, m, n) \in Nat
             /\ d[m[n].index].iat <= SlotIn(d, m, n) /\ d[m[n].index].ilt <= IltIn(d, m, n)
             /\ d[m[n].index].iat \in Nat /\ d[m[n].index].ilt \in Nat
             /\ \A j \in 1 .. Len(m) : n # j => /\ SlotIn(d, m, n) # SlotIn(d, m, j)
                                                /\ IltIn(d, m, n) # IltIn(d, m, j)
                                                /\ SlotIn(d, m, n) # IltIn(d, m, j)
             /\ SlotIn(d, m, n) + 16 <= r.size \/ r.size \notin Int
  BY <1>1, <1>3, SlotsSound
<1>8. i \in 1 .. Len(m)
  BY DEF m
<1>9. x \in 1 .. Len(d)
  BY <1>1, <1>8 DEF SlotsApart
<1>a. ASSUME NEW k \in 1 .. Len(r.parts)
      PROVE  /\ r.parts[k].offset + r.parts[k].used <= IltIn(d, m, i)
             /\ r.parts[k].offset + r.parts[k].used <= SlotIn(d, m, i)
  <2>1. /\ r.parts[k].offset + r.parts[k].used <= d[x].ilt
        /\ r.parts[k].offset + r.parts[k].used <= d[x].iat
    BY <1>3, <1>9, Zenon DEF TablesPlaced
  <2>2. \A a, b, c, e \in Nat : a + b <= c /\ c <= e => a + b <= e
    OBVIOUS
  <2>3. /\ r.parts[k].offset \in Nat /\ r.parts[k].used \in Nat /\ d[x].ilt \in Nat /\ d[x].iat \in Nat
        /\ d[x].ilt <= IltIn(d, m, i) /\ d[x].iat <= SlotIn(d, m, i)
        /\ IltIn(d, m, i) \in Nat /\ SlotIn(d, m, i) \in Nat
    BY <1>p, <1>7, <1>8
  <2> HIDE DEF x
  <2> QED BY <2>1, <2>2, <2>3, Zenon
<1>b. {t.value : t \in {y \in tables : y.kind = "rdata"
                                       /\ y.at \in {SlotIn(d, m, i), IltIn(d, m, i)}}}
        = {EntryIn(layout, m, i)}
  <2>1. SlotsDiffer(d, m, i)
    BY <1>7, <1>8 DEF SlotsDiffer
  <2>2. SlotValues(tables, d, m, i) = {EntryIn(layout, m, i)}
    <3>1. tables = TableOf(layout, d, m)
      BY <1>4
    <3>2. SlotValues(TableOf(layout, d, m), d, m, i) = {EntryIn(layout, m, i)}
      <4> HIDE DEF x
      <4> QED BY <1>8, <2>1, SlotsHold
    <3> QED BY <3>1, <3>2, Zenon
  <2> QED BY <2>2, Zenon DEF SlotValues
<1>c. ASSUME m[i].thunk
      PROVE  \E t \in tables :
               /\ t.kind = "text" /\ t.at = m[i].thunkAt
               /\ RvaIn(layout, "text") + t.at + 6 + t.value.rva
                    = RvaIn(layout, "rdata") + SlotIn(d, m, i)
  <2> DEFINE t == [kind |-> "text", at |-> m[i].thunkAt,
                   value |-> [ordinal |-> FALSE, rva |-> JumpIn(layout, d, m, i)]]
  <2>1. t \in tables
    BY <1>4, <1>8, <1>c, StubIn, Zenon
  <2>2. t.kind = "text" /\ t.at = m[i].thunkAt /\ t.value.rva = JumpIn(layout, d, m, i)
    OBVIOUS
  <2>3. JumpIn(layout, d, m, i)
          = (RvaIn(layout, "rdata") + d[x].iat + m[i].slot * 8)
            - (RvaIn(layout, "text") + m[i].thunkAt + 6)
    BY DEF JumpIn
  <2>4. SlotIn(d, m, i) = d[x].iat + m[i].slot * 8
    BY DEF SlotIn
  <2>5. \A a, b, c, e, f \in Nat :
          b + e + 6 + ((a + c + f * 8) - (b + e + 6)) = a + (c + f * 8)
    OBVIOUS
  <2>6. RvaIn(layout, "text") + m[i].thunkAt + 6 + JumpIn(layout, d, m, i)
          = RvaIn(layout, "rdata") + SlotIn(d, m, i)
    <3>1. d[x].iat \in Nat /\ m[i].slot \in Nat
      BY <1>7, <1>8
    <3> DEFINE a == RvaIn(layout, "rdata")
               b == RvaIn(layout, "text")
               c == d[x].iat
               e == m[i].thunkAt
               f == m[i].slot
    <3>2. a \in Nat /\ b \in Nat /\ c \in Nat /\ e \in Nat /\ f \in Nat
      BY <1>q, <1>t, <3>1
    <3>3. JumpIn(layout, d, m, i) = (a + c + f * 8) - (b + e + 6) /\ SlotIn(d, m, i) = c + f * 8
      BY <2>3, <2>4, Zenon
    <3> HIDE DEF a, b, c, e, f
    <3>4. b + e + 6 + ((a + c + f * 8) - (b + e + 6)) = a + (c + f * 8)
      BY <2>5, <3>2
    <3>5. b + e + 6 + JumpIn(layout, d, m, i) = a + SlotIn(d, m, i)
      BY <3>3, <3>4, Zenon
    <3> QED BY <3>5, Zenon DEF a, b, e
  <2> HIDE DEF t
  <2> QED BY <2>1, <2>2, <2>6
<1>d. m[i].slot < d[m[i].index].count /\ SlotIn(d, m, i) + 16 <= r.size
  BY <1>6, <1>7, <1>8
<1>e. \A j \in 1 .. Len(m) : i # j =>
        /\ SlotIn(d, m, i) # SlotIn(d, m, j) /\ IltIn(d, m, i) # IltIn(d, m, j)
        /\ SlotIn(d, m, i) # IltIn(d, m, j)
  BY <1>7, <1>8
<1> QED BY <1>5, <1>a, <1>b, <1>c, <1>d, <1>e, Zenon DEF d, m, r

\* What holds of the second half of the link so far.
PeInv == /\ PeTypes /\ InLink /\ LayoutInv /\ SettledInv /\ HandedInv /\ StoredInv /\ FinalInv

LEMMA PeInvInit == Init => PeInv
<1> SUFFICES ASSUME Init PROVE PeInv
  OBVIOUS
<1>1. phase = "load"
  BY DEF Init, LinkInit
<1>2. SettledInv /\ HandedInv /\ StoredInv /\ FinalInv
  BY <1>1 DEF SettledInv, HandedInv, StoredInv, FinalInv, PePhases, BeforeStorage, Stored,
              PhasesAfterLayout, PhasesAfterFinalize
<1> QED BY <1>2, PeTypesInit, InLinkInit, LayoutInit DEF PeInv

LEMMA PeInvStep == PeInv /\ [Next]_vars => PeInv'
BY PeTypesStep, InLinkStep, LayoutStep, SettledStep, StoredStep, FinalStep DEF PeInv

LEMMA PeInvariant == Spec => []PeInv
BY PeInvInit, PeInvStep, PTL DEF Spec

\* Every import has a slot of its own in both tables, behind the object files'
\* bytes and in front of the entry that ends its table, both hold its entry, and
\* its thunk jumps through its slot, for any object files, libraries and DLLs
\* (pe_emit_import_storage, pe_finalize_imports).
THEOREM TablesProved == Spec => []ImportTablesSound
<1>1. PeInv => ImportTablesSound
  BY TablesSound DEF PeInv
<1> QED BY <1>1, PeInvariant, PTL

-----------------------------------------------------------------------------
\* Relocation.  What a symbol that counts as defined says of its own object.
LEMMA SymbolTyped ==
  ASSUME objects \in Seq(ObjectFiles), NEW id \in SymbolIds(objects)
  PROVE  /\ SymbolAt(id) \in SymbolRecord /\ SymbolAt(id).section \in Int
         /\ SymbolAt(id).value \in Nat /\ SymbolAt(id).name \in STRING
         /\ Len(objects[id[1]].sections) \in Nat
         /\ \A s \in 1 .. Len(objects[id[1]].sections) : <<id[1], s>> \in SectionIds(objects)
<1>1. /\ id[1] \in 1 .. Len(objects) /\ id[2] \in 1 .. Len(objects[id[1]].symbols)
      /\ Len(objects[id[1]].sections) \in Nat
  BY Ids
<1>2. objects[id[1]].symbols \in Seq(SymbolRecord)
  BY <1>1, FilesAssumption
<1>3. SymbolAt(id) \in SymbolRecord
  BY <1>1, <1>2 DEF SymbolAt
<1>4. \A x \in SymbolRecord : x.section \in Int /\ x.value \in Nat /\ x.name \in STRING
  BY DEF SymbolRecord
<1>5. \A s \in 1 .. Len(objects[id[1]].sections) : <<id[1], s>> \in SectionIds(objects)
  BY <1>1 DEF SectionIds
<1> QED BY <1>1, <1>3, <1>4, <1>5

\* Where the section of a symbol was placed.
HomeOf(id) == place[<<id[1], SymbolAt(id).section>>]

LEMMA OwnDefined ==
  ASSUME objects \in Seq(ObjectFiles), Settled, NEW id \in SymbolIds(objects),
         ~SymbolAt(id).auxiliary
  PROVE  /\ syms[id].defined <=> OwnDefinition(id)
         /\ syms[id].name = SymbolAt(id).name
         /\ OwnDefinition(id) => /\ HomeOf(id) \in Places /\ HomeOf(id).kind \in MergedKinds
                                 /\ syms[id].kind = HomeOf(id).kind
                                 /\ syms[id].offset = HomeOf(id).offset + SymbolAt(id).value
<1> DEFINE symbol == SymbolAt(id)
           p == PlaceOf(id[1], symbol)
           h == HomeOf(id)
<1>1. /\ syms[id] = Resolved(id[1], symbol) /\ InsideTable(id)
      /\ place \in [SectionIds(objects) -> Places]
  BY Zenon DEF Settled
<1>2. /\ syms[id].name = symbol.name
      /\ syms[id].defined = (~symbol.auxiliary /\ p.kind # "none")
      /\ syms[id].kind = IF ~symbol.auxiliary /\ p.kind # "none" THEN p.kind ELSE "none"
      /\ syms[id].offset = IF ~symbol.auxiliary /\ p.kind # "none" THEN p.offset + symbol.value ELSE 0
  BY <1>1 DEF Resolved, ObjectSymbol
<1>3. symbol.section \in Int /\ Len(objects[id[1]].sections) \in Nat
      /\ \A s \in 1 .. Len(objects[id[1]].sections) : <<id[1], s>> \in SectionIds(objects)
  BY SymbolTyped
<1>4. CASE symbol.section > 0
  <2>1. p = h
    BY <1>4 DEF PlaceOf, HomeOf
  <2>2. symbol.section \in 1 .. Len(objects[id[1]].sections)
    BY <1>1, <1>3, <1>4 DEF InsideTable
  <2>3. h \in Places
    BY <1>1, <1>3, <2>2 DEF HomeOf
  <2>4. OwnDefinition(id) <=> h.kind # "none"
    BY <1>4, Zenon DEF OwnDefinition, HomeOf
  <2>5. h.kind # "none" => h.kind \in MergedKinds
    BY <2>3 DEF Places
  <2> HIDE DEF p, h, symbol
  <2>6. ~symbol.auxiliary
    BY DEF symbol
  <2>7. /\ syms[id].defined <=> h.kind # "none"
        /\ h.kind # "none" => syms[id].kind = h.kind /\ syms[id].offset = h.offset + symbol.value
    BY <1>2, <2>1, <2>6
  <2> QED BY <1>2, <2>3, <2>4, <2>5, <2>7 DEF h, symbol
<1>5. CASE ~(symbol.section > 0)
  <2>1. p.kind = "none"
    BY <1>5 DEF PlaceOf, Unplaced
  <2>2. ~OwnDefinition(id)
    BY <1>5 DEF OwnDefinition
  <2> HIDE DEF p
  <2> QED BY <1>2, <2>1, <2>2
<1> QED BY <1>4, <1>5

\* relocation_resolve_target finds what a reader of the object files and of the
\* plan would: t is the target's section and its offset there.
Leads(t, id) ==
  /\ t.kind = FinalKind(id) /\ t.kind \in MergedKinds /\ t.offset \in Nat
  /\ RvaIn(layout, t.kind) \in Nat => RvaIn(layout, t.kind) + t.offset = FinalRva(id)

\* A definition found at its home.
LEMMA HomeLeads ==
  ASSUME objects \in Seq(ObjectFiles), NEW id \in SymbolIds(objects),
         HomeOf(id) \in Places, NEW t,
         t.kind = HomeOf(id).kind, t.offset = HomeOf(id).offset + SymbolAt(id).value
  PROVE  /\ t.offset \in Nat
         /\ RvaIn(layout, t.kind) \in Nat => RvaIn(layout, t.kind) + t.offset = PlacedAt(id)
<1> DEFINE a == RvaIn(layout, t.kind)
           b == HomeOf(id).offset
           c == SymbolAt(id).value
<1>1. b \in Nat /\ c \in Nat /\ t.offset = b + c
  BY SymbolTyped DEF Places
<1>2. PlacedAt(id) = a + b + c
  BY RvaOfIs, Zenon DEF PlacedAt, HomeOf
<1> HIDE DEF a, b, c
<1>3. a \in Nat => a + (b + c) = a + b + c
  BY <1>1
<1> QED BY <1>1, <1>2, <1>3 DEF a

LEMMA OwnLeads ==
  ASSUME objects \in Seq(ObjectFiles), Settled, NEW id \in SymbolIds(objects),
         ~SymbolAt(id).auxiliary, OwnDefinition(id), NEW t,
         t.kind = syms[id].kind, t.offset = syms[id].offset
  PROVE  Leads(t, id)
<1>1. /\ HomeOf(id) \in Places /\ HomeOf(id).kind \in MergedKinds
      /\ t.kind = HomeOf(id).kind /\ t.offset = HomeOf(id).offset + SymbolAt(id).value
  BY OwnDefined
<1>2. t.offset \in Nat /\ (RvaIn(layout, t.kind) \in Nat
                             => RvaIn(layout, t.kind) + t.offset = PlacedAt(id))
  BY <1>1, HomeLeads
<1>3. FinalKind(id) = HomeOf(id).kind /\ FinalRva(id) = PlacedAt(id)
  BY Zenon DEF FinalKind, FinalRva, HomeOf
<1> QED BY <1>1, <1>2, <1>3, Zenon DEF Leads

\* A name that one object defines.
LEMMA DefinitionLeads ==
  ASSUME objects \in Seq(ObjectFiles), Settled, NEW id \in SymbolIds(objects), ~OwnDefinition(id),
         NEW e, EntrySays(e, Defining, Names, syms), e.defined, e.name = SymbolAt(id).name,
         NEW t, t.kind = e.kind, t.offset = e.offset
  PROVE  Leads(t, id)
<1> DEFINE D == Definitions(SymbolAt(id).name)
           w == e.owner
<1>1. \A x : x \in D <=> x \in Defining /\ Names[x] = e.name
  BY DefinitionsByName, Zenon
<1>2. /\ \E x \in Defining : Names[x] = e.name
      /\ \A x \in Defining : Names[x] = e.name => e.owner = x
      /\ e.offset = syms[e.owner].offset /\ e.kind = syms[e.owner].kind
  BY Zenon DEF EntrySays
<1>3. w \in D /\ \A x \in D : x = w
  BY <1>1, <1>2, Zenon
<1>4. (CHOOSE d \in D : TRUE) = w /\ D # {}
  <2> HIDE DEF D, w
  <2>1. D # {}
    BY <1>3
  <2>2. (CHOOSE d \in D : TRUE) \in D
    BY <2>1, Zenon
  <2> QED BY <1>3, <2>1, <2>2, Zenon
<1>5. FinalRva(id) = PlacedAt(CHOOSE d \in D : TRUE)
  BY <1>4, Zenon DEF FinalRva
<1>6. FinalKind(id) = HomeOf(CHOOSE d \in D : TRUE).kind
  BY <1>4, Zenon DEF FinalKind, HomeOf
<1>7. /\ w \in SymbolIds(objects) /\ ~SymbolAt(w).auxiliary
      /\ SymbolAt(w).section \in 1 .. Len(objects[w[1]].sections)
      /\ objects[w[1]].sections[SymbolAt(w).section].kind \in MergedKinds
  <2>1. w \in ExternalSymbols
        /\ SymbolAt(w).section \in 1 .. Len(objects[w[1]].sections)
        /\ objects[w[1]].sections[SymbolAt(w).section].kind \in MergedKinds
    BY <1>3, Zenon DEF Definitions
  <2> HIDE DEF w
  <2>2. w \in SymbolIds(objects) /\ ~SymbolAt(w).auxiliary
    BY <2>1, Zenon DEF ExternalSymbols, SymbolAt
  <2> QED BY <2>1, <2>2
<1> HIDE DEF D, w
<1>8. OwnDefinition(w)
  <2> DEFINE home == <<w[1], SymbolAt(w).section>>
  <2>1. home \in SectionIds(objects)
    BY <1>7, SymbolTyped
  <2>2. home[1] = w[1] /\ home[2] = SymbolAt(w).section
    OBVIOUS
  <2>3. place[home].kind = SectionAt(home).kind
    BY <2>1, Zenon DEF Settled
  <2>4. SectionAt(home) = objects[w[1]].sections[SymbolAt(w).section]
    <3> HIDE DEF home
    <3> QED BY <2>2, Zenon DEF SectionAt
  <2>5. place[home].kind # "none"
    <3> HIDE DEF home
    <3> QED BY <1>7, <2>3, <2>4 DEF MergedKinds
  <2>6. SymbolAt(w).section > 0
    BY <1>7, SymbolTyped
  <2> QED BY <2>5, <2>6 DEF OwnDefinition
<1>9. /\ HomeOf(w) \in Places /\ HomeOf(w).kind \in MergedKinds
      /\ t.kind = HomeOf(w).kind /\ t.offset = HomeOf(w).offset + SymbolAt(w).value
  <2>1. t.kind = syms[w].kind /\ t.offset = syms[w].offset
    BY <1>2 DEF w
  <2> QED BY <1>7, <1>8, <2>1, OwnDefined
<1>10. t.offset \in Nat /\ (RvaIn(layout, t.kind) \in Nat
                              => RvaIn(layout, t.kind) + t.offset = PlacedAt(w))
  BY <1>7, <1>9, HomeLeads
<1>11. FinalRva(id) = PlacedAt(w) /\ FinalKind(id) = HomeOf(w).kind
  BY <1>4, <1>5, <1>6
<1> QED BY <1>9, <1>10, <1>11, Zenon DEF Leads

\* A name that none defines and an import supplies.
LEMMA ImportLeads ==
  ASSUME NEW id, ~OwnDefinition(id), Definitions(SymbolAt(id).name) = {}, NEW i,
         i = ImportIn(imports, SymbolAt(id).name), NEW t,
         t.kind = (IF IsImp(SymbolAt(id).name) THEN "rdata" ELSE "text"),
         t.offset = (IF IsImp(SymbolAt(id).name) THEN SlotIn(dlls, imports, i)
                     ELSE imports[i].thunkAt),
         t.offset \in Nat
  PROVE  Leads(t, id)
<1> DEFINE name == SymbolAt(id).name
<1>1. i = ImportOf(name)
  BY ImportOfIs, Zenon
<1>2. IatSlot(i) = SlotIn(dlls, imports, i)
  BY Zenon DEF IatSlot, SlotIn
<1>3. /\ FinalKind(id) = IF IsImp(name) THEN "rdata" ELSE "text"
      /\ FinalRva(id) = IF IsImp(name) THEN RvaOf("rdata") + IatSlot(i)
                        ELSE RvaOf("text") + imports[i].thunkAt
  BY <1>1, Zenon DEF FinalKind, FinalRva
<1>4. RvaOf("rdata") = RvaIn(layout, "rdata") /\ RvaOf("text") = RvaIn(layout, "text")
  BY RvaOfIs
<1>5. CASE IsImp(name)
  <2>1. t.kind = "rdata" /\ t.offset = SlotIn(dlls, imports, i)
    BY <1>5
  <2>2. FinalKind(id) = "rdata" /\ FinalRva(id) = RvaIn(layout, "rdata") + SlotIn(dlls, imports, i)
    BY <1>2, <1>3, <1>4, <1>5
  <2> QED BY <2>1, <2>2 DEF Leads, MergedKinds
<1>6. CASE ~IsImp(name)
  <2>1. t.kind = "text" /\ t.offset = imports[i].thunkAt
    BY <1>6
  <2>2. FinalKind(id) = "text" /\ FinalRva(id) = RvaIn(layout, "text") + imports[i].thunkAt
    BY <1>3, <1>4, <1>6
  <2> QED BY <2>1, <2>2 DEF Leads, MergedKinds
<1> QED BY <1>5, <1>6

\* A name of the table: defined by an object or bound to an import.
LEMMA GlobalLeads ==
  ASSUME objects \in Seq(ObjectFiles), globals \in Seq(GlobalRecord), Settled,
         NEW g, Handed(g), BoundTable(globals, g, dlls, imports),
         NEW id \in SymbolIds(objects), ~OwnDefinition(id),
         NEW i \in 1 .. Len(globals), globals[i].name = SymbolAt(id).name, globals[i].defined,
         NEW t, t.kind = globals[i].kind, t.offset = globals[i].offset
  PROVE  Leads(t, id)
<1> DEFINE e == g[i]
<1>1. /\ g \in Seq(GlobalRecord) /\ i \in 1 .. Len(g) /\ globals[i] = BoundEntry(e, dlls, imports)
  BY Zenon DEF BoundTable
<1>2. EntrySays(e, Defining, Names, syms)
  BY <1>1, Zenon DEF Handed, TableSays
<1>3. e \in GlobalRecord /\ globals[i] \in GlobalRecord
  BY <1>1, SeqElement, Zenon
<1> HIDE DEF e
<1>4. globals[i].offset \in Nat
  BY <1>3 DEF GlobalRecord
<1>5. CASE e.defined
  <2>1. globals[i] = e
    BY <1>1, <1>5, Zenon DEF BoundEntry
  <2> QED BY <1>2, <1>5, <2>1, DefinitionLeads
<1>6. CASE ~e.defined
  <2>1. ImportIn(imports, e.name) # 0
    BY <1>1, <1>6, Zenon DEF BoundEntry
  <2> DEFINE k == ImportIn(imports, e.name)
             kind == IF IsImp(e.name) THEN "rdata" ELSE "text"
             offset == IF IsImp(e.name) THEN SlotIn(dlls, imports, k) ELSE imports[k].thunkAt
  <2>2. globals[i] = [e EXCEPT !.defined = TRUE, !.kind = kind, !.offset = offset]
    BY <1>1, <1>6, <2>1, Zenon DEF BoundEntry
  <2> HIDE DEF kind, offset
  <2>3. globals[i].name = e.name /\ globals[i].kind = kind /\ globals[i].offset = offset
    BY <1>3, <2>2 DEF GlobalRecord
  <2>4. Definitions(SymbolAt(id).name) = {}
    <3>1. ~\E x \in Defining : Names[x] = e.name
      BY <1>2, <1>6, Zenon DEF EntrySays
    <3>2. \A x : x \notin Definitions(SymbolAt(id).name)
      BY <2>3, <3>1, DefinitionsByName, Zenon
    <3> QED BY <3>2
  <2>5. /\ k = ImportIn(imports, SymbolAt(id).name)
        /\ t.kind = IF IsImp(SymbolAt(id).name) THEN "rdata" ELSE "text"
        /\ t.offset = IF IsImp(SymbolAt(id).name) THEN SlotIn(dlls, imports, k)
                      ELSE imports[k].thunkAt
        /\ t.offset \in Nat
    BY <1>4, <2>3 DEF kind, offset
  <2> HIDE DEF k
  <2> QED BY <2>4, <2>5, ImportLeads
<1> QED BY <1>5, <1>6

LEMMA TargetLeads ==
  ASSUME PeTypes, Settled, NEW g, Handed(g), BoundTable(globals, g, dlls, imports),
         NEW o, NEW s, Target(o, s).found
  PROVE  Leads(Target(o, s), <<o, s>>) /\ <<o, s>> \in SymbolIds(objects)
<1> DEFINE id == <<o, s>>
           t == Target(o, s)
           k == GlobalIndex(syms[id].name)
<1>0. objects \in Seq(ObjectFiles) /\ globals \in Seq(GlobalRecord) /\ DOMAIN syms = SymbolIds(objects)
  BY DEF PeTypes, MergeInv, Settled
<1>1. /\ id \in DOMAIN syms /\ ~syms[id].auxiliary
      /\ \/ syms[id].defined /\ t = [found |-> TRUE, kind |-> syms[id].kind, offset |-> syms[id].offset]
         \/ ~syms[id].defined /\ t = TargetGlobal(o, s)
  BY DEF Target, NoTarget
<1>2. syms[id] = Resolved(id[1], SymbolAt(id))
  BY <1>0, <1>1, Zenon DEF Settled
<1>3. ~SymbolAt(id).auxiliary
  BY <1>1, <1>2 DEF Resolved, ObjectSymbol
<1> HIDE DEF t, id
<1>4. id \in SymbolIds(objects)
  BY <1>0, <1>1
<1>5. /\ syms[id].defined <=> OwnDefinition(id)
      /\ syms[id].name = SymbolAt(id).name
  BY <1>0, <1>3, <1>4, OwnDefined
<1>6. CASE syms[id].defined
  <2>1. t.kind = syms[id].kind /\ t.offset = syms[id].offset
    BY <1>1, <1>6
  <2>2. Leads(t, id)
    BY <1>0, <1>3, <1>4, <1>5, <1>6, <2>1, OwnLeads
  <2> QED BY <1>4, <2>2 DEF t, id
<1>7. CASE ~syms[id].defined
  <2>1. t = IF k = 0 \/ ~globals[k].defined THEN NoTarget
            ELSE [found |-> TRUE, kind |-> globals[k].kind, offset |-> globals[k].offset]
    BY <1>1, <1>7, Zenon DEF TargetGlobal, id
  <2>2. \/ k = 0
        \/ k \in 1 .. Len(globals) /\ globals[k].name = syms[id].name
    BY <1>0, FoundIndex
  <2> HIDE DEF k
  <2>3. /\ k \in 1 .. Len(globals) /\ globals[k].name = SymbolAt(id).name /\ globals[k].defined
        /\ t.kind = globals[k].kind /\ t.offset = globals[k].offset
    <3>1. t.found
      BY DEF t
    <3>2. NoTarget.found = FALSE
      BY DEF NoTarget
    <3> QED BY <1>5, <2>1, <2>2, <3>1, <3>2
  <2>4. Leads(t, id)
    BY <1>0, <1>4, <1>5, <1>7, <2>3, GlobalLeads
  <2> QED BY <1>4, <2>4 DEF t, id
<1> QED BY <1>6, <1>7

-----------------------------------------------------------------------------
\* The addresses relocations use are those of the image.
Addressed == {"finalize", "relocate", "write", "linked"}
AddressIn(l, k) == IF InLayout(l, k) THEN ImageBase + RvaIn(l, k) ELSE 0
AddressInv == phase \in Addressed => \A k \in MergedKinds : address[k] = AddressIn(layout, k)

\* The relocations of section id have all been applied, with the patches ps.
Applied(id) ==
  SectionAt(id).kind # "none" =>
    \A n \in DOMAIN SectionAt(id).relocs :
      LET done == PatchOf(id[1], id[2], SectionAt(id).relocs[n])
      IN  done # {} /\ done \subseteq patches
RelocInv ==
  phase \in PhasesAfterFinalize =>
    \A id \in SectionIds(objects) : (phase # "relocate" \/ Passed(id)) => Applied(id)

\* What happens once the layout is applied.
LEMMA AfterApply ==
  ASSUME PeNext, phase' \in Addressed
  PROVE  \/ ApplyLayout
         \/ /\ phase \in Addressed /\ UNCHANGED <<layout, address>>
            /\ FinalizeImports \/ RelocateSection \/ RelocateNextObject \/ EndRelocate \/ WriteImage
<1>0. Addressed \subseteq Stored
  BY DEF Addressed, Stored, PhasesAfterLayout
<1>1. ~StoreImports
  <2> SUFFICES ASSUME StoreImports PROVE FALSE
    OBVIOUS
  <2>1. phase' = "unresolved"
    BY Zenon DEF StoreImports
  <2> QED BY <2>1 DEF Addressed
<1>2. Quiet
  BY <1>0, <1>1, AfterStorage
<1>3. CASE CheckOptions \/ EndLibraries \/ EndDlls \/ EndPlan \/ ValidateUnresolved \/ LayoutSections
  BY <1>3 DEF CheckOptions, EndLibraries, EndDlls, EndPlan, ValidateUnresolved, LayoutSections,
              Addressed, Fail
<1>4. CASE FinalizeImports
  <2>1. phase = "finalize" /\ layout' = layout /\ address' = address
    BY <1>4, Zenon DEF FinalizeImports
  <2> QED BY <1>4, <2>1 DEF Addressed
<1>5. CASE RelocateSection
  <2>1. phase = "relocate" /\ layout' = layout /\ address' = address
    BY <1>5, Zenon DEF RelocateSection
  <2> QED BY <1>5, <2>1 DEF Addressed
<1>6. CASE RelocateNextObject \/ EndRelocate \/ WriteImage
  <2>1. phase \in {"relocate", "write"} /\ layout' = layout /\ address' = address
    BY <1>6 DEF RelocateNextObject, EndRelocate, WriteImage, pevars
  <2> QED BY <1>6, <2>1 DEF Addressed
<1> QED BY <1>2, <1>3, <1>4, <1>5, <1>6 DEF Quiet

LEMMA AddressStep == InLink /\ AddressInv /\ [Next]_vars => AddressInv'
<1> SUFFICES ASSUME InLink, AddressInv, [Next]_vars, phase' \in Addressed
             PROVE  \A k \in MergedKinds : address'[k] = AddressIn(layout', k)
  BY Zenon DEF AddressInv
<1>0. Addressed \subseteq PePhases
  BY DEF Addressed, PePhases
<1>1. ASSUME phase \in Addressed, UNCHANGED <<layout, address>>
      PROVE  \A k \in MergedKinds : address'[k] = AddressIn(layout', k)
  BY <1>1, Zenon DEF AddressInv
<1>2. CASE UNCHANGED vars
  <2>1. UNCHANGED <<phase, layout, address>>
    BY <1>2 DEF vars, linkvars, pevars
  <2> QED BY <1>1, <2>1
<1>3. CASE LinkNext
  BY <1>0, <1>3, LinkLeaves
<1>4. CASE ApplyLayout
  <2>1. address' = ImageAddresses /\ layout' = layout
    BY <1>4 DEF ApplyLayout, pevars
  <2>2. ASSUME NEW k \in MergedKinds PROVE ImageAddresses[k] = AddressIn(layout, k)
    <3>1. ImageAddresses[k] = IF LayoutOf(k) = {} THEN 0 ELSE ImageBase + RvaOf(k)
      BY Zenon DEF ImageAddresses
    <3>2. LayoutOf(k) # {} <=> InLayout(layout, k)
      BY RvaOfIs
    <3>3. RvaOf(k) = RvaIn(layout, k)
      BY RvaOfIs
    <3> QED BY <3>1, <3>2, <3>3, Zenon DEF AddressIn
  <2> QED BY <2>1, <2>2
<1> QED BY <1>1, <1>2, <1>3, <1>4, AfterApply DEF Next

\* Relocating depends on nothing that a later step changes.
TargetIn(sy, g, o, s) ==
  LET found == {i \in 1 .. Len(g) : g[i].name = sy[<<o, s>>].name}
      i == IF found = {} THEN 0 ELSE CHOOSE i \in found : TRUE
  IN  IF <<o, s>> \notin DOMAIN sy \/ sy[<<o, s>>].auxiliary THEN NoTarget
      ELSE IF sy[<<o, s>>].defined
      THEN [found |-> TRUE, kind |-> sy[<<o, s>>].kind, offset |-> sy[<<o, s>>].offset]
      ELSE IF i = 0 \/ ~g[i].defined THEN NoTarget
      ELSE [found |-> TRUE, kind |-> g[i].kind, offset |-> g[i].offset]
ValueIn(a, r, t, patchAddress) ==
  LET v == a[t.kind] + t.offset
  IN  IF r.type = "rel32" THEN v + r.addend - (patchAddress + 4)
      ELSE CASE r.type = "addr64" -> v + r.addend
             [] r.type = "addr32nb" -> (IF v >= ImageBase THEN v - ImageBase ELSE v) + r.addend
             [] r.type = "secrel" -> t.offset + r.addend
PatchIn(p, mm, a, t, r) ==
  LET v == ValueIn(a, r, t, a[p.kind] + (p.offset + r.at))
  IN  IF /\ t.found
         /\ r.type \in {"rel32", "addr64", "addr32nb", "secrel"}
         /\ p.offset + r.at + Width(r) <= mm[p.kind].size
         /\ InRange(r, v)
      THEN {[kind |-> p.kind, at |-> p.offset + r.at, width |-> Width(r), value |-> v]}
      ELSE {}

LEMMA TargetIs == \A o, s : Target(o, s) = TargetIn(syms, globals, o, s)
BY Zenon DEF Target, TargetIn, TargetGlobal, GlobalIndex

PatchesAre ==
  \A o, s, r : PatchOf(o, s, r)
                 = PatchIn(place[<<o, s>>], merged, address, TargetIn(syms, globals, o, r.symbol), r)

LEMMA PatchOfIs == PatchesAre
<1>1. \A r, t, a : Value(r, t, a) = ValueIn(address, r, t, a)
  BY DEF Value, ValueIn, AbsoluteValue, Rva, VirtualAddress
<1> SUFFICES ASSUME NEW o, NEW s, NEW r
             PROVE  PatchOf(o, s, r)
                      = PatchIn(place[<<o, s>>], merged, address,
                                TargetIn(syms, globals, o, r.symbol), r)
  BY DEF PatchesAre
<1> DEFINE p == place[<<o, s>>]
           t == Target(o, r.symbol)
           v == Value(r, t, address[p.kind] + (p.offset + r.at))
<1>2. PatchOf(o, s, r)
        = IF /\ t.found
             /\ r.type \in {"rel32", "addr64", "addr32nb", "secrel"}
             /\ p.offset + r.at + Width(r) <= merged[p.kind].size
             /\ InRange(r, v)
          THEN {[kind |-> p.kind, at |-> p.offset + r.at, width |-> Width(r), value |-> v]}
          ELSE {}
  BY Zenon DEF PatchOf, Fits
<1>3. t = TargetIn(syms, globals, o, r.symbol)
  BY TargetIs, Zenon
<1>4. v = ValueIn(address, r, t, address[p.kind] + (p.offset + r.at))
  BY <1>1, Zenon
<1>5. PatchIn(p, merged, address, t, r)
        = IF /\ t.found
             /\ r.type \in {"rel32", "addr64", "addr32nb", "secrel"}
             /\ p.offset + r.at + Width(r) <= merged[p.kind].size
             /\ InRange(r, v)
          THEN {[kind |-> p.kind, at |-> p.offset + r.at, width |-> Width(r), value |-> v]}
          ELSE {}
  <2> HIDE DEF v, t
  <2> QED BY <1>4, Zenon DEF PatchIn
<1> HIDE DEF t, v
<1>6. PatchOf(o, s, r) = PatchIn(p, merged, address, t, r)
  BY <1>2, <1>5, Zenon
<1> QED BY <1>3, <1>6, Zenon

LEMMA PatchFixed ==
  ASSUME UNCHANGED <<objects, place, syms, globals, address, merged>>
  PROVE  \A o, s, r : PatchOf(o, s, r)' = PatchOf(o, s, r)
<1>1. PatchesAre'
  BY PatchOfIs, PTL
<1> QED BY <1>1, PatchOfIs DEF PatchesAre

LEMMA AppliedFixed ==
  ASSUME UNCHANGED <<objects, place, syms, globals, address, merged>>, patches \subseteq patches',
         NEW id, Applied(id)
  PROVE  Applied(id)'
<1>1. SectionAt(id)' = SectionAt(id)
  BY InputsFixed
<1>2. \A n : PatchOf(id[1], id[2], SectionAt(id).relocs[n])'
               = PatchOf(id[1], id[2], SectionAt(id).relocs[n])
  BY <1>1, PatchFixed, Zenon
<1> QED BY <1>1, <1>2 DEF Applied

\* The section at the cursor.
LEMMA RelocateCursor ==
  ASSUME MergeInv, RelocateSection
  PROVE  /\ at = <<at[1], at[2]>> /\ at \in SectionIds(objects)
         /\ SectionAt(at) = objects[at[1]].sections[at[2]] /\ SectionAt(at) \in SectionRecord
<1> DEFINE object == objects[at[1]]
<1>0. at[1] <= Len(objects) /\ at[2] <= Len(object.sections)
  BY Zenon DEF RelocateSection
<1>1. /\ objects \in Seq(ObjectFiles)
      /\ at[1] \in Nat \ {0} /\ at[2] \in Nat \ {0} /\ at = <<at[1], at[2]>>
  BY DEF MergeInv
<1>2. object \in ObjectFiles /\ at[1] \in 1 .. Len(objects)
  BY <1>0, <1>1
<1>3. object.sections \in Seq(SectionRecord)
  BY <1>2, FilesAssumption
<1>4. at[2] \in 1 .. Len(object.sections) /\ object.sections[at[2]] \in SectionRecord
  <2> HIDE DEF object
  <2> QED BY <1>0, <1>1, <1>3
<1>5. at \in SectionIds(objects)
  BY <1>1, <1>2, <1>4 DEF SectionIds
<1> QED BY <1>1, <1>4, <1>5 DEF SectionAt

\* link_apply_relocations deals with all relocations of a section or gives up.
LEMMA RelocateApplies ==
  ASSUME MergeInv, Settled, RelocateSection, phase' # "failed",
         UNCHANGED <<objects, place, syms, globals, address, merged>>, NEW id, id = at
  PROVE  patches \subseteq patches' /\ Applied(id)'
<1> DEFINE relocs == SectionAt(at).relocs
           done(n) == PatchOf(at[1], at[2], relocs[n])
           all == UNION {done(n) : n \in DOMAIN relocs}
<1>1. /\ at \in SectionIds(objects) /\ SectionAt(at) = objects[at[1]].sections[at[2]]
      /\ at = <<at[1], at[2]>>
  BY RelocateCursor
<1>2. place[at].kind = SectionAt(at).kind
  BY <1>1 DEF Settled
<1>3. \/ (relocs = <<>> \/ place[at].kind = "none") /\ patches' = patches
      \/ (\A n \in DOMAIN relocs : done(n) # {}) /\ patches' = patches \cup all
  <2>1. \/ (relocs = <<>> \/ (place[at].kind = "none" /\ SectionAt(at).debug)) /\ patches' = patches
        \/ phase' = "failed"
        \/ ~(\E n \in DOMAIN relocs : done(n) = {}) /\ patches' = patches \cup all
    BY <1>1, Zenon DEF RelocateSection, Fail, SectionAt
  <2> HIDE DEF done, relocs, all
  <2> QED BY <2>1
<1>4. \A n \in DOMAIN relocs : done(n) \subseteq all
  <2> HIDE DEF done, relocs
  <2> QED OBVIOUS
<1>5. patches \subseteq patches'
  BY <1>3
<1>6. SectionAt(at).kind # "none" => \A n \in DOMAIN relocs : done(n) # {} /\ done(n) \subseteq patches'
  <2>1. relocs = <<>> => DOMAIN relocs = {}
    OBVIOUS
  <2> HIDE DEF done, relocs, all
  <2> QED BY <1>2, <1>3, <1>4, <2>1
<1>7. SectionAt(id)' = SectionAt(id)
  BY InputsFixed
<1>8. \A n : PatchOf(id[1], id[2], SectionAt(id).relocs[n])' = done(n)
  BY <1>7, PatchFixed, Zenon
<1>9. Applied(id)'
  BY <1>6, <1>7, <1>8 DEF Applied
<1> QED BY <1>5, <1>9

LEMMA RelocStep == PeTypes /\ InLink /\ SettledInv /\ RelocInv /\ [Next]_vars => RelocInv'
<1> SUFFICES ASSUME PeTypes, InLink, SettledInv, RelocInv, [Next]_vars,
                    phase' \in PhasesAfterFinalize
             PROVE  \A id \in SectionIds(objects)' : (phase' # "relocate" \/ Passed(id)') => Applied(id)'
  BY Zenon DEF RelocInv
<1>0. PhasesAfterFinalize \subseteq PePhases /\ PhasesAfterFinalize \subseteq Addressed
      /\ PhasesAfterFinalize \subseteq Stored
  BY DEF PhasesAfterFinalize, PePhases, Addressed, Stored, PhasesAfterLayout
<1>a. MergeInv
  BY DEF PeTypes
<1>1. ASSUME phase \in PhasesAfterFinalize, patches' = patches,
             UNCHANGED <<objects, place, syms, globals, address, merged>>,
             NEW id \in SectionIds(objects), phase # "relocate" \/ Passed(id)
      PROVE  Applied(id)'
  <2>1. Applied(id)
    BY <1>1, Zenon DEF RelocInv
  <2> QED BY <1>1, <2>1, AppliedFixed
<1>2. CASE UNCHANGED vars
  <2>1. UNCHANGED <<phase, objects, place, syms, globals, address, merged, patches, at>>
    BY <1>2 DEF vars, linkvars, pevars
  <2>2. \A id : Passed(id)' <=> Passed(id)
    BY <2>1 DEF Passed
  <2>3. SectionIds(objects)' = SectionIds(objects)
    BY <2>1
  <2> QED BY <1>1, <2>1, <2>2, <2>3
<1>3. CASE LinkNext
  BY <1>0, <1>3, LinkLeaves
<1>4. CASE PeNext
  <2>1. ~ApplyLayout
    BY DEF ApplyLayout, PhasesAfterFinalize
  <2>2. /\ phase \in Addressed /\ UNCHANGED <<layout, address>>
        /\ FinalizeImports \/ RelocateSection \/ RelocateNextObject \/ EndRelocate \/ WriteImage
    BY <1>0, <1>4, <2>1, AfterApply
  <2>3. UNCHANGED <<objects, place, syms>>
    BY <1>4, PeSteps
  <2>4. UNCHANGED <<merged, globals>>
    BY <2>2, QuietKeeps DEF Quiet
  <2>5. SectionIds(objects)' = SectionIds(objects)
    BY <2>3
  <2>6. CASE FinalizeImports
    <3>1. at' = <<1, 1>> /\ phase' \in {"relocate", "failed"}
      BY <2>6, Zenon DEF FinalizeImports, Fail
    <3>2. phase' = "relocate"
      BY <3>1 DEF PhasesAfterFinalize
    <3>3. \A id \in SectionIds(objects) : ~Passed(id)'
      BY <1>a, <2>3, <3>1, CursorSteps
    <3> QED BY <2>5, <3>2, <3>3
  <2>7. CASE RelocateSection
    <3>1. phase = "relocate" /\ at' = <<at[1], at[2] + 1>> /\ (phase' = phase \/ phase' = "failed")
      BY <2>7, Zenon DEF RelocateSection, Fail
    <3>2. phase' = "relocate" /\ Settled
      BY <3>1 DEF PhasesAfterFinalize, SettledInv, PePhases
    <3>3. ASSUME NEW id \in SectionIds(objects), Passed(id)' PROVE Applied(id)'
      <4>1. Passed(id) \/ id = at
        BY <1>a, <2>3, <3>1, <3>3, CursorSteps
      <4>2. patches \subseteq patches' /\ (id = at => Applied(id)')
        <5>1. PICK x : x = at
          OBVIOUS
        <5>2. patches \subseteq patches'
          BY <1>a, <2>2, <2>3, <2>4, <2>7, <3>2, <5>1, RelocateApplies
        <5>3. ASSUME id = at PROVE Applied(id)'
          BY <1>a, <2>2, <2>3, <2>4, <2>7, <3>2, <5>3, RelocateApplies
        <5> QED BY <5>2, <5>3
      <4>3. Passed(id) => Applied(id)
        BY <3>1 DEF RelocInv, PhasesAfterFinalize
      <4> QED BY <2>2, <2>3, <2>4, <4>1, <4>2, <4>3, AppliedFixed
    <3> QED BY <2>5, <3>2, <3>3
  <2>8. CASE RelocateNextObject
    <3>1. phase = "relocate" /\ phase' = phase /\ patches' = patches /\ at' = <<at[1] + 1, 1>>
          /\ at[1] <= Len(objects) /\ at[2] > Len(objects[at[1]].sections)
      BY <2>8 DEF RelocateNextObject, pevars
    <3>2. ASSUME NEW id \in SectionIds(objects) PROVE Passed(id)' <=> Passed(id)
      <4> DEFINE n == Len(objects[at[1]].sections)
      <4>1. objects \in Seq(ObjectFiles) /\ at[1] \in Nat \ {0}
        BY <1>a DEF MergeInv
      <4>2. at[1] \in 1 .. Len(objects)
        BY <3>1, <4>1
      <4>3. n \in Nat /\ id[1] \in 1 .. Len(objects) /\ id[2] \in 1 .. Len(objects[id[1]].sections)
            /\ Len(objects[id[1]].sections) \in Nat
        BY <4>1, <4>2, Ids
      <4>4. id[1] \in Nat /\ id[2] \in Nat \ {0} /\ (id[1] = at[1] => id[2] <= n)
        BY <4>1, <4>3
      <4> HIDE DEF n
      <4>5. at[2] > n
        BY <3>1 DEF n
      <4> QED BY <1>a, <2>3, <3>1, <4>3, <4>4, <4>5, CursorNextObject
    <3> QED BY <1>1, <2>2, <2>3, <2>4, <2>5, <3>1, <3>2
  <2>9. CASE EndRelocate
    <3>1. phase = "relocate" /\ patches' = patches /\ at[1] > Len(objects)
      BY <2>9 DEF EndRelocate, pevars
    <3>2. phase \in PhasesAfterFinalize
      BY <3>1 DEF PhasesAfterFinalize
    <3>3. \A id \in SectionIds(objects) : Passed(id)
      BY <1>a, <2>3, <3>1, CursorSteps
    <3> QED BY <1>1, <2>2, <2>3, <2>4, <2>5, <3>1, <3>2, <3>3
  <2>10. CASE WriteImage
    <3>1. phase = "write" /\ patches' = patches
      BY <2>10 DEF WriteImage
    <3>2. phase \in PhasesAfterFinalize
      BY <3>1 DEF PhasesAfterFinalize
    <3> QED BY <1>1, <2>2, <2>3, <2>4, <2>5, <3>1, <3>2
  <2> QED BY <2>2, <2>6, <2>7, <2>8, <2>9, <2>10
<1> QED BY <1>2, <1>3, <1>4 DEF Next

\* A patch that could be made is in range of its section and has this value.
LEMMA PatchMade ==
  ASSUME NEW p, NEW mm, NEW a, NEW t, NEW r, PatchIn(p, mm, a, t, r) # {}
  PROVE  /\ t.found /\ r.type \in {"rel32", "addr64", "addr32nb", "secrel"}
         /\ p.offset + r.at + Width(r) <= mm[p.kind].size
         /\ \E q \in PatchIn(p, mm, a, t, r) :
              /\ q.kind = p.kind /\ q.at = p.offset + r.at
              /\ q.value = ValueIn(a, r, t, a[p.kind] + (p.offset + r.at))
<1> DEFINE v == ValueIn(a, r, t, a[p.kind] + (p.offset + r.at))
           q == [kind |-> p.kind, at |-> p.offset + r.at, width |-> Width(r), value |-> v]
<1>1. /\ t.found /\ r.type \in {"rel32", "addr64", "addr32nb", "secrel"}
      /\ p.offset + r.at + Width(r) <= mm[p.kind].size
      /\ PatchIn(p, mm, a, t, r) = {q}
  BY Zenon DEF PatchIn
<1>2. q.kind = p.kind /\ q.at = p.offset + r.at /\ q.value = v
  OBVIOUS
<1> HIDE DEF q, v
<1>3. q \in PatchIn(p, mm, a, t, r)
  BY <1>1
<1> QED BY <1>1, <1>2, <1>3, Zenon DEF v

\* A section with bytes is in the image.
LEMMA HasBytes ==
  ASSUME MergeInv, NEW rva, NEW raw, LaidOutAs(layout, merged, rva, raw), NEW k \in MergedKinds,
         NEW n \in Nat \ {0}, n <= merged[k].size
  PROVE  InLayout(layout, k)
<1>1. SectionSound(merged[k])
  BY DEF MergeInv
<1>2. merged[k].size \in Nat /\ merged[k].vsize \in Nat /\ merged[k].size <= merged[k].vsize
  BY <1>1 DEF SectionSound, Merged
<1>3. merged[k].vsize # 0
  BY <1>2
<1> QED BY <1>3, Zenon DEF LaidOutAs, InLayout

\* The value stored leads from the field, at rva f behind the base, to the target,
\* at rva x of section rva u.
LEMMA ValueLeads ==
  ASSUME NEW f \in Nat, NEW u \in Nat, NEW a, NEW r, NEW t, r.addend \in Int, t.offset \in Nat,
         a[t.kind] = ImageBase + u, NEW at0, at0 = ImageBase + f
  PROVE  LET v == ValueIn(a, r, t, at0)
             x == u + t.offset
         IN  /\ r.type = "rel32" => f + 4 + v = x + r.addend
             /\ r.type = "addr64" => v = ImageBase + x + r.addend
             /\ r.type = "addr32nb" => v = x + r.addend
             /\ r.type = "secrel" => u + v = x + r.addend
<1> DEFINE b == ImageBase
           y == t.offset
           d == r.addend
           w == a[t.kind] + t.offset
<1>1. b \in Nat /\ y \in Nat /\ d \in Int /\ w = b + u + y
  BY ImageConstants
<1>2. /\ r.type = "rel32" => ValueIn(a, r, t, at0) = w + d - (at0 + 4)
      /\ r.type = "addr64" => ValueIn(a, r, t, at0) = w + d
      /\ r.type = "addr32nb" => ValueIn(a, r, t, at0) = (IF w >= b THEN w - b ELSE w) + d
      /\ r.type = "secrel" => ValueIn(a, r, t, at0) = y + d
  BY DEF ValueIn
<1> HIDE DEF b, y, d, w
<1>3. at0 = b + f
  BY DEF b
<1>4. /\ r.type = "rel32" => f + 4 + ValueIn(a, r, t, at0) = u + y + d
      /\ r.type = "addr64" => ValueIn(a, r, t, at0) = b + (u + y) + d
      /\ r.type = "addr32nb" => ValueIn(a, r, t, at0) = u + y + d
      /\ r.type = "secrel" => u + ValueIn(a, r, t, at0) = u + y + d
  BY <1>1, <1>2, <1>3
<1> QED BY <1>4, Zenon DEF b, y, d

\* The patch of relocation r of section id leads to the target x.
LedBy(id, x, r, q) ==
  LET kind == SectionAt(id).kind
      field == place[id].offset + r.at
  IN  /\ q.kind = kind /\ q.at = field
      /\ CASE r.type = "rel32" -> RvaOf(kind) + field + 4 + q.value = FinalRva(x) + r.addend
           [] r.type = "addr64" -> q.value = ImageBase + FinalRva(x) + r.addend
           [] r.type = "addr32nb" -> q.value = FinalRva(x) + r.addend
           [] r.type = "secrel" -> RvaOf(FinalKind(x)) + q.value = FinalRva(x) + r.addend

LEMMA RelocationHits ==
  ASSUME PeInv, AddressInv, RelocInv, phase \in {"write", "linked"},
         NEW id \in SectionIds(objects), SectionAt(id).kind # "none",
         NEW n \in DOMAIN SectionAt(id).relocs,
         InImage(<<id[1], SectionAt(id).relocs[n].symbol>>)
  PROVE  \E q \in patches : LedBy(id, <<id[1], SectionAt(id).relocs[n].symbol>>,
                                  SectionAt(id).relocs[n], q)
<1> DEFINE r == SectionAt(id).relocs[n]
           x == <<id[1], r.symbol>>
           t == Target(id[1], r.symbol)
           p == place[id]
           k == SectionAt(id).kind
           field == p.offset + r.at
           at0 == address[p.kind] + field
           v == ValueIn(address, r, t, at0)
<1>0. /\ phase \in PePhases /\ phase \in Stored /\ phase \in Addressed /\ phase \in PhasesAfterLayout
      /\ phase \in PhasesAfterFinalize /\ phase # "relocate"
  BY DEF PePhases, Stored, Addressed, PhasesAfterLayout, PhasesAfterFinalize
<1>1. PeTypes /\ MergeInv /\ Settled /\ objects \in Seq(ObjectFiles)
  BY <1>0 DEF PeInv, PeTypes, MergeInv, SettledInv
<1>2. PICK rva, raw : LaidOutAs(layout, merged, rva, raw)
  BY <1>0, Zenon DEF PeInv, LayoutInv
<1>3. PICK g : Handed(g) /\ BoundTable(globals, g, dlls, imports)
  BY <1>0, Zenon DEF PeInv, StoredInv
<1>4. \A j \in MergedKinds : address[j] = AddressIn(layout, j)
  BY <1>0, Zenon DEF AddressInv
<1>5. PatchOf(id[1], id[2], r) # {} /\ PatchOf(id[1], id[2], r) \subseteq patches
  BY <1>0, Zenon DEF RelocInv, Applied
<1>6. id = <<id[1], id[2]>> /\ p \in Places /\ p.kind = k /\ k \in MergedKinds
  <2>1. id = <<id[1], id[2]>> /\ k \in MergedKinds
    BY <1>1, Ids, SectionKinds
  <2> QED BY <1>1, <2>1 DEF Settled
<1>7. r \in [type : STRING, at : Nat, symbol : Nat, addend : Int]
  <2>1. SectionAt(id).relocs \in Seq([type : STRING, at : Nat, symbol : Nat, addend : Int])
    BY <1>1, SectionKinds DEF SectionRecord
  <2>2. n \in 1 .. Len(SectionAt(id).relocs)
    BY <2>1
  <2> QED BY <2>1, <2>2, SeqElement, Zenon
<1>8. r.at \in Nat /\ r.addend \in Int /\ p.offset \in Nat
  BY <1>6, <1>7 DEF Places
<1>9. PatchOf(id[1], id[2], r) = PatchIn(p, merged, address, t, r)
  BY <1>6, PatchOfIs, TargetIs, Zenon DEF PatchesAre
<1>10. /\ t.found /\ r.type \in {"rel32", "addr64", "addr32nb", "secrel"}
       /\ p.offset + r.at + Width(r) <= merged[p.kind].size
  <2> HIDE DEF p, t, r
  <2> QED BY <1>5, <1>9, PatchMade
<1>11. PICK q \in PatchOf(id[1], id[2], r) : q.kind = p.kind /\ q.at = field /\ q.value = v
  <2> HIDE DEF p, t, r
  <2> QED BY <1>5, <1>9, PatchMade
<1>12. InLayout(layout, k)
  <2> DEFINE b == p.offset + r.at + Width(r)
  <2>1. b \in Nat \ {0}
    <3>1. Width(r) \in {4, 8}
      BY DEF Width
    <3> HIDE DEF p, r
    <3> QED BY <1>8, <3>1
  <2>2. b <= merged[k].size
    BY <1>6, <1>10
  <2> HIDE DEF b, k
  <2> QED BY <1>1, <1>2, <1>6, <2>1, <2>2, HasBytes
<1>13. Leads(t, x)
  <2>1. Leads(Target(id[1], r.symbol), <<id[1], r.symbol>>)
    <3> DEFINE o == id[1]
               s == r.symbol
    <3>1. Target(o, s).found
      BY <1>10
    <3> HIDE DEF o, s
    <3>2. Leads(Target(o, s), <<o, s>>)
      BY <1>1, <1>3, <3>1, TargetLeads
    <3> QED BY <3>2 DEF o, s
  <2> QED BY <2>1
<1>14. InLayout(layout, t.kind)
  <2>1. LayoutOf(FinalKind(x)) # {} /\ t.kind = FinalKind(x)
    BY <1>13, Zenon DEF InImage, Leads
  <2> QED BY <2>1, RvaOfIs
<1>15. RvaIn(layout, t.kind) \in Nat /\ RvaIn(layout, k) \in Nat
  <2> HIDE DEF t, k
  <2> QED BY <1>2, <1>12, <1>14, RvaNat
<1>16. /\ t.kind = FinalKind(x) /\ t.kind \in MergedKinds /\ t.offset \in Nat
       /\ RvaIn(layout, t.kind) + t.offset = FinalRva(x)
  BY <1>13, <1>15, Zenon DEF Leads
<1>17. address[t.kind] = ImageBase + RvaIn(layout, t.kind) /\ address[k] = ImageBase + RvaIn(layout, k)
  BY <1>4, <1>6, <1>12, <1>14, <1>16, Zenon DEF AddressIn
<1> DEFINE u == RvaIn(layout, t.kind)
           f == RvaIn(layout, k) + field
<1>18. f \in Nat /\ at0 = ImageBase + f
  <2> DEFINE e == RvaIn(layout, k)
             c == p.offset + r.at
  <2>1. e \in Nat /\ c \in Nat /\ at0 = (ImageBase + e) + c
    BY <1>6, <1>8, <1>15, <1>17
  <2> HIDE DEF e, c, at0
  <2>2. at0 = ImageBase + (e + c) /\ e + c \in Nat
    BY <2>1, ImageConstants
  <2> QED BY <2>2 DEF e, c
<1>19. /\ r.type = "rel32" => f + 4 + v = u + t.offset + r.addend
       /\ r.type = "addr64" => v = ImageBase + (u + t.offset) + r.addend
       /\ r.type = "addr32nb" => v = u + t.offset + r.addend
       /\ r.type = "secrel" => u + v = u + t.offset + r.addend
  <2> DEFINE a == address
  <2>1. a[t.kind] = ImageBase + u /\ u \in Nat /\ t.offset \in Nat
    BY <1>15, <1>16, <1>17
  <2> HIDE DEF f, u, r, t, at0, a
  <2>2. LET w == ValueIn(a, r, t, at0)
             y == u + t.offset
         IN  /\ r.type = "rel32" => f + 4 + w = y + r.addend
             /\ r.type = "addr64" => w = ImageBase + y + r.addend
             /\ r.type = "addr32nb" => w = y + r.addend
             /\ r.type = "secrel" => u + w = y + r.addend
    BY <1>8, <1>18, <2>1, ValueLeads
  <2> QED BY <2>2, Zenon DEF a
<1>20. LedBy(id, x, r, q)
  <2>1. RvaOf(k) = RvaIn(layout, k) /\ RvaOf(FinalKind(x)) = u
    BY <1>16, RvaOfIs, Zenon
  <2>2. f = RvaOf(k) + field
    BY <2>1
  <2>3. u + t.offset = FinalRva(x)
    BY <1>16
  <2>4. /\ r.type = "rel32" => RvaOf(k) + field + 4 + q.value = FinalRva(x) + r.addend
        /\ r.type = "addr64" => q.value = ImageBase + FinalRva(x) + r.addend
        /\ r.type = "addr32nb" => q.value = FinalRva(x) + r.addend
        /\ r.type = "secrel" => RvaOf(FinalKind(x)) + q.value = FinalRva(x) + r.addend
    <3> HIDE DEF f, u, v
    <3> QED BY <1>11, <1>19, <2>1, <2>2, <2>3, Zenon
  <2>5. q.kind = k /\ q.at = field
    BY <1>6, <1>11
  <2> HIDE DEF r, x, k, field
  <2> QED BY <1>10, <2>4, <2>5 DEF LedBy, k, field
<1>21. q \in patches
  BY <1>5, <1>11
<1> QED BY <1>20, <1>21

LEMMA AllHit == PeInv /\ AddressInv /\ RelocInv => RelocationsHit
<1> SUFFICES ASSUME PeInv, AddressInv, RelocInv, phase \in {"write", "linked"},
                    NEW id \in SectionIds(objects), objects[id[1]].sections[id[2]].kind # "none",
                    NEW n \in DOMAIN objects[id[1]].sections[id[2]].relocs,
                    InImage(<<id[1], objects[id[1]].sections[id[2]].relocs[n].symbol>>)
             PROVE  \E q \in patches :
                      LedBy(id, <<id[1], objects[id[1]].sections[id[2]].relocs[n].symbol>>,
                            objects[id[1]].sections[id[2]].relocs[n], q)
  BY Zenon DEF RelocationsHit, LedBy, SectionAt
<1> QED BY RelocationHits, Zenon DEF SectionAt

\* Every relocation of every merged section is applied before the file is opened,
\* and the stored value leads from the field's final place to the final place of
\* what it names, for any object files, libraries and DLLs: the object's own
\* definition, the one definition among all objects, or the import's slot or thunk
\* (link_apply_relocations, relocation_resolve_target,
\* pe_apply_layout_to_resolution).
THEOREM RelocationsProved == Spec => []RelocationsHit
<1> DEFINE Inv == PeInv /\ AddressInv /\ RelocInv
<1>1. Init => Inv
  <2> SUFFICES ASSUME Init PROVE Inv
    OBVIOUS
  <2>1. phase = "load"
    BY DEF Init, LinkInit
  <2> QED BY <2>1, PeInvInit DEF AddressInv, RelocInv, Addressed, PhasesAfterFinalize
<1>2. Inv /\ [Next]_vars => Inv'
  BY PeInvStep, AddressStep, RelocStep DEF PeInv
<1>3. Inv => RelocationsHit
  BY AllHit
<1> QED BY <1>1, <1>2, <1>3, PTL DEF Spec

-----------------------------------------------------------------------------
\* Imports.  Which DLLs probed before DLL n export a name, and the first of them.
Exporters(name, n) == {i \in 1 .. Len(Dlls) : i < n /\ Dlls[i].loads /\ name \in Dlls[i].exports}
FirstExporter(name, n) == Dlls[Least(Exporters(name, n))].name

\* A library of the list ls has the name.
Offered(ls, name) == \E x \in 1 .. Len(ls) : Has(ls[x], name)

\* The list ls of libraries when the DLLs before n have been probed for the table
\* g: the given ones first; a synthetic one offers only what no given library has,
\* from the first DLL that exports it; and nothing those DLLs export is missed.
GivenFirst(ls) == Len(Libraries) <= Len(ls) /\ \A x \in 1 .. Len(Libraries) : ls[x] = Libraries[x]
FromDll(offer, n) ==
  /\ ~Offered(Libraries, offer.name) /\ Exporters(offer.name, n) # {}
  /\ offer.dll = FirstExporter(offer.name, n)
FromDlls(ls, n) ==
  \A x \in 1 .. Len(ls) : x > Len(Libraries) => \A j \in 1 .. Len(ls[x]) : FromDll(ls[x][j], n)
NoneMissed(ls, g, n) ==
  \A i \in 1 .. Len(g) :
    ~g[i].defined /\ Exporters(Canonical(g[i].name), n) # {} => Offered(ls, Canonical(g[i].name))
Available(ls, g, n) == GivenFirst(ls) /\ FromDlls(ls, n) /\ NoneMissed(ls, g, n)

LibsInv ==
  /\ phase \in Linking => libs = <<>> /\ imports = <<>>
  /\ phase \in {"libraries", "dlls"} => imports = <<>>
  /\ phase = "libraries" =>
       /\ at[1] <= Len(Libraries) + 1 /\ Len(libs) = at[1] - 1
       /\ \A x \in 1 .. Len(libs) : libs[x] = Libraries[x]
  /\ phase = "dlls" => at[1] <= Len(Dlls) + 1 /\ Available(libs, globals, at[1])
  /\ phase = "plan" => Available(libs, globals, Len(Dlls) + 1)

\* An undefined name among the first n - 1 of the table g asks for the import of
\* name, through its slot or not.
Refers(g, n, name, slot) ==
  \E x \in 1 .. Len(g) : /\ x < n /\ ~g[x].defined /\ Canonical(g[x].name) = name
                         /\ IsImp(g[x].name) <=> slot

\* The imports m are those the first n - 1 names of g ask for.
PlanSays(m, ls, g, n) ==
  /\ \A i, j \in 1 .. Len(m) : m[i].name = m[j].name => i = j
  /\ \A i \in 1 .. Len(m) :
       /\ Offered(ls, m[i].name) /\ m[i].dll = FindImport(ls, m[i].name).dll
       /\ m[i].iatsym <=> Refers(g, n, m[i].name, TRUE)
       /\ m[i].thunk <=> Refers(g, n, m[i].name, FALSE)
       /\ m[i].iatsym \/ m[i].thunk
  /\ \A x \in 1 .. Len(g) :
       x < n /\ ~g[x].defined /\ Offered(ls, Canonical(g[x].name))
         => \E i \in 1 .. Len(m) : m[i].name = Canonical(g[x].name)
PlanInv == phase = "plan" => at[1] <= Len(globals) + 1 /\ PlanSays(imports, libs, globals, at[1])

\* What is imported when M is missing, as ImportsExactlyMissing says.
Exact(m, M) ==
  LET offers(name) == {i \in 1 .. Len(Libraries) : LibraryOffers(Libraries[i], name) # {}}
      exporters(name) == {i \in 1 .. Len(Dlls) : Dlls[i].loads /\ name \in Dlls[i].exports}
      available == {n \in {Canonical(x) : x \in M} : offers(n) \cup exporters(n) # {}}
      first(n) == Libraries[Least(offers(n))]
  IN  /\ {m[i].name : i \in 1 .. Len(m)} = available
      /\ \A i, j \in 1 .. Len(m) : m[i].name = m[j].name => i = j
      /\ \A i \in 1 .. Len(m) :
           LET n == m[i].name
           IN  m[i].dll = IF offers(n) = {} THEN Dlls[Least(exporters(n))].name
                          ELSE first(n)[Least(LibraryOffers(first(n), n))].dll
      /\ \A i \in 1 .. Len(m) :
           /\ m[i].iatsym <=> \E x \in M : IsImp(x) /\ Canonical(x) = m[i].name
           /\ m[i].thunk <=> m[i].name \in M \ ImpNames
Missing == {n \in {SymbolAt(id).name : id \in ExternalSymbols} : Definitions(n) = {}}
ExactInv == phase \in {"storage"} \cup Stored => Exact(imports, Missing)

\* Once the check for unresolved names has passed, none is left.
DefinedInv ==
  phase \in {"layout"} \cup PhasesAfterLayout => \A i \in 1 .. Len(globals) : globals[i].defined

LEMMA OfferedByIs ==
  ASSUME NEW ls, NEW name
  PROVE  /\ OfferedBy(ls, name) # {} <=> Offered(ls, name)
         /\ \A x : x \in OfferedBy(ls, name) <=> x \in 1 .. Len(ls) /\ Has(ls[x], name)
<1>1. \A x : LibraryOffers(ls[x], name) # {} <=> Has(ls[x], name)
  BY OffersAre
<1>2. \A x : x \in OfferedBy(ls, name) <=> x \in 1 .. Len(ls) /\ LibraryOffers(ls[x], name) # {}
  BY Zenon DEF OfferedBy
<1>3. \A x : x \in OfferedBy(ls, name) <=> x \in 1 .. Len(ls) /\ Has(ls[x], name)
  BY <1>1, <1>2
<1> QED BY <1>3 DEF Offered

\* One more DLL.
LEMMA ExportersNext ==
  ASSUME NEW name, NEW n \in 1 .. Len(Dlls)
  PROVE  /\ Exporters(name, n) # {} => /\ Exporters(name, n + 1) # {}
                                       /\ FirstExporter(name, n + 1) = FirstExporter(name, n)
         /\ Exporters(name, n) = {} /\ Dlls[n].loads /\ name \in Dlls[n].exports
              => /\ Exporters(name, n + 1) # {}
                 /\ FirstExporter(name, n + 1) = Dlls[n].name
         /\ Exporters(name, n) = {} /\ Exporters(name, n + 1) # {}
              => Dlls[n].loads /\ name \in Dlls[n].exports
<1> DEFINE E == Exporters(name, n)
           F == Exporters(name, n + 1)
<1>0. Len(Dlls) \in Nat
  BY DllsAssumption
<1>1. /\ E \subseteq 1 .. Len(Dlls) /\ F \subseteq 1 .. Len(Dlls)
      /\ \A x \in E : x < n
      /\ \A x : x \in F <=> x \in E \/ (x = n /\ Dlls[n].loads /\ name \in Dlls[n].exports)
  <2>1. \A x : x \in E <=> x \in 1 .. Len(Dlls) /\ x < n /\ Dlls[x].loads /\ name \in Dlls[x].exports
    BY Zenon DEF Exporters
  <2>2. \A x : x \in F <=> x \in 1 .. Len(Dlls) /\ x < n + 1 /\ Dlls[x].loads /\ name \in Dlls[x].exports
    BY Zenon DEF Exporters
  <2>3. \A x \in 1 .. Len(Dlls) : x < n + 1 <=> x < n \/ x = n
    BY <1>0
  <2> HIDE DEF E, F
  <2> QED BY <2>1, <2>2, <2>3, Zenon
<1> HIDE DEF E, F
<1>2. E \subseteq Nat /\ F \subseteq Nat
  BY <1>0, <1>1
<1>3. ASSUME E # {} PROVE F # {} /\ Least(F) = Least(E)
  <2>1. F # {}
    BY <1>1, <1>3, Zenon
  <2>2. Least(E) \in E /\ \A y \in E : Least(E) <= y
    BY <1>2, <1>3, LeastIn
  <2>3. Least(F) \in F /\ \A y \in F : Least(F) <= y
    BY <1>2, <2>1, LeastIn
  <2> DEFINE a == Least(E)
             b == Least(F)
  <2> HIDE DEF a, b
  <2>4. /\ a \in E /\ b \in F /\ \A y \in E : a <= y
        /\ \A y \in F : b <= y
    BY <2>2, <2>3 DEF a, b
  <2>5. b <= a /\ a < n /\ (b \in E \/ b = n)
    BY <1>1, <2>4, Zenon
  <2>6. a \in Nat /\ b \in Nat /\ (b \in E => a <= b)
    BY <1>2, <2>4
  <2>7. a = b
    BY <2>5, <2>6
  <2> QED BY <2>1, <2>7 DEF a, b
<1>4. ASSUME E = {}, Dlls[n].loads, name \in Dlls[n].exports PROVE F # {} /\ Least(F) = n
  <2>1. F = {n}
    BY <1>1, <1>4
  <2>2. Least(F) \in F
    BY <1>2, <2>1, LeastIn
  <2> QED BY <2>1, <2>2
<1>5. ASSUME E = {}, F # {} PROVE Dlls[n].loads /\ name \in Dlls[n].exports
  BY <1>1, <1>5
<1> QED BY <1>3, <1>4, <1>5, Zenon DEF E, F, FirstExporter

\* A library list that only grows keeps what it offers.
LEMMA OfferedKept ==
  ASSUME NEW ls \in Seq(Seq(OfferRecord)), NEW lib, NEW name
  PROVE  Offered(Append(ls, lib), name) <=> Offered(ls, name) \/ Has(lib, name)
<1> DEFINE new == Append(ls, lib)
<1>1. /\ Len(new) = Len(ls) + 1 /\ new[Len(ls) + 1] = lib /\ Len(ls) \in Nat
      /\ \A x \in 1 .. Len(ls) : new[x] = ls[x]
  OBVIOUS
<1> HIDE DEF new
<1>2. \A x : x \in 1 .. Len(new) <=> x \in 1 .. Len(ls) \/ x = Len(ls) + 1
  BY <1>1
<1>3. Offered(new, name) <=> Offered(ls, name) \/ Has(lib, name)
  BY <1>1, <1>2, Zenon DEF Offered
<1> QED BY <1>3 DEF new

LEMMA GivenOffered ==
  ASSUME NEW ls, GivenFirst(ls), Len(ls) \in Nat, NEW name, Offered(Libraries, name)
  PROVE  Offered(ls, name)
<1>1. PICK x \in 1 .. Len(Libraries) : Has(Libraries[x], name)
  BY Zenon DEF Offered
<1>2. Len(Libraries) \in Nat
  BY LibrariesAssumption
<1>3. Len(Libraries) <= Len(ls) /\ ls[x] = Libraries[x]
  BY <1>1, Zenon DEF GivenFirst
<1>4. x \in 1 .. Len(ls)
  BY <1>1, <1>2, <1>3
<1> QED BY <1>1, <1>3, <1>4, Zenon DEF Offered

\* What was found in the DLLs before n stays found.
LEMMA FromDllKept ==
  ASSUME NEW offer, NEW n \in 1 .. Len(Dlls), FromDll(offer, n) PROVE FromDll(offer, n + 1)
<1>1. ~Offered(Libraries, offer.name) /\ Exporters(offer.name, n) # {}
      /\ offer.dll = FirstExporter(offer.name, n)
  BY DEF FromDll
<1>2. /\ Exporters(offer.name, n + 1) # {}
      /\ FirstExporter(offer.name, n + 1) = FirstExporter(offer.name, n)
  BY <1>1, ExportersNext
<1> QED BY <1>1, <1>2, Zenon DEF FromDll

\* The synthetic library of a DLL.
LEMMA ProbedOffers ==
  ASSUME globals \in Seq(GlobalRecord), libs \in Seq(Seq(OfferRecord)), NEW n \in 1 .. Len(Dlls),
         Available(libs, globals, n), Dlls[n].loads
  PROVE  LET lib == ProbedLibrary(Dlls[n])
         IN  /\ lib \in Seq(OfferRecord)
             /\ \A j \in 1 .. Len(lib) : FromDll(lib[j], n + 1)
             /\ \A i \in 1 .. Len(globals) :
                  ~globals[i].defined /\ Exporters(Canonical(globals[i].name), n + 1) # {}
                    => Offered(libs, Canonical(globals[i].name)) \/ Has(lib, Canonical(globals[i].name))
<1> DEFINE dll == Dlls[n]
           lib == ProbedLibrary(dll)
           name(i) == Canonical(globals[i].name)
<1>1. dll.name \in STRING
  <2>1. dll \in [name : STRING, loads : BOOLEAN, exports : SUBSET STRING]
    BY DllsAssumption, SeqElement, Zenon
  <2> HIDE DEF dll
  <2> QED BY <2>1
<1>2. Probing(dll, Len(globals), lib)
  BY <1>1, ProbedLibrarySays
<1> HIDE DEF lib
<1>3. /\ lib \in Seq(OfferRecord)
      /\ \A j \in 1 .. Len(lib) : \E i \in 1 .. Len(globals) : Wanted(dll, i) /\ lib[j] = Probe(dll, i)
      /\ \A i \in 1 .. Len(globals) : Wanted(dll, i) => Has(lib, name(i))
  BY <1>2, Zenon DEF Probing
<1>4. \A i : Wanted(dll, i) <=> ~globals[i].defined /\ ~Offered(libs, name(i)) /\ name(i) \in dll.exports
  <2>1. \A i : Wanted(dll, i) <=> /\ ~globals[i].defined /\ OfferedBy(libs, name(i)) = {}
                                  /\ name(i) \in dll.exports
    BY Zenon DEF Wanted, Exports
  <2>2. \A i : OfferedBy(libs, name(i)) # {} <=> Offered(libs, name(i))
    BY OfferedByIs
  <2> HIDE DEF dll, name
  <2> QED BY <2>1, <2>2
<1>5. Len(libs) \in Nat /\ GivenFirst(libs) /\ NoneMissed(libs, globals, n)
  BY DEF Available
<1>6. \A i : Probe(dll, i).name = name(i) /\ Probe(dll, i).dll = dll.name
  BY DEF Probe
<1>7. ASSUME NEW j \in 1 .. Len(lib) PROVE FromDll(lib[j], n + 1)
  <2>1. PICK i \in 1 .. Len(globals) : Wanted(dll, i) /\ lib[j] = Probe(dll, i)
    BY <1>3, Zenon
  <2>2. ~globals[i].defined /\ ~Offered(libs, name(i)) /\ name(i) \in dll.exports
    BY <1>4, <2>1, Zenon
  <2>3. lib[j].name = name(i) /\ lib[j].dll = dll.name
    BY <1>6, <2>1, Zenon
  <2>4. ~Offered(Libraries, name(i))
    BY <1>5, <2>2, GivenOffered
  <2>5. Exporters(name(i), n) = {}
    BY <1>5, <2>2, Zenon DEF NoneMissed
  <2>6. Exporters(name(i), n + 1) # {} /\ FirstExporter(name(i), n + 1) = dll.name
    <3> HIDE DEF name
    <3> QED BY <2>2, <2>5, ExportersNext
  <2> QED BY <2>3, <2>4, <2>6, Zenon DEF FromDll
<1>8. ASSUME NEW i \in 1 .. Len(globals), ~globals[i].defined, Exporters(name(i), n + 1) # {}
      PROVE  Offered(libs, name(i)) \/ Has(lib, name(i))
  <2>1. CASE Exporters(name(i), n) # {}
    BY <1>5, <1>8, <2>1, Zenon DEF NoneMissed
  <2>2. CASE Exporters(name(i), n) = {}
    <3>1. name(i) \in dll.exports
      <4> HIDE DEF name
      <4> QED BY <1>8, <2>2, ExportersNext
    <3> QED BY <1>3, <1>4, <1>8, <3>1, Zenon
  <2> QED BY <2>1, <2>2
<1> QED BY <1>3, <1>7, <1>8, Zenon DEF lib

\* pe_append_imports_from_dlls, one DLL.
LEMMA ProbeAvailable ==
  ASSUME globals \in Seq(GlobalRecord), libs \in Seq(Seq(OfferRecord)), NEW n \in 1 .. Len(Dlls),
         Available(libs, globals, n), n = at[1], ProbeDll
  PROVE  Available(libs', globals, n + 1)
<1> DEFINE lib == ProbedLibrary(Dlls[n])
           name(i) == Canonical(globals[i].name)
           g == globals
           ls == libs
<1>0. /\ GivenFirst(ls) /\ FromDlls(ls, n) /\ NoneMissed(ls, g, n) /\ Len(ls) \in Nat
      /\ Len(Libraries) \in Nat
  BY LibrariesAssumption DEF Available
<1>1. libs' = IF Dlls[n].loads /\ lib # <<>> THEN Append(ls, lib) ELSE ls
  BY Zenon DEF ProbeDll
<1>2. ASSUME Dlls[n].loads
      PROVE  /\ lib \in Seq(OfferRecord)
             /\ \A j \in 1 .. Len(lib) : FromDll(lib[j], n + 1)
             /\ \A i \in 1 .. Len(g) : ~g[i].defined /\ Exporters(name(i), n + 1) # {}
                                         => Offered(ls, name(i)) \/ Has(lib, name(i))
  BY <1>2, ProbedOffers, Zenon
<1> HIDE DEF lib, ls, name
<1>3. FromDlls(ls, n + 1)
  <2> SUFFICES ASSUME NEW x \in 1 .. Len(ls), x > Len(Libraries), NEW j \in 1 .. Len(ls[x])
               PROVE  FromDll(ls[x][j], n + 1)
    BY Zenon DEF FromDlls
  <2>1. FromDll(ls[x][j], n)
    BY <1>0, Zenon DEF FromDlls
  <2> QED BY <2>1, FromDllKept
<1>4. CASE Dlls[n].loads /\ lib # <<>>
  <2> DEFINE new == Append(ls, lib)
  <2>1. /\ Len(new) = Len(ls) + 1 /\ new[Len(ls) + 1] = lib
        /\ \A x \in 1 .. Len(ls) : new[x] = ls[x]
    BY <1>0, <1>2, <1>4 DEF ls
  <2>2. \A y : Offered(new, y) <=> Offered(ls, y) \/ Has(lib, y)
    BY OfferedKept DEF ls
  <2> HIDE DEF new
  <2>3. GivenFirst(new)
    <3>1. Len(Libraries) <= Len(new) /\ \A x \in 1 .. Len(Libraries) : x \in 1 .. Len(ls)
      BY <1>0, <2>1 DEF GivenFirst
    <3> QED BY <1>0, <2>1, <3>1, Zenon DEF GivenFirst
  <2>4. FromDlls(new, n + 1)
    <3>1. \A x \in 1 .. Len(new) : x = Len(ls) + 1 \/ x \in 1 .. Len(ls)
      BY <1>0, <2>1
    <3> QED BY <1>2, <1>3, <1>4, <2>1, <3>1, Zenon DEF FromDlls
  <2>5. NoneMissed(new, g, n + 1)
    BY <1>2, <1>4, <2>2, Zenon DEF NoneMissed, name
  <2>6. libs' = new
    BY <1>1, <1>4 DEF new
  <2> QED BY <2>3, <2>4, <2>5, <2>6, Zenon DEF Available
<1>5. CASE ~(Dlls[n].loads /\ lib # <<>>)
  <2>1. libs' = ls
    BY <1>1, <1>5
  <2>2. NoneMissed(ls, g, n + 1)
    <3> SUFFICES ASSUME NEW i \in 1 .. Len(g), ~g[i].defined, Exporters(name(i), n + 1) # {}
                 PROVE  Offered(ls, name(i))
      BY Zenon DEF NoneMissed, name
    <3>1. CASE Dlls[n].loads
      <4>1. lib = <<>>
        BY <1>5, <3>1
      <4>2. ~Has(lib, name(i))
        BY <4>1 DEF Has
      <4> QED BY <1>2, <3>1, <4>2, Zenon
    <3>2. CASE ~Dlls[n].loads
      <4>1. Exporters(name(i), n) # {}
        BY <3>2, ExportersNext
      <4> QED BY <1>0, <4>1, Zenon DEF NoneMissed, name
    <3> QED BY <3>1, <3>2
  <2> QED BY <1>0, <1>3, <2>1, <2>2, Zenon DEF Available
<1> QED BY <1>4, <1>5

\* pe_load_import_libraries, one library, and what each phase starts from.
LEMMA LibraryLoaded ==
  ASSUME PeTypes, LibsInv, LoadLibrary, phase' # "failed"
  PROVE  /\ phase' = "libraries" /\ at'[1] <= Len(Libraries) + 1 /\ Len(libs') = at'[1] - 1
         /\ \A x \in 1 .. Len(libs') : libs'[x] = Libraries[x]
<1>1. /\ phase = "libraries" /\ at[1] <= Len(Libraries) /\ at' = <<at[1] + 1, 1>>
      /\ libs' = Append(libs, Libraries[at[1]]) /\ phase' = phase
  BY DEF LoadLibrary, Fail
<1>2. Len(libs) = at[1] - 1 /\ \A x \in 1 .. Len(libs) : libs[x] = Libraries[x]
  BY <1>1 DEF LibsInv
<1>3. libs \in Seq(Seq(OfferRecord)) /\ at[1] \in Nat /\ Len(libs) \in Nat /\ Len(Libraries) \in Nat
  BY LibrariesAssumption DEF PeTypes, MergeInv
<1> DEFINE e == Libraries[at[1]]
           ls == libs
<1>4. libs' = Append(ls, e)
  BY <1>1
<1> HIDE DEF e
<1>5. /\ Len(libs') = Len(ls) + 1 /\ libs'[Len(ls) + 1] = e
      /\ \A x \in 1 .. Len(ls) : libs'[x] = ls[x]
  BY <1>3, <1>4
<1>6. \A x \in 1 .. Len(ls) + 1 : x \in 1 .. Len(ls) \/ x = Len(ls) + 1
  BY <1>3
<1>7. Len(ls) + 1 = at[1]
  BY <1>2, <1>3
<1>8. \A x \in 1 .. Len(libs') : libs'[x] = Libraries[x]
  BY <1>2, <1>5, <1>6, <1>7 DEF e
<1>9. at'[1] <= Len(Libraries) + 1 /\ Len(libs') = at'[1] - 1
  BY <1>1, <1>2, <1>3, <1>5
<1> QED BY <1>1, <1>8, <1>9

\* With all libraries read and no DLL probed.
LEMMA LibrariesLoaded ==
  ASSUME PeTypes, LibsInv, EndLibraries
  PROVE  Available(libs, globals, 1)
<1>1. phase = "libraries" /\ at[1] > Len(Libraries)
  BY DEF EndLibraries
<1>2. /\ at[1] <= Len(Libraries) + 1 /\ Len(libs) = at[1] - 1
      /\ \A x \in 1 .. Len(libs) : libs[x] = Libraries[x]
  BY <1>1 DEF LibsInv
<1>3. at[1] \in Nat /\ Len(Libraries) \in Nat
  BY LibrariesAssumption DEF PeTypes, MergeInv
<1>4. Len(libs) = Len(Libraries)
  BY <1>1, <1>2, <1>3
<1>5. GivenFirst(libs)
  BY <1>2, <1>3, <1>4 DEF GivenFirst
<1>6. \A x \in 1 .. Len(libs) : ~(x > Len(Libraries))
  BY <1>3, <1>4
<1>7. FromDlls(libs, 1)
  BY <1>6, Zenon DEF FromDlls
<1>8. \A name : Exporters(name, 1) = {}
  <2>1. \A i \in 1 .. Len(Dlls) : ~(i < 1)
    BY DllsAssumption
  <2> QED BY <2>1 DEF Exporters
<1>9. NoneMissed(libs, globals, 1)
  BY <1>8, Zenon DEF NoneMissed
<1> QED BY <1>5, <1>7, <1>9, Zenon DEF Available

Gathering == {"libraries", "dlls", "plan"}

\* The steps that end in one of these phases.
LEMMA WhileGathering ==
  ASSUME PeNext, phase' \in Gathering
  PROVE  CheckOptions \/ LoadLibrary \/ EndLibraries \/ ProbeDll \/ EndDlls \/ PlanImport
<1>1. CASE EndPlan \/ ValidateUnresolved \/ LayoutSections \/ ApplyLayout \/ RelocateNextObject
           \/ EndRelocate \/ WriteImage
  BY <1>1 DEF EndPlan, ValidateUnresolved, LayoutSections, ApplyLayout, RelocateNextObject,
              EndRelocate, WriteImage, Fail, Gathering
<1>2. CASE StoreImports
  <2>1. phase' = "unresolved"
    BY <1>2, Zenon DEF StoreImports
  <2> QED BY <2>1 DEF Gathering
<1>3. CASE FinalizeImports
  <2>1. phase' \in {"relocate", "failed"}
    BY <1>3, Zenon DEF FinalizeImports, Fail
  <2> QED BY <2>1 DEF Gathering
<1>4. CASE RelocateSection
  <2>1. phase = "relocate" /\ (phase' = phase \/ phase' = "failed")
    BY <1>4, Zenon DEF RelocateSection, Fail
  <2> QED BY <2>1 DEF Gathering
<1> QED BY <1>1, <1>2, <1>3, <1>4, Zenon DEF PeNext

LEMMA LibsInit == Init => LibsInv
BY DEF Init, LinkInit, LibsInv

LEMMA LibsStep == PeTypes /\ InLink /\ LibsInv /\ [Next]_vars => LibsInv'
<1> SUFFICES ASSUME PeTypes, InLink, LibsInv, [Next]_vars PROVE LibsInv'
  OBVIOUS
<1>0. /\ Gathering \subseteq PePhases /\ PePhases \cap Linking = {} /\ "failed" \notin Linking
      /\ Gathering = {"libraries", "dlls", "plan"} /\ "resolved" \in Linking
  BY DEF Gathering, PePhases, Linking, Phases
<1>1. CASE UNCHANGED vars
  <2>1. UNCHANGED <<phase, libs, imports, at, globals>>
    BY <1>1 DEF vars, linkvars, pevars
  <2> QED BY <2>1, Zenon DEF LibsInv
<1>2. CASE LinkNext /\ UNCHANGED pevars
  <2>1. phase \in Linking
    BY <1>2, LinkSteps DEF Linking, Phases
  <2>2. libs' = <<>> /\ imports' = <<>>
    BY <1>2, <2>1 DEF LibsInv, pevars
  <2>3. phase' \notin PePhases
    BY <1>2, LinkLeaves
  <2> QED BY <1>0, <2>2, <2>3 DEF LibsInv
<1>3. CASE PeNext
  <2>1. phase' \notin Linking
    BY <1>0, <1>3, PeSteps
  <2>2. CASE phase' \notin Gathering
    BY <1>0, <2>1, <2>2 DEF LibsInv
  <2>3. CASE phase' \in Gathering /\ CheckOptions
    <3>1. phase' = "libraries" /\ at' = <<1, 1>> /\ libs' = libs /\ imports' = imports
          /\ phase = "resolved"
      BY <1>0, <2>3 DEF CheckOptions, pevars
    <3>2. libs = <<>> /\ imports = <<>>
      BY <1>0, <3>1 DEF LibsInv
    <3>3. at'[1] = 1 /\ 1 <= Len(Libraries) + 1 /\ Len(libs') = 0
      BY <3>1, <3>2, LibrariesAssumption
    <3> QED BY <2>1, <3>1, <3>2, <3>3 DEF LibsInv
  <2>4. CASE phase' \in Gathering /\ LoadLibrary
    <3>1. /\ phase' = "libraries" /\ at'[1] <= Len(Libraries) + 1 /\ Len(libs') = at'[1] - 1
          /\ \A x \in 1 .. Len(libs') : libs'[x] = Libraries[x]
      BY <1>0, <2>4, LibraryLoaded
    <3>2. phase = "libraries" /\ imports' = imports
      BY <2>4 DEF LoadLibrary
    <3> QED BY <2>1, <3>1, <3>2 DEF LibsInv
  <2>5. CASE EndLibraries
    <3>1. phase = "libraries" /\ phase' = "dlls" /\ at' = <<1, 1>>
          /\ UNCHANGED <<libs, imports, globals>>
      BY <2>5 DEF EndLibraries, pevars
    <3>2. Available(libs, globals, 1)
      BY <2>5, LibrariesLoaded
    <3>3. at'[1] = 1 /\ 1 <= Len(Dlls) + 1
      BY <3>1, DllsAssumption
    <3>4. Available(libs', globals', at'[1])
      BY <3>1, <3>2, <3>3
    <3> QED BY <2>1, <3>1, <3>3, <3>4 DEF LibsInv
  <2>6. CASE ProbeDll
    <3>1. phase = "dlls" /\ phase' = phase /\ at[1] <= Len(Dlls) /\ at' = <<at[1] + 1, 1>>
          /\ UNCHANGED <<imports, globals>>
      BY <2>6, Zenon DEF ProbeDll
    <3>2. Available(libs, globals, at[1])
      BY <3>1 DEF LibsInv
    <3>3. globals \in Seq(GlobalRecord) /\ libs \in Seq(Seq(OfferRecord)) /\ at[1] \in Nat \ {0}
          /\ Len(Dlls) \in Nat
      BY DllsAssumption DEF PeTypes, MergeInv
    <3>4. at[1] \in 1 .. Len(Dlls) /\ at'[1] = at[1] + 1 /\ at[1] + 1 <= Len(Dlls) + 1
      BY <3>1, <3>3
    <3>5. Available(libs', globals, at[1] + 1)
      BY <2>6, <3>2, <3>3, <3>4, ProbeAvailable
    <3>6. Available(libs', globals', at'[1])
      BY <3>1, <3>4, <3>5
    <3> QED BY <2>1, <3>1, <3>4, <3>6 DEF LibsInv
  <2>7. CASE EndDlls
    <3>1. phase = "dlls" /\ phase' = "plan" /\ at[1] > Len(Dlls)
          /\ UNCHANGED <<libs, imports, globals>>
      BY <2>7 DEF EndDlls, pevars
    <3>2. Available(libs, globals, at[1]) /\ at[1] <= Len(Dlls) + 1
      BY <3>1 DEF LibsInv
    <3>3. at[1] \in Nat /\ Len(Dlls) \in Nat
      BY DllsAssumption DEF PeTypes, MergeInv
    <3>4. at[1] = Len(Dlls) + 1
      BY <3>1, <3>2, <3>3
    <3>5. Available(libs', globals', Len(Dlls) + 1)
      BY <3>1, <3>2, <3>4
    <3> QED BY <2>1, <3>1, <3>5 DEF LibsInv
  <2>8. CASE phase' \in Gathering /\ PlanImport
    <3>1. phase = "plan" /\ (phase' = phase \/ phase' = "failed") /\ UNCHANGED <<libs, globals>>
      BY <2>8, Zenon DEF PlanImport, Fail
    <3>2. phase' = "plan"
      BY <1>0, <2>8, <3>1
    <3>3. Available(libs', globals', Len(Dlls) + 1)
      BY <3>1 DEF LibsInv
    <3> QED BY <2>1, <3>2, <3>3 DEF LibsInv
  <2> QED BY <1>3, <2>2, <2>3, <2>4, <2>5, <2>6, <2>7, <2>8, WhileGathering
<1> QED BY <1>1, <1>2, <1>3 DEF Next

\* One more name of the table.
LEMMA RefersNext ==
  ASSUME NEW g, Len(g) \in Nat, NEW n \in 1 .. Len(g), NEW name, NEW slot
  PROVE  Refers(g, n + 1, name, slot)
           <=> \/ Refers(g, n, name, slot)
               \/ /\ ~g[n].defined /\ Canonical(g[n].name) = name
                  /\ IsImp(g[n].name) <=> slot
<1>1. \A x \in 1 .. Len(g) : x < n + 1 <=> x < n \/ x = n
  OBVIOUS
<1> DEFINE asks(x) == /\ ~g[x].defined /\ Canonical(g[x].name) = name
                      /\ IsImp(g[x].name) <=> slot
<1>2. \A k : Refers(g, k, name, slot) <=> \E x \in 1 .. Len(g) : x < k /\ asks(x)
  BY Zenon DEF Refers
<1> HIDE DEF asks
<1>3. Refers(g, n + 1, name, slot) <=> Refers(g, n, name, slot) \/ asks(n)
  BY <1>1, <1>2, Zenon
<1> QED BY <1>3 DEF asks

\* What PlanSays of one import.
ImportSays(e, ls, g, n) ==
  /\ Offered(ls, e.name) /\ e.dll = FindImport(ls, e.name).dll
  /\ e.iatsym <=> Refers(g, n, e.name, TRUE)
  /\ e.thunk <=> Refers(g, n, e.name, FALSE)
  /\ e.iatsym \/ e.thunk

\* A name that is defined or that nothing offers changes nothing.
LEMMA PlanSkips ==
  ASSUME NEW m, NEW ls, NEW g, Len(g) \in Nat, NEW n \in 1 .. Len(g), PlanSays(m, ls, g, n),
         g[n].defined \/ ~Offered(ls, Canonical(g[n].name))
  PROVE  PlanSays(m, ls, g, n + 1)
<1>1. /\ \A i, j \in 1 .. Len(m) : m[i].name = m[j].name => i = j
      /\ \A i \in 1 .. Len(m) : ImportSays(m[i], ls, g, n)
      /\ \A x \in 1 .. Len(g) : x < n /\ ~g[x].defined /\ Offered(ls, Canonical(g[x].name))
                                  => \E i \in 1 .. Len(m) : m[i].name = Canonical(g[x].name)
  BY Zenon DEF PlanSays, ImportSays
<1>2. ASSUME NEW i \in 1 .. Len(m) PROVE ImportSays(m[i], ls, g, n + 1)
  <2> DEFINE e == m[i]
  <2>1. ImportSays(e, ls, g, n)
    BY <1>1
  <2> HIDE DEF e
  <2>2. g[n].defined \/ Canonical(g[n].name) # e.name
    BY <2>1, Zenon DEF ImportSays
  <2>3. \A slot : Refers(g, n + 1, e.name, slot) <=> Refers(g, n, e.name, slot)
    BY <2>2, RefersNext
  <2>4. ImportSays(e, ls, g, n + 1)
    BY <2>1, <2>3, Zenon DEF ImportSays
  <2> QED BY <2>4 DEF e
<1>3. \A x \in 1 .. Len(g) : x < n + 1 <=> x < n \/ x = n
  OBVIOUS
<1>4. \A x \in 1 .. Len(g) : x < n + 1 /\ ~g[x].defined /\ Offered(ls, Canonical(g[x].name))
                               => \E i \in 1 .. Len(m) : m[i].name = Canonical(g[x].name)
  BY <1>1, <1>3, Zenon
<1> QED BY <1>1, <1>2, <1>4, Zenon DEF PlanSays, ImportSays

\* An import already planned is asked for in one more way.
LEMMA PlanJoins ==
  ASSUME NEW m, NEW ls, NEW g, Len(g) \in Nat, NEW n \in 1 .. Len(g), PlanSays(m, ls, g, n),
         ~g[n].defined, NEW i \in 1 .. Len(m), m[i].name = Canonical(g[n].name),
         NEW k, Len(k) = Len(m), \A j \in 1 .. Len(m) : j # i => k[j] = m[j],
         k[i].name = m[i].name, k[i].dll = m[i].dll,
         k[i].thunk <=> m[i].thunk \/ ~IsImp(g[n].name),
         k[i].iatsym <=> m[i].iatsym \/ IsImp(g[n].name)
  PROVE  PlanSays(k, ls, g, n + 1)
<1>1. /\ \A a, b \in 1 .. Len(m) : m[a].name = m[b].name => a = b
      /\ \A j \in 1 .. Len(m) : ImportSays(m[j], ls, g, n)
      /\ \A x \in 1 .. Len(g) : x < n /\ ~g[x].defined /\ Offered(ls, Canonical(g[x].name))
                                  => \E j \in 1 .. Len(m) : m[j].name = Canonical(g[x].name)
  BY Zenon DEF PlanSays, ImportSays
<1>2. \A j \in 1 .. Len(m) : k[j].name = m[j].name
  OBVIOUS
<1>3. ASSUME NEW j \in 1 .. Len(m) PROVE ImportSays(k[j], ls, g, n + 1)
  <2>1. ImportSays(m[j], ls, g, n)
    BY <1>1
  <2>2. CASE j = i
    <3> DEFINE name == m[i].name
    <3>1. /\ Refers(g, n + 1, name, TRUE) <=> Refers(g, n, name, TRUE) \/ IsImp(g[n].name)
          /\ Refers(g, n + 1, name, FALSE) <=> Refers(g, n, name, FALSE) \/ ~IsImp(g[n].name)
      BY RefersNext
    <3> QED BY <2>1, <2>2, <3>1, Zenon DEF ImportSays
  <2>3. CASE j # i
    <3>1. k[j] = m[j] /\ m[j].name # m[i].name
      BY <1>1, <2>3, Zenon
    <3> DEFINE e == m[j]
    <3>2. \A slot : Refers(g, n + 1, e.name, slot) <=> Refers(g, n, e.name, slot)
      BY <3>1, RefersNext
    <3> QED BY <2>1, <3>1, <3>2, Zenon DEF ImportSays
  <2> QED BY <2>2, <2>3
<1>4. \A x \in 1 .. Len(g) : x < n + 1 <=> x < n \/ x = n
  OBVIOUS
<1>5. \A x \in 1 .. Len(g) : x < n + 1 /\ ~g[x].defined /\ Offered(ls, Canonical(g[x].name))
                               => \E j \in 1 .. Len(k) : k[j].name = Canonical(g[x].name)
  <2> SUFFICES ASSUME NEW x \in 1 .. Len(g), x < n + 1, ~g[x].defined,
                      Offered(ls, Canonical(g[x].name))
               PROVE  \E j \in 1 .. Len(k) : k[j].name = Canonical(g[x].name)
    BY Zenon
  <2>1. CASE x < n
    <3>1. PICK j \in 1 .. Len(m) : m[j].name = Canonical(g[x].name)
      BY <1>1, <2>1, Zenon
    <3> QED BY <1>2, <3>1
  <2>2. CASE x = n
    BY <1>2, <2>2
  <2> QED BY <1>4, <2>1, <2>2
<1>6. \A a, b \in 1 .. Len(k) : k[a].name = k[b].name => a = b
  BY <1>1, <1>2
<1> QED BY <1>3, <1>5, <1>6, Zenon DEF PlanSays, ImportSays

\* An import planned for the first time.
LEMMA PlanAdds ==
  ASSUME NEW m, NEW ls, NEW g, Len(g) \in Nat, Len(m) \in Nat, NEW n \in 1 .. Len(g),
         PlanSays(m, ls, g, n), ~g[n].defined, Offered(ls, Canonical(g[n].name)),
         \A j \in 1 .. Len(m) : m[j].name # Canonical(g[n].name),
         NEW k, Len(k) = Len(m) + 1, \A j \in 1 .. Len(m) : k[j] = m[j],
         NEW e, k[Len(m) + 1] = e, e.name = Canonical(g[n].name),
         e.dll = FindImport(ls, Canonical(g[n].name)).dll,
         e.thunk <=> ~IsImp(g[n].name), e.iatsym <=> IsImp(g[n].name)
  PROVE  PlanSays(k, ls, g, n + 1)
<1>1. /\ \A a, b \in 1 .. Len(m) : m[a].name = m[b].name => a = b
      /\ \A j \in 1 .. Len(m) : ImportSays(m[j], ls, g, n)
      /\ \A x \in 1 .. Len(g) : x < n /\ ~g[x].defined /\ Offered(ls, Canonical(g[x].name))
                                  => \E j \in 1 .. Len(m) : m[j].name = Canonical(g[x].name)
  BY Zenon DEF PlanSays, ImportSays
<1>2. \A j : j \in 1 .. Len(k) <=> j \in 1 .. Len(m) \/ j = Len(m) + 1
  OBVIOUS
<1>3. ASSUME NEW j \in 1 .. Len(m) PROVE ImportSays(k[j], ls, g, n + 1)
  <2> DEFINE o == m[j]
  <2>1. ImportSays(o, ls, g, n) /\ k[j] = o /\ o.name # Canonical(g[n].name)
    BY <1>1
  <2> HIDE DEF o
  <2>2. \A slot : Refers(g, n + 1, o.name, slot) <=> Refers(g, n, o.name, slot)
    BY <2>1, RefersNext
  <2> QED BY <2>1, <2>2, Zenon DEF ImportSays
<1>4. ImportSays(e, ls, g, n + 1)
  <2> DEFINE name == Canonical(g[n].name)
  <2>1. \A slot : ~Refers(g, n, name, slot)
    <3> SUFFICES ASSUME NEW slot, Refers(g, n, name, slot) PROVE FALSE
      OBVIOUS
    <3>1. PICK x \in 1 .. Len(g) : x < n /\ ~g[x].defined /\ Canonical(g[x].name) = name
      BY Zenon DEF Refers
    <3>2. Offered(ls, Canonical(g[x].name))
      BY <3>1, Zenon
    <3>3. PICK j \in 1 .. Len(m) : m[j].name = Canonical(g[x].name)
      BY <1>1, <3>1, <3>2, Zenon
    <3> QED BY <3>1, <3>3
  <2>2. /\ Refers(g, n + 1, name, TRUE) <=> IsImp(g[n].name)
        /\ Refers(g, n + 1, name, FALSE) <=> ~IsImp(g[n].name)
    BY <2>1, RefersNext
  <2> QED BY <2>2, Zenon DEF ImportSays
<1>5. \A x \in 1 .. Len(g) : x < n + 1 <=> x < n \/ x = n
  OBVIOUS
<1>6. \A x \in 1 .. Len(g) : x < n + 1 /\ ~g[x].defined /\ Offered(ls, Canonical(g[x].name))
                               => \E j \in 1 .. Len(k) : k[j].name = Canonical(g[x].name)
  <2> SUFFICES ASSUME NEW x \in 1 .. Len(g), x < n + 1, ~g[x].defined,
                      Offered(ls, Canonical(g[x].name))
               PROVE  \E j \in 1 .. Len(k) : k[j].name = Canonical(g[x].name)
    BY Zenon
  <2>1. CASE x < n
    <3>1. PICK j \in 1 .. Len(m) : m[j].name = Canonical(g[x].name)
      BY <1>1, <2>1, Zenon
    <3> QED BY <1>2, <3>1
  <2>2. CASE x = n
    BY <1>2, <2>2
  <2> QED BY <1>5, <2>1, <2>2
<1>7. \A a, b \in 1 .. Len(k) : k[a].name = k[b].name => a = b
  <2>1. \A a \in 1 .. Len(m) : k[a].name = m[a].name /\ k[a].name # e.name
    OBVIOUS
  <2> SUFFICES ASSUME NEW a \in 1 .. Len(k), NEW b \in 1 .. Len(k), k[a].name = k[b].name PROVE a = b
    OBVIOUS
  <2>2. CASE a \in 1 .. Len(m) /\ b \in 1 .. Len(m)
    BY <1>1, <2>1, <2>2, Zenon
  <2>3. CASE a = Len(m) + 1 \/ b = Len(m) + 1
    BY <1>2, <2>1, <2>3, Zenon
  <2> QED BY <1>2, <2>2, <2>3
<1>8. \A j \in 1 .. Len(k) : ImportSays(k[j], ls, g, n + 1)
  BY <1>2, <1>3, <1>4, Zenon
<1> QED BY <1>6, <1>7, <1>8, Zenon DEF PlanSays, ImportSays

\* pe_bind_import_symbol, for the name at n.
LEMMA BindPlans ==
  ASSUME PeTypes, NEW n \in 1 .. Len(globals), PlanSays(imports, libs, globals, n),
         ~globals[n].defined, Offered(libs, Canonical(globals[n].name)),
         Bind(FindImport(libs, Canonical(globals[n].name)), Canonical(globals[n].name),
              IsImp(globals[n].name))
  PROVE  PlanSays(imports', libs, globals, n + 1)
<1> DEFINE name == Canonical(globals[n].name)
           via == IsImp(globals[n].name)
           offer == FindImport(libs, name)
           d == DllIndex(offer.dll)
           i == ImportIndex(name, offer.dll)
           new == [name |-> name, dll |-> offer.dll,
                   index |-> IF d = 0 THEN Len(dlls) + 1 ELSE d, slot |-> IF d = 0 THEN 0 ELSE Slot(d),
                   ordinal |-> offer.ordinal, thunk |-> ~via, iatsym |-> via,
                   hint |-> 0, thunkAt |-> 0]
           m == imports
<1>1. imports' = IF i = 0 THEN Append(m, new)
                 ELSE [m EXCEPT ![i].thunk = @ \/ ~via, ![i].iatsym = @ \/ via]
  BY Zenon DEF Bind
<1>2. /\ m \in Seq(ImportRecord) /\ Len(m) \in Nat /\ Len(globals) \in Nat /\ PlanTyped
      /\ \A j \in 1 .. Len(m) : m[j] \in ImportRecord
  <2>1. m \in Seq(ImportRecord) /\ PlanTyped /\ globals \in Seq(GlobalRecord)
    BY DEF PeTypes, PlanTyped
  <2>2. Len(m) \in Nat /\ Len(globals) \in Nat
    BY <2>1
  <2> QED BY <2>1, <2>2, SeqElement
<1>3. \/ i = 0 /\ \A j \in 1 .. Len(m) : ~(m[j].name = name /\ m[j].dll = offer.dll)
      \/ i \in 1 .. Len(m) /\ i # 0 /\ m[i].name = name
  BY <1>2, ImportFound
<1>4. new.name = name /\ new.dll = offer.dll /\ new.thunk = ~via /\ new.iatsym = via
  OBVIOUS
<1>5. \A j \in 1 .. Len(m) : m[j].dll = FindImport(libs, m[j].name).dll
  BY Zenon DEF PlanSays
<1>6. PlanSays(m, libs, globals, n)
  OBVIOUS
<1> HIDE DEF i, new, m
<1>7. CASE i = 0 /\ \A j \in 1 .. Len(m) : ~(m[j].name = name /\ m[j].dll = offer.dll)
  <2>1. \A j \in 1 .. Len(m) : m[j].name # name
    BY <1>5, <1>7, Zenon
  <2>2. imports' = Append(m, new)
    BY <1>1, <1>7
  <2>3. /\ Len(imports') = Len(m) + 1 /\ imports'[Len(m) + 1] = new
        /\ \A j \in 1 .. Len(m) : imports'[j] = m[j]
    BY <1>2, <2>2
  <2>4. PICK k : k = imports'
    OBVIOUS
  <2>5. PlanSays(k, libs, globals, n + 1)
    BY <1>2, <1>4, <1>6, <2>1, <2>3, <2>4, PlanAdds
  <2> QED BY <2>4, <2>5
<1>8. CASE i \in 1 .. Len(m) /\ i # 0 /\ m[i].name = name
  <2> DEFINE r == [m[i] EXCEPT !.thunk = @ \/ ~via, !.iatsym = @ \/ via]
  <2>1. m[i] \in ImportRecord
    BY <1>2, <1>8
  <2>2. imports' = [m EXCEPT ![i] = r]
    BY <1>1, <1>2, <1>8
  <2>3. /\ r.name = m[i].name /\ r.dll = m[i].dll
        /\ r.thunk <=> m[i].thunk \/ ~via
        /\ r.iatsym <=> m[i].iatsym \/ via
    BY <2>1 DEF ImportRecord
  <2> HIDE DEF r
  <2>4. /\ Len(imports') = Len(m) /\ imports'[i] = r
        /\ \A j \in 1 .. Len(m) : j # i => imports'[j] = m[j]
    BY <1>2, <1>8, <2>2
  <2>5. PICK k : k = imports'
    OBVIOUS
  <2>6. PlanSays(k, libs, globals, n + 1)
    BY <1>2, <1>6, <1>8, <2>3, <2>4, <2>5, PlanJoins
  <2> QED BY <2>5, <2>6
<1> QED BY <1>3, <1>7, <1>8

LEMMA PlanStep == PeTypes /\ InLink /\ LibsInv /\ PlanInv /\ [Next]_vars => PlanInv'
<1> SUFFICES ASSUME PeTypes, InLink, LibsInv, PlanInv, [Next]_vars, phase' = "plan"
             PROVE  at'[1] <= Len(globals') + 1 /\ PlanSays(imports', libs', globals', at'[1])
  BY Zenon DEF PlanInv
<1>0. phase' \in PePhases /\ phase' \in Gathering
  BY DEF PePhases, Gathering
<1>1. CASE UNCHANGED vars
  <2>1. UNCHANGED <<phase, libs, imports, at, globals>>
    BY <1>1 DEF vars, linkvars, pevars
  <2> QED BY <2>1, Zenon DEF PlanInv
<1>2. CASE LinkNext
  BY <1>0, <1>2, LinkLeaves
<1>3. CASE PeNext
  <2>1. EndDlls \/ PlanImport
    <3>1. ~CheckOptions /\ ~EndLibraries
      BY DEF CheckOptions, EndLibraries
    <3>2. ~LoadLibrary
      BY DEF LoadLibrary, Fail
    <3>3. ~ProbeDll
      <4>1. ProbeDll => phase = "dlls" /\ phase' = phase
        BY Zenon DEF ProbeDll
      <4> QED BY <4>1
    <3> QED BY <1>0, <1>3, <3>1, <3>2, <3>3, WhileGathering
  <2>2. CASE EndDlls
    <3>1. phase = "dlls" /\ at' = <<1, 1>> /\ UNCHANGED <<libs, imports, globals>>
      BY <2>2 DEF EndDlls, pevars
    <3>2. imports = <<>> /\ at'[1] = 1
      BY <3>1 DEF LibsInv
    <3>3. Len(globals) \in Nat
      BY DEF PeTypes
    <3> DEFINE m == imports
               g == globals
    <3>4. m = <<>> /\ Len(m) = 0 /\ Len(g) \in Nat
      BY <3>2, <3>3
    <3> HIDE DEF m, g
    <3>5. \A x \in 1 .. Len(g) : ~(x < 1)
      BY <3>4
    <3>6. \A j : j \notin 1 .. Len(m)
      BY <3>4
    <3>7. PlanSays(m, libs, g, 1)
      BY <3>5, <3>6, Zenon DEF PlanSays
    <3>8. 1 <= Len(g) + 1
      BY <3>4
    <3> QED BY <3>1, <3>2, <3>7, <3>8 DEF m, g
  <2>3. CASE PlanImport
    <3> DEFINE n == at[1]
               name == Canonical(globals[n].name)
    <3>1. /\ phase = "plan" /\ n <= Len(globals) /\ at' = <<n + 1, 1>>
          /\ UNCHANGED <<libs, globals>>
      BY <2>3, Zenon DEF PlanImport
    <3>2. \/ (globals[n].defined \/ OfferedBy(libs, name) = {}) /\ imports' = imports
          \/ phase' = "failed"
          \/ /\ ~globals[n].defined /\ OfferedBy(libs, name) # {}
             /\ Bind(FindImport(libs, name), name, IsImp(globals[n].name))
      <4>1. IF globals[n].defined \/ OfferedBy(libs, name) = {} THEN UNCHANGED <<phase, dlls, imports>>
            ELSE IF ~IsImp(globals[n].name) /\ ~FindImport(libs, name).code
            THEN Fail /\ UNCHANGED <<dlls, imports>>
            ELSE Bind(FindImport(libs, name), name, IsImp(globals[n].name)) /\ UNCHANGED phase
        BY <2>3, Zenon DEF PlanImport
      <4> HIDE DEF name
      <4> QED BY <4>1, Zenon DEF Fail
    <3>3. Len(globals) \in Nat /\ n \in Nat \ {0}
      BY DEF PeTypes, MergeInv
    <3>4. n \in 1 .. Len(globals) /\ at'[1] = n + 1 /\ n + 1 <= Len(globals) + 1
      BY <3>1, <3>3
    <3>5. PlanSays(imports, libs, globals, n)
      BY <3>1, Zenon DEF PlanInv
    <3>6. OfferedBy(libs, name) # {} <=> Offered(libs, name)
      BY OfferedByIs
    <3>7. PlanSays(imports', libs, globals, n + 1)
      <4>1. CASE (globals[n].defined \/ OfferedBy(libs, name) = {}) /\ imports' = imports
        <5> DEFINE m == imports
        <5>1. PlanSays(m, libs, globals, n + 1)
          <6> HIDE DEF m, n
          <6>1. PlanSays(m, libs, globals, n)
            BY <3>5 DEF m
          <6> QED BY <3>3, <3>4, <3>6, <4>1, <6>1, PlanSkips
        <5> QED BY <4>1, <5>1
      <4>2. CASE /\ ~globals[n].defined /\ OfferedBy(libs, name) # {}
                 /\ Bind(FindImport(libs, name), name, IsImp(globals[n].name))
        <5> HIDE DEF n
        <5> QED BY <3>4, <3>5, <3>6, <4>2, BindPlans
      <4> QED BY <3>2, <4>1, <4>2
    <3> QED BY <3>1, <3>4, <3>7
  <2> QED BY <2>1, <2>2, <2>3
<1> QED BY <1>1, <1>2, <1>3 DEF Next

AllDlls == Len(Dlls) + 1

\* Who supplies a name, from the options alone: the first given library that has
\* it, or else the first DLL that exports it.
Supplier(name) ==
  IF OfferedBy(Libraries, name) = {} THEN FirstExporter(name, AllDlls)
  ELSE FindImport(Libraries, name).dll

LEMMA SupplierFound ==
  ASSUME NEW ls \in Seq(Seq(OfferRecord)), NEW g, Available(ls, g, AllDlls), NEW name,
         Offered(ls, name)
  PROVE  /\ FindImport(ls, name).dll = Supplier(name)
         /\ Offered(Libraries, name) \/ Exporters(name, AllDlls) # {}
<1> DEFINE S == OfferedBy(ls, name)
           T == OfferedBy(Libraries, name)
<1>0. /\ GivenFirst(ls) /\ FromDlls(ls, AllDlls) /\ Len(ls) \in Nat /\ Len(Libraries) \in Nat
  BY LibrariesAssumption DEF Available
<1>1. /\ \A x : x \in S <=> x \in 1 .. Len(ls) /\ Has(ls[x], name)
      /\ \A x : x \in T <=> x \in 1 .. Len(Libraries) /\ Has(Libraries[x], name)
      /\ S # {} /\ (T # {} <=> Offered(Libraries, name))
  BY OfferedByIs
<1>2. /\ Len(Libraries) <= Len(ls) /\ \A x \in 1 .. Len(Libraries) : ls[x] = Libraries[x]
  BY <1>0 DEF GivenFirst
<1>3. \A x : x \in T <=> x \in S /\ x <= Len(Libraries)
  <2> HIDE DEF S, T
  <2>1. \A x : x \in 1 .. Len(Libraries) <=> x \in 1 .. Len(ls) /\ x <= Len(Libraries)
    BY <1>0, <1>2
  <2>2. \A x \in 1 .. Len(Libraries) : Has(ls[x], name) <=> Has(Libraries[x], name)
    BY <1>2, Zenon
  <2> QED BY <1>1, <2>1, <2>2, Zenon
<1>4. CASE T # {}
  <2> HIDE DEF S, T
  <2>1. S \subseteq Nat /\ T \subseteq Nat /\ S # {}
    BY <1>0, <1>1
  <2>2. Least(S) \in S /\ Least(T) \in T
        /\ (\A y \in S : Least(S) <= y) /\ (\A y \in T : Least(T) <= y)
    BY <1>4, <2>1, LeastIn
  <2> DEFINE a == Least(S)
             b == Least(T)
  <2> HIDE DEF a, b
  <2>3. /\ a \in S /\ b \in T /\ \A y \in S : a <= y
        /\ \A y \in T : b <= y
    BY <2>2 DEF a, b
  <2>4. b \in S /\ b <= Len(Libraries) /\ a <= b /\ a \in Nat /\ b \in Nat
    BY <1>3, <2>1, <2>3
  <2>5. a <= Len(Libraries)
    BY <1>0, <2>4
  <2>6. a \in T
    BY <1>3, <2>3, <2>5
  <2>7. a = b
    BY <2>3, <2>4, <2>6
  <2>8. ls[a] = Libraries[b]
    BY <1>1, <1>2, <2>6, <2>7
  <2>9. FindImport(ls, name) = FindImport(Libraries, name)
    BY <2>8, Zenon DEF FindImport, a, b, S, T
  <2>10. Supplier(name) = FindImport(Libraries, name).dll
    BY <1>4, Zenon DEF Supplier, T
  <2> QED BY <1>1, <1>4, <2>9, <2>10
<1>5. CASE T = {}
  <2>1. /\ FindImport(ls, name).name = name
        /\ \E i \in 1 .. Len(ls) : i \in S /\ \E j \in 1 .. Len(ls[i]) : FindImport(ls, name) = ls[i][j]
    BY <1>1, FoundImport
  <2> HIDE DEF S, T
  <2>2. PICK i \in 1 .. Len(ls) : i \in S /\ \E j \in 1 .. Len(ls[i]) : FindImport(ls, name) = ls[i][j]
    BY <2>1, Zenon
  <2>3. PICK j \in 1 .. Len(ls[i]) : FindImport(ls, name) = ls[i][j]
    BY <2>2
  <2>4. i > Len(Libraries)
    BY <1>0, <1>3, <1>5, <2>2
  <2>5. FromDll(ls[i][j], AllDlls)
    BY <1>0, <2>4, Zenon DEF FromDlls
  <2>6. Exporters(name, AllDlls) # {} /\ FindImport(ls, name).dll = FirstExporter(name, AllDlls)
    BY <2>1, <2>3, <2>5, Zenon DEF FromDll
  <2>7. Supplier(name) = FirstExporter(name, AllDlls)
    BY <1>5, Zenon DEF Supplier, T
  <2> QED BY <2>6, <2>7
<1> QED BY <1>4, <1>5

\* Exact in these words.
LEMMA ExactIs ==
  ASSUME NEW m, NEW M
  PROVE  Exact(m, M) <=>
           /\ {m[i].name : i \in 1 .. Len(m)}
                = {n \in {Canonical(x) : x \in M} : OfferedBy(Libraries, n) \cup Exporters(n, AllDlls) # {}}
           /\ \A i, j \in 1 .. Len(m) : m[i].name = m[j].name => i = j
           /\ \A i \in 1 .. Len(m) : m[i].dll = Supplier(m[i].name)
           /\ \A i \in 1 .. Len(m) :
                /\ m[i].iatsym <=> \E x \in M : IsImp(x) /\ Canonical(x) = m[i].name
                /\ m[i].thunk <=> m[i].name \in M \ ImpNames
<1> DEFINE offers(name) == {i \in 1 .. Len(Libraries) : LibraryOffers(Libraries[i], name) # {}}
           exporters(name) == {i \in 1 .. Len(Dlls) : Dlls[i].loads /\ name \in Dlls[i].exports}
           first(n) == Libraries[Least(offers(n))]
           supplier(n) == IF offers(n) = {} THEN Dlls[Least(exporters(n))].name
                          ELSE first(n)[Least(LibraryOffers(first(n), n))].dll
<1>1. \A name : offers(name) = OfferedBy(Libraries, name)
  BY Zenon DEF OfferedBy
<1>2. \A name : exporters(name) = Exporters(name, AllDlls)
  <2>1. \A i \in 1 .. Len(Dlls) : i < AllDlls
    BY DllsAssumption DEF AllDlls
  <2> HIDE DEF AllDlls
  <2> QED BY <2>1 DEF Exporters
<1>3. \A name : supplier(name) = Supplier(name)
  <2> SUFFICES ASSUME NEW name PROVE supplier(name) = Supplier(name)
    OBVIOUS
  <2>1. Dlls[Least(exporters(name))].name = FirstExporter(name, AllDlls)
    BY <1>2, Zenon DEF FirstExporter
  <2>2. first(name)[Least(LibraryOffers(first(name), name))].dll = FindImport(Libraries, name).dll
    BY <1>1, Zenon DEF FindImport
  <2>3. offers(name) = OfferedBy(Libraries, name)
    BY <1>1
  <2> HIDE DEF offers, exporters, first
  <2> QED BY <2>1, <2>2, <2>3, Zenon DEF Supplier
<1>4. Exact(m, M) <=>
        /\ {m[i].name : i \in 1 .. Len(m)}
             = {n \in {Canonical(x) : x \in M} : offers(n) \cup exporters(n) # {}}
        /\ \A i, j \in 1 .. Len(m) : m[i].name = m[j].name => i = j
        /\ \A i \in 1 .. Len(m) : m[i].dll = supplier(m[i].name)
        /\ \A i \in 1 .. Len(m) :
             /\ m[i].iatsym <=> \E x \in M : IsImp(x) /\ Canonical(x) = m[i].name
             /\ m[i].thunk <=> m[i].name \in M \ ImpNames
  BY Zenon DEF Exact
<1> HIDE DEF offers, exporters, supplier
<1>5. {n \in {Canonical(x) : x \in M} : offers(n) \cup exporters(n) # {}}
        = {n \in {Canonical(x) : x \in M} : OfferedBy(Libraries, n) \cup Exporters(n, AllDlls) # {}}
  BY <1>1, <1>2
<1> QED BY <1>3, <1>4, <1>5, Zenon

\* The names missing are the undefined ones of the table.
LEMMA MissingAre ==
  ASSUME NEW g, Handed(g)
  PROVE  /\ \A name : name \in Missing <=> \E x \in 1 .. Len(g) : ~g[x].defined /\ g[x].name = name
         /\ \A id \in ExternalSymbols : \E x \in 1 .. Len(g) : g[x].name = SymbolAt(id).name
         /\ \A x \in 1 .. Len(g) : g[x].defined <=> Definitions(g[x].name) # {}
<1>1. \A x \in 1 .. Len(g) : g[x].defined <=> Definitions(g[x].name) # {}
  <2> SUFFICES ASSUME NEW x \in 1 .. Len(g) PROVE g[x].defined <=> Definitions(g[x].name) # {}
    OBVIOUS
  <2> DEFINE e == g[x]
  <2>1. EntrySays(e, Defining, Names, syms)
    BY Zenon DEF Handed, TableSays
  <2>2. \A id : id \in Definitions(e.name) <=> id \in Defining /\ Names[id] = e.name
    BY DefinitionsByName
  <2> HIDE DEF e
  <2>3. e.defined <=> Definitions(e.name) # {}
    BY <2>1, <2>2, Zenon DEF EntrySays
  <2> QED BY <2>3 DEF e
<1>2. \A id \in ExternalSymbols : id \in SymbolIds(objects) /\ Names[id] = SymbolAt(id).name
  BY DEF ExternalSymbols, Names
<1>3. /\ \A id \in ExternalSymbols : \E x \in 1 .. Len(g) : g[x].name = SymbolAt(id).name
      /\ \A x \in 1 .. Len(g) : \E id \in ExternalSymbols : g[x].name = SymbolAt(id).name
  <2>1. /\ \A id \in ExternalSymbols : \E x \in 1 .. Len(g) : g[x].name = Names[id]
        /\ \A x \in 1 .. Len(g) : \E id \in ExternalSymbols : g[x].name = Names[id]
    BY Zenon DEF Handed, TableSays
  <2>2. ASSUME NEW id \in ExternalSymbols
        PROVE  \E x \in 1 .. Len(g) : g[x].name = SymbolAt(id).name
    <3>1. PICK x \in 1 .. Len(g) : g[x].name = Names[id]
      BY <2>1, Zenon
    <3> QED BY <1>2, <3>1
  <2>3. ASSUME NEW x \in 1 .. Len(g)
        PROVE  \E id \in ExternalSymbols : g[x].name = SymbolAt(id).name
    <3>1. PICK id \in ExternalSymbols : g[x].name = Names[id]
      BY <2>1, Zenon
    <3> QED BY <1>2, <3>1
  <2> QED BY <2>2, <2>3
<1>4. \A name : name \in Missing
                  <=> (\E id \in ExternalSymbols : SymbolAt(id).name = name) /\ Definitions(name) = {}
  BY Zenon DEF Missing
<1>5. ASSUME NEW name
      PROVE  name \in Missing <=> \E x \in 1 .. Len(g) : ~g[x].defined /\ g[x].name = name
  <2>1. ASSUME name \in Missing PROVE \E x \in 1 .. Len(g) : ~g[x].defined /\ g[x].name = name
    <3>1. PICK id \in ExternalSymbols : SymbolAt(id).name = name
      BY <1>4, <2>1, Zenon
    <3>2. PICK x \in 1 .. Len(g) : g[x].name = SymbolAt(id).name
      BY <1>3, Zenon
    <3>3. Definitions(g[x].name) = {}
      BY <1>4, <2>1, <3>1, <3>2, Zenon
    <3> QED BY <1>1, <3>1, <3>2, <3>3
  <2>2. ASSUME NEW x \in 1 .. Len(g), ~g[x].defined, g[x].name = name PROVE name \in Missing
    BY <1>1, <1>3, <1>4, <2>2, Zenon
  <2> QED BY <2>1, <2>2, Zenon
<1> QED BY <1>1, <1>3, <1>5

\* The finished plan is the one the object files ask for.
LEMMA PlanIsExact ==
  ASSUME NEW m, NEW ls \in Seq(Seq(OfferRecord)), NEW g, Len(g) \in Nat, NEW n \in Nat, n > Len(g),
         Available(ls, g, AllDlls), PlanSays(m, ls, g, n), Handed(g)
  PROVE  Exact(m, Missing)
<1> DEFINE M == Missing
<1>1. \A name : name \in M <=> \E x \in 1 .. Len(g) : ~g[x].defined /\ g[x].name = name
  BY MissingAre
<1> HIDE DEF M
<1>2. /\ \A i, j \in 1 .. Len(m) : m[i].name = m[j].name => i = j
      /\ \A i \in 1 .. Len(m) : ImportSays(m[i], ls, g, n)
      /\ \A x \in 1 .. Len(g) : x < n /\ ~g[x].defined /\ Offered(ls, Canonical(g[x].name))
                                  => \E i \in 1 .. Len(m) : m[i].name = Canonical(g[x].name)
  BY Zenon DEF PlanSays, ImportSays
<1>3. \A x \in 1 .. Len(g) : x < n
  OBVIOUS
<1>4. ASSUME NEW name
      PROVE  /\ Refers(g, n, name, TRUE) <=> \E x \in M : IsImp(x) /\ Canonical(x) = name
             /\ Refers(g, n, name, FALSE) <=> name \in M \ ImpNames
  <2>1. \A slot : Refers(g, n, name, slot)
                    <=> \E x \in 1 .. Len(g) : /\ ~g[x].defined /\ Canonical(g[x].name) = name
                                               /\ IsImp(g[x].name) <=> slot
    BY <1>3, Zenon DEF Refers
  <2>2. \A slot : Refers(g, n, name, slot) <=> \E y \in M : Canonical(y) = name /\ (IsImp(y) <=> slot)
    <3> SUFFICES ASSUME NEW slot
                 PROVE  (\E x \in 1 .. Len(g) : /\ ~g[x].defined /\ Canonical(g[x].name) = name
                                                /\ IsImp(g[x].name) <=> slot)
                          <=> \E y \in M : Canonical(y) = name /\ (IsImp(y) <=> slot)
      BY <2>1
    <3>1. ASSUME NEW x \in 1 .. Len(g), ~g[x].defined, Canonical(g[x].name) = name,
                 IsImp(g[x].name) <=> slot
          PROVE  \E y \in M : Canonical(y) = name /\ (IsImp(y) <=> slot)
      <4>1. g[x].name \in M
        BY <1>1, <3>1, Zenon
      <4> QED BY <3>1, <4>1
    <3>2. ASSUME NEW y \in M, Canonical(y) = name, IsImp(y) <=> slot
          PROVE  \E x \in 1 .. Len(g) : /\ ~g[x].defined /\ Canonical(g[x].name) = name
                                        /\ IsImp(g[x].name) <=> slot
      <4>1. PICK x \in 1 .. Len(g) : ~g[x].defined /\ g[x].name = y
        BY <1>1, <3>2, Zenon
      <4> QED BY <3>2, <4>1
    <3> QED BY <3>1, <3>2, Zenon
  <2>3. Refers(g, n, name, TRUE) <=> \E y \in M : IsImp(y) /\ Canonical(y) = name
    BY <2>2, Zenon
  <2>4. Refers(g, n, name, FALSE) <=> \E y \in M : ~IsImp(y) /\ Canonical(y) = name
    BY <2>2, Zenon
  <2>5. \A y : ~IsImp(y) => Canonical(y) = y
    BY Zenon DEF Canonical
  <2>6. \A y : IsImp(y) <=> y \in ImpNames
    BY DEF IsImp
  <2> QED BY <2>3, <2>4, <2>5, <2>6, Zenon
<1>5. ASSUME NEW i \in 1 .. Len(m)
      PROVE  /\ m[i].dll = Supplier(m[i].name)
             /\ m[i].iatsym <=> \E x \in M : IsImp(x) /\ Canonical(x) = m[i].name
             /\ m[i].thunk <=> m[i].name \in M \ ImpNames
             /\ \E x \in M : Canonical(x) = m[i].name
             /\ OfferedBy(Libraries, m[i].name) \cup Exporters(m[i].name, AllDlls) # {}
  <2> DEFINE e == m[i]
  <2>1. ImportSays(e, ls, g, n)
    BY <1>2
  <2> HIDE DEF e
  <2>2. /\ Offered(ls, e.name) /\ e.dll = FindImport(ls, e.name).dll
        /\ e.iatsym <=> \E x \in M : IsImp(x) /\ Canonical(x) = e.name
        /\ e.thunk <=> e.name \in M \ ImpNames
        /\ e.iatsym \/ e.thunk
    BY <1>4, <2>1, Zenon DEF ImportSays
  <2>3. e.dll = Supplier(e.name) /\ (Offered(Libraries, e.name) \/ Exporters(e.name, AllDlls) # {})
    BY <2>2, SupplierFound
  <2>4. \E x \in M : Canonical(x) = e.name
    <3>1. e.name \in M \ ImpNames => e.name \in M /\ Canonical(e.name) = e.name
      BY DEF Canonical, IsImp
    <3> QED BY <2>2, <3>1, Zenon
  <2>5. OfferedBy(Libraries, e.name) # {} <=> Offered(Libraries, e.name)
    BY OfferedByIs
  <2>6. OfferedBy(Libraries, e.name) \cup Exporters(e.name, AllDlls) # {}
    BY <2>3, <2>5
  <2> QED BY <2>2, <2>3, <2>4, <2>6 DEF e
<1>6. ASSUME NEW x \in M,
             OfferedBy(Libraries, Canonical(x)) \cup Exporters(Canonical(x), AllDlls) # {}
      PROVE  \E i \in 1 .. Len(m) : m[i].name = Canonical(x)
  <2>1. PICK y \in 1 .. Len(g) : ~g[y].defined /\ g[y].name = x
    BY <1>1, Zenon
  <2> DEFINE name == Canonical(x)
  <2>2. OfferedBy(Libraries, name) # {} <=> Offered(Libraries, name)
    BY OfferedByIs
  <2>3. Offered(Libraries, name) \/ Exporters(name, AllDlls) # {}
    BY <1>6, <2>2
  <2>4. GivenFirst(ls) /\ NoneMissed(ls, g, AllDlls) /\ Len(ls) \in Nat
    BY DEF Available
  <2> HIDE DEF name
  <2>5. Offered(Libraries, name) => Offered(ls, name)
    BY <2>4, GivenOffered
  <2>6. Exporters(name, AllDlls) # {} => Offered(ls, name)
    BY <2>1, <2>4, Zenon DEF NoneMissed, name
  <2>7. Offered(ls, Canonical(g[y].name))
    BY <2>1, <2>3, <2>5, <2>6 DEF name
  <2> QED BY <1>2, <1>3, <2>1, <2>7, Zenon
<1>7. {m[i].name : i \in 1 .. Len(m)}
        = {y \in {Canonical(x) : x \in M} : OfferedBy(Libraries, y) \cup Exporters(y, AllDlls) # {}}
  <2> DEFINE ok(y) == OfferedBy(Libraries, y) \cup Exporters(y, AllDlls) # {}
  <2>1. \A i \in 1 .. Len(m) : ok(m[i].name) /\ \E x \in M : Canonical(x) = m[i].name
    BY <1>5
  <2>2. \A x \in M : ok(Canonical(x)) => \E i \in 1 .. Len(m) : m[i].name = Canonical(x)
    BY <1>6
  <2> HIDE DEF ok
  <2>3. {m[i].name : i \in 1 .. Len(m)} = {y \in {Canonical(x) : x \in M} : ok(y)}
    BY <2>1, <2>2
  <2> QED BY <2>3 DEF ok
<1>8. \A i \in 1 .. Len(m) : m[i].dll = Supplier(m[i].name)
  BY <1>5
<1>9. \A i \in 1 .. Len(m) :
        /\ m[i].iatsym <=> \E x \in M : IsImp(x) /\ Canonical(x) = m[i].name
        /\ m[i].thunk <=> m[i].name \in M \ ImpNames
  BY <1>5
<1>10. Exact(m, M)
  BY <1>2, <1>7, <1>8, <1>9, ExactIs, Zenon
<1> QED BY <1>10 DEF M

\* What is missing, and hence what Exact says, depends on the object files and on
\* four fields of each import.
LEMMA MissingFixed == ASSUME objects' = objects PROVE Missing' = Missing
<1>1. ExternalSymbols' = ExternalSymbols /\ \A id : SymbolAt(id)' = SymbolAt(id)
  BY InputsFixed
<1>2. \A n : Definitions(n)' = Definitions(n)
  BY <1>1, Zenon DEF Definitions, SymbolAt
<1>3. {SymbolAt(id).name : id \in ExternalSymbols}' = {SymbolAt(id).name : id \in ExternalSymbols}
  BY <1>1
<1> QED BY <1>2, <1>3 DEF Missing

LEMMA ExactSame ==
  ASSUME NEW m, NEW k, NEW M, Len(k) = Len(m),
         \A i \in 1 .. Len(m) : /\ k[i].name = m[i].name /\ k[i].dll = m[i].dll
                                /\ k[i].iatsym = m[i].iatsym /\ k[i].thunk = m[i].thunk,
         Exact(m, M)
  PROVE  Exact(k, M)
<1> DEFINE A == {n \in {Canonical(x) : x \in M} :
                   OfferedBy(Libraries, n) \cup Exporters(n, AllDlls) # {}}
           says(e) == /\ e.iatsym <=> \E x \in M : IsImp(x) /\ Canonical(x) = e.name
                      /\ e.thunk <=> e.name \in M \ ImpNames
<1>1. /\ {m[i].name : i \in 1 .. Len(m)} = A
      /\ \A i, j \in 1 .. Len(m) : m[i].name = m[j].name => i = j
      /\ \A i \in 1 .. Len(m) : m[i].dll = Supplier(m[i].name)
      /\ \A i \in 1 .. Len(m) : says(m[i])
  BY ExactIs, Zenon
<1>2. \A i \in 1 .. Len(m) : says(m[i]) => says(k[i])
  OBVIOUS
<1> HIDE DEF A, says
<1>3. {k[i].name : i \in 1 .. Len(k)} = A
  BY <1>1
<1>4. \A i, j \in 1 .. Len(k) : k[i].name = k[j].name => i = j
  BY <1>1
<1>5. \A i \in 1 .. Len(k) : k[i].dll = Supplier(k[i].name)
  BY <1>1
<1>6. \A i \in 1 .. Len(k) : says(k[i])
  BY <1>1, <1>2
<1> QED BY <1>3, <1>4, <1>5, <1>6, ExactIs, Zenon DEF A, says

\* pe_emit_import_storage does not change what is imported.
LEMMA StorageKeepsPlan ==
  ASSUME PeTypes, StoreImports
  PROVE  /\ Len(imports') = Len(imports)
         /\ \A i \in 1 .. Len(imports) :
              /\ imports'[i].name = imports[i].name /\ imports'[i].dll = imports[i].dll
              /\ imports'[i].iatsym = imports[i].iatsym /\ imports'[i].thunk = imports[i].thunk
<1>1. CASE imports = <<>>
  <2>1. imports' = imports
    BY <1>1, Zenon DEF StoreImports
  <2> QED BY <2>1
<1>2. CASE imports # <<>>
  <2> DEFINE m == imports
             h(i) == HintOf(merged["rdata"], i)
             t(i) == ThunkOf(merged["text"], i)
  <2>1. m \in Seq(ImportRecord)
    BY DEF PeTypes, PlanTyped
  <2>2. imports' = [i \in 1 .. Len(m) |-> [m[i] EXCEPT !.hint = h(i), !.thunkAt = t(i)]]
    BY <1>2, Zenon DEF StoreImports, HintOf, ThunkOf
  <2> HIDE DEF m, h, t
  <2>3. Len(m) \in Nat /\ \A i \in 1 .. Len(m) : m[i] \in ImportRecord
    BY <2>1
  <2>4. \A i \in 1 .. Len(m) :
          /\ imports'[i].name = m[i].name /\ imports'[i].dll = m[i].dll
          /\ imports'[i].iatsym = m[i].iatsym /\ imports'[i].thunk = m[i].thunk
    BY <2>2, <2>3 DEF ImportRecord
  <2> DEFINE e(i) == [m[i] EXCEPT !.hint = h(i), !.thunkAt = t(i)]
  <2>5. imports' = [i \in 1 .. Len(m) |-> e(i)]
    BY <2>2
  <2> HIDE DEF e
  <2>6. Len(imports') = Len(m)
    BY <2>3, <2>5
  <2> QED BY <2>4, <2>6 DEF m
<1> QED BY <1>1, <1>2

LEMMA OnlyEndPlan == ASSUME PeNext, phase' = "storage" PROVE EndPlan
<1>1. ~CheckOptions /\ ~EndLibraries /\ ~EndDlls /\ ~ValidateUnresolved /\ ~ApplyLayout
      /\ ~EndRelocate /\ ~WriteImage
  BY DEF CheckOptions, EndLibraries, EndDlls, ValidateUnresolved, ApplyLayout, EndRelocate, WriteImage
<1>2. ~LoadLibrary /\ ~LayoutSections /\ ~RelocateNextObject
  BY DEF LoadLibrary, LayoutSections, RelocateNextObject, Fail
<1>3. /\ ProbeDll => phase = "dlls" /\ phase' = phase
      /\ PlanImport => phase = "plan" /\ (phase' = phase \/ phase' = "failed")
      /\ StoreImports => phase' = "unresolved"
      /\ FinalizeImports => phase' = "relocate" \/ phase' = "failed"
      /\ RelocateSection => phase = "relocate" /\ (phase' = phase \/ phase' = "failed")
  <2>1. /\ ProbeDll => phase = "dlls" /\ phase' = phase
        /\ StoreImports => phase' = "unresolved"
    BY Zenon DEF ProbeDll, StoreImports
  <2>2. PlanImport => phase = "plan" /\ (phase' = phase \/ phase' = "failed")
    <3> SUFFICES ASSUME PlanImport PROVE phase = "plan" /\ (phase' = phase \/ phase' = "failed")
      OBVIOUS
    <3> QED BY Zenon DEF PlanImport, Fail
  <2>3. FinalizeImports => phase' = "relocate" \/ phase' = "failed"
    <3> SUFFICES ASSUME FinalizeImports PROVE phase' = "relocate" \/ phase' = "failed"
      OBVIOUS
    <3> QED BY Zenon DEF FinalizeImports, Fail
  <2>4. RelocateSection => phase = "relocate" /\ (phase' = phase \/ phase' = "failed")
    <3> SUFFICES ASSUME RelocateSection
                 PROVE  phase = "relocate" /\ (phase' = phase \/ phase' = "failed")
      OBVIOUS
    <3> QED BY Zenon DEF RelocateSection, Fail
  <2> QED BY <2>1, <2>2, <2>3, <2>4
<1>4. ~ProbeDll /\ ~PlanImport /\ ~StoreImports /\ ~FinalizeImports /\ ~RelocateSection
  BY <1>3
<1> QED BY <1>1, <1>2, <1>4 DEF PeNext

LEMMA ExactStep ==
  PeTypes /\ InLink /\ HandedInv /\ LibsInv /\ PlanInv /\ ExactInv /\ [Next]_vars => ExactInv'
<1> SUFFICES ASSUME PeTypes, InLink, HandedInv, LibsInv, PlanInv, ExactInv, [Next]_vars,
                    phase' \in {"storage"} \cup Stored
             PROVE  Exact(imports', Missing')
  BY Zenon DEF ExactInv
<1>0. {"storage"} \cup Stored \subseteq PePhases
  BY DEF Stored, PePhases, PhasesAfterLayout
<1>1. ASSUME phase \in {"storage"} \cup Stored, UNCHANGED <<objects, imports>>
      PROVE  Exact(imports', Missing')
  <2>1. Exact(imports, Missing) /\ Missing' = Missing
    BY <1>1, MissingFixed DEF ExactInv
  <2> QED BY <1>1, <2>1
<1>2. CASE UNCHANGED vars
  <2>1. UNCHANGED <<phase, objects, imports>>
    BY <1>2 DEF vars, linkvars, pevars
  <2> QED BY <1>1, <2>1
<1>3. CASE LinkNext
  BY <1>0, <1>3, LinkLeaves
<1>4. CASE PeNext
  <2>0. objects' = objects /\ Missing' = Missing
    BY <1>4, PeSteps, MissingFixed
  <2>1. CASE phase' = "storage"
    <3>1. phase = "plan" /\ at[1] > Len(globals) /\ imports' = imports
      BY <1>4, <2>1, OnlyEndPlan DEF EndPlan, pevars
    <3>2. Available(libs, globals, AllDlls) /\ PlanSays(imports, libs, globals, at[1]) /\ Handed(globals)
      BY <3>1 DEF LibsInv, PlanInv, HandedInv, BeforeStorage, AllDlls
    <3>3. libs \in Seq(Seq(OfferRecord)) /\ Len(globals) \in Nat /\ at[1] \in Nat
      BY DEF PeTypes, MergeInv
    <3>4. PICK m, g, n : m = imports /\ g = globals /\ n = at[1]
      OBVIOUS
    <3>5. Exact(m, Missing)
      BY <3>1, <3>2, <3>3, <3>4, PlanIsExact
    <3> QED BY <2>0, <3>1, <3>4, <3>5
  <2>2. CASE phase' \in Stored /\ StoreImports
    <3>1. phase = "storage"
      BY <2>2, Zenon DEF StoreImports
    <3>2. PICK m, k : m = imports /\ k = imports'
      OBVIOUS
    <3>3. Exact(m, Missing)
      BY <3>1, <3>2 DEF ExactInv
    <3>4. Exact(k, Missing)
      BY <2>2, <3>2, <3>3, StorageKeepsPlan, ExactSame
    <3> QED BY <2>0, <3>2, <3>4
  <2>3. CASE phase' \in Stored /\ ~StoreImports
    <3>1. phase \in Stored /\ Quiet
      BY <1>4, <2>3, AfterStorage
    <3> QED BY <1>1, <2>0, <3>1, QuietKeeps
  <2> QED BY <2>1, <2>2, <2>3
<1> QED BY <1>2, <1>3, <1>4 DEF Next

LEMMA DefinedStep == InLink /\ DefinedInv /\ [Next]_vars => DefinedInv'
<1> DEFINE P == {"layout"} \cup PhasesAfterLayout
<1> SUFFICES ASSUME InLink, DefinedInv, [Next]_vars, phase' \in P
             PROVE  \A i \in 1 .. Len(globals') : globals'[i].defined
  BY Zenon DEF DefinedInv
<1>0. P \subseteq PePhases /\ P \subseteq Stored
  BY DEF Stored, PePhases, PhasesAfterLayout
<1>1. ASSUME phase \in P, globals' = globals PROVE \A i \in 1 .. Len(globals') : globals'[i].defined
  BY <1>1 DEF DefinedInv
<1>2. CASE UNCHANGED vars
  <2>1. UNCHANGED <<phase, globals>>
    BY <1>2 DEF vars, linkvars
  <2> QED BY <1>1, <2>1
<1>3. CASE LinkNext
  BY <1>0, <1>3, LinkLeaves
<1>4. CASE PeNext
  <2>1. ~StoreImports
    <3>1. StoreImports => phase' = "unresolved"
      BY Zenon DEF StoreImports
    <3> QED BY <3>1 DEF PhasesAfterLayout
  <2>2. phase \in Stored /\ Quiet
    BY <1>0, <1>4, <2>1, AfterStorage
  <2>3. globals' = globals
    BY <2>2, QuietKeeps
  <2>4. CASE ValidateUnresolved
    <3>1. Unresolved = {}
      BY <2>4 DEF ValidateUnresolved, PhasesAfterLayout
    <3>2. \A i \in 1 .. Len(globals) : globals[i].defined
      BY <3>1 DEF Unresolved
    <3> QED BY <2>3, <3>2
  <2>5. CASE ~ValidateUnresolved
    <3>1. phase # "unresolved"
      <4>1. /\ FinalizeImports => phase = "finalize"
            /\ RelocateSection => phase = "relocate"
        BY Zenon DEF FinalizeImports, RelocateSection
      <4> QED BY <2>2, <2>5, <4>1 DEF Quiet, CheckOptions, EndLibraries, EndDlls, EndPlan,
              LayoutSections, ApplyLayout, RelocateNextObject, EndRelocate, WriteImage
    <3>2. phase \in P
      BY <2>2, <3>1 DEF Stored
    <3> QED BY <1>1, <2>3, <3>2
  <2> QED BY <2>4, <2>5
<1> QED BY <1>2, <1>3, <1>4 DEF Next

\* An image is only written when every external name is defined or imported.
LEMMA AllSupplied ==
  ASSUME PeInv, DefinedInv, phase \in {"write", "linked"}
  PROVE  /\ WellFormedInput
         /\ \A id \in ExternalSymbols :
              Definitions(SymbolAt(id).name) # {} \/ ImportOf(SymbolAt(id).name) # 0
<1>0. /\ phase \in PePhases /\ phase \in Stored /\ phase \in {"layout"} \cup PhasesAfterLayout
  BY DEF PePhases, Stored, PhasesAfterLayout
<1>1. WellFormedInput
  BY <1>0, Zenon DEF PeInv, SettledInv, Settled
<1>2. PICK g : Handed(g) /\ BoundTable(globals, g, dlls, imports)
  BY <1>0, Zenon DEF PeInv, StoredInv
<1>3. /\ Len(globals) = Len(g) /\ \A x \in 1 .. Len(g) : globals[x] = BoundEntry(g[x], dlls, imports)
  BY <1>2, Zenon DEF BoundTable
<1>4. \A x \in 1 .. Len(g) : globals[x].defined
  BY <1>0, <1>3 DEF DefinedInv
<1>5. ASSUME NEW id \in ExternalSymbols
      PROVE  Definitions(SymbolAt(id).name) # {} \/ ImportOf(SymbolAt(id).name) # 0
  <2>1. PICK x \in 1 .. Len(g) : g[x].name = SymbolAt(id).name
    BY <1>2, MissingAre
  <2>2. g[x].defined => Definitions(SymbolAt(id).name) # {}
    BY <1>2, <2>1, MissingAre
  <2>3. ~g[x].defined => ImportIn(imports, g[x].name) # 0
    <3> SUFFICES ASSUME ~g[x].defined, ImportIn(imports, g[x].name) = 0 PROVE FALSE
      OBVIOUS
    <3>1. BoundEntry(g[x], dlls, imports) = g[x]
      BY Zenon DEF BoundEntry
    <3> QED BY <1>3, <1>4, <3>1
  <2> QED BY <2>1, <2>2, <2>3, ImportOfIs
<1> QED BY <1>1, <1>5

LEMMA ImportsAreExact == PeInv /\ ExactInv /\ DefinedInv => ImportsExactlyMissing
<1> SUFFICES ASSUME PeInv, ExactInv, DefinedInv PROVE ImportsExactlyMissing
  OBVIOUS
<1>1. phase \in {"storage", "unresolved"} \cup PhasesAfterLayout => Exact(imports, Missing)
  BY DEF ExactInv, Stored
<1>2. phase \in {"write", "linked"} =>
        /\ WellFormedInput
        /\ \A id \in ExternalSymbols :
             Definitions(SymbolAt(id).name) # {} \/ ImportOf(SymbolAt(id).name) # 0
  BY AllSupplied
<1>3. Exact(imports, Missing) =>
       LET offers(name) ==
             {i \in 1 .. Len(Libraries) : LibraryOffers(Libraries[i], name) # {}}
           exporters(name) == {i \in 1 .. Len(Dlls) : Dlls[i].loads /\ name \in Dlls[i].exports}
           missing == {n \in {SymbolAt(id).name : id \in ExternalSymbols} : Definitions(n) = {}}
           available == {n \in {Canonical(x) : x \in missing} : offers(n) \cup exporters(n) # {}}
           first(n) == Libraries[Least(offers(n))]
       IN  /\ {imports[i].name : i \in 1 .. Len(imports)} = available
           /\ \A i, j \in 1 .. Len(imports) : imports[i].name = imports[j].name => i = j
           /\ \A i \in 1 .. Len(imports) :
                LET n == imports[i].name
                IN  imports[i].dll = IF offers(n) = {} THEN Dlls[Least(exporters(n))].name
                                     ELSE first(n)[Least(LibraryOffers(first(n), n))].dll
           /\ \A i \in 1 .. Len(imports) :
                /\ imports[i].iatsym <=> \E x \in missing : IsImp(x) /\ Canonical(x) = imports[i].name
                /\ imports[i].thunk <=> imports[i].name \in missing \ ImpNames
  BY Zenon DEF Exact, Missing
<1> QED BY <1>1, <1>2, <1>3, Zenon DEF ImportsExactlyMissing

\* What is imported is exactly what some object refers to, none defines and a
\* library or DLL offers, the first that offers it supplies it, and an image is
\* only written when every external name is defined by one object or imported, for
\* any object files, libraries and DLLs (pe_load_import_libraries,
\* pe_append_imports_from_dlls, pe_build_import_plan,
\* pe_validate_unresolved_externals).
THEOREM ImportsProved == Spec => []ImportsExactlyMissing
<1> DEFINE Inv == PeInv /\ LibsInv /\ PlanInv /\ ExactInv /\ DefinedInv
<1>1. Init => Inv
  <2> SUFFICES ASSUME Init PROVE Inv
    OBVIOUS
  <2>1. phase = "load"
    BY DEF Init, LinkInit
  <2>2. PlanInv /\ ExactInv /\ DefinedInv
    BY <2>1 DEF PlanInv, ExactInv, DefinedInv, Stored, PhasesAfterLayout
  <2> QED BY <2>2, PeInvInit, LibsInit
<1>2. Inv /\ [Next]_vars => Inv'
  BY PeInvStep, LibsStep, PlanStep, ExactStep, DefinedStep DEF PeInv
<1>3. Inv => ImportsExactlyMissing
  BY ImportsAreExact
<1> QED BY <1>1, <1>2, <1>3, PTL DEF Spec
=============================================================================
