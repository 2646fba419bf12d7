--------------------------- MODULE AllocatorProof ---------------------------
(***************************************************************************)
(* The heap invariants of Allocator for every memory map and every set of  *)
(* layouts.                                                                *)
(***************************************************************************)
EXTENDS Allocator, TLAPS, SequenceTheorems

USE DEF HEADER_SIZE, PAGE_SIZE

\* A usize that is a multiple of the header size and holds at least one header.
Granular(n) == n \in Nat /\ n % HEADER_SIZE = 0 /\ n >= HEADER_SIZE

(***************************************************************************)
(* max(round_up_to_nearest_pow2(size), HEADER_SIZE) and                    *)
(* max(align, HEADER_SIZE) are multiples of the header size.               *)
(***************************************************************************)
LEMMA PowersGranular ==
  ASSUME NEW p \in PowersOfTwo
  PROVE  Granular(AtLeastHeader(p))
<1>1. \A q \in PowersOfTwo : q \in Nat /\ q > 0
  BY PowersAssumption
<1>2. CASE p < 32
  BY <1>1, <1>2 DEF AtLeastHeader, Granular
<1>3. CASE p >= 32
  <2>1. PICK a \in PowersOfTwo : p = 2 * a
    BY <1>1, <1>3, PowersAssumption
  <2>2. PICK b \in PowersOfTwo : a = 2 * b
    BY <1>1, <1>3, <2>1, PowersAssumption
  <2>3. PICK c \in PowersOfTwo : b = 2 * c
    BY <1>1, <1>3, <2>1, <2>2, PowersAssumption
  <2>4. PICK d \in PowersOfTwo : c = 2 * d
    BY <1>1, <1>3, <2>1, <2>2, <2>3, PowersAssumption
  <2>5. PICK e \in PowersOfTwo : d = 2 * e
    BY <1>1, <1>3, <2>1, <2>2, <2>3, <2>4, PowersAssumption
  <2>6. e \in Nat /\ p \in Nat /\ p = 32 * e
    BY <1>1, <2>1, <2>2, <2>3, <2>4, <2>5
  <2>7. p % 32 = 0
    BY <2>6
  <2>8. p \in Nat /\ ~(p < 32)
    BY <1>1, <1>3
  <2>9. AtLeastHeader(p) = p
    BY <2>8 DEF AtLeastHeader
  <2>10. QED
    BY <1>3, <2>7, <2>8, <2>9 DEF Granular
<1>4. QED
  BY <1>1, <1>2, <1>3

(***************************************************************************)
(* Rounding an address down to a granular alignment stays granular, and    *)
(* gives up less than one alignment unit.                                  *)
(***************************************************************************)
LEMMA AlignDownGranular ==
  ASSUME NEW x \in Nat, NEW align, Granular(align)
  PROVE  /\ AlignDown(x, align) \in Nat
         /\ AlignDown(x, align) <= x
         /\ x < AlignDown(x, align) + align
         /\ AlignDown(x, align) % HEADER_SIZE = 0
<1> DEFINE q == x \div align
           k == align \div 32
<1>1. align \in Nat /\ align > 0 /\ align % 32 = 0
  BY DEF Granular
<1>2. k \in Nat /\ align = 32 * k
  BY <1>1
<1>3. q \in Nat /\ x % align \in 0..(align - 1) /\ x = align * q + (x % align)
  BY <1>1
<1>4. AlignDown(x, align) = align * q
  BY <1>1, <1>3 DEF AlignDown
<1>5. align * q = 32 * (k * q) /\ k * q \in Nat
  BY <1>2, <1>3
<1> HIDE DEF q, k
<1>6. \A n \in Nat : (32 * n) % 32 = 0
  OBVIOUS
<1>7. AlignDown(x, align) % 32 = 0
  BY <1>4, <1>5, <1>6
<1>8. AlignDown(x, align) \in Nat /\ AlignDown(x, align) <= x
      /\ x < AlignDown(x, align) + align
  BY <1>1, <1>3 DEF AlignDown
<1>9. QED
  BY <1>7, <1>8

-----------------------------------------------------------------------------
(* Where provide puts the block and the padding                            *)

EndOf(self) == self + header[self].size
AddrIn(self, size, align) == AlignDown(EndOf(self) - size, align)
BlockIn(self, size, align) == AddrIn(self, size, align) - HEADER_SIZE
PaddingIn(self, size, align) == AddrIn(self, size, align) + size

(***************************************************************************)
(* In a chunk that passed can_provide, the header of the block leaves room *)
(* for the header of the rest, the padding is granular, and neither of the *)
(* two new headers is written over an old one.                             *)
(***************************************************************************)
LEMMA ProvideGeometry ==
  ASSUME TypeOK, ChunksDisjoint, ChunksFit,
         NEW self \in DOMAIN header,
         NEW size, Granular(size),
         NEW align, Granular(align),
         can_provide(header[self], size, align)
  PROVE  LET end     == EndOf(self)
             block   == BlockIn(self, size, align)
             padding == PaddingIn(self, size, align)
         IN  /\ self \in Nat /\ end \in Nat /\ end % 32 = 0
             /\ block \in Nat /\ block % 32 = 0 /\ self + 32 <= block
             /\ (block - self) % 32 = 0
             /\ padding \in Nat /\ padding % 32 = 0 /\ padding <= end
             /\ (end - padding) % 32 = 0
             /\ padding = block + size + 32
             /\ block \notin DOMAIN header
             /\ padding # end => padding \notin DOMAIN header
<1> DEFINE end     == EndOf(self)
           addr    == AddrIn(self, size, align)
           block   == BlockIn(self, size, align)
           padding == PaddingIn(self, size, align)
<1>1. /\ self \in Nat /\ header[self].size \in Nat
      /\ self % 32 = 0 /\ header[self].size % 32 = 0
  BY DEF TypeOK, ChunksFit
<1>2. /\ size \in Nat /\ size % 32 = 0 /\ size >= 32
      /\ align \in Nat /\ align % 32 = 0 /\ align >= 32
      /\ header[self].size >= size + 64 + align
  BY DEF Granular, can_provide
<1>3. end \in Nat /\ end % 32 = 0 /\ end - size \in Nat /\ end = self + header[self].size
  BY <1>1, <1>2 DEF EndOf
<1>4. /\ addr \in Nat /\ addr <= end - size /\ end - size < addr + align
      /\ addr % 32 = 0
  BY <1>3, AlignDownGranular DEF AddrIn
<1>5. block = addr - 32 /\ padding = addr + size
  BY DEF BlockIn, PaddingIn
<1> HIDE DEF end, addr, block, padding
<1>6. /\ block \in Nat /\ block % 32 = 0 /\ self + 32 <= block
      /\ (block - self) % 32 = 0
      /\ padding \in Nat /\ padding % 32 = 0 /\ padding <= end
      /\ (end - padding) % 32 = 0
      /\ padding = block + size + 32
  BY <1>1, <1>2, <1>3, <1>4, <1>5
<1>7. \A x \in DOMAIN header : x # self => x >= end \/ x + 32 <= self
  <2> TAKE x \in DOMAIN header
  <2> HAVE x # self
  <2>1. x \in Nat /\ header[x].size \in Nat /\ header[x].size >= 32
    BY DEF TypeOK, ChunksFit
  <2>2. ChunkEnd(x) <= self \/ ChunkEnd(self) <= x
    BY DEF ChunksDisjoint
  <2>3. QED
    BY <1>1, <1>3, <2>1, <2>2 DEF ChunkEnd
<1>8. block \notin DOMAIN header
  BY <1>1, <1>2, <1>3, <1>6, <1>7
<1>9. padding # end => padding \notin DOMAIN header
  BY <1>1, <1>2, <1>3, <1>6, <1>7
<1>10. QED
  BY <1>1, <1>3, <1>6, <1>8, <1>9 DEF end, block, padding

\* u is s with t behind its i-th element, element by element.
Spliced(u, s, i, t) ==
  \A j \in 1..(Len(s) + Len(t)) :
     /\ j <= i => u[j] = s[j]
     /\ i < j /\ j <= i + Len(t) => u[j] = t[j - i]
     /\ i + Len(t) < j => u[j] = s[j - Len(t)]

(***************************************************************************)
(* InsertAfter(s, i, t) is s with t put behind its i-th element.           *)
(***************************************************************************)
LEMMA InsertAfterSeq ==
  ASSUME NEW S, NEW s \in Seq(S), NEW t \in Seq(S), NEW i \in 1..Len(s)
  PROVE  LET u == InsertAfter(s, i, t)
             n == Len(s) + Len(t)
         IN  /\ u \in Seq(S)
             /\ Len(u) = n
             /\ Spliced(u, s, i, t)
<1> DEFINE u == InsertAfter(s, i, t)
           n == Len(s) + Len(t)
<1>1. /\ Len(s) \in Nat /\ Len(t) \in Nat
      /\ \A j \in 1..Len(s) : s[j] \in S
      /\ \A j \in 1..Len(t) : t[j] \in S
  BY LenProperties, ElementOfSeq
<1>2. n \in Nat
  BY <1>1
<1>3. \A j \in 1..n :
         (IF j <= i THEN s[j] ELSE IF j <= i + Len(t) THEN t[j - i] ELSE s[j - Len(t)]) \in S
  BY <1>1
<1>4. u \in [1..n -> S]
  BY <1>3 DEF InsertAfter
<1>5. u \in Seq(S)
  BY <1>2, <1>4, SeqDef
<1>6. Len(u) = n
  BY <1>2, <1>4, <1>5, LenProperties
<1>7. QED
  BY <1>1, <1>5, <1>6 DEF InsertAfter, Spliced

(***************************************************************************)
(* Putting one or two new addresses behind the i-th keeps the list a list  *)
(* of all addresses without repetition.                                    *)
(***************************************************************************)
Enumerates(s, D) ==
  /\ s \in Seq(D)
  /\ \A a \in D : \E i \in 1..Len(s) : s[i] = a
  /\ \A i, j \in 1..Len(s) : s[i] = s[j] => i = j

\* Linking new headers behind the i-th one keeps the list an enumeration, now
\* of the old and the new headers.
LEMMA InsertAfterEnumerates ==
  ASSUME NEW D, NEW s, Enumerates(s, D),
         NEW N, NEW t, Enumerates(t, N), D \cap N = {},
         NEW i \in 1..Len(s)
  PROVE  Enumerates(InsertAfter(s, i, t), D \union N)
<1> DEFINE u == InsertAfter(s, i, t)
           n == Len(s) + Len(t)
<1>1. /\ s \in Seq(D) /\ s \in Seq(D \union N)
      /\ t \in Seq(N) /\ t \in Seq(D \union N)
  BY DEF Enumerates
<1>2. /\ Len(s) \in Nat /\ Len(t) \in Nat
      /\ \A j \in 1..Len(s) : s[j] \in D
      /\ \A j \in 1..Len(t) : t[j] \in N
  BY <1>1, LenProperties, ElementOfSeq
<1>3. /\ u \in Seq(D \union N)
      /\ Len(u) = n
      /\ Spliced(u, s, i, t)
  BY <1>1, InsertAfterSeq
<1> HIDE DEF u
<1>4. \A a \in D \union N : \E j \in 1..Len(u) : u[j] = a
  <2> TAKE a \in D \union N
  <2>1. CASE a \in D
    <3>1. PICK j \in 1..Len(s) : s[j] = a
      BY <2>1 DEF Enumerates
    <3>2. CASE j <= i
      <4>1. j \in 1..n /\ u[j] = a
        BY <1>2, <1>3, <3>1, <3>2 DEF Spliced
      <4>2. QED
        BY <1>3, <4>1
    <3>3. CASE j > i
      <4> DEFINE m == j + Len(t)
      <4>1. m \in 1..n /\ i + Len(t) < m /\ m - Len(t) = j
        BY <1>2, <3>1, <3>3
      <4> HIDE DEF m
      <4>2. u[m] = a
        BY <1>3, <3>1, <4>1 DEF Spliced
      <4>3. QED
        BY <1>3, <4>1, <4>2
    <3>4. QED
      BY <1>2, <3>2, <3>3
  <2>2. CASE a \in N
    <3>1. PICK j \in 1..Len(t) : t[j] = a
      BY <2>2 DEF Enumerates
    <3> DEFINE m == j + i
    <3>2. m \in 1..n /\ i < m /\ m <= i + Len(t) /\ m - i = j
      BY <1>2, <3>1
    <3> HIDE DEF m
    <3>3. u[m] = a
      BY <1>3, <3>1, <3>2 DEF Spliced
    <3>4. QED
      BY <1>3, <3>2, <3>3
  <2>3. QED
    BY <2>1, <2>2
<1>5. \A j, k \in 1..Len(u) : u[j] = u[k] => j = k
  <2> TAKE j, k \in 1..Len(u)
  <2> HAVE u[j] = u[k]
  <2>1. \A x, y \in 1..Len(s) : s[x] = s[y] => x = y
    BY DEF Enumerates
  <2>2. \A x, y \in 1..Len(t) : t[x] = t[y] => x = y
    BY DEF Enumerates
  <2>3. \A x \in 1..Len(s), y \in 1..Len(t) : s[x] # t[y]
    BY <1>2
  <2> DEFINE InFront(m) == m <= i /\ m \in 1..Len(s) /\ u[m] = s[m]
             Inside(m) == m - i \in 1..Len(t) /\ u[m] = t[m - i]
             Behind(m) == i + Len(t) < m /\ m - Len(t) \in 1..Len(s)
                            /\ u[m] = s[m - Len(t)]
  <2>4. \A m \in 1..Len(u) : InFront(m) \/ Inside(m) \/ Behind(m)
    BY <1>2, <1>3 DEF Spliced
  <2>5. CASE InFront(j) /\ Behind(k)
    <3>1. j = k - Len(t)
      BY <2>1, <2>5
    <3>2. QED
      BY <1>2, <1>3, <2>5, <3>1
  <2>6. CASE Behind(j) /\ InFront(k)
    <3>1. k = j - Len(t)
      BY <2>1, <2>6
    <3>2. QED
      BY <1>2, <1>3, <2>6, <3>1
  <2>7. CASE InFront(j) /\ InFront(k)
    BY <2>1, <2>7
  <2>8. CASE Behind(j) /\ Behind(k)
    <3>1. j - Len(t) = k - Len(t)
      BY <2>1, <2>8
    <3>2. QED
      BY <1>2, <1>3, <3>1
  <2>9. CASE Inside(j) /\ Inside(k)
    <3>1. j - i = k - i
      BY <2>2, <2>9
    <3>2. QED
      BY <1>2, <1>3, <3>1
  <2>10. CASE Inside(j) /\ (InFront(k) \/ Behind(k))
    BY <2>3, <2>10
  <2>11. CASE (InFront(j) \/ Behind(j)) /\ Inside(k)
    BY <2>3, <2>11
  <2> HIDE DEF InFront, Inside, Behind
  <2>12. QED
    BY <2>4, <2>5, <2>6, <2>7, <2>8, <2>9, <2>10, <2>11
<1>6. QED
  BY <1>3, <1>4, <1>5 DEF Enumerates, u

-----------------------------------------------------------------------------
(* The heap invariant and what one allocation does to it                   *)

(***************************************************************************)
(* Every region of the heap lies inside its descriptor, is granular and    *)
(* does not start at address 0.                                            *)
(***************************************************************************)
LEMMA RegionFacts ==
  ASSUME NEW k \in 1..Len(MemoryMap), Usable(MemoryMap[k])
  PROVE  LET d == MemoryMap[k]
             r == Region(d)
         IN  /\ Granular(r.size) /\ r.start \in Nat /\ r.start % 32 = 0
             /\ d.start \in Nat /\ DescEnd(d) \in Nat
             /\ d.start <= r.start /\ r.start + r.size <= DescEnd(d)
<1> DEFINE d == MemoryMap[k]
           r == Region(d)
<1>1. d \in [start : Nat, pages : Nat, type : STRING] /\ d.start % 4096 = 0
  <2>1. MemoryMap \in Seq([start : Nat, pages : Nat, type : STRING])
    BY MemoryMapAssumption
  <2>2. d \in [start : Nat, pages : Nat, type : STRING]
    BY <2>1, ElementOfSeq
  <2>3. d.start % 4096 = 0
    BY MemoryMapAssumption
  <2>4. QED
    BY <2>2, <2>3
<1>2. Usable(d)
  OBVIOUS
<1> HIDE DEF d
<1>3. d.start \in Nat /\ d.pages \in Nat /\ DescEnd(d) = d.start + d.pages * 4096
  BY <1>1 DEF DescEnd
<1>4. CASE d.start = 0
  <2>1. d.pages # 0 /\ r.size > 4096
    BY <1>2, <1>3, <1>4 DEF Usable, Region
  <2>2. r = [start |-> 4096, size |-> d.pages * 4096 - 4096]
    BY <1>4, <2>1 DEF Region
  <2> HIDE DEF r
  <2>3. r.size \in Nat /\ r.size % 32 = 0 /\ r.size >= 32 /\ r.start = 4096
    BY <1>3, <2>1, <2>2
  <2>4. Granular(r.size) /\ r.start \in Nat /\ r.start % 32 = 0
    BY <2>3 DEF Granular
  <2>5. DescEnd(d) \in Nat /\ d.start <= r.start /\ r.start + r.size <= DescEnd(d)
    BY <1>3, <1>4, <2>2
  <2>6. QED
    BY <1>3, <2>4, <2>5 DEF r, d
<1>5. CASE d.start # 0
  <2>1. r = [start |-> d.start, size |-> d.pages * 4096]
    BY <1>5 DEF Region
  <2>2. r.size > 4096
    BY <1>2 DEF Usable
  <2> HIDE DEF r
  <2>3. r.size \in Nat /\ r.size % 32 = 0 /\ r.size >= 32 /\ r.start = d.start
    BY <1>3, <2>1, <2>2
  <2>4. d.start % 32 = 0
    BY <1>1, <1>3
  <2>5. Granular(r.size) /\ r.start \in Nat /\ r.start % 32 = 0
    BY <1>3, <2>3, <2>4 DEF Granular
  <2>6. DescEnd(d) = r.start + r.size /\ DescEnd(d) \in Nat /\ d.start <= r.start
    BY <1>3, <2>1, <2>3
  <2>7. r.start + r.size <= DescEnd(d)
    BY <2>6
  <2>8. QED
    BY <1>3, <2>5, <2>6, <2>7 DEF r, d
<1>6. QED
  BY <1>4, <1>5

\* The regions given to the heap are header-granular and not empty.
LEMMA RegionsTyped ==
  ASSUME NEW n \in 0..Len(MemoryMap), NEW r \in Regions(n)
  PROVE  r.start \in Nat /\ r.size \in Nat /\ r.start % 32 = 0 /\ r.size >= 32
<1>1. PICK k \in 1..n : Usable(MemoryMap[k]) /\ r = Region(MemoryMap[k])
  BY DEF Regions
<1>2. Len(MemoryMap) \in Nat
  BY MemoryMapAssumption, LenProperties
<1>3. k \in 1..Len(MemoryMap)
  BY <1>2
<1>4. QED
  BY <1>1, <1>3, RegionFacts DEF Granular

\* The inductive invariant: each part needs the others.  The chunks of a region
\* stay disjoint because provide cuts one of them, which it can because sizes
\* are granular, and the list is an enumeration because the cut is at new
\* addresses.
HeapInv ==
  /\ TypeOK
  /\ NeverPanics
  /\ ChunksDisjoint
  /\ ChunksFit
  /\ ChunksTile
  /\ ListComplete

\* ListComplete says that the list enumerates the headers.
LEMMA ListEnumerates ==
  TypeOK => (ListComplete <=> Enumerates(list, DOMAIN header))
BY DEF TypeOK, ListComplete, Enumerates

(***************************************************************************)
(* Header::provide on a chunk that can serve the request: its assertion    *)
(* holds, the old chunk shrinks, and behind it are the headers of the      *)
(* block and, where there is some, of the padding.                         *)
(***************************************************************************)
LEMMA ProvideWrites ==
  ASSUME HeapInv,
         NEW i \in 1..Len(list),
         NEW size, Granular(size),
         NEW align, Granular(align),
         CanServe(i, size, align),
         Provide(i, size, align)
  PROVE
    LET self    == list[i]
        D       == DOMAIN header
        end     == EndOf(self)
        block   == BlockIn(self, size, align)
        padding == PaddingIn(self, size, align)
        N       == {block} \union (IF padding = end THEN {} ELSE {padding})
        t       == IF padding = end THEN <<block>> ELSE <<block, padding>>
    IN  /\ self \in D /\ ~header[self].is_allocated
        /\ self \in Nat /\ self % 32 = 0 /\ end \in Nat /\ end % 32 = 0
        /\ end = self + header[self].size
        /\ block \in Nat /\ block % 32 = 0 /\ self + 32 <= block
        /\ (block - self) % 32 = 0
        /\ padding \in Nat /\ padding % 32 = 0 /\ padding <= end
        /\ (end - padding) % 32 = 0
        /\ padding = block + size + 32
        /\ size \in Nat /\ size % 32 = 0 /\ size >= 32
        /\ block \notin D
        /\ padding # end => padding \notin D
        /\ list' = InsertAfter(list, i, t)
        /\ panicked' = panicked
        /\ DOMAIN header' = D \union N
        /\ header' = [a \in D \union N |-> header'[a]]
        /\ header'[self] = [size |-> block - self, is_allocated |-> FALSE]
        /\ header'[block] = [size |-> size + 32, is_allocated |-> TRUE]
        /\ padding # end => header'[padding] = [size |-> end - padding, is_allocated |-> FALSE]
        /\ \A a \in D \ {self} : header'[a] = header[a]
<1> DEFINE self    == list[i]
           D       == DOMAIN header
           end     == EndOf(self)
           block   == BlockIn(self, size, align)
           padding == PaddingIn(self, size, align)
           N       == {block} \union (IF padding = end THEN {} ELSE {padding})
           t       == IF padding = end THEN <<block>> ELSE <<block, padding>>
<1>1. self \in D
  BY ElementOfSeq DEF HeapInv, TypeOK
<1>2. ~header[self].is_allocated /\ can_provide(header[self], size, align)
  BY DEF CanServe
<1>3. /\ self \in Nat /\ end \in Nat /\ end % 32 = 0
      /\ block \in Nat /\ block % 32 = 0 /\ self + 32 <= block
      /\ (block - self) % 32 = 0
      /\ padding \in Nat /\ padding % 32 = 0 /\ padding <= end
      /\ (end - padding) % 32 = 0
      /\ padding = block + size + 32
      /\ block \notin D
      /\ padding # end => padding \notin D
  BY <1>1, <1>2, ProvideGeometry DEF HeapInv
<1>4. /\ size \in Nat /\ size % 32 = 0 /\ size >= 32
      /\ D \subseteq Nat
      /\ \A a \in D : /\ header[a] \in [size : Nat, is_allocated : BOOLEAN]
                      /\ header[a].size >= 32 /\ header[a].size % 32 = 0 /\ a % 32 = 0
      /\ end = self + header[self].size
  BY <1>1 DEF HeapInv, TypeOK, ChunksFit, Granular, EndOf
<1> HIDE DEF end, block, padding, self, D
<1> DEFINE rest == header[self].size - (end - block)
<1>r. /\ self \in Nat /\ end \in Nat /\ block \in Nat /\ padding \in Nat /\ size \in Nat
      /\ size >= 32
      /\ self + 32 <= block
      /\ padding = block + size + 32
      /\ padding <= end
      /\ rest = block - self
      /\ header[self].size >= (end - block) + 32
  <2>1. header[self].size \in Nat /\ header[self].size = end - self
    <3>1. header[self].size \in Nat
      BY <1>1, <1>4
    <3> HIDE DEF rest
    <3>2. end = self + header[self].size /\ self \in Nat
      BY <1>3, <1>4
    <3>3. QED
      BY <3>1, <3>2
  <2>2. /\ self \in Nat /\ end \in Nat /\ block \in Nat /\ self + 32 <= block
        /\ padding \in Nat /\ padding <= end /\ padding = block + size + 32
        /\ size \in Nat /\ size >= 32
    BY <1>3, <1>4
  <2>3. QED
    BY <2>1, <2>2
<1> HIDE DEF rest
<1> DEFINE h1 == WriteHeader(header, block, size + 32, TRUE)
           h2 == IF padding = end THEN h1
                 ELSE WriteHeader(h1, padding, end - padding, FALSE)
<1>5. /\ header' = WriteHeader(h2, self, rest, FALSE)
      /\ list' = InsertAfter(list, i, t)
      /\ panicked' = panicked
  BY <1>r DEF Provide, EndOf, BlockIn, PaddingIn, AddrIn, end, block, padding, self, rest, D
<1>6. /\ DOMAIN header' = D \union N
      /\ header'[self] = [size |-> block - self, is_allocated |-> FALSE]
      /\ header'[block] = [size |-> size + 32, is_allocated |-> TRUE]
      /\ padding # end => header'[padding] = [size |-> end - padding, is_allocated |-> FALSE]
      /\ \A a \in D \ {self} : header'[a] = header[a]
  <2>1. rest = block - self
    BY <1>r
  <2>2. self # block /\ self # padding /\ block # padding
    BY <1>r
  <2>3. \A a \in D : a # block /\ (padding # end => a # padding)
    BY <1>3
  <2>4. CASE padding = end
    <3>1. header' = WriteHeader(h1, self, block - self, FALSE)
      BY <1>5, <2>1, <2>4
    <3>2. QED
      BY <1>1, <2>2, <2>3, <2>4, <3>1 DEF WriteHeader, D
  <2>5. CASE padding # end
    <3>1. header' = WriteHeader(h2, self, block - self, FALSE)
      BY <1>5, <2>1
    <3>2. h2 = WriteHeader(h1, padding, end - padding, FALSE)
      BY <2>5
    <3>3. /\ DOMAIN h1 = D \union {block}
          /\ h1[block] = [size |-> size + 32, is_allocated |-> TRUE]
          /\ \A a \in D : h1[a] = header[a]
      BY <2>3 DEF WriteHeader, D
    <3> HIDE DEF h1
    <3>4. /\ DOMAIN h2 = D \union {block, padding}
          /\ h2[block] = h1[block]
          /\ h2[padding] = [size |-> end - padding, is_allocated |-> FALSE]
          /\ \A a \in D : h2[a] = header[a]
      BY <2>2, <2>3, <2>5, <3>2, <3>3 DEF WriteHeader
    <3> HIDE DEF h2
    <3>5. QED
      BY <1>1, <2>2, <2>3, <2>5, <3>1, <3>3, <3>4 DEF WriteHeader
  <2>6. QED
    BY <2>4, <2>5
<1>7. header' = [a \in DOMAIN header' |-> header'[a]]
  <2>1. header' = WriteHeader(h2, self, rest, FALSE)
    BY <1>5
  <2> HIDE DEF h2, rest
  <2>2. QED
    BY <2>1 DEF WriteHeader
<1>8. self % 32 = 0
  BY <1>1, <1>4
<1>9. QED
  <2> HIDE DEF N, t
  <2>1. DOMAIN header' = D \union N
    BY <1>6
  <2>2. header' = [a \in D \union N |-> header'[a]]
    BY <1>7, <2>1
  <2>3. QED
    BY <1>1, <1>2, <1>3, <1>4, <1>5, <1>6, <1>8, <2>2, Zenon DEF self, D, end, block, padding, N, t

(***************************************************************************)
(* Header::provide on a chunk that can serve the request: the three    *)
(* chunks it leaves behind take the place of the old one and every other   *)
(* chunk is as before.                                                      *)
(***************************************************************************)
LEMMA ProvidePreserves ==
  ASSUME HeapInv, UNCHANGED mapped,
         NEW i \in 1..Len(list),
         NEW size, Granular(size),
         NEW align, Granular(align),
         CanServe(i, size, align),
         Provide(i, size, align)
  PROVE  HeapInv'
<1> DEFINE self    == list[i]
           D       == DOMAIN header
           end     == EndOf(self)
           block   == BlockIn(self, size, align)
           padding == PaddingIn(self, size, align)
           N       == {block} \union (IF padding = end THEN {} ELSE {padding})
           t       == IF padding = end THEN <<block>> ELSE <<block, padding>>
<1>w. /\ self \in D /\ ~header[self].is_allocated
      /\ self \in Nat /\ self % 32 = 0 /\ end \in Nat /\ end % 32 = 0
      /\ end = self + header[self].size
      /\ block \in Nat /\ block % 32 = 0 /\ self + 32 <= block
      /\ (block - self) % 32 = 0
      /\ padding \in Nat /\ padding % 32 = 0 /\ padding <= end
      /\ (end - padding) % 32 = 0
      /\ padding = block + size + 32
      /\ size \in Nat /\ size % 32 = 0 /\ size >= 32
      /\ block \notin D
      /\ padding # end => padding \notin D
      /\ list' = InsertAfter(list, i, t)
      /\ panicked' = panicked
      /\ DOMAIN header' = D \union N
      /\ header' = [a \in D \union N |-> header'[a]]
      /\ header'[self] = [size |-> block - self, is_allocated |-> FALSE]
      /\ header'[block] = [size |-> size + 32, is_allocated |-> TRUE]
      /\ padding # end => header'[padding] = [size |-> end - padding, is_allocated |-> FALSE]
      /\ \A a \in D \ {self} : header'[a] = header[a]
  BY ProvideWrites
<1>4. /\ D \subseteq Nat
      /\ \A a \in D : /\ header[a] \in [size : Nat, is_allocated : BOOLEAN]
                      /\ header[a].size >= 32 /\ header[a].size % 32 = 0 /\ a % 32 = 0
      /\ end = self + header[self].size
  BY <1>w DEF HeapInv, TypeOK, ChunksFit
<1> HIDE DEF end, block, padding, self, D
<1>1. self \in D
  BY <1>w
<1>3. /\ self \in Nat /\ end \in Nat /\ end % 32 = 0
      /\ block \in Nat /\ block % 32 = 0 /\ self + 32 <= block
      /\ (block - self) % 32 = 0
      /\ padding \in Nat /\ padding % 32 = 0 /\ padding <= end
      /\ (end - padding) % 32 = 0
      /\ padding = block + size + 32
      /\ block \notin D
      /\ padding # end => padding \notin D
      /\ size \in Nat /\ size % 32 = 0 /\ size >= 32
  BY <1>w
<1>r. /\ self \in Nat /\ end \in Nat /\ block \in Nat /\ padding \in Nat /\ size \in Nat
      /\ size >= 32
      /\ self + 32 <= block
      /\ padding = block + size + 32
      /\ padding <= end
  BY <1>w
<1>6. /\ DOMAIN header' = D \union N
      /\ header'[self] = [size |-> block - self, is_allocated |-> FALSE]
      /\ header'[block] = [size |-> size + 32, is_allocated |-> TRUE]
      /\ padding # end => header'[padding] = [size |-> end - padding, is_allocated |-> FALSE]
      /\ \A a \in D \ {self} : header'[a] = header[a]
  BY <1>w
<1>5. list' = InsertAfter(list, i, t) /\ panicked' = panicked
  BY <1>w
<1>7. N = IF padding = end THEN {block} ELSE {block, padding}
  OBVIOUS
<1>8. \A a \in DOMAIN header' :
         /\ a \in Nat /\ a % 32 = 0
         /\ header'[a] \in [size : Nat, is_allocated : BOOLEAN]
         /\ header'[a].size >= 32 /\ header'[a].size % 32 = 0
  <2>1. ASSUME NEW a \in D, a # self
        PROVE  /\ a \in Nat /\ a % 32 = 0
               /\ header'[a] \in [size : Nat, is_allocated : BOOLEAN]
               /\ header'[a].size >= 32 /\ header'[a].size % 32 = 0
    BY <1>4, <1>6, <2>1
  <2>2. /\ self % 32 = 0
        /\ header'[self] \in [size : Nat, is_allocated : BOOLEAN]
        /\ header'[self].size >= 32 /\ header'[self].size % 32 = 0
    <3>1. PICK m : m = block - self
      OBVIOUS
    <3>2. m \in Nat /\ m >= 32 /\ m % 32 = 0
      BY <1>r, <1>3, <3>1
    <3>3. header'[self] = [size |-> m, is_allocated |-> FALSE]
      BY <1>6, <3>1
    <3>4. self % 32 = 0
      BY <1>1, <1>4
    <3>5. QED
      BY <3>2, <3>3, <3>4
  <2>3. /\ header'[block] \in [size : Nat, is_allocated : BOOLEAN]
        /\ header'[block].size >= 32 /\ header'[block].size % 32 = 0
    <3>1. PICK m : m = size + 32
      OBVIOUS
    <3>2. m \in Nat /\ m >= 32 /\ m % 32 = 0
      BY <1>3, <3>1
    <3>3. header'[block] = [size |-> m, is_allocated |-> TRUE]
      BY <1>6, <3>1
    <3>4. QED
      BY <3>2, <3>3
  <2>4. padding # end =>
           /\ header'[padding] \in [size : Nat, is_allocated : BOOLEAN]
           /\ header'[padding].size >= 32 /\ header'[padding].size % 32 = 0
    <3> DEFINE gap == end - padding
    <3>1. padding # end => gap \in Nat /\ gap > 0
      BY <1>r
    <3>2. gap % 32 = 0
      BY <1>3
    <3>3. padding # end => header'[padding] = [size |-> gap, is_allocated |-> FALSE]
      BY <1>6
    <3> HIDE DEF gap
    <3>4. padding # end => gap >= 32
      BY <3>1, <3>2
    <3>5. CASE padding # end
      <4>1. header'[padding].size = gap /\ header'[padding].is_allocated = FALSE
        BY <3>3, <3>5
      <4>2. header'[padding] \in [size : Nat, is_allocated : BOOLEAN]
        <5>1. gap \in Nat
          BY <3>1, <3>5
        <5>2. [size |-> gap, is_allocated |-> FALSE] \in [size : Nat, is_allocated : BOOLEAN]
          BY <5>1
        <5>3. QED
          BY <3>3, <3>5, <5>2
      <4>3. gap >= 32 /\ gap % 32 = 0
        BY <3>2, <3>4, <3>5
      <4>4. QED
        BY <4>1, <4>2, <4>3
    <3>6. QED
      BY <3>5
  <2>5. \A a \in DOMAIN header' : (a \in D /\ a # self) \/ a = self \/ a = block \/ (a = padding /\ padding # end)
    BY <1>6, <1>7
  <2>6. self \in Nat /\ block \in Nat /\ block % 32 = 0 /\ padding \in Nat /\ padding % 32 = 0
    BY <1>3
  <2>7. QED
    BY <2>1, <2>2, <2>3, <2>4, <2>5, <2>6, Zenon
<1>9. Enumerates(list', DOMAIN header')
  <2>1. Enumerates(list, D)
    BY ListEnumerates DEF HeapInv, D
  <2>2. Enumerates(t, N)
    <3>1. CASE padding = end
      BY <3>1 DEF Enumerates
    <3>2. CASE padding # end
      <4>1. t = <<block, padding>> /\ N = {block, padding} /\ block # padding
        BY <1>3, <1>4, <3>2
      <4> HIDE DEF t, N
      <4>2. t \in Seq(N) /\ Len(t) = 2 /\ t[1] = block /\ t[2] = padding
        BY <4>1
      <4>3. QED
        BY <4>1, <4>2 DEF Enumerates
    <3>3. QED
      BY <3>1, <3>2
  <2>3. D \cap N = {}
    BY <1>3
  <2> HIDE DEF t, N
  <2>4. Enumerates(InsertAfter(list, i, t), D \union N)
    BY <2>1, <2>2, <2>3, InsertAfterEnumerates
  <2>5. QED
    BY <1>5, <1>6, <2>4
<1>10. TypeOK'
  <2>1. header' \in [DOMAIN header' -> [size : Nat, is_allocated : BOOLEAN]]
    <3>1. header' = [a \in DOMAIN header' |-> header'[a]]
      BY <1>w
    <3>2. QED
      BY <1>8, <3>1
  <2>2. list' \in Seq(DOMAIN header')
    BY <1>9 DEF Enumerates
  <2>3. mapped' \in 0..Len(MemoryMap) /\ panicked' \in BOOLEAN
    BY <1>5 DEF HeapInv, TypeOK
  <2>4. QED
    BY <1>8, <2>1, <2>2, <2>3 DEF TypeOK
<1>11. NeverPanics'
  BY <1>5 DEF HeapInv, NeverPanics
<1> DEFINE endOf(a) == a + header'[a].size
<1>12. /\ endOf(self) = block
       /\ endOf(block) = padding
       /\ padding # end => endOf(padding) = end
       /\ \A a \in D \ {self} : endOf(a) = ChunkEnd(a)
  <2>1. endOf(self) = block
    BY <1>r, <1>6
  <2>2. endOf(block) = padding
    BY <1>r, <1>6
  <2>3. padding # end => endOf(padding) = end
    BY <1>r, <1>6
  <2>4. \A a \in D \ {self} : endOf(a) = ChunkEnd(a)
    BY <1>6 DEF ChunkEnd
  <2>5. QED
    BY <2>1, <2>2, <2>3, <2>4
<1>13. \A a \in D \ {self} :
          /\ ChunkEnd(a) \in Nat
          /\ ChunkEnd(a) <= self \/ end <= a
  <2>1. \A a \in D : ChunkEnd(a) \in Nat
    BY <1>4 DEF ChunkEnd
  <2>2. ChunkEnd(self) = end
    BY <1>4 DEF ChunkEnd
  <2>3. QED
    BY <1>1, <2>1, <2>2 DEF HeapInv, ChunksDisjoint, D
<1>14. ChunksDisjoint'
  <2>1. \A a, b \in D \ {self} : a # b => ChunkEnd(a) <= b \/ ChunkEnd(b) <= a
    BY DEF HeapInv, ChunksDisjoint, D
  <2>2. \A a, b \in DOMAIN header' : a # b => endOf(a) <= b \/ endOf(b) <= a
    <3> HIDE DEF endOf
    <3>1. /\ D \subseteq Nat
          /\ \A a \in D \ {self} : endOf(a) \in Nat /\ (endOf(a) <= self \/ end <= a)
          /\ \A a, b \in D \ {self} : a # b => endOf(a) <= b \/ endOf(b) <= a
      BY <1>4, <1>12, <1>13, <2>1
    <3>2. DOMAIN header' = (D \ {self}) \union {self} \union N
      BY <1>1, <1>6
    <3> HIDE DEF N
    <3> DEFINE New == {self} \union N
    <3>3. \A a \in New : /\ a \in Nat /\ endOf(a) \in Nat
                         /\ self <= a /\ a < end /\ endOf(a) <= end
      BY <1>r, <1>7, <1>12
    <3>4. \A a, b \in New : a # b => endOf(a) <= b \/ endOf(b) <= a
      BY <1>r, <1>7, <1>12
    <3>5. DOMAIN header' = (D \ {self}) \union New
      BY <3>2
    <3> HIDE DEF New
    <3> TAKE a, b \in DOMAIN header'
    <3> HAVE a # b
    <3>6. CASE a \in New /\ b \in New
      BY <3>4, <3>6
    <3>7. CASE a \in D \ {self} /\ b \in D \ {self}
      BY <3>1, <3>7
    <3>8. CASE a \in D \ {self} /\ b \in New
      <4>1. a \in Nat /\ endOf(a) \in Nat /\ (endOf(a) <= self \/ end <= a)
        BY <3>1, <3>8
      <4>2. b \in Nat /\ endOf(b) \in Nat /\ self <= b /\ endOf(b) <= end
        BY <3>3, <3>8
      <4>3. self \in Nat /\ end \in Nat
        BY <1>r
      <4>4. QED
        BY <4>1, <4>2, <4>3
    <3>9. CASE a \in New /\ b \in D \ {self}
      <4>1. b \in Nat /\ endOf(b) \in Nat /\ (endOf(b) <= self \/ end <= b)
        BY <3>1, <3>9
      <4>2. a \in Nat /\ endOf(a) \in Nat /\ self <= a /\ endOf(a) <= end
        BY <3>3, <3>9
      <4>3. self \in Nat /\ end \in Nat
        BY <1>r
      <4>4. QED
        BY <4>1, <4>2, <4>3
    <3>10. QED
      BY <3>5, <3>6, <3>7, <3>8, <3>9
  <2>3. QED
    BY <2>2 DEF ChunksDisjoint, ChunkEnd
<1>15. Regions(mapped)' = Regions(mapped)
  BY DEF Regions
<1>16. PICK r0 \in Regions(mapped) : r0.start <= self /\ end <= r0.start + r0.size
  BY <1>1, <1>4 DEF HeapInv, ChunksFit, ChunkEnd, D
<1>17. ChunksFit'
  <2>1. \A a \in D \ {self} :
           \E r \in Regions(mapped) : r.start <= a /\ endOf(a) <= r.start + r.size
    BY <1>12 DEF HeapInv, ChunksFit, D
  <2>2. r0.start \in Nat /\ r0.size \in Nat
    BY RegionsTyped DEF HeapInv, TypeOK
  <2>3. /\ r0.start <= self /\ endOf(self) <= r0.start + r0.size
        /\ r0.start <= block /\ endOf(block) <= r0.start + r0.size
        /\ padding # end => r0.start <= padding /\ endOf(padding) <= r0.start + r0.size
    BY <1>r, <1>12, <1>16, <2>2
  <2>4. \A a \in DOMAIN header' :
           \E r \in Regions(mapped) : r.start <= a /\ endOf(a) <= r.start + r.size
    <3> HIDE DEF endOf
    <3>1. QED
      BY <1>6, <1>7, <2>1, <2>3
  <2>5. QED
    BY <1>8, <1>15, <2>4 DEF ChunksFit, ChunkEnd
<1>18. ChunksTile'
  <2>1. \A r \in Regions(mapped) : r.start \in DOMAIN header'
    BY <1>6 DEF HeapInv, ChunksTile, D
  <2>2. \A a \in D : \/ ChunkEnd(a) \in DOMAIN header'
                     \/ \E r \in Regions(mapped) : ChunkEnd(a) = r.start + r.size
    BY <1>6 DEF HeapInv, ChunksTile, D
  <2>3. ChunkEnd(self) = end
    BY <1>4 DEF ChunkEnd
  <2>4. /\ block \in DOMAIN header'
        /\ padding # end => padding \in DOMAIN header'
    BY <1>6, <1>7
  <2>5. \A a \in DOMAIN header' :
           \/ endOf(a) \in DOMAIN header'
           \/ \E r \in Regions(mapped) : endOf(a) = r.start + r.size
    <3> HIDE DEF endOf
    <3>1. QED
      BY <1>1, <1>6, <1>7, <1>12, <2>2, <2>3, <2>4
  <2>6. QED
    BY <1>15, <2>1, <2>5 DEF ChunksTile, ChunkEnd
<1>19. ListComplete'
  BY <1>9 DEF ListComplete, Enumerates
<1>20. QED
  BY <1>10, <1>11, <1>14, <1>17, <1>18, <1>19 DEF HeapInv

(***************************************************************************)
(* A new first element in front of the list.                               *)
(***************************************************************************)
LEMMA ConsEnumerates ==
  ASSUME NEW D, NEW s, Enumerates(s, D), NEW a, a \notin D
  PROVE  Enumerates(<<a>> \o s, D \union {a})
<1> DEFINE u == <<a>> \o s
           E == D \union {a}
<1>1. /\ s \in Seq(D) /\ s \in Seq(E) /\ <<a>> \in Seq(E)
      /\ Len(<<a>>) = 1 /\ <<a>>[1] = a
  BY DEF Enumerates
<1>2. Len(s) \in Nat /\ \A j \in 1..Len(s) : s[j] \in D
  BY <1>1, LenProperties, ElementOfSeq
<1>3. /\ u \in Seq(E)
      /\ Len(u) = 1 + Len(s)
      /\ \A j \in 1..(1 + Len(s)) : u[j] = IF j = 1 THEN a ELSE s[j - 1]
  BY <1>1, <1>2
<1> HIDE DEF u
<1>4. \A x \in E : \E j \in 1..Len(u) : u[j] = x
  <2> TAKE x \in E
  <2>1. CASE x = a
    BY <1>2, <1>3, <2>1
  <2>2. CASE x \in D
    <3>1. PICK j \in 1..Len(s) : s[j] = x
      BY <2>2 DEF Enumerates
    <3> DEFINE m == j + 1
    <3>2. m \in 1..Len(u) /\ m # 1 /\ m - 1 = j
      BY <1>2, <1>3
    <3> HIDE DEF m
    <3>3. QED
      BY <1>3, <3>1, <3>2
  <2>3. QED
    BY <2>1, <2>2
<1>5. \A j, k \in 1..Len(u) : u[j] = u[k] => j = k
  <2> TAKE j, k \in 1..Len(u)
  <2> HAVE u[j] = u[k]
  <2>1. \A x, y \in 1..Len(s) : s[x] = s[y] => x = y
    BY DEF Enumerates
  <2>2. \A m \in 1..Len(u) : (m = 1 /\ u[m] = a) \/ (m - 1 \in 1..Len(s) /\ u[m] = s[m - 1])
    <3> TAKE m \in 1..Len(u)
    <3>1. m \in 1..(1 + Len(s))
      BY <1>3
    <3>2. CASE m = 1
      <4>1. 1 \in 1..(1 + Len(s))
        BY <1>2
      <4>2. u[1] = a
        BY <1>3, <4>1
      <4>3. QED
        BY <3>2, <4>2
    <3>3. CASE m # 1
      <4>1. m - 1 \in 1..Len(s)
        BY <1>2, <3>1, <3>3
      <4>2. u[m] = s[m - 1]
        BY <1>3, <3>1, <3>3
      <4>3. QED
        BY <4>1, <4>2
    <3>4. QED
      BY <3>2, <3>3
  <2>3. CASE j - 1 \in 1..Len(s) /\ u[j] = s[j - 1] /\ k - 1 \in 1..Len(s) /\ u[k] = s[k - 1]
    <3>1. j - 1 = k - 1
      BY <2>1, <2>3
    <3>2. QED
      BY <1>2, <1>3, <3>1
  <2>4. QED
    BY <1>2, <2>2, <2>3
<1>6. QED
  BY <1>3, <1>4, <1>5 DEF Enumerates, u

(***************************************************************************)
(* Each descriptor adds at most its own region to the heap.                *)
(***************************************************************************)
LEMMA RegionsStep ==
  ASSUME NEW n \in Nat
  PROVE  /\ Regions(n) \subseteq Regions(n + 1)
         /\ Regions(n + 1) \subseteq Regions(n) \union {Region(MemoryMap[n + 1])}
         /\ Usable(MemoryMap[n + 1]) => Region(MemoryMap[n + 1]) \in Regions(n + 1)
         /\ ~Usable(MemoryMap[n + 1]) => Regions(n + 1) = Regions(n)
<1>1. 1..(n + 1) = (1..n) \union {n + 1}
  OBVIOUS
<1>2. QED
  BY <1>1, Zenon DEF Regions

(***************************************************************************)
(* A descriptor that has not been given to the heap yet is clear of every  *)
(* chunk, as the descriptors of the memory map are of each other.          *)
(***************************************************************************)
\* The order of numbers along a chain.
LEMMA OrderChain ==
  ASSUME NEW s \in Nat, NEW t \in Nat, NEW u \in Nat, NEW v \in Nat, NEW w \in Nat,
         s <= t, t <= u, u <= v, v <= w
  PROVE  s <= w
OBVIOUS

LEMMA DescriptorIsNew ==
  ASSUME HeapInv, mapped + 1 \in 1..Len(MemoryMap), Usable(MemoryMap[mapped + 1])
  PROVE  LET r == Region(MemoryMap[mapped + 1])
         IN  /\ \A a \in DOMAIN header : ChunkEnd(a) <= r.start \/ r.start + r.size <= a
             /\ r.start \notin DOMAIN header
<1> DEFINE n == mapped + 1
           d == MemoryMap[n]
           r == Region(d)
           D == DOMAIN header
<1>1. /\ mapped \in Nat /\ n \in 1..Len(MemoryMap) /\ Len(MemoryMap) \in Nat /\ mapped < n
  BY MemoryMapAssumption, LenProperties DEF HeapInv, TypeOK
<1> HIDE DEF n, d, r, D
<1>2. /\ r.size \in Nat /\ r.size >= 32 /\ r.start \in Nat
      /\ d.start \in Nat /\ DescEnd(d) \in Nat
      /\ d.start <= r.start /\ r.start + r.size <= DescEnd(d)
  BY <1>1, RegionFacts DEF Granular, r, d, n
<1>3. \A a \in D : /\ a \in Nat /\ header[a].size \in Nat /\ header[a].size >= 32
                   /\ ChunkEnd(a) = a + header[a].size
  BY DEF HeapInv, TypeOK, ChunksFit, D, ChunkEnd
<1>4. \A a \in D : ChunkEnd(a) <= r.start \/ r.start + r.size <= a
  <2> TAKE a \in D
  <2>1. PICK q \in Regions(mapped) : q.start <= a /\ ChunkEnd(a) <= q.start + q.size
    BY DEF HeapInv, ChunksFit, D
  <2>2. PICK k \in 1..mapped : Usable(MemoryMap[k]) /\ q = Region(MemoryMap[k])
    BY DEF Regions
  <2> DEFINE e == MemoryMap[k]
  <2>3. k \in 1..Len(MemoryMap) /\ k < n
    BY <1>1
  <2>4. /\ q.size \in Nat /\ q.start \in Nat
        /\ e.start \in Nat /\ DescEnd(e) \in Nat
        /\ e.start <= q.start /\ q.start + q.size <= DescEnd(e)
    BY <2>2, <2>3, RegionFacts DEF Granular
  <2>5. DescEnd(e) <= d.start \/ DescEnd(d) <= e.start
    <3>1. \A i, j \in 1..Len(MemoryMap) :
             i < j => \/ DescEnd(MemoryMap[i]) <= MemoryMap[j].start
                      \/ DescEnd(MemoryMap[j]) <= MemoryMap[i].start
      BY MemoryMapAssumption
    <3>2. QED
      BY <1>1, <2>3, <3>1 DEF d
  <2> HIDE DEF e
  <2>6. a \in Nat /\ ChunkEnd(a) \in Nat
    BY <1>3
  <2>7. CASE DescEnd(e) <= d.start
    <3>1. ChunkEnd(a) <= r.start
      <4>1. q.start + q.size \in Nat
        BY <2>4
      <4>2. PICK f \in Nat : f = q.start + q.size
        BY <4>1
      <4>3. ChunkEnd(a) <= f /\ f <= DescEnd(e) /\ DescEnd(e) <= d.start /\ d.start <= r.start
        BY <1>2, <2>1, <2>4, <2>7, <4>2, Zenon
      <4>4. ChunkEnd(a) \in Nat /\ DescEnd(e) \in Nat /\ d.start \in Nat /\ r.start \in Nat
        BY <1>2, <2>4, <2>6, Zenon
      <4>5. QED
        BY <4>3, <4>4, OrderChain
    <3>2. QED
      BY <3>1
  <2>8. CASE DescEnd(d) <= e.start
    <3>1. r.start + r.size <= a
      <4>1. r.start + r.size \in Nat
        BY <1>2
      <4>2. PICK f \in Nat : f = r.start + r.size
        BY <4>1
      <4>3. f <= DescEnd(d) /\ DescEnd(d) <= e.start /\ e.start <= q.start /\ q.start <= a
        BY <1>2, <2>1, <2>4, <2>8, <4>2, Zenon
      <4>4. DescEnd(d) \in Nat /\ e.start \in Nat /\ q.start \in Nat /\ a \in Nat
        BY <1>2, <2>4, <2>6, Zenon
      <4>5. QED
        BY <4>2, <4>3, <4>4, OrderChain
    <3>2. QED
      BY <3>1
  <2>9. QED
    BY <2>5, <2>7, <2>8
<1>5. r.start \notin D
  <2> SUFFICES ASSUME r.start \in D PROVE FALSE
    OBVIOUS
  <2>1. PICK a \in D : a = r.start
    OBVIOUS
  <2>2. PICK s \in Nat, m \in Nat : s = header[a].size /\ m = r.size /\ s >= 32 /\ m >= 32
    BY <1>2, <1>3
  <2>3. a \in Nat /\ ChunkEnd(a) = a + s
    BY <1>3, <2>2
  <2>4. a + s <= a \/ a + m <= a
    BY <1>4, <2>1, <2>2, <2>3
  <2>5. QED
    BY <2>2, <2>3, <2>4
<1>6. QED
  BY <1>4, <1>5 DEF r, d, n, D

\* init_with_mmap: a new descriptor is disjoint from every chunk so far.
LEMMA InitPreserves ==
  ASSUME HeapInv, InitWithMmap
  PROVE  HeapInv'
<1> DEFINE n == mapped + 1
           d == MemoryMap[n]
           r == Region(d)
           D == DOMAIN header
<1>1. /\ mapped \in Nat /\ n \in 1..Len(MemoryMap) /\ mapped' = n /\ n \in 0..Len(MemoryMap)
      /\ Len(MemoryMap) \in Nat /\ mapped < n
  BY MemoryMapAssumption, LenProperties DEF InitWithMmap, HeapInv, TypeOK
<1>2. Regions(mapped)' = Regions(n)
  BY <1>1 DEF Regions
<1>3. /\ Regions(mapped) \subseteq Regions(n)
      /\ Regions(n) \subseteq Regions(mapped) \union {r}
      /\ Usable(d) => r \in Regions(n)
      /\ ~Usable(d) => Regions(n) = Regions(mapped)
  BY <1>1, RegionsStep
<1> HIDE DEF n, d, r, D
<1>4. CASE ~Usable(d)
  <2>1. header' = header /\ list' = list /\ panicked' = panicked
    BY <1>4 DEF InitWithMmap, d, n
  <2>2. TypeOK'
    BY <1>1, <2>1 DEF HeapInv, TypeOK
  <2>3. NeverPanics' /\ ChunksDisjoint' /\ ListComplete'
    BY <2>1 DEF HeapInv, NeverPanics, ChunksDisjoint, ListComplete, ChunkEnd
  <2>4. ChunksFit' /\ ChunksTile'
    <3>1. Regions(mapped)' = Regions(mapped)
      BY <1>2, <1>3, <1>4
    <3>2. QED
      BY <2>1, <3>1 DEF HeapInv, ChunksFit, ChunksTile, ChunkEnd
  <2>5. QED
    BY <2>2, <2>3, <2>4 DEF HeapInv
<1>5. CASE Usable(d)
  <2>1. /\ header' = WriteHeader(header, r.start, r.size, FALSE)
        /\ list' = <<r.start>> \o list
        /\ panicked' = panicked
    BY <1>5 DEF InitWithMmap, add_free_from_descriptor, d, n, r
  <2>2. /\ r.size \in Nat /\ r.size % 32 = 0 /\ r.size >= 32
        /\ r.start \in Nat /\ r.start % 32 = 0
        /\ d.start \in Nat /\ DescEnd(d) \in Nat
        /\ d.start <= r.start /\ r.start + r.size <= DescEnd(d)
    BY <1>1, <1>5, RegionFacts DEF Granular, r, d
  <2>3. \A a \in D : /\ a \in Nat /\ header[a].size \in Nat /\ header[a].size >= 32
                     /\ ChunkEnd(a) = a + header[a].size
    BY DEF HeapInv, TypeOK, ChunksFit, D, ChunkEnd
  <2>4. \A a \in D : ChunkEnd(a) <= r.start \/ r.start + r.size <= a
    BY <1>1, <1>5, DescriptorIsNew DEF r, d, n, D
  <2>5. r.start \notin D
    BY <1>1, <1>5, DescriptorIsNew DEF r, d, n, D
  <2>6. /\ DOMAIN header' = D \union {r.start}
        /\ header'[r.start] = [size |-> r.size, is_allocated |-> FALSE]
        /\ \A a \in D : header'[a] = header[a]
    BY <2>1, <2>5 DEF WriteHeader, D
  <2>7. Enumerates(list', DOMAIN header')
    <3>1. Enumerates(list, D)
      BY ListEnumerates DEF HeapInv, D
    <3>2. Enumerates(<<r.start>> \o list, D \union {r.start})
      BY <2>5, <3>1, ConsEnumerates, Zenon
    <3>3. QED
      BY <2>1, <2>6, <3>2, Zenon
  <2>8. \A a \in DOMAIN header' :
           /\ a \in Nat /\ header'[a] \in [size : Nat, is_allocated : BOOLEAN]
    <3>1. \A a \in D : a \in Nat /\ header[a] \in [size : Nat, is_allocated : BOOLEAN]
      BY DEF HeapInv, TypeOK, D
    <3>2. [size |-> r.size, is_allocated |-> FALSE] \in [size : Nat, is_allocated : BOOLEAN]
      BY <2>2
    <3>3. QED
      BY <2>2, <2>6, <3>1, <3>2
  <2>9. TypeOK'
    <3>1. header' = [a \in DOMAIN header' |-> header'[a]]
      BY <2>1 DEF WriteHeader
    <3>2. list' \in Seq(DOMAIN header')
      BY <2>7 DEF Enumerates
    <3>3. mapped' \in 0..Len(MemoryMap) /\ panicked' \in BOOLEAN
      BY <1>1, <2>1 DEF HeapInv, TypeOK
    <3>4. QED
      BY <2>8, <3>1, <3>2, <3>3 DEF TypeOK
  <2> DEFINE endOf(a) == a + header'[a].size
  <2>10. /\ endOf(r.start) = r.start + r.size
         /\ \A a \in D : endOf(a) = ChunkEnd(a)
    BY <2>2, <2>6 DEF ChunkEnd
  <2>11. ChunksDisjoint'
    <3>1. \A a, b \in D : a # b => ChunkEnd(a) <= b \/ ChunkEnd(b) <= a
      BY DEF HeapInv, ChunksDisjoint, D
    <3>2. \A a, b \in DOMAIN header' : a # b => endOf(a) <= b \/ endOf(b) <= a
      <4> HIDE DEF endOf
      <4>1. QED
        BY <2>4, <2>6, <2>10, <3>1
    <3>3. QED
      BY <3>2 DEF ChunksDisjoint, ChunkEnd
  <2>12. ChunksFit'
    <3>1. \A a \in D : /\ a % 32 = 0 /\ header[a].size % 32 = 0 /\ header[a].size >= 32
                       /\ \E q \in Regions(n) : q.start <= a /\ endOf(a) <= q.start + q.size
      BY <1>3, <2>10 DEF HeapInv, ChunksFit, D
    <3>2. /\ r \in Regions(n) /\ r.start <= r.start
          /\ endOf(r.start) <= r.start + r.size
      BY <1>3, <1>5, <2>2, <2>10
    <3>3. \A a \in DOMAIN header' :
             /\ a % 32 = 0 /\ header'[a].size % 32 = 0 /\ header'[a].size >= 32
             /\ \E q \in Regions(n) : q.start <= a /\ endOf(a) <= q.start + q.size
      <4> HIDE DEF endOf
      <4>1. header'[r.start].size = r.size
        BY <2>6
      <4>2. QED
        BY <2>2, <2>6, <3>1, <3>2, <4>1
    <3>4. ChunksFit' <=>
             \A a \in DOMAIN header' :
                /\ a % 32 = 0 /\ header'[a].size % 32 = 0 /\ header'[a].size >= 32
                /\ \E q \in Regions(mapped)' : q.start <= a /\ endOf(a) <= q.start + q.size
      BY DEF ChunksFit, ChunkEnd
    <3> HIDE DEF endOf
    <3>5. QED
      BY <1>2, <3>3, <3>4
  <2>13. ChunksTile'
    <3>1. \A q \in Regions(n) : q.start \in DOMAIN header'
      BY <1>3, <2>6 DEF HeapInv, ChunksTile, D
    <3>2. \A a \in D : \/ endOf(a) \in DOMAIN header'
                       \/ \E q \in Regions(n) : endOf(a) = q.start + q.size
      <4> HIDE DEF endOf
      <4>1. \A a \in D : \/ ChunkEnd(a) \in D
                         \/ \E q \in Regions(mapped) : ChunkEnd(a) = q.start + q.size
        BY DEF HeapInv, ChunksTile, D
      <4>2. QED
        BY <1>3, <2>6, <2>10, <4>1
    <3>3. \E q \in Regions(n) : endOf(r.start) = q.start + q.size
      BY <1>3, <1>5, <2>10
    <3>4. \A a \in DOMAIN header' :
             \/ endOf(a) \in DOMAIN header'
             \/ \E q \in Regions(n) : endOf(a) = q.start + q.size
      <4> HIDE DEF endOf
      <4>1. QED
        BY <2>6, <3>2, <3>3
    <3>5. ChunksTile' <=>
             /\ \A q \in Regions(mapped)' : q.start \in DOMAIN header'
             /\ \A a \in DOMAIN header' :
                   \/ endOf(a) \in DOMAIN header'
                   \/ \E q \in Regions(mapped)' : endOf(a) = q.start + q.size
      BY DEF ChunksTile, ChunkEnd
    <3> HIDE DEF endOf
    <3>6. QED
      BY <1>2, <3>1, <3>4, <3>5
  <2>14. NeverPanics' /\ ListComplete'
    BY <2>1, <2>7 DEF HeapInv, NeverPanics, ListComplete, Enumerates
  <2>15. QED
    BY <2>9, <2>11, <2>12, <2>13, <2>14 DEF HeapInv
<1>6. QED
  BY <1>4, <1>5

\* dealloc only flips is_allocated: the geometry of the heap is unchanged.
LEMMA DeallocPreserves ==
  ASSUME HeapInv, NEW x \in DOMAIN header, Dealloc(x)
  PROVE  HeapInv'
<1>1. /\ header' = [header EXCEPT ![x].is_allocated = FALSE]
      /\ list' = list /\ mapped' = mapped /\ panicked' = panicked
  BY DEF Dealloc
<1>2. \A a \in DOMAIN header : header[a] \in [size : Nat, is_allocated : BOOLEAN]
  BY DEF HeapInv, TypeOK
<1>3. /\ DOMAIN header' = DOMAIN header
      /\ header' = [a \in DOMAIN header' |-> header'[a]]
      /\ \A a \in DOMAIN header : /\ header'[a].size = header[a].size
                                  /\ header'[a] \in [size : Nat, is_allocated : BOOLEAN]
  BY <1>1, <1>2
<1>4. Regions(mapped)' = Regions(mapped)
  BY <1>1 DEF Regions
<1>5. TypeOK'
  BY <1>1, <1>3 DEF HeapInv, TypeOK
<1>6. \A a \in DOMAIN header : ChunkEnd(a)' = ChunkEnd(a)
  BY <1>3 DEF ChunkEnd
<1>7. ChunksDisjoint'
  BY <1>3, <1>6 DEF HeapInv, ChunksDisjoint
<1>8. ChunksFit'
  BY <1>3, <1>4, <1>6 DEF HeapInv, ChunksFit
<1>9. ChunksTile'
  BY <1>3, <1>4, <1>6 DEF HeapInv, ChunksTile
<1>10. NeverPanics' /\ ListComplete'
  BY <1>1, <1>3 DEF HeapInv, NeverPanics, ListComplete
<1>11. QED
  BY <1>5, <1>7, <1>8, <1>9, <1>10 DEF HeapInv

(***************************************************************************)
(* The heap invariant holds in every reachable state, for every memory map *)
(* UEFI may hand over, every set of layouts and every order of allocations *)
(* and releases: the assertion in provide never fails, chunks never        *)
(* overlap, stay granular and inside the usable regions, cover them        *)
(* without gaps, and the list links every one of them once.                *)
(***************************************************************************)
THEOREM HeapSafety == Spec => []HeapInv
<1>1. Init => HeapInv
  <2> SUFFICES ASSUME Init PROVE HeapInv
    OBVIOUS
  <2>1. /\ DOMAIN header = {} /\ list = <<>> /\ Len(list) = 0 /\ mapped = 0
        /\ panicked = FALSE /\ Len(MemoryMap) \in Nat
    BY MemoryMapAssumption, LenProperties DEF Init
  <2>2. header \in [DOMAIN header -> [size : Nat, is_allocated : BOOLEAN]]
    BY DEF Init
  <2>3. Regions(mapped) = {}
    BY <2>1 DEF Regions
  <2>4. TypeOK
    <3>1. list \in Seq(DOMAIN header)
      BY <2>1, EmptySeq
    <3>2. mapped \in 0..Len(MemoryMap)
      BY <2>1
    <3>3. QED
      BY <2>1, <2>2, <3>1, <3>2 DEF TypeOK
  <2>5. QED
    BY <2>1, <2>3, <2>4 DEF HeapInv, NeverPanics, ChunksDisjoint, ChunksFit, ChunksTile,
                            ListComplete
<1>2. HeapInv /\ [Next]_vars => HeapInv'
  <2> SUFFICES ASSUME HeapInv, [Next]_vars PROVE HeapInv'
    OBVIOUS
  <2>1. CASE InitWithMmap
    BY <2>1, InitPreserves
  <2>2. ASSUME NEW l \in Layouts, Alloc(l) PROVE HeapInv'
    <3>1. PICK p \in PowersOfTwo, i \in 1..Len(list) :
             /\ CanServe(i, AtLeastHeader(p), AtLeastHeader(l.align))
             /\ Provide(i, AtLeastHeader(p), AtLeastHeader(l.align))
      BY <2>2 DEF Alloc
    <3>2. l.align \in PowersOfTwo
      BY LayoutsAssumption
    <3>3. Granular(AtLeastHeader(p)) /\ Granular(AtLeastHeader(l.align))
      BY <3>2, PowersGranular
    <3>4. UNCHANGED mapped
      BY <2>2 DEF Alloc
    <3>5. QED
      BY <3>1, <3>3, <3>4, ProvidePreserves
  <2>3. ASSUME NEW a \in DOMAIN header, Dealloc(a) PROVE HeapInv'
    BY <2>3, DeallocPreserves
  <2>4. CASE UNCHANGED vars
    <3>1. header' = header /\ list' = list /\ mapped' = mapped /\ panicked' = panicked
      BY <2>4 DEF vars
    <3>2. TypeOK' /\ NeverPanics' /\ ListComplete'
      BY <3>1 DEF HeapInv, TypeOK, NeverPanics, ListComplete
    <3>3. Regions(mapped)' = Regions(mapped) /\ \A a \in DOMAIN header : ChunkEnd(a)' = ChunkEnd(a)
      BY <3>1 DEF Regions, ChunkEnd
    <3>4. ChunksDisjoint' /\ ChunksFit' /\ ChunksTile'
      BY <3>1, <3>3 DEF HeapInv, ChunksDisjoint, ChunksFit, ChunksTile
    <3>5. QED
      BY <3>2, <3>4 DEF HeapInv
  <2>5. ASSUME NEW l \in Layouts, AllocNull(l) PROVE HeapInv'
    <3>1. UNCHANGED vars
      BY <2>5 DEF AllocNull
    <3>2. QED
      BY <2>4, <3>1
  <2>6. QED
    BY <2>1, <2>2, <2>3, <2>4, <2>5 DEF Next
<1>3. QED
  BY <1>1, <1>2, PTL DEF Spec

(***************************************************************************)
(* provide's assertion ("self.size >= size_used + HEADER_SIZE") never      *)
(* fails.                                                                  *)
(***************************************************************************)
THEOREM ProvideNeverPanics == Spec => []NeverPanics
BY HeapSafety, PTL DEF HeapInv

(***************************************************************************)
(* The chunks partition the usable regions of the memory map.              *)
(***************************************************************************)
THEOREM ChunksPartitionMemory == Spec => [](ChunksDisjoint /\ ChunksFit /\ ChunksTile)
<1>1. HeapInv => ChunksDisjoint /\ ChunksFit /\ ChunksTile
  BY DEF HeapInv
<1>2. QED
  BY <1>1, HeapSafety, PTL

(***************************************************************************)
(* Following next_header from first_header meets every header exactly once.*)
(***************************************************************************)
THEOREM ListReachesEveryChunk == Spec => []ListComplete
BY HeapSafety, PTL DEF HeapInv

(***************************************************************************)
(* A padding of any size that provide leaves behind can hold a header, and *)
(* no chunk leaves its usable region or touches page 0.                    *)
(***************************************************************************)
THEOREM ChunksStayInRegions == Spec => []ChunksFit
BY HeapSafety, PTL DEF HeapInv

(***************************************************************************)
(* Splits and releases leave no byte of a usable region without a chunk.   *)
(***************************************************************************)
THEOREM NothingLeaks == Spec => []ChunksTile
BY HeapSafety, PTL DEF HeapInv

-----------------------------------------------------------------------------
(* The allocator implements the abstract heap                              *)

\* What rounding down to a multiple leaves is a multiple.
LEMMA AlignDownDivides ==
  ASSUME NEW x \in Nat, NEW align \in Nat, align > 0
  PROVE  AlignDown(x, align) % align = 0
<1> DEFINE q == x \div align
<1>1. q \in Nat /\ x % align \in 0..(align - 1) /\ x = align * q + (x % align)
  OBVIOUS
<1>2. AlignDown(x, align) = align * q
  BY <1>1 DEF AlignDown
<1> HIDE DEF q
<1>3. (align * q) % align = 0
  BY <1>1
<1>4. QED
  BY <1>2, <1>3

(***************************************************************************)
(* max(align, HEADER_SIZE) serves every alignment: a power of two below    *)
(* HEADER_SIZE divides it.                                                 *)
(***************************************************************************)
LEMMA AlignedForLayout ==
  ASSUME NEW p \in PowersOfTwo, NEW x \in Nat
  PROVE  AlignDown(x, AtLeastHeader(p)) % p = 0
<1>1. \A q \in PowersOfTwo : q \in Nat /\ q > 0
  BY PowersAssumption
<1>2. CASE p >= 32
  <2>1. p \in Nat /\ p > 0
    BY <1>1
  <2>2. AtLeastHeader(p) = p
    BY <1>2, <2>1 DEF AtLeastHeader
  <2>3. QED
    BY <2>1, <2>2, AlignDownDivides
<1>3. CASE p < 32
  <2>1. AtLeastHeader(p) = 32
    BY <1>3 DEF AtLeastHeader
  <2> DEFINE y == AlignDown(x, 32)
  <2>2. y \in Int /\ y % 32 = 0
    BY DEF AlignDown
  <2>3. p \in {1, 2, 4, 8, 16}
    <3>1. \A q \in PowersOfTwo : q < 2 => q = 1
      BY <1>1
    <3>2. \A q \in PowersOfTwo : q < 4 => q \in {1, 2}
      BY <1>1, <3>1, PowersAssumption
    <3>3. \A q \in PowersOfTwo : q < 8 => q \in {1, 2, 4}
      BY <1>1, <3>2, PowersAssumption
    <3>4. \A q \in PowersOfTwo : q < 16 => q \in {1, 2, 4, 8}
      BY <1>1, <3>3, PowersAssumption
    <3>5. QED
      BY <1>1, <1>3, <3>4, PowersAssumption
  <2> HIDE DEF y
  <2>4. y % p = 0
    BY <2>2, <2>3
  <2>5. QED
    BY <2>1, <2>4 DEF y
<1>4. QED
  BY <1>1, <1>2, <1>3

\* The headers of the blocks that clients own.
Owned == {b \in DOMAIN header : header[b].is_allocated}

\* The block behind the header at a.
BlockAt(a) == [addr |-> a + HEADER_SIZE, size |-> header[a].size - HEADER_SIZE]

LEMMA LiveBlocksOwned == LiveBlocks = {BlockAt(a) : a \in Owned}
BY DEF LiveBlocks, BlockAt, Owned

\* What provide means for the blocks: one header more belongs to a client.
Provided(self, block, size, align) ==
  /\ self <= block /\ block + size + HEADER_SIZE <= self + header[self].size
  /\ (self + header[self].size) - size \in Nat
  /\ block + HEADER_SIZE = AlignDown((self + header[self].size) - size, align)
  /\ block \in DOMAIN header' \ DOMAIN header
  /\ header'[block] = [size |-> size + HEADER_SIZE, is_allocated |-> TRUE]
  /\ \A a \in DOMAIN header : a \in DOMAIN header' /\ (header[a].is_allocated => header'[a] = header[a])
  /\ \A a \in DOMAIN header' :
       header'[a].is_allocated => a = block \/ (a \in DOMAIN header /\ header[a].is_allocated)

LEMMA ProvideHandsOut ==
  ASSUME HeapInv,
         NEW i \in 1..Len(list),
         NEW size, Granular(size),
         NEW align, Granular(align),
         CanServe(i, size, align),
         Provide(i, size, align)
  PROVE  \E self \in DOMAIN header, block \in Nat : Provided(self, block, size, align)
<1> DEFINE self    == list[i]
           D       == DOMAIN header
           end     == EndOf(self)
           block   == BlockIn(self, size, align)
           padding == PaddingIn(self, size, align)
           N       == {block} \union (IF padding = end THEN {} ELSE {padding})
           t       == IF padding = end THEN <<block>> ELSE <<block, padding>>
<1>w. /\ self \in D /\ ~header[self].is_allocated
      /\ self \in Nat /\ self % 32 = 0 /\ end \in Nat /\ end % 32 = 0
      /\ end = self + header[self].size
      /\ block \in Nat /\ block % 32 = 0 /\ self + 32 <= block
      /\ (block - self) % 32 = 0
      /\ padding \in Nat /\ padding % 32 = 0 /\ padding <= end
      /\ (end - padding) % 32 = 0
      /\ padding = block + size + 32
      /\ size \in Nat /\ size % 32 = 0 /\ size >= 32
      /\ block \notin D
      /\ padding # end => padding \notin D
      /\ list' = InsertAfter(list, i, t)
      /\ panicked' = panicked
      /\ DOMAIN header' = D \union N
      /\ header' = [a \in D \union N |-> header'[a]]
      /\ header'[self] = [size |-> block - self, is_allocated |-> FALSE]
      /\ header'[block] = [size |-> size + 32, is_allocated |-> TRUE]
      /\ padding # end => header'[padding] = [size |-> end - padding, is_allocated |-> FALSE]
      /\ \A a \in D \ {self} : header'[a] = header[a]
  BY ProvideWrites
<1>1. /\ self \in D /\ ~header[self].is_allocated
      /\ self \in Nat /\ end \in Nat /\ end = self + header[self].size
      /\ block \in Nat /\ self + 32 <= block
      /\ padding \in Nat /\ padding <= end /\ padding = block + size + 32
      /\ size \in Nat /\ size >= 32
      /\ block \notin D
      /\ DOMAIN header' = D \union N
      /\ header'[self] = [size |-> block - self, is_allocated |-> FALSE]
      /\ header'[block] = [size |-> size + 32, is_allocated |-> TRUE]
      /\ padding # end => header'[padding] = [size |-> end - padding, is_allocated |-> FALSE]
      /\ \A a \in D \ {self} : header'[a] = header[a]
  <2> HIDE DEF self, D, end, block, padding, N, t
  <2>1. QED
    BY <1>w
<1>2. block + 32 = AlignDown(end - size, align)
  <2>1. end - size \in Nat
    <3> HIDE DEF self, D, end, block, padding, N, t
    <3>1. /\ end \in Nat /\ size \in Nat /\ block \in Nat
          /\ padding <= end /\ padding = block + size + 32
      BY <1>1
    <3>2. QED
      BY <3>1
  <2>2. align \in Nat /\ align > 0
    BY DEF Granular
  <2>3. AlignDown(end - size, align) \in Int
    BY <2>1, <2>2 DEF AlignDown
  <2>4. block = AlignDown(end - size, align) - 32
    BY DEF BlockIn, AddrIn
  <2> HIDE DEF block
  <2>5. QED
    BY <2>3, <2>4
<1> HIDE DEF self, D, end, block, padding
<1>r. /\ self \in Nat /\ end \in Nat /\ block \in Nat /\ padding \in Nat /\ size \in Nat
      /\ self + 32 <= block /\ padding <= end /\ padding = block + size + 32
  BY <1>1
<1>3. self <= block /\ block + size + 32 <= end /\ end - size \in Nat
  BY <1>r
<1>4. \A a \in D : a \in DOMAIN header' /\ (header[a].is_allocated => header'[a] = header[a])
  BY <1>1
<1>5. \A a \in DOMAIN header' :
         header'[a].is_allocated => a = block \/ (a \in D /\ header[a].is_allocated)
  <2>1. ~header'[self].is_allocated /\ (padding # end => ~header'[padding].is_allocated)
    BY <1>1
  <2>2. \A a \in DOMAIN header' :
           \/ a = block \/ a = self \/ (padding # end /\ a = padding)
           \/ (a \in D /\ header'[a] = header[a])
    BY <1>1
  <2>3. QED
    BY <2>1, <2>2
<1>6. block \in DOMAIN header' \ D
  BY <1>1
<1>7. Provided(self, block, size, align)
  <2>1. end = self + header[self].size /\ header'[block] = [size |-> size + 32, is_allocated |-> TRUE]
    BY <1>1
  <2>2. QED
    BY <1>2, <1>3, <1>4, <1>5, <1>6, <2>1, Zenon DEF Provided, D
<1>8. QED
  BY <1>1, <1>7 DEF D

(***************************************************************************)
(* alloc hands out a new block, inside usable memory, clear of every live  *)
(* block, at least as large as the layout and aligned for it.              *)
(***************************************************************************)
LEMMA AllocRefines ==
  ASSUME HeapInv, NEW l \in Layouts, Alloc(l)
  PROVE  Abstract!Alloc(l)
<1>1. PICK p \in PowersOfTwo, i \in 1..Len(list) :
         /\ IsRoundUpPow2(l.size, p)
         /\ CanServe(i, AtLeastHeader(p), AtLeastHeader(l.align))
         /\ Provide(i, AtLeastHeader(p), AtLeastHeader(l.align))
  BY DEF Alloc
<1> DEFINE size  == AtLeastHeader(p)
           align == AtLeastHeader(l.align)
<1>2. l.align \in PowersOfTwo /\ l.size \in Nat
  BY LayoutsAssumption
<1>3. Granular(size) /\ Granular(align)
  BY <1>2, PowersGranular
<1>4. UNCHANGED mapped /\ mapped = Len(MemoryMap)
  BY DEF Alloc, Ready
<1>5. HeapInv'
  BY <1>1, <1>3, <1>4, ProvidePreserves
<1>6. PICK self \in DOMAIN header, block \in Nat : Provided(self, block, size, align)
  BY <1>1, <1>3, ProvideHandsOut
<1> DEFINE b == [addr |-> block + 32, size |-> size]
<1>7. Abstract!Suits(b, l)
  <2>1. b.size >= l.size
    <3>1. p \in Nat /\ p >= l.size
      BY <1>1, PowersAssumption DEF IsRoundUpPow2
    <3>2. QED
      BY <1>2, <3>1 DEF AtLeastHeader
  <2>2. /\ (self + header[self].size) - size \in Nat
        /\ b.addr = AlignDown((self + header[self].size) - size, align)
    BY <1>6 DEF Provided
  <2>3. b.addr % l.align = 0
    BY <1>2, <2>2, AlignedForLayout
  <2>4. QED
    BY <2>1, <2>3 DEF Abstract!Suits
<1>8. size \in Nat /\ size >= 32
  BY <1>3 DEF Granular
<1> HIDE DEF size, align
<1>9. Owned' = Owned \union {block}
  <2>1. \A a \in DOMAIN header' : header'[a].is_allocated <=> (a \in Owned \/ a = block)
    BY <1>6 DEF Owned, Provided
  <2>2. Owned \subseteq DOMAIN header' /\ block \in DOMAIN header'
    BY <1>6 DEF Owned, Provided
  <2>3. QED
    BY <2>1, <2>2 DEF Owned
<1>10. BlockAt(block)' = b
  <2>1. header'[block].size = size + 32
    BY <1>6 DEF Provided
  <2>2. BlockAt(block)' = [addr |-> block + 32, size |-> header'[block].size - 32]
    BY DEF BlockAt
  <2>3. header'[block].size - 32 = size
    BY <1>8, <2>1
  <2>4. QED
    BY <2>2, <2>3
<1>11. \A a \in Owned : /\ a \in DOMAIN header /\ a \in Nat /\ a # block
                        /\ header[a].size \in Nat /\ header[a].size >= 32
                        /\ header'[a] = header[a]
                        /\ BlockAt(a)' = BlockAt(a)
  BY <1>6 DEF Owned, Provided, HeapInv, TypeOK, ChunksFit, BlockAt
<1>12. LiveBlocks' = LiveBlocks \union {b}
  <2>1. LiveBlocks' = {BlockAt(a)' : a \in Owned'}
    BY DEF LiveBlocks, BlockAt, Owned
  <2> HIDE DEF b
  <2>2. {BlockAt(a)' : a \in Owned'} = {BlockAt(a)' : a \in Owned} \union {BlockAt(block)'}
    BY <1>9
  <2>3. {BlockAt(a)' : a \in Owned} = LiveBlocks
    BY <1>11, LiveBlocksOwned
  <2>4. QED
    BY <1>10, <2>1, <2>2, <2>3
<1>13. b.addr = block + 32 /\ b.size = size
  OBVIOUS
<1>14. b \notin LiveBlocks
  <2> HIDE DEF b
  <2>1. \A a \in Owned : BlockAt(a).addr = a + 32
    BY DEF BlockAt
  <2>2. \A a \in Owned : BlockAt(a).addr # b.addr
    BY <1>11, <1>13, <2>1
  <2>3. QED
    BY <2>2, LiveBlocksOwned
<1>15. Abstract!InMemory(b)
  <2>1. PICK r \in Regions(mapped) : r.start <= self /\ ChunkEnd(self) <= r.start + r.size
    BY DEF HeapInv, ChunksFit
  <2>2. r.start \in Nat /\ r.size \in Nat
    BY RegionsTyped DEF HeapInv, TypeOK
  <2>3. self \in Nat /\ header[self].size \in Nat
    BY DEF HeapInv, TypeOK
  <2>4. self <= block /\ block + size + 32 <= ChunkEnd(self) /\ ChunkEnd(self) \in Nat
    BY <1>6, <2>3 DEF Provided, ChunkEnd
  <2> HIDE DEF b
  <2>5. r.start <= b.addr /\ b.addr + b.size <= r.start + r.size
    BY <1>8, <1>13, <2>1, <2>2, <2>3, <2>4
  <2>6. QED
    BY <1>4, <2>5 DEF Abstract!InMemory
<1>16. \A c \in LiveBlocks : Abstract!Disjoint(b, c)
  <2> SUFFICES ASSUME NEW a \in Owned PROVE Abstract!Disjoint(b, BlockAt(a))
    BY LiveBlocksOwned
  <2>1. /\ a \in Nat /\ a # block
        /\ header[a].size \in Nat /\ header[a].size >= 32
        /\ header'[a] = header[a]
    BY <1>11
  <2>2. a + header[a].size <= block \/ block + (size + 32) <= a
    <3>1. a \in DOMAIN header' /\ block \in DOMAIN header'
      BY <1>6, <1>11 DEF Provided
    <3>2. ChunkEnd(a)' <= block \/ ChunkEnd(block)' <= a
      BY <1>5, <2>1, <3>1 DEF HeapInv, ChunksDisjoint
    <3>3. ChunkEnd(a)' = a + header[a].size /\ ChunkEnd(block)' = block + (size + 32)
      BY <1>6, <2>1 DEF ChunkEnd, Provided
    <3>4. QED
      BY <3>2, <3>3
  <2>3. BlockAt(a).addr = a + 32 /\ BlockAt(a).size = header[a].size - 32
    BY DEF BlockAt
  <2> HIDE DEF b
  <2>4. b.addr + b.size <= BlockAt(a).addr \/ BlockAt(a).addr + BlockAt(a).size <= b.addr
    <3>1. PICK s \in Nat, f \in Nat, x \in Nat : s = header[a].size /\ f = a /\ x = block
      BY <1>6, <2>1 DEF Provided
    <3>2. f + s <= x \/ x + (size + 32) <= f
      BY <2>2, <3>1
    <3>3. (x + 32) + size <= f + 32 \/ (f + 32) + (s - 32) <= x + 32
      BY <1>8, <3>2
    <3>4. QED
      BY <1>13, <2>3, <3>1, <3>3
  <2>5. QED
    BY <2>4 DEF Abstract!Disjoint
<1>17. QED
  <2>1. b \in LiveBlocks' \ LiveBlocks
    BY <1>12, <1>14
  <2> HIDE DEF b
  <2>2. QED
    BY <1>7, <1>12, <1>15, <1>16, <2>1 DEF Abstract!Alloc

\* init_with_mmap writes a free chunk, in front of all others: no block
\* becomes live or ceases to be.
LEMMA InitRefines ==
  ASSUME HeapInv, InitWithMmap
  PROVE  UNCHANGED LiveBlocks
<1> DEFINE d == MemoryMap[mapped + 1]
           r == Region(d)
<1>1. CASE ~Usable(d)
  BY <1>1 DEF InitWithMmap, LiveBlocks
<1>2. CASE Usable(d)
  <2>1. header' = WriteHeader(header, r.start, r.size, FALSE)
    BY <1>2 DEF InitWithMmap, add_free_from_descriptor
  <2>2. r.start \notin DOMAIN header
    <3>1. mapped + 1 \in 1..Len(MemoryMap)
      BY MemoryMapAssumption, LenProperties DEF InitWithMmap, HeapInv, TypeOK
    <3>2. QED
      BY <1>2, <3>1, DescriptorIsNew
  <2> HIDE DEF r
  <2>3. /\ Owned' = Owned
        /\ \A a \in Owned : header'[a] = header[a]
    BY <2>1, <2>2 DEF WriteHeader, Owned
  <2>4. QED
    <3>1. LiveBlocks' = {BlockAt(a)' : a \in Owned'}
      BY DEF LiveBlocks, BlockAt, Owned
    <3>2. \A a \in Owned : BlockAt(a)' = BlockAt(a)
      BY <2>3 DEF BlockAt
    <3>3. QED
      BY <2>3, <3>1, <3>2, LiveBlocksOwned
<1>3. QED
  BY <1>1, <1>2

\* dealloc of the block behind the header at a releases that block alone.
LEMMA DeallocRefines ==
  ASSUME HeapInv, NEW x \in DOMAIN header, Dealloc(x)
  PROVE  Abstract!Dealloc
<1> DEFINE b == BlockAt(x)
<1>1. header' = [header EXCEPT ![x].is_allocated = FALSE] /\ header[x].is_allocated
  BY DEF Dealloc
<1>2. x \in Owned /\ \A a \in DOMAIN header : a \in Nat
  BY <1>1 DEF Owned, HeapInv, TypeOK
<1>3. /\ Owned' = Owned \ {x}
      /\ \A a \in Owned \ {x} : BlockAt(a)' = BlockAt(a)
  <2>1. DOMAIN header' = DOMAIN header
    BY <1>1
  <2>2. \A a \in DOMAIN header \ {x} : header'[a] = header[a]
    BY <1>1
  <2>3. ~header'[x].is_allocated
    <3>1. header[x] \in [size : Nat, is_allocated : BOOLEAN]
      BY DEF HeapInv, TypeOK
    <3>2. QED
      BY <1>1, <3>1
  <2>4. QED
    BY <2>1, <2>2, <2>3 DEF Owned, BlockAt
<1>4. \A a \in Owned \ {x} : BlockAt(a) # b
  <2>1. \A a \in Owned \ {x} : BlockAt(a).addr # b.addr
    BY <1>2 DEF BlockAt, Owned
  <2>2. QED
    BY <2>1
<1> HIDE DEF b
<1>5. LiveBlocks' = {BlockAt(a)' : a \in Owned'}
  BY DEF LiveBlocks, BlockAt, Owned
<1>6. b \in LiveBlocks /\ LiveBlocks' = LiveBlocks \ {b}
  BY <1>2, <1>3, <1>4, <1>5, LiveBlocksOwned DEF b
<1>7. QED
  BY <1>6 DEF Abstract!Dealloc

(***************************************************************************)
(* Seen from its clients the allocator is the abstract heap: every step is *)
(* an allocation or a release of it, or leaves the live blocks alone; and  *)
(* the block that alloc hands out suits the layout it was called with.     *)
(***************************************************************************)
THEOREM AllocatorIsHeap == Spec => ImplementsHeap
<1>1. Init => Abstract!Init
  BY DEF Init, Abstract!Init, LiveBlocks
<1>2. HeapInv /\ [Next]_vars => [Abstract!Next]_LiveBlocks
  <2> SUFFICES ASSUME HeapInv, [Next]_vars PROVE [Abstract!Next]_LiveBlocks
    OBVIOUS
  <2>1. CASE InitWithMmap
    BY <2>1, InitRefines
  <2>2. ASSUME NEW l \in Layouts, Alloc(l) PROVE Abstract!Next
    BY <2>2, AllocRefines DEF Abstract!Next
  <2>3. ASSUME NEW a \in DOMAIN header, Dealloc(a) PROVE Abstract!Next
    BY <2>3, DeallocRefines DEF Abstract!Next
  <2>4. ASSUME NEW l \in Layouts, AllocNull(l) PROVE UNCHANGED LiveBlocks
    BY <2>4 DEF AllocNull, vars, LiveBlocks
  <2>5. CASE UNCHANGED vars
    BY <2>5 DEF vars, LiveBlocks
  <2>6. QED
    BY <2>1, <2>2, <2>3, <2>4, <2>5 DEF Next
<1>3. HeapInv /\ [Next]_vars => [\A l \in Layouts : Alloc(l) => Abstract!Alloc(l)]_vars
  BY AllocRefines
<1>4. QED
  BY <1>1, <1>2, <1>3, HeapSafety, PTL DEF Spec, ImplementsHeap, Abstract!Spec
=============================================================================
