----------------------------- MODULE Allocator ------------------------------
(***************************************************************************)
(* allocator.rs: the kernel's global allocator.  Every chunk of heap       *)
(* memory starts with a 32-byte Header; the headers form one linked list,  *)
(* searched first fit.  An allocation is cut from the END of a free chunk: *)
(*                                                                         *)
(*   before  | self ..................................................|    *)
(*   after   | self ........|Hdr| block (rounded size) |Hdr| padding ..|   *)
(*                                                                         *)
(* `header` is the memory the headers live in, `list` the order in which   *)
(* next_header links them.  Addresses and sizes are bytes.                 *)
(***************************************************************************)
EXTENDS Integers, Sequences

CONSTANTS
  MemoryMap,    \* the UEFI memory map: a sequence of [start, pages, type]
  Layouts,      \* the layouts clients ask for: [size, align]
  PowersOfTwo   \* the powers of two a usize can hold

HEADER_SIZE == 32
PAGE_SIZE == 4096
CONVENTIONAL_MEMORY == "CONVENTIONAL_MEMORY"

(***************************************************************************)
(* Every member of PowersOfTwo but 1 is the double of another one.         *)
(***************************************************************************)
ASSUME PowersAssumption ==
  /\ PowersOfTwo \subseteq Nat \ {0}
  /\ \A p \in PowersOfTwo : p = 1 \/ \E q \in PowersOfTwo : p = 2 * q

\* core::alloc::Layout: "All layouts have an associated size and a power-of-two alignment."
ASSUME LayoutsAssumption ==
  Layouts \subseteq [size : Nat, align : PowersOfTwo]

DescEnd(d) == d.start + d.pages * PAGE_SIZE

(***************************************************************************)
(* What UEFI guarantees of the map: page-aligned, pairwise disjoint        *)
(* descriptors.                                                            *)
(***************************************************************************)
ASSUME MemoryMapAssumption ==
  /\ MemoryMap \in Seq([start : Nat, pages : Nat, type : STRING])
  /\ \A i \in 1..Len(MemoryMap) : MemoryMap[i].start % PAGE_SIZE = 0
  /\ \A i, j \in 1..Len(MemoryMap) :
        i < j => \/ DescEnd(MemoryMap[i]) <= MemoryMap[j].start
                 \/ DescEnd(MemoryMap[j]) <= MemoryMap[i].start

VARIABLES
  header,    \* address of a Header |-> [size, is_allocated]
  list,      \* the addresses of the headers in the order of the list
  mapped,    \* how many descriptors init_with_mmap has gone through
  panicked   \* the assertion in provide has failed

vars == <<header, list, mapped, panicked>>

Init == /\ header = [a \in {} |-> [size |-> 0, is_allocated |-> FALSE]]
        /\ list = <<>>
        /\ mapped = 0
        /\ panicked = FALSE

\* new_from_addr: a Header is written at address a.
WriteHeader(h, a, size, is_allocated) ==
  [x \in DOMAIN h \union {a} |->
     IF x = a THEN [size |-> size, is_allocated |-> is_allocated] ELSE h[x]]

-----------------------------------------------------------------------------
(* init_with_mmap and add_free_from_descriptor                             *)

\* The part of a descriptor that is given to the heap: never the page at 0.
Region(d) ==
  IF d.start = 0
  THEN [start |-> PAGE_SIZE,
        size  |-> IF d.pages = 0 THEN 0 ELSE d.pages * PAGE_SIZE - PAGE_SIZE]
  ELSE [start |-> d.start, size |-> d.pages * PAGE_SIZE]

\* A one-page rest is not worth a header.
Usable(d) == d.type = CONVENTIONAL_MEMORY /\ Region(d).size > PAGE_SIZE

Regions(n) == {Region(MemoryMap[i]) : i \in {j \in 1..n : Usable(MemoryMap[j])}}

\* Mutant: the size of the skipped page 0 is not subtracted.
add_free_with_page_zero_size(d) ==
  /\ header' = WriteHeader(header, Region(d).start, d.pages * PAGE_SIZE, FALSE)
  /\ list' = <<Region(d).start>> \o list

\* The new chunk becomes the first of the list.
add_free_from_descriptor(d) ==
  LET r == Region(d)
  IN  /\ header' = WriteHeader(header, r.start, r.size, FALSE)
      /\ list' = <<r.start>> \o list

\* One round of the loop of init_with_mmap.
InitWithMmap ==
  /\ mapped < Len(MemoryMap)
  /\ mapped' = mapped + 1
  /\ IF Usable(MemoryMap[mapped + 1])
     THEN add_free_from_descriptor(MemoryMap[mapped + 1])
     ELSE UNCHANGED <<header, list>>
  /\ UNCHANGED panicked

-----------------------------------------------------------------------------
(* alloc                                                                   *)

\* p is round_up_to_nearest_pow2(v); there is none for 0 or beyond usize.
IsRoundUpPow2(v, p) ==
  /\ v > 0
  /\ p \in PowersOfTwo
  /\ p >= v
  /\ \A q \in PowersOfTwo : q >= v => p <= q

AtLeastHeader(n) == IF n < HEADER_SIZE THEN HEADER_SIZE ELSE n

\* Mutant: the bytes lost to alignment are not reckoned with.
can_provide_unaligned(h, size, align) == h.size >= size + HEADER_SIZE * 2

\* One header for the block, one for the padding behind it.
can_provide(h, size, align) == h.size >= size + HEADER_SIZE * 2 + align

\* Mutants: no rounding; rounding up.
AlignNot(x, align) == x
AlignUp(x, align) == x + (align - 1) - ((x + align - 1) % align)

\* x & !(align - 1)
AlignDown(x, align) == x - (x % align)

\* Mutant: the headers behind the split chunk are forgotten.
InsertAndCut(s, i, t) == SubSeq(s, 1, i) \o t

InsertAfter(s, i, t) ==
  [j \in 1..(Len(s) + Len(t)) |->
     IF j <= i THEN s[j] ELSE IF j <= i + Len(t) THEN t[j - i] ELSE s[j - Len(t)]]

\* Header::provide on a chunk that passed can_provide: `size` and `align`
\* are already rounded up.
Provide(i, size, align) ==
  LET self      == list[i]
      end       == self + header[self].size
      addr      == AlignDown(end - size, align)
      block     == addr - HEADER_SIZE
      padding   == addr + size
      size_used == end - block
      withBlock   == WriteHeader(header, block, size + HEADER_SIZE, TRUE)
      withPadding == IF padding = end THEN withBlock
                     ELSE WriteHeader(withBlock, padding, end - padding, FALSE)
  IN  IF header[self].size >= size_used + HEADER_SIZE
      THEN /\ header' = WriteHeader(withPadding, self, header[self].size - size_used, FALSE)
           /\ list' = InsertAfter(list, i, IF padding = end THEN <<block>>
                                                            ELSE <<block, padding>>)
           /\ UNCHANGED panicked
      ELSE /\ panicked' = TRUE
           /\ UNCHANGED <<header, list>>

CanServe(i, size, align) ==
  ~header[list[i]].is_allocated /\ can_provide(header[list[i]], size, align)

Ready == mapped = Len(MemoryMap) /\ ~panicked

\* alloc_with_options finds a chunk: the first one of the list that can serve.
Alloc(l) ==
  /\ Ready
  /\ \E p \in PowersOfTwo, i \in 1..Len(list) :
        LET size  == AtLeastHeader(p)
            align == AtLeastHeader(l.align)
        IN  /\ IsRoundUpPow2(l.size, p)
            /\ CanServe(i, size, align)
            /\ \A j \in 1..(i - 1) : ~CanServe(j, size, align)
            /\ Provide(i, size, align)
  /\ UNCHANGED mapped

\* alloc_with_options reaches the end of the list and returns null.
AllocNull(l) ==
  /\ Ready
  /\ \A p \in PowersOfTwo, i \in 1..Len(list) :
        ~(IsRoundUpPow2(l.size, p)
            /\ CanServe(i, AtLeastHeader(p), AtLeastHeader(l.align)))
  /\ UNCHANGED vars

-----------------------------------------------------------------------------
(* dealloc: the owner of the block behind the header at `a` gives it back. *)
(* Ownership (Box, Vec) means that only an allocated block is freed, once. *)

Dealloc(a) ==
  /\ Ready
  /\ header[a].is_allocated
  /\ header' = [header EXCEPT ![a].is_allocated = FALSE]
  /\ UNCHANGED <<list, mapped, panicked>>

Next == \/ InitWithMmap
        \/ \E l \in Layouts : Alloc(l)
        \/ \E l \in Layouts : AllocNull(l)
        \/ \E a \in DOMAIN header : Dealloc(a)

Spec == Init /\ [][Next]_vars

-----------------------------------------------------------------------------
(* Properties                                                              *)

\* Headers are records with a non-negative size, the list holds addresses
\* of headers.
TypeOK ==
  /\ DOMAIN header \subseteq Nat
  /\ header \in [DOMAIN header -> [size : Nat, is_allocated : BOOLEAN]]
  /\ list \in Seq(DOMAIN header)
  /\ mapped \in 0..Len(MemoryMap)
  /\ panicked \in BOOLEAN

ChunkEnd(a) == a + header[a].size

\* The assertion at the end of provide ("self.size >= size_used +
\* HEADER_SIZE") never fails, although can_provide is only a rough estimate
\* of what an aligned block, its header and its padding take.
NeverPanics == ~panicked

\* No two chunks (header included) share a byte: a block a client writes to
\* never covers a header or another client's block.
ChunksDisjoint ==
  \A a, b \in DOMAIN header : a # b => ChunkEnd(a) <= b \/ ChunkEnd(b) <= a

\* Every chunk is 32-byte granular and has room for its header, so that a
\* padding of any size that provide leaves behind can hold one; and it lies
\* in one usable region, never in page 0.
ChunksFit ==
  \A a \in DOMAIN header :
     /\ a % HEADER_SIZE = 0
     /\ header[a].size % HEADER_SIZE = 0
     /\ header[a].size >= HEADER_SIZE
     /\ \E r \in Regions(mapped) : r.start <= a /\ ChunkEnd(a) <= r.start + r.size

\* Nothing leaks between the chunks: a region starts with a chunk, and where
\* one ends the next begins, up to the end of the region.
ChunksTile ==
  /\ \A r \in Regions(mapped) : r.start \in DOMAIN header
  /\ \A a \in DOMAIN header :
        \/ ChunkEnd(a) \in DOMAIN header
        \/ \E r \in Regions(mapped) : ChunkEnd(a) = r.start + r.size

\* The list links every header exactly once: splitting a chunk in the middle
\* of the list loses neither the chunks behind it nor the new ones.
ListComplete ==
  /\ \A a \in DOMAIN header : \E i \in 1..Len(list) : list[i] = a
  /\ \A i, j \in 1..Len(list) : list[i] = list[j] => i = j

\* Seen from its clients the allocator is an abstract heap: the live blocks
\* are the bytes behind the headers of allocated chunks.
LiveBlocks ==
  {[addr |-> a + HEADER_SIZE, size |-> header[a].size - HEADER_SIZE] :
     a \in {b \in DOMAIN header : header[b].is_allocated}}

Abstract == INSTANCE AbstractHeap
              WITH Memory <- Regions(Len(MemoryMap)), live <- LiveBlocks

\* Every step of the allocator is an allocation or a release of the abstract
\* heap, or changes no live block; and the block alloc hands out suits the
\* layout it was called with.
ImplementsHeap ==
  /\ Abstract!Spec
  /\ [][\A l \in Layouts : Alloc(l) => Abstract!Alloc(l)]_vars
=============================================================================
