------------------------------- MODULE Paging -------------------------------
(***************************************************************************)
(* x86.rs: the four-level page table (Entry, Table, create_mapping) and    *)
(* its use in init_paging (init.rs), disable_cache (x86.rs, for IoBox) and *)
(* BarMem64::disable_cache (pci.rs).                                       *)
(*                                                                         *)
(* create_mapping is four nested loops, one per level.  Each remembers the *)
(* index it entered its table with, and leaves when that was the last one  *)
(* or the address has reached the end of the range.  A table that is       *)
(* missing on the way down is allocated, zeroed, from the heap.            *)
(*                                                                         *)
(* After init_paging the table that is edited is the one the CPU uses: the *)
(* MMU may translate, and cache a translation, between any two stores.     *)
(*                                                                         *)
(* Addresses are counted in pages: every address that reaches set_page is  *)
(* page aligned (IoBoxInner is, and so are BARs of a page or more).        *)
(***************************************************************************)
EXTENDS Integers, Sequences

CONSTANTS
  ENTRIES,      \* entries of a table, 512 in the code
  LOW_MEMORY,   \* what init_paging maps at least: 4 GiB, in pages
  MemoryMap,    \* the UEFI memory map: a sequence of [start, pages, type]
  Bars,         \* the BARs of controllers: [start, pages]
  MAX_TABLES,   \* bound on the tables the heap has room for
  MAX_CALLS     \* bound on the calls of disable_cache

LEVELS == 1..4                       \* PT, PD, PDPT, PML4
\* pages an entry of level l stands for
Span(l) == <<1, ENTRIES, ENTRIES * ENTRIES, ENTRIES * ENTRIES * ENTRIES>>[l]
Pages == ENTRIES * Span(4)           \* how many pages the table can describe
Page == 0..(Pages - 1)
Index == 0..(ENTRIES - 1)
TableId == 1..MAX_TABLES

ASSUME PagingAssumption ==
  /\ ENTRIES \in Nat /\ ENTRIES >= 2
  /\ LOW_MEMORY \in 1..Pages
  /\ MemoryMap \in Seq([start : Page, pages : Nat, type : STRING])
  /\ Bars \subseteq [start : Page \ {0}, pages : Nat \ {0}]
  /\ \A i \in 1..Len(MemoryMap) : MemoryMap[i].start + MemoryMap[i].pages <= Pages
  /\ \A b \in Bars : b.start + b.pages <= Pages
  /\ MAX_TABLES \in Nat /\ MAX_TABLES >= 1
  /\ MAX_CALLS \in Nat

\* An entry: the table or the page it points to, and its attribute.  An entry
\* that was never written is all zeroes.
Zeroed == [i \in Index |-> [to |-> 0, attr |-> "NotPresent"]]
is_present(e) == e.attr # "NotPresent"

VARIABLES
  pc,      \* the caller: "unmap", "load" (the step after create_mapping), "idle"
  level,   \* the loop create_mapping is in, 0 when it has returned
  table,   \* heap memory: table |-> its entries; table 1 is the PML4
  used,    \* how many tables are allocated
  cr3,     \* "uefi", or "kernel" once the PML4 is loaded
  tlb,     \* a translation the CPU holds, or nothing
  call,    \* the arguments of create_mapping: [start, end, attr]; phys is virt_start
           \* in every call, so that all are identity mappings
  addr,    \* its addr
  at,      \* level |-> the table the loop of that level is in
  idx,     \* level |-> the index it entered that table with
  calls,   \* calls of disable_cache so far
  prior    \* page |-> its translation before the call (history)

loopVars == <<level, call, addr, at, idx, prior>>
vars == <<pc, table, used, cr3, tlb, loopVars, calls>>

calc_index(l, a) == (a \div Span(l)) % ENTRIES

-----------------------------------------------------------------------------
(* The MMU (external): the walk it does for a page                         *)

NoPage == [to |-> 0, attr |-> "NotPresent"]

WalkFrom1(t, p) == table[t][calc_index(1, p)]
WalkFrom2(t, p) == LET e == table[t][calc_index(2, p)]
                   IN IF is_present(e) THEN WalkFrom1(e.to, p) ELSE NoPage
WalkFrom3(t, p) == LET e == table[t][calc_index(3, p)]
                   IN IF is_present(e) THEN WalkFrom2(e.to, p) ELSE NoPage
Translate(p) == LET e == table[1][calc_index(4, p)]
                IN IF is_present(e) THEN WalkFrom3(e.to, p) ELSE NoPage

\* The CPU caches the translation of a page that is present, and may forget it.
TlbFill(p) ==
  /\ cr3 = "kernel"
  /\ is_present(Translate(p))
  /\ tlb' = {[page |-> p, entry |-> Translate(p)]}
  /\ UNCHANGED <<pc, table, used, cr3, loopVars, calls>>

-----------------------------------------------------------------------------
(* init_paging and disable_cache: calls of create_mapping                  *)

Usable == {"CONVENTIONAL_MEMORY", "LOADER_CODE", "LOADER_DATA"}
Ends == {LOW_MEMORY} \union
        {MemoryMap[i].start + MemoryMap[i].pages :
           i \in {j \in 1..Len(MemoryMap) : MemoryMap[j].type \in Usable}}
end_of_mem == CHOOSE e \in Ends : \A f \in Ends : f <= e

Enter(c) ==
  /\ call' = c
  /\ addr' = c.start
  /\ prior' = [p \in Page |-> Translate(p)]
  /\ level' = 4
  /\ UNCHANGED <<table, used, at, idx>>

\* PML4::new has been called; the first mapping.
Init ==
  /\ pc = "unmap" /\ level = 4
  /\ table = [t \in TableId |-> Zeroed] /\ used = 1
  /\ cr3 = "uefi" /\ tlb = {}
  /\ call = [start |-> 0, end |-> end_of_mem, attr |-> "ReadWriteKernel"]
  /\ addr = 0
  /\ at = [l \in LEVELS |-> 1] /\ idx = [l \in LEVELS |-> 0]
  /\ calls = 0
  /\ prior = [p \in Page |-> NoPage]

\* Page 0 is unmapped.
UnmapNull ==
  /\ pc = "unmap" /\ level = 0
  /\ Enter([start |-> 0, end |-> 1, attr |-> "NotPresent"])
  /\ pc' = "load"
  /\ UNCHANGED <<cr3, tlb, calls>>

\* Mutant: the callback's edits are not followed by a load of CR3.
WriteCr3Once ==
  /\ pc = "load" /\ level = 0
  /\ cr3' = "kernel"
  /\ tlb' = IF cr3 = "uefi" THEN {} ELSE tlb
  /\ pc' = "idle"
  /\ UNCHANGED <<table, used, loopVars, calls>>

\* write_cr3, in init_paging and in put_current_page_table: drops the TLB.
WriteCr3 ==
  /\ pc = "load" /\ level = 0
  /\ cr3' = "kernel"
  /\ tlb' = {}
  /\ pc' = "idle"
  /\ UNCHANGED <<table, used, loopVars, calls>>

\* What an IoBox or a BAR can be: a page of the heap (never page 0, see
\* Allocator), or a BAR.
Conventional == {p \in Page : \E i \in 1..Len(MemoryMap) :
                   /\ MemoryMap[i].type = "CONVENTIONAL_MEMORY"
                   /\ p \in MemoryMap[i].start..(MemoryMap[i].start + MemoryMap[i].pages - 1)}
IoRegions == Bars \union {[start |-> p, pages |-> 1] : p \in Conventional \ {0}}

DisableCache(r) ==
  /\ pc = "idle" /\ calls < MAX_CALLS
  /\ Enter([start |-> r.start, end |-> r.start + r.pages, attr |-> "ReadWriteIo"])
  /\ pc' = "load"
  /\ calls' = calls + 1
  /\ UNCHANGED <<cr3, tlb>>

-----------------------------------------------------------------------------
(* create_mapping                                                          *)

\* Mutant: populate, whether the entry is present or not.
DescendPopulating(l) ==
  /\ level = l /\ l > 1
  /\ LET i == calc_index(l, addr)
     IN /\ idx' = [idx EXCEPT ![l] = i]
        /\ used + 1 \in TableId
        /\ used' = used + 1
        /\ table' = [table EXCEPT ![at[l]] =
                       [@ EXCEPT ![i] = [to |-> used + 1, attr |-> "ReadWriteKernel"]]]
        /\ at' = [at EXCEPT ![l - 1] = used + 1]
  /\ level' = l - 1
  /\ UNCHANGED <<pc, cr3, tlb, call, addr, prior, calls>>

\* The head of the loop of level 4, 3 or 2: ensure_populated, table_mut.
Descend(l) ==
  /\ level = l /\ l > 1
  /\ LET i == calc_index(l, addr)
         e == table[at[l]][i]
     IN /\ idx' = [idx EXCEPT ![l] = i]
        /\ IF is_present(e)
           THEN at' = [at EXCEPT ![l - 1] = e.to] /\ UNCHANGED <<table, used>>
           ELSE /\ used + 1 \in TableId
                /\ used' = used + 1
                /\ table' = [table EXCEPT ![at[l]] =
                               [@ EXCEPT ![i] = [to |-> used + 1, attr |-> "ReadWriteKernel"]]]
                /\ at' = [at EXCEPT ![l - 1] = used + 1]
  /\ level' = l - 1
  /\ UNCHANGED <<pc, cr3, tlb, call, addr, prior, calls>>

\* Mutant: only the range is looked at.
GoesOnInTable(l, i, a) == a < call.end

\* A loop goes on unless its index was the last or the range is done.
GoesOn(l, i, a) == i[l] + 1 < ENTRIES /\ a < call.end

\* The innermost loop that goes on, or 0: create_mapping returns.
AfterPage(i, a) ==
  IF \E l \in LEVELS : GoesOn(l, i, a)
  THEN CHOOSE l \in LEVELS : GoesOn(l, i, a) /\ \A k \in 1..(l - 1) : ~GoesOn(k, i, a)
  ELSE 0

\* The body of the innermost loop: set_page, the next address, the breaks.
SetPage ==
  /\ level = 1
  /\ LET i == [idx EXCEPT ![1] = calc_index(1, addr)]
     IN /\ table' = [table EXCEPT ![at[1]] =
                       [@ EXCEPT ![i[1]] = [to |-> addr, attr |-> call.attr]]]
        /\ idx' = i
        /\ level' = AfterPage(i, addr + 1)
  /\ addr' = addr + 1
  /\ UNCHANGED <<pc, used, cr3, tlb, call, at, prior, calls>>

CreateMapping == (\E l \in LEVELS : Descend(l)) \/ SetPage

Next ==
  \/ CreateMapping
  \/ UnmapNull
  \/ WriteCr3
  \/ \E r \in IoRegions : DisableCache(r)
  \/ \E p \in Page : TlbFill(p)

Spec == Init /\ [][Next]_vars

-----------------------------------------------------------------------------
(* Properties                                                              *)

\* At every moment of a call the pages it has gone through are mapped as asked
\* for, and every other page is as it was before the call; when it returns it
\* has gone through the whole range.  So the loops skip no page at the border
\* of a table, map none beyond the range, and a table put in on the way down
\* hides no page that was mapped.
MappedSoFar ==
  /\ \A p \in Page :
       Translate(p) = IF p \in call.start..(addr - 1)
                      THEN [to |-> p, attr |-> call.attr] ELSE prior[p]
  /\ level = 0 => addr = call.end

\* What the kernel relies on from the moment its table is loaded, also while
\* disable_cache edits the live table: a null pointer traps, and every page of
\* the heap, the tables among them, is mapped to itself.
KernelMap ==
  cr3 = "kernel" =>
     /\ ~is_present(Translate(0))
     /\ \A p \in Conventional \ {0} : is_present(Translate(p)) /\ Translate(p).to = p

\* disable_cache has taken effect when it returns: the CPU holds no translation
\* from before the edit.
NoStaleTlb == pc = "idle" => \A e \in tlb : e.entry = Translate(e.page)
=============================================================================
