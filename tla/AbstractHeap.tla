---------------------------- MODULE AbstractHeap ----------------------------
(***************************************************************************)
(* What `GlobalAlloc` promises the rest of the kernel, with no headers, no *)
(* list and no placement policy: a set of live blocks, each inside usable  *)
(* memory, big enough and aligned for the layout it was asked for, and     *)
(* disjoint from every other live block.  A request may always be refused. *)
(***************************************************************************)
EXTENDS Integers

CONSTANTS
  Layouts,   \* the layouts clients ask for: [size, align]
  Memory     \* the usable regions: [start, size]

VARIABLE live  \* the blocks clients own: [addr, size]

Init == live = {}

Disjoint(b, c) == b.addr + b.size <= c.addr \/ c.addr + c.size <= b.addr

InMemory(b) == \E m \in Memory :
                  m.start <= b.addr /\ b.addr + b.size <= m.start + m.size

Suits(b, l) == b.size >= l.size /\ b.addr % l.align = 0

Alloc(l) == \E b \in live' \ live :
               /\ live' = live \union {b}
               /\ InMemory(b)
               /\ \A c \in live : Disjoint(b, c)
               /\ Suits(b, l)

Dealloc == \E b \in live : live' = live \ {b}

Next == (\E l \in Layouts : Alloc(l)) \/ Dealloc

Spec == Init /\ [][Next]_live
=============================================================================
