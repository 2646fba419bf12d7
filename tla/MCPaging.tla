------------------------------ MODULE MCPaging ------------------------------
(***************************************************************************)
(* Two entries per table: sixteen pages, and every second page is at the   *)
(* border of a page table.  Memory ends in the middle of a PDPT; one BAR   *)
(* lies in unmapped space behind a hole, across a border of every level    *)
(* but the last, and one inside low memory.                                *)
(***************************************************************************)
EXTENDS Paging

MCMemoryMap == <<[start |-> 0, pages |-> 3, type |-> "CONVENTIONAL_MEMORY"],
                 [start |-> 3, pages |-> 1, type |-> "RESERVED"],
                 [start |-> 4, pages |-> 1, type |-> "LOADER_CODE"]>>
MCBars == {[start |-> 7, pages |-> 3], [start |-> 13, pages |-> 3], [start |-> 3, pages |-> 1]}
=============================================================================
