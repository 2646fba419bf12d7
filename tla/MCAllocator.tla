---------------------------- MODULE MCAllocator -----------------------------
(* A map with a usable descriptor at address 0, one page that is dropped,  *)
(* a descriptor of another type and a second usable one.                   *)
EXTENDS Allocator

MCMemoryMap ==
  <<[start |-> 0,     pages |-> 3, type |-> "CONVENTIONAL_MEMORY"],
    [start |-> 12288, pages |-> 1, type |-> "CONVENTIONAL_MEMORY"],
    [start |-> 16384, pages |-> 2, type |-> "LOADER_DATA"],
    [start |-> 24576, pages |-> 2, type |-> "CONVENTIONAL_MEMORY"]>>

\* Small blocks, aligned blocks that need padding, a whole page, and the
\* sizes that have no power of two: 0 and one beyond a 15-bit usize.
MCLayouts ==
  {[size |-> 2000, align |-> 8], [size |-> 1500, align |-> 1024],
   [size |-> 4096, align |-> 2048], [size |-> 0, align |-> 1],
   [size |-> 20000, align |-> 1]}

MCPowersOfTwo == {2^n : n \in 0..14}
=============================================================================
