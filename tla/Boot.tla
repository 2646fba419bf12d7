-------------------------------- MODULE Boot --------------------------------
(***************************************************************************)
(* uefi.rs: how the kernel takes the machine over from the firmware, and   *)
(* what init_basic_runtime (init.rs) then gives to the heap.               *)
(*                                                                         *)
(* exit_from_efi_boot_services fetches the memory map into a fixed buffer  *)
(* and asks the firmware to leave, quoting the map's key.  memory_map_size *)
(* is an in-out argument: the room in the buffer on entry, the size of the *)
(* map on return.                                                          *)
(*                                                                         *)
(* EfiStatus has one variant and a derived PartialEq, so that a comparison *)
(* of two of its values is the constant TRUE, whatever the firmware has    *)
(* returned (that a status which is not 0 is undefined behaviour as well   *)
(* leaves the build no other outcome).  The assertion behind               *)
(* get_memory_map holds and the loop is left after one round, also when    *)
(* the call it is about has failed.                                        *)
(*                                                                         *)
(* Sizes are counted in descriptors.                                       *)
(***************************************************************************)
EXTENDS Integers, Sequences

CONSTANTS
  CAPACITY,      \* descriptors memory_map_buffer has room for
  Descriptor,    \* what a descriptor says
  Nothing,       \* the zeroes the buffer starts with
  MAX_MAP,       \* bound on the length of the firmware's map
  MAX_CHANGES    \* bound on the changes of the map during the loop

ASSUME BootAssumption ==
  /\ CAPACITY \in Nat \ {0}
  /\ MAX_MAP \in Nat /\ MAX_MAP >= 1
  /\ MAX_CHANGES \in Nat
  /\ Nothing \notin Descriptor

VARIABLES
  pc,              \* where init_basic_runtime is
  fwMap, fwKey,    \* the firmware's memory map and its key
  buffer,          \* MemoryMapHolder.memory_map_buffer
  size,            \* .memory_map_size
  key,             \* .map_key
  heapMap          \* the descriptors init_with_mmap has iterated over

firmware == <<fwMap, fwKey>>
holder == <<buffer, size, key>>
vars == <<pc, firmware, holder, heapMap>>

Maps == UNION {[1..n -> Descriptor] : n \in 1..MAX_MAP}

\* MemoryMapHolder::new; key 0 is the one it starts with, the firmware's
\* keys are not 0.
HolderInit ==
  /\ fwMap \in Maps /\ fwKey = 1
  /\ buffer = [i \in 1..CAPACITY |-> Nothing]
  /\ size = CAPACITY
  /\ key = 0
  /\ heapMap = <<>>

Init == pc = "get" /\ HolderInit

\* The firmware (external): something allocates or frees, a timer event say,
\* until exit_boot_services, granted or not, has stopped its timers.
ChangeMap ==
  /\ pc \in {"get", "exit"}
  /\ fwKey <= MAX_CHANGES
  /\ fwMap' \in Maps
  /\ fwKey' = fwKey + 1
  /\ UNCHANGED <<pc, holder, heapMap>>

\* What the firmware writes (external): the map and its key, or if the map does
\* not fit perhaps the key alone.
FirmwareWrites ==
  IF Len(fwMap) <= size
  THEN /\ buffer' = [i \in 1..CAPACITY |-> IF i <= Len(fwMap) THEN fwMap[i] ELSE buffer[i]]
       /\ key' = fwKey
  ELSE UNCHANGED buffer /\ key' \in {key, fwKey}

\* Mutant: the size is the buffer's, on return as on entry.
GetMemoryMapKeepingSize ==
  /\ pc = "get" /\ pc' = "exit"
  /\ FirmwareWrites
  /\ UNCHANGED <<size, firmware, heapMap>>

\* get_memory_map, and the assertion that cannot fail.  The size that is
\* returned is the map's, also where that is more than there is room for.
GetMemoryMap ==
  /\ pc = "get" /\ pc' = "exit"
  /\ FirmwareWrites
  /\ size' = Len(fwMap)
  /\ UNCHANGED <<firmware, heapMap>>

\* exit_boot_services, and the break that is always taken: the firmware has left
\* if the key is the current one, and is still there if not.
ExitBootServices ==
  /\ pc = "exit" /\ pc' = "init_with_mmap"
  /\ UNCHANGED <<firmware, holder, heapMap>>

\* What the iterator may find at place i: behind the buffer, whatever is there.
At(i) == IF i <= CAPACITY THEN {buffer[i]} ELSE Descriptor \union {Nothing}

\* init_with_mmap runs the iterator: descriptors up to memory_map_size.
InitWithMmap ==
  /\ pc = "init_with_mmap"
  /\ heapMap' \in {m \in [1..size -> Descriptor \union {Nothing}] : \A i \in 1..size : m[i] \in At(i)}
  /\ pc' = "runtime"
  /\ UNCHANGED <<firmware, holder>>

Kernel == GetMemoryMap \/ ExitBootServices \/ InitWithMmap

Next == Kernel \/ ChangeMap

Spec == Init /\ [][Next]_vars /\ WF_vars(Kernel)

-----------------------------------------------------------------------------
(* Properties                                                              *)

\* If the map fits the buffer and the firmware has accepted its key, the heap is
\* made of exactly the descriptors of the map it has left behind: none is
\* missing, and none is what else the buffer holds.
HeapFromMapLeft ==
  heapMap # <<>> /\ size <= CAPACITY /\ key = fwKey => heapMap = fwMap

\* The heap is made from the memory map as it is when the firmware leaves, as
\* the assertion and the loop have it.
HeapFromCurrentMap == heapMap # <<>> => heapMap = fwMap
=============================================================================
