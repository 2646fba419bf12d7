# WasabiOS in TLA+

WasabiOS (`src/repo/wasabi`) is a small operating system in Rust, started by UEFI firmware. It
runs on one CPU core without interrupts of its own: everything after boot happens in
cooperative tasks that an executor polls in turn. What makes it hard is not its own
concurrency but the machine around it. The USB host controller reads and writes the same
rings as the kernel, devices come and go between two register accesses, the MMU walks a page table
that is being edited, the firmware changes its memory map while the kernel is taking over, and
an exception can interrupt any instruction, that of a message about an exception included.

This directory holds TLA+ models of the parts in which that matters, TLC configurations that
check them on small instances, and TLAPS proofs for instances of every size.
`PROJECT.json` lists the components, runs, mutants, hazards and theorems, and maps each
definition to the source lines it models.

## 1. Inventory

All paths are below `src/repo/wasabi/src`.

| Component | State it keeps | Operations | Talks to |
|---|---|---|---|
| Heap allocator (`allocator.rs`) | list of 32-byte headers, each with a size and a flag | `init_with_mmap`, `alloc`, `dealloc` | everyone, through `Box` and `Vec` |
| Command and transfer rings (`xhci.rs`: `TrbRing`, `CommandRing`) | ring memory, index, cycle state | `push`, `advance_index` | the controller, through memory and doorbells |
| Event ring (`xhci.rs`: `EventRing`) | ring memory, index, cycle state, ERDP, wait list | `pop`, `poll`, `register_waiter` | controller (producer), request futures |
| USB requests (`xhci.rs`: `Controller`) | the rings, device contexts, waiters | `send_command`, `request_*`, `init_port`, `address_device` | rings, executor |
| xHC bring-up (`xhci.rs`: `Controller::new`, `PortScEntry`) | the controller's registers | `reset_xhc`, `init_*`, `start_xhc`, `reset_port`, `is_enabled` | controller, ports |
| Enumeration and class drivers (`usb.rs`, `keyboard.rs`, `tablet.rs`) | descriptors, last report | descriptor requests, `pick_interface_with_triple`, report loops | USB requests |
| HID reports (`tablet.rs`, `bits.rs`, `range.rs`) | parser state, field list | `parse_hid_report_descriptor`, `value_from_report` | tablet driver |
| Executor and timers (`executor.rs`, `hpet.rs`) | task queue, futures | `run`, `spawn_global`, `Yield`, `TimeoutFuture` | every task |
| Mutex (`mutex.rs`) | one flag | `lock`, drop of the guard | executor, rings, console |
| Paging (`x86.rs`, `init.rs`, `mmio.rs`, `pci.rs`) | four levels of tables, CR3 | `create_mapping`, `init_paging`, `disable_cache` | MMU, allocator |
| UEFI boot (`uefi.rs`, `init.rs`, `main.rs`) | memory map buffer, its size and key | `efi_main`, `exit_from_efi_boot_services`, `init_basic_runtime` | firmware, allocator, everyone in turn |
| Exceptions (`x86.rs`) | GDT, IDT, TSS | `init_exceptions`, `inthandler` | console |
| Console and panic (`print.rs`, `graphics.rs`, `main.rs`, `qemu.rs`) | the locked VRAM writer | `global_print`, panic handler | every task |
| Serial port (`serial.rs`) | UART registers | `send_char`, `try_read`, `loopback_test` | console, serial task |
| PCI (`pci.rs`, `xhci.rs`: `attach`) | the function's configuration space | `probe_devices`, `attach`, `try_bar0_mem64` | bring-up, paging |
| ACPI (`acpi.rs`) | none, the firmware's tables | `find_table` | HPET, PCI |

The flow after power-on: `efi_main` leaves the firmware with the memory map, gives the map to the
allocator, installs exception handlers, builds and loads a page table, probes PCI, which brings the
xHC up and spawns its task, spawns three tasks of its own and starts the executor, which does not
return. The xHC task scans the ports, spawns the polling task, resets the port, gets a device slot,
reads descriptors and spawns a class driver.

What makes each of the modelled parts correct:

* allocator: blocks never overlap, no memory is lost from the list, `provide` never asserts;
* rings: the controller never executes a half-written or stale entry, no event is lost or read
  twice, neither side waits for the other for ever;
* requests: a completion reaches the future that waits for it, even if it comes first;
* bring-up: the controller never runs on half-programmed registers, writing PORTSC has no side
  effects, waits end;
* drivers: the device is in the configuration of the interface the driver uses, and what is printed
  catches up with the device;
* executor: no task is lost, doubled, overtaken or starved;
* paging: each call maps its range and nothing else, and the table stays usable while edited;
* boot: the heap is made from the memory map that was valid when the firmware left (which holds only where the
  firmware refuses nothing, section 4), and startup gets to the executor or stops in a defined way;
* console: a message gets out whole, and a panic is reported whatever was interrupted;
* PCI: the controller's registers are where the driver looks for them, and the probe ends whatever fails.

## 2. Modules

| Module | Models | Notes |
|---|---|---|
| `AbstractHeap` | what a client sees of the allocator | abstract specification |
| `Allocator`, `MCAllocator`, `AllocatorProof` | `allocator.rs` | byte addresses as in the code |
| `TrbChannel` | an unbounded FIFO channel | abstract specification of both rings |
| `CommandRing`, `CommandRingProof` | `TrbRing`, `CommandRing`, and how `send_command` and the `request_*` functions use them | controller runs between the stores of `push` |
| `EventRing`, `EventRingProof` | `EventRing::pop`, `advance_index_notoggle`, ERDP | controller posts between the reads of `pop` |
| `Xhci`, `XhciProof` | driver task, polling task and controller together | rings are channels here, which the two modules above justify |
| `XhcBringUp` | `Controller::new` to the end of `reset_port` | ends where `Xhci` begins |
| `Pci`, `PciProof` | `probe_devices`, `attach`, `try_bar0_mem64` | composed with `XhcBringUp`, which it EXTENDS; the proofs are of the composition |
| `UsbDrivers`, `MCUsbDrivers` | `Xhci::run` after AddressDevice, the keyboard and tablet drivers | a request is one step; `Xhci` has its stages |
| `HidReport` | report descriptor parser, `value_from_report`, `mapped_range_from_report` | with a device that lays its report out |
| `Bits`, `Range` | `bits.rs`, `range.rs` | pure algorithms |
| `DriverProof` | | the proofs about `UsbDrivers`, `HidReport`, `Bits` and `Range` |
| `Executor` | `Executor::run`, `spawn_global`, `Yield`, `TimeoutFuture`, the queue's mutex | proofs in `StartupProof` |
| `Paging`, `MCPaging`, `PagingProof` | `create_mapping`, `init_paging`, both `disable_cache` | with a CPU that fills its TLB at any time |
| `Boot` | `exit_from_efi_boot_services`, `init_with_mmap`'s input | with a firmware that changes its map, and statuses that compare equal whatever they are |
| `Graphics` | `fill_rect`, `draw_line`, `draw_str_fg`, `init_display` | pure: the set of pixels written |
| `Console` | `global_print`, `serial.rs`, the panic handler, `exit_qemu`, the exception handlers | with a UART, and exceptions at any point |
| `Startup`, `StartupProof` | `efi_main` and `init.rs`, `Hpet::new`, ACPI lookups, the serial task | composes `Boot`, `Console` and `Graphics`; the proofs include the executor, which startup ends in |

### How state and actions correspond to the code

**Allocator.** `header` is the memory in which headers live (address to size and flag) and `list` the
order of the `next_header` links. `InitWithMmap` is one descriptor of the loop in `init_with_mmap`
(with the rule that page 0 is not used and a descriptor of one page is skipped), `Alloc` is the
first-fit search with `provide`, `AllocNull` its null return, `Dealloc` the clearing of the flag.
`provide` keeps its arithmetic: size rounded up to a power of two of at least a header, the block cut
from the end of the chunk and aligned down, a header for the block and, if anything is left behind
it, one for the padding. That the code rounds up is written as a relation (`IsRoundUpPow2`), which
has no solution where the code returns an error.

**CommandRing.** `push` is `PushWrite` (the entry with the cycle bit the controller does not accept),
`PushPublish` (the bit flipped) and `PushLink` (the Link published, the cycle state toggled), since
each is a store the controller can see. `StartUse`, `Notify` and `Completed` are the callers: one, two or
three TRBs, a doorbell, and the wait for one of them. In a DataIn transfer that one is not the last,
so the Status stage of one request may still be outstanding when the next is pushed. `HwTake`,
`HwLink` and `HwStop` are the controller (external).

**EventRing.** `HasNextEvent`, `ReadCurrent`, `AdvanceIndexNoToggle` and `WriteErdp` are the accesses
of `pop` in order. ERDP receives the address of the entry just consumed, as in the code, so it lags
by one. `Post` is the controller, which stops when the ring looks full from ERDP.

**Xhci.** The driver goes through `push`, `notify`, `register`, `await` for each request; the polling
task's step `PollEvent` may only happen where the driver has given up the thread (`DriverYields`), the
controller's steps at any time. `AfterEnableSlot` is `address_device` up to its command, with the panic on slot 0 and the error returns. `wait_list` holds weak references, `future` the strong ones (a set: a waiter is entered once, and all of
the list is looked at for every event, so its order has no effect);
`CleanedUp` is the removal of dead references at each event.

**XhcBringUp.** PORTSC is the set of its bits that are 1. `assert_bit` is two accesses, `ReadPort` and
`WritePort`, with `AfterWrite` for what a write does in hardware (write-1-to-clear, write-1-to-set).
`is_enabled` is four reads.

**Pci.** A function's configuration space is its ids, the command and status registers as sets of bits, and BAR 0 with its
size; `placed` remembers where the firmware had put it. `attach` is one action per access: `DisableInterrupt` and `EnableBusMaster`
(read-modify-writes, which clear the status bits they read), `ReadBar`, `WriteOnes`, `ReadSize`, `Restore`, then `DisableCache`, which
panics on a BAR that is not page aligned, and the steps of `Controller::new`. `AttachFailed` is the error message after which the
probe goes on. `RunTask` is the spawned task, which only runs once the probe is over.

**UsbDrivers.** Setup packets keep what tells requests apart: type, recipient, number, value, index.
The device (external) interprets them as the USB and HID specifications say. A report is captured in
one step and decoded in another, since the task is resumed later. `shown` is what the printed lines
add up to: a key that was reported down and not up since, or the last position. `PickLoop` is the loop of
`pick_interface_with_triple` by the number of descriptors it has seen. Interface numbers are a set with 0 in it (`InterfaceNumber`, a byte in the code),
because Get_Report always asks interface 0. `Iterated` is what
`DescriptorIterator` makes of a buffer that ends in the middle of the list: a known descriptor that is cut ends the iteration, a cut one of unknown type is still returned.
A single byte at the end is read past, and a length of 0 never ends; both are the panic of `GetConfig`. The model's device has its keyboard only in the setting of the descriptor that says so
(`IsKeyboard`), so that the setting the requests leave it in matters for what it reports.

**HidReport.** One action per item of the descriptor. Beside the parser the model keeps the fields as a
device would lay them out, each with a value; `Wire` is the resulting report as a number, whose bytes `Bits` takes apart as
`extract_bits_from_le_bytes` does: byte by byte, each put in its place and shifted right by the bits in front of the field.
The driver reads `REPORT_LEN` bytes (8 in the code) whatever the descriptor declares, so a field may lie behind them or across their end (`Arrives`). Usage Minimum
and Usage Maximum are two items, in either order, as are the logical ones. Sizes, counts, values, the buttons of a usage range, the logical minimum and maximum and the width of the screen are
constants; sizes are up to 63 bits, as far as the code's mask reaches.

**Executor.** `PopFront`, the poll (`Poll` and the actions of a task), `PushBack` or `Complete`. Each
`lock()` is `UnderLock`: if the mutex is taken, one thread can only panic. `Sleep` with its time already over is ready at the first poll; with any other it is pending
(`SleepPending`). Time is counted from each sleep's start,
which keeps the model finite without bounding the clock.

**Paging.** `level` is the loop of `create_mapping` that is about to run; `at` and `idx` are its local
variables. `Descend` is the head of an outer loop (with `ensure_populated`), `SetPage` the body of the inner one
with its breaks. `TlbFill` (external) caches a translation from the live table. Addresses are pages.

**Boot.** The holder's buffer, size and key. `EfiStatus` is an enum of one variant with a derived `PartialEq`, so every comparison with `Success` is
a constant of the build: the assertion behind `get_memory_map` cannot fail and the loop has one round. `GetMemoryMap` leaves in `size` what the firmware wrote there, and
buffer and key as they were if the map did not fit (`FirmwareWrites`, external; the key may be written all the same). `ExitBootServices` goes on whether or not the
key is current. `InitWithMmap` is the iteration over `size`, which may be past the end of the buffer: what is found there is any descriptor (`At`).

**Console.** `print` is the running call of `global_print`: which message, how many characters are sent, and whether it is at the serial
port (`SendChar`), at the lock (`Lock`, `LockFails`) or drawing (`Draw`). `mode` says whether kernel, handler, panic handler or
`exit_qemu` runs. `Take` is an exception: before `lidt` the firmware's handlers stop the machine, a vector without an entry
point panics, a breakpoint saves the call and resumes it (`Inthandler`), all others print and panic. `LockFails` is the panic of
`lock()` on a taken mutex, since one thread cannot wait for itself. The UART (external) holds one character on the way out and a few that came in;
`line` is what has left the machine.

**Startup.** `pc` walks through `efi_main`, one action per call; a step that prints is followed by the steps of `Console`, and the next is taken
when the print is over. Each `expect` and `assert` that can fail is an alternative that leads to `pc = "panic"`.
The lookups of the loaded image and of the screen cannot, for the reason given under Boot: if they fail a null pointer is used, which may be an exception (`UseNull`), or
yield a screen at some address (`located` is FALSE), about which the properties say nothing more. `stray` is about a screen that was found. What the firmware's
tables hold is chosen when it is looked up. Behind "executor" the tasks print and poll the serial port in any order; `LoopbackFails` leaves
the port in loopback mode, as the code does.

**Graphics.** A drawing function returns whether it is Ok and which pixels it has written; a pixel is its offset in the
frame buffer, so that a write past a scan line's end, or past the buffer, is visible as such.

## 3. Runs

Each run takes at most about two minutes. Deadlock checking is off where the system may stop.

| Run | Instance | States | What it shows |
|---|---|---|---|
| `allocator` | four descriptors (one at 0, one of a single page, one of another type), five layouts | 2 217 | chunks tile the usable memory, the list reaches each once, no assertion fails; refines `AbstractHeap`, every block suiting its own request |
| `command_ring` | 6 entries, 2 bodies | 72 320 | ownership agrees at every store, no error return, FIFO channel, every submission completes |
| `event_ring` | 4 entries, 2 events | 1 266 | FIFO channel, an empty ring always has room, `pop` never fails, room returns |
| `executor` | 3 tasks, sleeps of 0 and 1 | 38 793 | the lock is free whenever it is taken, tasks are kept, order is kept, everyone is polled, sleepers wake |
| `xhci` | 5 places, 3 events, 3 waiters | 32 292 | a completion finds its waiter, no address is in use twice, the wait list stays short, requests are answered |
| `xhc_bring_up` | 3 functions, BARs of half a page and four pages, 2 ports, 2 plug events | 121 472 | registers reachable, no run on half-programmed ones, port writes harmless, probe and waits end |
| `usb_drivers` | 300 descriptor lists, 2 keys, 1 slot | 266 156 | right configuration, output catches up |
| `usb_set_protocol` | keyboards with an alternate setting and a layout of their own in the report protocol | violation | the boot protocol is never selected, and the setting of the interface is lost |
| `hid_report` | fields of 1, 8 and 9 bits with values 0, 1, 3 and 127, two fields, reports of 2 bytes | 155 016 | what is sent is decoded, what does not arrive is missing, pointers stay on the screen |
| `paging` | 2 entries per table, 16 pages, 3 calls | 7 251 | exact mapping at each moment, null page and heap stay as they must, no stale TLB |
| `startup` | buffer of 2, maps of 1 to 3 with a change, 8 screens, all lists of up to 2 tables, 2 timers, messages of 2 characters, 1 exception | 364 627 | where the map fits and its key is accepted the heap is that map; no pixel outside a screen that was found, timers quiet, messages and panics get out, the machine runs on or exits |
| `boot_stale_map` | buffer of 3, maps of 1 to 3, 1 change | violation | the heap is made of an old map |

### Why the bounds are enough

* `command_ring`: six entries is the smallest ring the uses allow; the driver can be as close behind the
  controller as it ever gets, and both lap parities occur. The proofs cover all larger rings, 16 in the code.
* `event_ring`: four entries let the ring be full, empty and at every offset in both parities; the proofs cover three and more.
* `allocator`: the two usable regions hold a few blocks each, and layouts are chosen so that padding is
  needed in some states and not in others, a chunk is used up to its minimum, and a request fails. The proofs have
  no bound.
* `executor`: three tasks are needed for one to be overtaken while another is polled; 0 and 1 are the sleeps that
  are over at once and that are not. The proofs hold for any set of tasks.
* `xhci`: five places make addresses come round within two requests; three waiters are one awaited, one stale in the
  list and one more, so that the bound on the list is not the bound of the model; one port and two slots include the
  slot without a doorbell.
* `xhc_bring_up`: two ports, so that the search has a choice and an unrelated port changes during a reset; `MAX_CHANGES` of two
  lets a device go and come back, or one go at each port. The xHC is the second of three functions, so that one can fail before it and one behind it,
  while its own task waits. Words have six bits; a BAR of 128 does not fit one, one of 16 is less than a page.
* `usb_drivers`: up to four descriptors give a second configuration before or behind the interface and two
  interfaces of the same class, one of them with an alternate setting, and a descriptor of unknown type where the buffer ends; two keys with one slot reach rollover.
* `hid_report`: one, eight and nine bits give fields inside a byte, filling one and across a border, that end with the second byte of the report, cross its end or lie
  behind it; two fields are enough for usages or offsets to leak from one Input item into the next.
* `paging`: with two entries per table every second page is at a border, and the ranges cross borders of the lower three levels. The
  third call of `disable_cache` may find the tables the first has put in. `MAX_TABLES` (15) is a full tree.
* `startup`: the buffer's capacity is one less than the longest map, so that maps leave room, fill it, or do not fit, and change before or behind `get_memory_map`. A message of two characters is one that must get
  out and the newline, which a FIFO reset may cost. One exception reaches every point once, and the one that drawing to an unmapped frame buffer
  raises comes on top of it. Screens are one pixel too small, or exactly large enough, for the test pattern in each direction, with scan lines shorter and longer than the width.
  Two timers are the first and the last.

### Mutants

Every property has a mutant in the module it is about: a variant of one definition with a plausible bug (a
missing toggle, a wait left out, an unmasked write, a guard kept too long, a forgotten reset). With it
in place TLC finds that property violated.

### Fairness

* `CommandRing`: weak fairness of the driver's steps (the executor polls the task again and nothing in `push` blocks) and of the
  controller, which must process a ring whose doorbell was rung.
* `EventRing`: weak fairness of `pop` only: the polling task is polled for ever (`Executor`). Nothing is assumed of the controller.
* `Executor`: the single thread runs on, a task's poll returns (tasks only yield at awaits), and the HPET
  counts.
* `Xhci`: weak fairness of both tasks; strong fairness of the controller's completions, since port changes
  can fill the event ring again and again, but each time it is emptied a completion may be posted.
* `Pci` with `XhcBringUp`: the kernel's one thread runs on; the controller halts, starts, resets, and ends a port reset in bounded
  time, as xHCI requires. Plugging is not fair.
* `UsbDrivers`: a request is answered or fails, which is what `RequestsAnswered` in `Xhci` gives outside its one stuck case;
  the user is not fair.
* `Startup`: the processor runs on, and the UART sends what it was given. Nothing is assumed of keys, exceptions and the firmware.
  The loop of `exit_from_efi_boot_services` needs no assumption, since it has one round.

## 4. Findings

* **Set_Protocol is sent as Set_Interface** (`usb_set_protocol`). `request_set_protocol` leaves out
  `REQ_TYPE_TYPE_CLASS`. Request 11 of type standard is Set_Interface, so the device stays in the report protocol, and selects alternate setting 0,
  also where the request before has just selected another (`ProtocolRequestResetsSetting` proves what it is left in). QEMU's keyboard has the same
  layout in both protocols and no other setting, which hides it.
* **No failure of the firmware is seen** (`boot_stale_map`). `EfiStatus` has the one variant `Success` and a derived `PartialEq` (`uefi.rs:41`), so that
  `== Success` is true and `!= Success` false of every status; a status other than 0 is undefined behaviour besides. If the memory map changes between `get_memory_map` and
  `exit_boot_services`, the firmware refuses and stays, the loop that should try again is left, and the heap is made of the old map. A protocol that is not found yields a
  null pointer that is used, where the code means to return an error and panic; `Startup` has that as an exception (`UseNull`) or as drawing to some other memory, without a property.

Two disagreements of comments and code were met by reading and have no run:

* Doorbells are counted by ports: `num_slots` (`xhci.rs:82`) is `num_of_ports()`, while the comments at `xhci.rs:88` and `xhci.rs:1328` have one doorbell
  for every slot. A device in a slot above the number of ports cannot be used. `Notify` of `Xhci` has the case, and `PROJECT.json` lists it as a hazard.
* A prefetchable BAR passes (`pci.rs:205`): the comment behind the check says "Memory, 64bit, Non-prefetchable", but the mask `0b0111` leaves out bit 3, which says that. It
  has no consequence for the driver, as the region is mapped uncached either way; `Pci` has such BARs in its run.

Behaviour met while modelling that contradicts no statement of the repository, and is therefore not a finding:

* in `PROJECT.json`, with a note: the heap is never merged; a descriptor of length 0 makes the iterator endless (`usb.rs:124`); `loopback_test` reads at once and on failure leaves
  the port in loopback mode, so that nothing is printed on it any more; an exception while the VRAM writer is locked makes the panic handler
  panic for ever (`KeepsRunning` excludes it, `PanicReported` shows that the message still gets out, because the serial port comes first);
* only here: the transfer type of a setup stage is computed from `request` where `request_type` is meant (`xhci.rs:1538`); the sign extension of
  `value_from_report` cancels out (`tablet.rs:214`); Get_Report always asks interface 0 (`xhci.rs:748`); the tablet is never configured
  (`tablet.rs:242`); a device without strings gets no driver (`xhci.rs:155`); read-modify-writes of the PCI command register clear the status bits (`pci.rs:221`); `attach` relies on
  memory decoding being on.

## 5. Proofs

TLAPS checks eight modules, without omitted steps. Assumptions are the named ASSUMEs of the modules, which TLC evaluates
on each instance. Every inductive invariant below was model-checked on the run's instance before it was proved.

**AllocatorProof**, for every memory map with page-aligned disjoint descriptors, every set of layouts and every set of
powers of two closed under halving. `HeapInv` is type correctness, `NeverPanics`, `ChunksDisjoint`, `ChunksFit`,
`ChunksTile` and `ListComplete` together; none of the last five is inductive alone, as whether `provide` stays inside its chunk
depends on chunks being multiples of 32 bytes in their region, and that a block's header overwrites no other depends
on disjointness. The core is `ProvideGeometry`: `can_provide` asks for size, two headers and the alignment, and aligning down by less than
one alignment therefore leaves a whole header in front. `InsertAfterEnumerates` does the same for the
list. Results: `ProvideNeverPanics`, `ChunksPartitionMemory`, `ChunksStayInRegions`, `NothingLeaks`, `ListReachesEveryChunk`, and
`AllocatorIsHeap`: the allocated chunks without their headers implement the blocks of `AbstractHeap`. Its core are
`ProvideHandsOut` (the new block is aligned, has the room asked for, and no block moves) and `AlignedForLayout`: a multiple of a greater power of two
is one of a smaller, so that the block's header does not spoil the alignment.

**CommandRingProof**, for every ring of six or more entries. `RingInv` adds `CycleBits` (which entries have which bit, from the two
indices and cycle states), `HwBehind` (the controller is behind the driver, by less than a lap) and `UseBound` (how many TRBs can be
outstanding in each phase of a use). The last is needed because the ring itself cannot tell that it is full: only the awaited
completion bounds the driver. Results: `PushSucceeds`, `RingNeverOverflows` (at most four outstanding), `OwnershipAgrees`, and
`RingIsChannel`, the refinement of `TrbChannel` under the mapping of the published entries to a sequence.

**EventRingProof**, for every ring of three or more entries. `EventInv` adds `CycleBits`, `ReaderBehind`, `ErdpLags` (ERDP is exactly one
entry behind the reader, or at the start) and `PopState` (what each point inside `pop` knows about the entry). Results:
`PopSucceeds`, `ControllerNeverLaps`, `EmptyRingHasRoom`, `PopReturnsOldest`, `EventRingIsChannel`.

**XhciProof**, for rings of five or more places, event rings of any size, and any number of ports and slots. That a completion finds its
waiter is a statement about one address; what keeps it true is where every address is. `Back(r, d)` is the address pushed `d` pushes
ago, and the last `PLACES` of them differ (`BackIsAddress`). `QueueInv` says a ring holds the last pushes in order and at most four,
`ProgressInv` how many TRBs each point of a request has pushed and what may be left of the request before (the Status stage of
a DataIn), `EventInv` that an event names a place that has left its ring and was not used again, and is either for the
awaited TRB or the error of a stage nobody awaits, and `OnceInv` in which of three places the awaited completion is. The hard step is
`TakeKeeps`, the controller taking a TRB in the middle of anything the driver does. Results: `CompletionsOnce`, `AddressesUsedOnce`, `StaleWaitersGo`.

**PagingProof**, for tables of any number of entries from two, every memory map and every set of BARs that the table can describe (`PagingAssumption`:
physical memory ends below 2^48, as four levels of 512 entries have it; the code does not check that). An index is a digit of the page
number, so the first part is about digits: what a level sees is the quotient of what the level below sees (`Digits`), and adding a page carries into
a level exactly when all digits below are the last (`Carry`). `TreeInv`: a table is on walks of one level only, and only on those
of the pages that agree in the digits above; it is what makes a store into one table invisible to the rest (`PopulateKeeps`,
`SetPageWalk`). `LoopInv`: the loops at and above the current level are in the tables of the walk for `addr`, with the indices of `addr`; `NextLoop` shows that the innermost
loop that goes on is the one whose table `addr + 1` is still in, and that no loop goes on just when the range is done. `PhaseInv` carries what the first
mapping established to the moment CR3 is loaded. Results: `MapsWhatItShould`, `HeapStaysMapped`, `EditsTakeEffect`.

**PciProof**, of the composition, for any number of functions and ports, and words, pages and BARs of any size (multiples of 16, as
four bits of a BAR are its type; a BAR's size divides the address space, as a power of two does). `BringUpInv`: the controller is stopped from the
moment the driver has seen it halt until all registers are programmed, in order. `ProbeInv`: what `attach` has established of the
function's configuration space at each access, in particular what the BAR reads between the write of ones and the restore; `SizingIsExact`
shows that the complement of what was read is the size. Results: `RunsOnOneSet`, `XhcReachable`, and `PortWritesSpare`, an action property: `WriteSpares`
shows it of the value `assert_bit` writes, whatever it has read.

**StartupProof**, of the composition, for maps, messages, screens and timers of any size. `MapInv`: a key that is still the firmware's is that of the map
in the buffer, if `size` says that one fitted; it is what `HeapFromMapLeft` needs one and two steps before the heap is made. `PrintInv`: what the running and the interrupted call of `global_print` have sent is on the line, except for the character in the
transmitter, and a breakpoint's message does not take the place of the kernel's. `TimerInv`: the timers below the loop counter are quiet. For the screen,
`DisplayInBuffer` goes through `init_display`'s rectangles, lines and text: the two corners that `fill_rect` checks bound all it writes, also
where a scan line is shorter than the width. Results: `HeapFromMap`, `MessagesGetOut`, `TimersAreQuiet`, `DrawsInBuffer`.
The module's second part is about the executor, for every set of tasks (from `NoTaskAssumption` and `MaxSleepAssumption`). `ExecutorInv` adds to the
properties that the mutex is free between statements and `HandsFull`: which task the executor holds at each point, and that it is not also queued. Results:
`LockAlwaysFree`, `NoTaskLost`, `QueueInOrder` (an action property).

**DriverProof** has four parts. The library's induction and recursion theorems take operators, which the provers cannot instantiate; here they are restated
for sets and functions. `SetInduction` (a set of naturals with 0 and all successors is `Nat`) follows from the well-foundedness of `<`, and
`RecursionExists` from it: a step function has its sequence of iterates. A definition by recursion is then shown to be that sequence.

* *Drivers*, for every set of descriptor lists of any length. `LoopInv` says what the loop of `pick_interface_with_triple` has after n descriptors: its configuration is the
  last one before its interface (or before n), and no other stands between them. `PicksInItsConfiguration` follows. `UsbInv` carries the choice through
  the requests: before each, which of configuration and setting the device already has (`SetUp`); in the loops, what the printed lines add up to
  (`ShownIsKept`). Results: `KeyboardConfigured` (the configuration is that of the picked interface, for every device and wherever the iterator stops),
  `ProtocolRequestResetsSetting` (the setting is the picked one until the request that should select the boot protocol, and 0 from then on: the part of `SetProtocolAsMeant` about the setting fails for
  exactly the interfaces with another one), `PrintedIsLastReport`.
* *Bits*, for buffers of any length, any shift and any width. `Digits` takes a byte off a number, `GatheredSum` says what the loop has gathered
  after m + 1 bytes: the number shifted right, but for what lies behind those bytes. `ExtractsField` then is the uniqueness of quotient and remainder: if `wire` is
  `(high * 2^width + value) * 2^shift + low`, with `low` and `value` in their bits, `value` is returned.
* *Range*, for all integer ranges: `MapsIntoRange` and `MapIsMonotone` of `map_value_in_range_inclusive`.
* *Reports*, for every stream of items and every value of the constants (from `HidAssumption`).
  `HidInv`: the local items the parser holds are those the device has declared, as a list or as a range (`LocalsAgree`), and its fields are the device's, of the same size, under
  the same usage, one behind the other up to `bit_offset` (`Layout`). The properties alone say nothing about the state in front of the next Input. `SentBelow` and `SentAbove` split
  the report at any field, so that `ExtractsField` applies to a field that arrives; `NothingRead` is the other case. Results: `ReportsDecoded` and `PointerLandsOnScreen`, for reports of any length.

The type invariants of these modules (`TypeOK` or `TypeInv`) are conjuncts of the inductive invariants and have no run of their own; neither has
`ReadsOldest`, which `PopReturnsOldest` proves.

Only model-checked are the liveness properties (`SubmissionsComplete`, `RoomReturns`, `EveryTaskPolled`, `SleepersWake`, `RequestsAnswered`, `BringUpEnds`, `PanicReported`,
`KeepsRunning`, `InputFollowed`): fairness is outside what the prover does. Every other property of a passing run is the conclusion of a theorem.

## 6. What is not modelled, and why

* Contents of memory blocks, TRBs, contexts and descriptors beyond what the control depends on.
* Encodings of segment and gate descriptors, the registers the assembly stubs save, fonts and text layout, `hexdump`, the pointer arithmetic of ACPI table
  walks: layout without a protocol.
* `block_on`, which nothing uses; `pin.rs`, the pointers of `mmio.rs` and `volatile.rs`, which have no state; the test runner.
* What text covers on the screen: each pixel of a glyph is checked on its own, which `draw_str_fg` in `Graphics` shows for the test pattern.
* The probe's prints, and exceptions during it: `Startup` has a print and an exception between any two steps, `Pci` has the steps of the probe.
* 64-bit overflow of addresses: a memory map does not come near it. The 32-bit wrap of an HPET counter is
  listed as a hazard.
* Memory ordering of the CPU beyond program order: the rings are mapped uncached (`disable_cache`), and x86 keeps stores in
  order.
* Descriptors whose length is neither 0 nor that of their type, which put the iterator into the middle of another.
* What is destroyed by writes through a pointer that a failed lookup left null, and what the firmware does to the machine when it refused to leave.

## 7. Plan

Done: the allocator, both rings, the executor, request delivery, PCI probe and bring-up, drivers, reports, paging, and startup with console,
exceptions and serial port; proofs of all safety properties the runs check, and of the three refinements.

Next, in this order:

1. Memory ownership between controller and heap: the transfer ring that is freed when `run` returns with a Status stage outstanding.
2. HPET: counter width and wrap.
3. A refinement of each ring of `Xhci` to `TrbChannel`, which would put the justification for modelling rings as channels there into a theorem of the composition.
