------------------------------ MODULE Startup -------------------------------
(***************************************************************************)
(* main.rs and init.rs: efi_main from the firmware's call to the executor  *)
(* with its tasks, put together from Boot (the firmware's exit and the     *)
(* heap), Console (prints, exceptions and panics) and Graphics.            *)
(*                                                                         *)
(* A step of efi_main may print, with Say; the next one is taken when the  *)
(* print is over.  Prints that follow each other are one.  expect and      *)
(* assert lead to pc = "panic", from where the panic handler takes over.   *)
(* What the firmware's tables hold is chosen when it is looked up.         *)
(***************************************************************************)
EXTENDS Boot, Console, Graphics

LOCAL SE == INSTANCE SequencesExt

CONSTANTS
  WIDTHS, HEIGHTS, PPLS,   \* the screens the firmware may give us
  PATTERN,                 \* side of the test pattern, 128 in the code
  MAX_TABLES,              \* bound on the entries of the XSDT
  NUM_TIM_CAP              \* HPET: number of the last timer

ASSUME StartupAssumption ==
  /\ WIDTHS \union HEIGHTS \union PPLS \subseteq Nat
  /\ PATTERN \in Nat /\ MAX_TABLES \in Nat /\ NUM_TIM_CAP \in Nat

VARIABLES
  vram,         \* VramBufferInfo until it is the writer's, or None
  located,      \* vram describes the firmware's frame buffer
  stray,        \* a pixel was written outside of the frame buffer that was found
  hpetOn,       \* HPET: bit 0 of the configuration
  timers,       \* HPET: the timers whose interrupt is enabled
  timer,        \* the loop counter of Hpet::new
  serialTask    \* where the serial task waits

hpet == <<hpetOn, timers, timer>>
display == <<vram, located, stray>>
startupVars == <<display, hpet, serialTask>>
allVars == <<vars, consoleVars, startupVars>>

StartupInit ==
  /\ pc = "efi_main" /\ HolderInit /\ ConsoleInit
  /\ vram = None /\ located = TRUE /\ stray = FALSE
  /\ hpetOn = FALSE /\ timers = {} /\ timer = 0
  /\ serialTask = "new"

\* efi_main is at from and goes on at to.
Step(from, to) == Running /\ pc = from /\ pc' = to /\ UNCHANGED <<firmware, holder, heapMap>>

\* A step that prints, or one that does not, and leaves the rest of the
\* console alone.
Printing == Say("kernel") /\ UNCHANGED <<mode, saved, traps, drawTrapped, thr, rx, loopback, screen, idt>>
Quietly == UNCHANGED consoleVars

Say1(from, to) == Step(from, to) /\ Printing /\ UNCHANGED startupVars

-----------------------------------------------------------------------------
(* Under the firmware                                                      *)

Booting == Say1("efi_main", "loaded image")

\* A lookup that fails leaves its pointer null, and the pointer is used, since a
\* comparison of EfiStatus never fails (see Boot).  What lies at page 0 is then
\* taken for the image's base and size,
LocateLoadedImage == Say1("loaded image", "init_vram")

\* for the screen,
InitVram ==
  /\ Step("init_vram", "init_display") /\ Quietly
  /\ vram' \in [width : WIDTHS, height : HEIGHTS, ppl : PPLS]
  /\ located' \in BOOLEAN
  /\ UNCHANGED <<stray, hpet, serialTask>>

\* or it cannot be read, or what was taken for the screen cannot be written.
UseNull ==
  /\ Running
  /\ pc \in {"loaded image", "init_vram"} \/ (pc = "init_display" /\ ~located)
  /\ Take(14) /\ UNCHANGED traps
  /\ UNCHANGED <<vars, startupVars>>

\* Where no screen was found every pixel goes to some other memory; what that
\* destroys is not modelled.
InitDisplay ==
  pc = "init_display" /\
  LET drawn == init_display(vram, PATTERN)
  IN /\ Step("init_display", IF drawn.ok THEN "set_global_vram" ELSE "panic") /\ Quietly
     /\ stray' = (located /\ ~(drawn.pixels \subseteq 0..(vram.ppl * vram.height - 1)))
     /\ UNCHANGED <<vram, located, hpet, serialTask>>

\* The screen does not matter from here on, but for whether it can be written:
\* what text covers is not modelled.
SetGlobalVram ==
  /\ Step("set_global_vram", "acpi_table")
  /\ writer' = TRUE /\ vram' = None /\ located' = TRUE
  /\ mapped' \in (IF located THEN {TRUE} ELSE BOOLEAN)
  /\ UNCHANGED <<cpu, uart, locked, idt, stray, hpet, serialTask>>

AcpiTable ==
  \E to \in {"get", "panic"} : Step("acpi_table", to) /\ Quietly /\ UNCHANGED startupVars

\* init_basic_runtime
TakeOver == Running /\ Kernel /\ Quietly /\ UNCHANGED startupVars

-----------------------------------------------------------------------------
(* On our own                                                              *)

HelloNonUefi == Say1("runtime", "init_allocator")

\* init_allocator only prints the memory map.
InitAllocator == Say1("init_allocator", "init_exceptions")

\* init_exceptions: stacks, TSS, GDT and IDT are made and announced; lidt puts
\* the handlers in place.
InitExceptions == Say1("init_exceptions", "lidt")

Lidt ==
  /\ Step("lidt", "init_paging")
  /\ idt' = TRUE
  /\ UNCHANGED <<cpu, uart, screen, startupVars>>

\* init_paging maps up to end_of_mem; the frame buffer may be above that.
InitPaging ==
  /\ Step("init_paging", "init_hpet")
  /\ mapped' \in BOOLEAN
  /\ UNCHANGED <<cpu, uart, locked, writer, idt, startupVars>>

\* The ACPI tables: an HPET with the id of its address space, or an MCFG with
\* the number of its entries.
Table == [sig : {"HPET"}, address_space_id : {0, 1}]
           \union [sig : {"MCFG"}, num_of_entries : 0..2]
           \union [sig : {"other"}]

Xsdt == SE!BoundedSeq(Table, MAX_TABLES)

\* The first one with that signature, or 0.
find_table(xsdt, sig) == SE!SelectInSeq(xsdt, LAMBDA e : e.sig = sig)

\* There must be an HPET, and its registers in memory.
InitHpet ==
  pc = "init_hpet" /\ \E xsdt \in Xsdt :
    LET found == find_table(xsdt, "HPET")
    IN IF found # 0 /\ xsdt[found].address_space_id = 0
       THEN Say1("init_hpet", "hpet new")
       ELSE Step("init_hpet", "panic") /\ Quietly /\ UNCHANGED startupVars

\* Mutant: the field is the number of timers.
num_of_timers_as_read == NUM_TIM_CAP

num_of_timers == NUM_TIM_CAP + 1

\* The firmware has stopped its timers, by the main switch or one by one.
FirmwareTimers == SUBSET (0..NUM_TIM_CAP)

\* Hpet::new divides by the period, which must not be 0, and switches off.
HpetDisable ==
  \/ /\ Step("hpet new", "hpet timers")
     /\ hpetOn' = FALSE /\ timers' \in FirmwareTimers /\ timer' = 0
     /\ Quietly /\ UNCHANGED <<display, serialTask>>
  \/ Step("hpet new", "panic") /\ Quietly /\ UNCHANGED startupVars

\* One timer after the other loses its interrupt.
HpetTimer ==
  /\ timer < num_of_timers
  /\ Step("hpet timers", "hpet timers")
  /\ timers' = timers \ {timer} /\ timer' = timer + 1
  /\ Quietly /\ UNCHANGED <<display, hpetOn, serialTask>>

\* The counter is zeroed and switched on; set_global_hpet.
HpetEnable ==
  /\ timer = num_of_timers
  /\ Step("hpet timers", "init_pci")
  /\ hpetOn' = TRUE
  /\ Quietly /\ UNCHANGED <<display, timers, timer, serialTask>>

\* Pci::new asserts that the MCFG has one entry.  The probe, and the bring-up
\* of a controller, are in Pci.
InitPci ==
  pc = "init_pci" /\ \E xsdt \in Xsdt :
    LET mcfg == find_table(xsdt, "MCFG")
        entries == IF mcfg = 0 THEN 1 ELSE xsdt[mcfg].num_of_entries
    IN /\ Step("init_pci", IF entries = 1 THEN "spawn" ELSE "panic")
       /\ IF mcfg = 0 \/ entries = 0 THEN Quietly ELSE Printing
       /\ UNCHANGED startupVars

\* The tasks are in the queue; start_global_executor.
EnterExecutor == Say1("spawn", "executor")

-----------------------------------------------------------------------------
(* The tasks.  Executor models how they take turns.                        *)

\* A task prints, and gives up the thread.
TaskPrints == Say1("executor", "executor")

\* The first poll of serial_task: loopback_test.
LoopbackOn ==
  /\ serialTask = "new"
  /\ Step("executor", "send T")
  /\ SetLoopback(TRUE)
  /\ UNCHANGED <<cpu, screen, idt, startupVars>>

LoopbackSend ==
  /\ Step("send T", "read T")
  /\ SendT
  /\ UNCHANGED <<cpu, screen, idt, startupVars>>

\* No character, or another: the task prints the error and ends.
LoopbackFails ==
  /\ Step("read T", "executor")
  /\ IF rx = <<>> THEN UNCHANGED <<thr, rx>> ELSE Head(rx) # <<"T", 1>> /\ TryReadSome
  /\ Say("kernel")
  /\ serialTask' = "ended"
  /\ UNCHANGED <<mode, saved, traps, drawTrapped, loopback, screen, idt, display, hpet>>

LoopbackReads ==
  /\ Step("read T", "normal mode")
  /\ rx # <<>> /\ Head(rx) = <<"T", 1>> /\ TryReadSome
  /\ UNCHANGED <<cpu, loopback, line, screen, idt, startupVars>>

LoopbackOff ==
  /\ Step("normal mode", "monitor")
  /\ SetLoopback(FALSE)
  /\ UNCHANGED <<cpu, screen, idt, startupVars>>

StartMonitor ==
  /\ Step("monitor", "executor")
  /\ serialTask' = "monitor"
  /\ Printing /\ UNCHANGED <<display, hpet>>

\* A later poll: what try_read returns is printed.
Monitor ==
  /\ serialTask = "monitor"
  /\ Step("executor", "executor")
  /\ TryReadSome /\ Say("kernel")
  /\ UNCHANGED <<mode, saved, traps, drawTrapped, loopback, screen, idt, startupVars>>

\* A failed expect or assert.
PanicHandler ==
  /\ Running /\ pc = "panic"
  /\ Panic
  /\ UNCHANGED <<vars, traps, drawTrapped, thr, rx, loopback, screen, idt, startupVars>>

-----------------------------------------------------------------------------
Cpu ==
  \/ Booting \/ LocateLoadedImage \/ InitVram \/ UseNull \/ InitDisplay \/ SetGlobalVram \/ AcpiTable
  \/ TakeOver \/ HelloNonUefi \/ InitAllocator \/ InitExceptions \/ Lidt \/ InitPaging
  \/ InitHpet \/ HpetDisable \/ HpetTimer \/ HpetEnable \/ InitPci
  \/ EnterExecutor \/ TaskPrints
  \/ LoopbackOn \/ LoopbackSend \/ LoopbackFails \/ LoopbackReads \/ LoopbackOff
  \/ StartMonitor \/ Monitor \/ PanicHandler
  \/ ConsoleStep /\ UNCHANGED <<vars, startupVars>>

StartupNext ==
  \/ Cpu
  \/ (Trap \/ Transmit \/ KeyPress) /\ UNCHANGED <<vars, startupVars>>
  \/ ChangeMap /\ UNCHANGED <<consoleVars, startupVars>>

\* The processor runs on and the UART sends what it has been given.
StartupSpec ==
  /\ StartupInit /\ [][StartupNext]_allVars
  /\ WF_allVars(Cpu)
  /\ WF_allVars(Transmit /\ UNCHANGED <<vars, startupVars>>)

-----------------------------------------------------------------------------
(* Properties                                                              *)

\* fill_rect checks two corners and then writes without checks, for screens
\* whose scan lines are longer or shorter than their width: no pixel is
\* written outside of the frame buffer the firmware has described, also when
\* init_display panics.
PixelsInBuffer == ~stray

\* The kernel handles no interrupt, any is a panic: when it runs the HPET,
\* none of the timers, whatever the firmware used them for, has its enabled.
TimersQuiet == hpetOn => timers = {}

\* Startup gets to the executor, and the tasks run on, unless the machine
\* stops in a defined way: a panic, from wherever it comes, gets to the exit
\* code.  Two exceptions to that are the code's: an exception before there are
\* handlers, and one in the locked drawing section, after which each panic
\* finds the lock taken and panics again.
KeepsRunning ==
  []<>(\/ Running /\ pc = "executor"
       \/ mode \in {"exited", "dead"}
       \/ drawTrapped)
=============================================================================
