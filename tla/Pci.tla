-------------------------------- MODULE Pci ---------------------------------
(***************************************************************************)
(* pci.rs, and PciXhciDriver::attach of xhci.rs: the probe of all          *)
(* functions, and for an xHC the way from its configuration space to the   *)
(* controller of XhcBringUp.                                               *)
(*                                                                         *)
(* The driver finds out how large BAR 0 is by writing all ones to it, with *)
(* memory decoding on: until the old value is back the function's          *)
(* registers are elsewhere.  An error of attach is printed and the probe   *)
(* goes on; the task of a controller that was attached runs when the probe *)
(* of all functions is over, and its ports have changed meanwhile.         *)
(*                                                                         *)
(* Words of configuration space have log2(WORD) bits, BAR 0 two of them.   *)
(* One function at most, XHC, has a controller that can be brought up.     *)
(***************************************************************************)
EXTENDS XhcBringUp

CONSTANTS
  FUNCTIONS,     \* functions to probe, 2^16 in the code
  XHC,           \* the one whose controller is modelled
  WORD,          \* 2^32 in the code
  PAGE_SIZE,     \* 4096 in the code
  BAR_SIZES      \* sizes BAR 0 may have

ASSUME PciAssumption ==
  /\ FUNCTIONS \in Nat /\ XHC \in 0..(FUNCTIONS - 1)
  /\ WORD \in Nat /\ WORD % 16 = 0 /\ PAGE_SIZE \in Nat /\ PAGE_SIZE % 16 = 0
  /\ BAR_SIZES \subseteq 16..(WORD * WORD)
  /\ \A n \in BAR_SIZES : n % 16 = 0 /\ (WORD * WORD) % n = 0

Function == 0..(FUNCTIONS - 1)

VARIABLES
  phase,      \* where probe_devices is
  bdf,        \* the function it is at
  config,     \* function |-> its configuration space
  bar0,       \* what try_bar0_mem64 has read
  bar,        \* the BarMem64 of XHC
  outcome     \* function |-> what became of it

probe == <<phase, bdf, config, bar0, bar, outcome>>
pciVars == <<probe, vars>>

\* Vendor and device ids; 65535 is what the bus returns for nobody.
NOBODY == 65535

VDI_LIST == {[vendor |-> 6966, device |-> 13],
             [vendor |-> 32902, device |-> 12712],
             [vendor |-> 32902, device |-> 749]}

supports(vd) == vd \in VDI_LIST

\* What a function's configuration space may hold (external): its ids, the
\* command and status registers, and BAR 0, size aligned and with its type in
\* the low bits: 0 for 32 bits, 4 for 64, 12 for 64 and prefetchable.  The
\* firmware has placed the BAR, which placed remembers, and switched memory
\* decoding on.
Space(vd, command, status, size, base, type) ==
  [vd |-> vd, command |-> command, status |-> status, size |-> size,
   bar |-> base + type, placed |-> base + type]

HALF == (WORD * WORD) \div 2

XhcSpaces ==
  {Space([vendor |-> 6966, device |-> 13], command, status, size, base, type) :
     command \in {{"MEMORY"}, {"MEMORY", "BUS_MASTER"}}, status \in SUBSET {"ABORT"},
     size \in BAR_SIZES, base \in BAR_SIZES \union {HALF}, type \in {0, 4, 12}}

OtherSpaces ==
  {Space(vd, {"MEMORY"}, {"ABORT"}, PAGE_SIZE, PAGE_SIZE, 0) :
     vd \in {[vendor |-> NOBODY, device |-> NOBODY],
             [vendor |-> 32902, device |-> 10531],
             [vendor |-> 32902, device |-> 749]}}

\* A BAR is aligned to its size, and one of 32 bits lies within a word.
Spaces(f) ==
  IF f = XHC
  THEN {c \in XhcSpaces : /\ (c.bar - (c.bar % 16)) % c.size = 0
                          /\ c.bar % 8 = 0 => c.bar + c.size <= WORD}
  ELSE OtherSpaces

Unread == [vd |-> "unread"]

PciInit ==
  /\ Init
  /\ phase = "probe" /\ bdf = 0 /\ bar0 = 0 /\ bar = [addr |-> 0, size |-> 0]
  /\ config = [f \in Function |-> Unread]
  /\ outcome = [f \in Function |-> "untried"]

-----------------------------------------------------------------------------
(* probe_devices                                                           *)

\* On to the next function.
Finish(result) ==
  /\ outcome' = [outcome EXCEPT ![bdf] = result]
  /\ bdf' = bdf + 1
  /\ phase' = "probe"

\* What the function holds is settled when its ids are read.
ReadIds ==
  /\ phase = "probe" /\ bdf \in Function
  /\ \E c \in Spaces(bdf) :
       /\ config' = [config EXCEPT ![bdf] = c]
       /\ IF c.vd.vendor # NOBODY /\ c.vd.device # NOBODY /\ supports(c.vd)
          THEN phase' = "disable_interrupt" /\ UNCHANGED <<bdf, outcome>>
          ELSE Finish("no driver")
  /\ UNCHANGED <<bar0, bar, vars>>

\* attach has returned an error, which is printed.
AttachFailed ==
  /\ phase = "error"
  /\ Finish("failed")
  /\ UNCHANGED <<config, bar0, bar, vars>>

\* efi_main goes on to the executor.
ProbeDone ==
  /\ phase = "probe" /\ bdf \notin Function
  /\ phase' = "executor"
  /\ UNCHANGED <<bdf, config, bar0, bar, outcome, vars>>

-----------------------------------------------------------------------------
(* attach                                                                  *)

\* set_command_and_status_flags: the status half is written back as read,
\* and a 1 clears.
SetFlags(from, flag, to) ==
  /\ phase = from
  /\ config' = [config EXCEPT ![bdf].command = @ \union {flag}, ![bdf].status = {}]
  /\ phase' = to
  /\ UNCHANGED <<bdf, bar0, bar, outcome, vars>>

DisableInterrupt == SetFlags("disable_interrupt", "INTX_DISABLE", "enable_bus_master")
EnableBusMaster == SetFlags("enable_bus_master", "BUS_MASTER", "bar0")

\* value & !0b1111, and !value for a value of two words.
Masked(value) == value - (value % 16)
Not(value) == WORD * WORD - 1 - value

\* A write to BAR 0 (external): bits below its size are not there.
Latched(c, value) == (value - (value % c.size)) + (c.bar % 16)

WriteBar(value) == config' = [config EXCEPT ![bdf].bar = Latched(config[bdf], value)]

\* try_bar0_mem64: only the width is looked at, as value & 0b0111.
ReadBar ==
  /\ phase = "bar0"
  /\ bar0' = config[bdf].bar
  /\ phase' = IF config[bdf].bar % 8 = 4 THEN "write ones" ELSE "error"
  /\ UNCHANGED <<bdf, config, bar, outcome, vars>>

\* Two words are written; nobody uses the registers in between.
WriteOnes ==
  /\ phase = "write ones"
  /\ WriteBar(WORD * WORD - 1)
  /\ phase' = "read size"
  /\ UNCHANGED <<bdf, bar0, bar, outcome, vars>>

\* Mutant: only the low word counts.
SizeFromLowWord(value) == 1 + (WORD - 1 - (Masked(value) % WORD))

Size(value) == 1 + Not(Masked(value))

ReadSize ==
  /\ phase = "read size"
  /\ bar' = [addr |-> Masked(bar0), size |-> Size(config[bdf].bar)]
  /\ phase' = "restore"
  /\ UNCHANGED <<bdf, config, bar0, outcome, vars>>

Restore ==
  /\ phase = "restore"
  /\ WriteBar(bar0)
  /\ phase' = "disable_cache"
  /\ UNCHANGED <<bdf, bar0, bar, outcome, vars>>

\* BarMem64::disable_cache: create_mapping takes whole pages, or the kernel
\* panics.
DisableCache ==
  /\ phase = "disable_cache"
  /\ phase' = IF bar.addr % PAGE_SIZE = 0 THEN "new" ELSE "panic"
  /\ UNCHANGED <<bdf, config, bar0, bar, outcome, vars>>

\* Controller::new runs to its end, and the controller's task is spawned.
New ==
  /\ phase = "new" /\ ControllerNew
  /\ phase' = CASE pc' = "error" -> "error" [] pc' = "scan" -> "spawn" [] OTHER -> "new"
  /\ UNCHANGED <<bdf, config, bar0, bar, outcome>>

Attached ==
  /\ phase = "spawn"
  /\ Finish("spawned")
  /\ UNCHANGED <<config, bar0, bar, vars>>

\* The task runs once the executor does.
RunTask == phase = "executor" /\ outcome[XHC] = "spawned" /\ Run /\ UNCHANGED probe

PciDriver ==
  \/ ReadIds \/ AttachFailed \/ ProbeDone
  \/ DisableInterrupt \/ EnableBusMaster
  \/ ReadBar \/ WriteOnes \/ ReadSize \/ Restore \/ DisableCache
  \/ New \/ Attached \/ RunTask

PciNext == PciDriver \/ ((Controller \/ Plug) /\ UNCHANGED probe)

\* The kernel's one thread runs on; the controller halts, starts and resets in
\* bounded time, as the xHCI specification has it.
PciSpec ==
  /\ PciInit /\ [][PciNext]_pciVars
  /\ WF_pciVars(PciDriver)
  /\ WF_pciVars(Controller /\ UNCHANGED probe)

-----------------------------------------------------------------------------
(* Properties                                                              *)

\* From Controller::new on driver and controller reach each other: BAR 0 is
\* back where the firmware had put it, what is mapped is what the function
\* decodes, to the last byte, and read-modify-writes of the command register
\* have left decoding on, and bus mastering, and interrupts off.
RegistersReachable ==
  phase = "new" \/ outcome[XHC] = "spawned" =>
    LET c == config[XHC]
    IN /\ {"MEMORY", "BUS_MASTER", "INTX_DISABLE"} \subseteq c.command
       /\ bar = [addr |-> Masked(c.bar), size |-> c.size]
       /\ c.bar = c.placed

\* The probe gets through all functions, whatever fails before: an xHC is
\* reported, or its task gets to the first command, to the end for want of a
\* device, or to an error of the port.  None of the waits lasts for ever, even
\* if the device is pulled meanwhile.
BringUpEnds ==
  <>(\/ phase = "panic"
     \/ /\ phase = "executor"
        /\ \A f \in Function : outcome[f] # "untried"
        /\ outcome[XHC] = "spawned" => pc \in {"enable slot", "no device", "error"})
=============================================================================
