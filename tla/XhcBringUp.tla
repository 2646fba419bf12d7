----------------------------- MODULE XhcBringUp -----------------------------
(***************************************************************************)
(* xhci.rs: from Controller::new to the end of the port reset.  The driver *)
(* stops and resets a controller the firmware may have left running, gives *)
(* it the kernel's own rings and tables, starts it, looks for a connected  *)
(* port and resets that.  Pci composes it with the probe that starts it.   *)
(*                                                                         *)
(* The controller acts meanwhile: it halts and resets in its own time, and *)
(* devices come and go between any two accesses to PORTSC.  A PORTSC       *)
(* register is the set of its bits that are 1.  Bits with "write 1 to      *)
(* clear" are what make a read-modify-write of it dangerous.               *)
(***************************************************************************)
EXTENDS Integers, Sequences

CONSTANTS
  NUM_PORTS,     \* CapabilityRegisters.num_of_ports
  MAX_CHANGES    \* bound on devices coming and going

ASSUME PortsAssumption ==
  /\ NUM_PORTS \in Nat /\ NUM_PORTS >= 1
  /\ MAX_CHANGES \in Nat

Port == 1..NUM_PORTS

\* The bits of PORTSC: connect status; enabled; reset; power; and the changes
\* of connect status and reset.
Change == {"CSC", "PRC"}
Bit == {"CCS", "PED", "PR", "PP"} \union Change

\* What init_primary_event_ring, init_slots_and_contexts and init_command_ring
\* program, in that order.
Program == <<"ERST", "CONFIG", "DCBAAP", "CRCR">>

VARIABLES
  pc,        \* where the driver is
  step,      \* a loop's counter: the register to program, the port to look at,
             \* the bit to check
  port,      \* connected_port, 0 for None
  old,       \* the value assert_bit has read
  regs,      \* register |-> whose structures it points to
  usbcmd,    \* the bits of USBCMD that are 1
  halted,    \* USBSTS.HCHalted
  portsc,    \* port |-> PORTSC
  changes    \* devices that came or went

driver == <<pc, step, port, old>>
vars == <<driver, regs, usbcmd, halted, portsc, changes>>

\* The firmware may have used the controller; each port may have a device, and
\* one that the firmware has used is enabled.
Init ==
  /\ pc = "stop" /\ step = 1 /\ port = 0 /\ old = {}
  /\ halted \in BOOLEAN
  /\ usbcmd = IF halted THEN {} ELSE {"RUN_STOP"}
  /\ regs = [i \in 1..Len(Program) |-> IF halted THEN "zero" ELSE "firmware"]
  /\ portsc \in [Port -> {{}, {"PP"}, {"PP", "CCS", "CSC"}, {"PP", "CCS", "PED", "PRC"}}]
  /\ changes = 0

-----------------------------------------------------------------------------
(* Controller::new                                                         *)

\* reset_xhc: clear_command_bits, and wait for HCHalted.
Stop ==
  /\ pc = "stop"
  /\ usbcmd' = usbcmd \ {"RUN_STOP"}
  /\ pc' = "wait for halt"
  /\ UNCHANGED <<step, port, old, regs, halted, portsc, changes>>

\* Mutant: no wait.
ResetAtOnce ==
  /\ pc = "wait for halt"
  /\ usbcmd' = usbcmd \union {"HC_RESET"}
  /\ pc' = "wait for reset"
  /\ UNCHANGED <<step, port, old, regs, halted, portsc, changes>>

\* ... then set_command_bits, and wait for the bit to clear.
Reset ==
  /\ pc = "wait for halt"
  /\ halted
  /\ usbcmd' = usbcmd \union {"HC_RESET"}
  /\ pc' = "wait for reset"
  /\ UNCHANGED <<step, port, old, regs, halted, portsc, changes>>

\* ScratchpadBuffers::alloc fails if PAGESIZE is not one bit.
AllocScratchpads ==
  /\ pc = "wait for reset"
  /\ "HC_RESET" \notin usbcmd
  /\ pc' \in {"program", "error"}
  /\ step' = 1
  /\ UNCHANGED <<port, old, regs, usbcmd, halted, portsc, changes>>

\* The next register gets the address of what is ours.
ProgramNext ==
  /\ pc = "program"
  /\ regs' = [regs EXCEPT ![step] = "ours"]
  /\ step' = step + 1
  /\ pc' = IF step = Len(Program) THEN "start" ELSE "program"
  /\ UNCHANGED <<port, old, usbcmd, halted, portsc, changes>>

\* start_xhc
Start ==
  /\ pc = "start"
  /\ usbcmd' = usbcmd \union {"RUN_STOP"}
  /\ pc' = "wait for start"
  /\ UNCHANGED <<step, port, old, regs, halted, portsc, changes>>

Started ==
  /\ pc = "wait for start"
  /\ ~halted
  /\ pc' = "scan"
  /\ step' = 1
  /\ UNCHANGED <<port, old, regs, usbcmd, halted, portsc, changes>>

-----------------------------------------------------------------------------
(* Xhci::run and init_port                                                 *)

\* One port of port_range: the last connected one is remembered.
ScanPort ==
  /\ pc = "scan" /\ step \in Port
  /\ port' = IF "CCS" \in portsc[step] THEN step ELSE port
  /\ step' = step + 1
  /\ UNCHANGED <<pc, old, regs, usbcmd, halted, portsc, changes>>

ScanDone ==
  /\ pc = "scan" /\ step \notin Port
  /\ pc' = IF port = 0 THEN "no device" ELSE "read for power"
  /\ UNCHANGED <<step, port, old, regs, usbcmd, halted, portsc, changes>>

\* What assert_bit writes back of what it has read.  CCS is read-only; the bits
\* that a 1 would clear or set are not among them.
PRESERVE_MASK == {"CCS", "PP"}

\* Mutant: everything is written back.
WrittenUnmasked(value, bit) == value \union {bit}

Written(value, bit) == (value \intersect PRESERVE_MASK) \union {bit}

\* A write to PORTSC (external): a 1 clears PED and the change bits, and sets
\* PR, which disables the port; PP takes the value written.
AfterWrite(now, value) ==
  LET cleared == value \intersect ({"PED"} \union Change)
      kept == now \ (cleared \union {"PP"} \union (IF "PR" \in value THEN {"PED"} ELSE {}))
  IN kept \union (value \intersect {"PP", "PR"})

\* assert_bit: the read and the write are two accesses.
ReadPort(from, to) ==
  /\ pc = from
  /\ old' = portsc[port]
  /\ pc' = to
  /\ UNCHANGED <<step, port, regs, usbcmd, halted, portsc, changes>>

WritePort(from, bit, to) ==
  /\ pc = from
  /\ portsc' = [portsc EXCEPT ![port] = AfterWrite(@, Written(old, bit))]
  /\ pc' = to
  /\ UNCHANGED <<step, port, old, regs, usbcmd, halted, changes>>

\* reset_port: power, wait for it, reset, wait for the end of it.
AssertPower == ReadPort("read for power", "write power") \/ WritePort("write power", "PP", "wait for power")

PowerGood ==
  /\ pc = "wait for power"
  /\ "PP" \in portsc[port]
  /\ pc' = "read for reset"
  /\ UNCHANGED <<step, port, old, regs, usbcmd, halted, portsc, changes>>

AssertReset == ReadPort("read for reset", "write reset") \/ WritePort("write reset", "PR", "wait for port")

\* Mutant: waits for the port to be enabled.
PortResetSeenEnabled ==
  /\ pc = "wait for port"
  /\ "PED" \in portsc[port]
  /\ pc' = "is_enabled"
  /\ step' = 1
  /\ UNCHANGED <<port, old, regs, usbcmd, halted, portsc, changes>>

PortResetSeen ==
  /\ pc = "wait for port"
  /\ "PR" \notin portsc[port]
  /\ pc' = "is_enabled"
  /\ step' = 1
  /\ UNCHANGED <<port, old, regs, usbcmd, halted, portsc, changes>>

\* is_enabled: PP, CCS, PED and not PR, a read for each.
Check(i) == CASE i = 1 -> "PP" \in portsc[port]
              [] i = 2 -> "CCS" \in portsc[port]
              [] i = 3 -> "PED" \in portsc[port]
              [] i = 4 -> "PR" \notin portsc[port]
IsEnabled ==
  /\ pc = "is_enabled"
  /\ pc' = IF ~Check(step) THEN "error" ELSE IF step = 4 THEN "enable slot" ELSE "is_enabled"
  /\ step' = step + 1
  /\ UNCHANGED <<port, old, regs, usbcmd, halted, portsc, changes>>

ControllerNew == Stop \/ Reset \/ AllocScratchpads \/ ProgramNext \/ Start \/ Started

Run ==
  \/ ScanPort \/ ScanDone
  \/ AssertPower \/ PowerGood \/ AssertReset \/ PortResetSeen \/ IsEnabled

-----------------------------------------------------------------------------
(* The controller and its ports (external)                                 *)

HwHalt ==
  /\ "RUN_STOP" \notin usbcmd /\ ~halted
  /\ halted' = TRUE
  /\ UNCHANGED <<driver, regs, usbcmd, portsc, changes>>

HwStart ==
  /\ "RUN_STOP" \in usbcmd /\ halted
  /\ halted' = FALSE
  /\ UNCHANGED <<driver, regs, usbcmd, portsc, changes>>

\* A reset puts the registers and the ports back to their defaults.
HwReset ==
  /\ "HC_RESET" \in usbcmd
  /\ usbcmd' = {}
  /\ regs' = [i \in 1..Len(Program) |-> "zero"]
  /\ portsc' = [p \in Port |-> IF "CCS" \in portsc[p] THEN {"PP", "CCS", "CSC"} ELSE {"PP"}]
  /\ UNCHANGED <<driver, halted, changes>>

Connect(p) ==
  /\ changes < MAX_CHANGES /\ "PP" \in portsc[p] /\ "CCS" \notin portsc[p]
  /\ portsc' = [portsc EXCEPT ![p] = @ \union {"CCS", "CSC"}]
  /\ changes' = changes + 1
  /\ UNCHANGED <<driver, regs, usbcmd, halted>>

Disconnect(p) ==
  /\ changes < MAX_CHANGES /\ "CCS" \in portsc[p]
  /\ portsc' = [portsc EXCEPT ![p] = (@ \ {"CCS", "PED"}) \union {"CSC"}]
  /\ changes' = changes + 1
  /\ UNCHANGED <<driver, regs, usbcmd, halted>>

\* The end of a port reset: the port is enabled if a device is there.
PortResetDone(p) ==
  /\ "PR" \in portsc[p]
  /\ portsc' = [portsc EXCEPT ![p] = (@ \ {"PR"}) \union {"PRC"}
                                       \union (IF "CCS" \in @ THEN {"PED"} ELSE {})]
  /\ UNCHANGED <<driver, regs, usbcmd, halted, changes>>

Controller == HwHalt \/ HwStart \/ HwReset \/ \E p \in Port : PortResetDone(p)

\* A device comes or goes.
Plug == \E p \in Port : Connect(p) \/ Disconnect(p)

-----------------------------------------------------------------------------
(* Properties                                                              *)

\* A running controller works on a complete set of structures: the firmware's
\* until it halts, then the kernel's.  It never runs on a half-programmed set,
\* and never on memory that was the firmware's after the kernel has started it.
RunsOnCompleteSet ==
  ~halted => \/ \A i \in 1..Len(Program) : regs[i] = "firmware"
             \/ \A i \in 1..Len(Program) : regs[i] = "ours"

\* assert_bit, whatever happens between its read and its write, acknowledges no
\* change it has not looked at and disables no port: change bits stay until the
\* controller is reset, and a port leaves the enabled state only when its
\* device goes or a reset of it starts.
PortWritesHarmless ==
  [][pc # "wait for reset" =>
       \A p \in Port :
         /\ portsc[p] \intersect Change \subseteq portsc'[p]
         /\ "PED" \in portsc[p] \ portsc'[p] =>
              "CCS" \notin portsc'[p] \/ "PR" \in portsc'[p]]_vars
=============================================================================
