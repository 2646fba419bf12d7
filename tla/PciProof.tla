------------------------------ MODULE PciProof ------------------------------
(***************************************************************************)
(* The probe of PCI functions and the bring-up of an xHC, for any number   *)
(* of functions and ports, any sizes of words, pages and BARs, and any     *)
(* comings and goings of devices.                                          *)
(***************************************************************************)
EXTENDS Pci, TLAPS

-----------------------------------------------------------------------------
(* The inductive invariant of the bring-up                                 *)

Stopped == halted /\ "RUN_STOP" \notin usbcmd
Registers == 1..Len(Program)
AllOurs == \A i \in Registers : regs[i] = "ours"
AllFirmware == \A i \in Registers : regs[i] = "firmware"

\* Where the driver has not yet programmed all registers.
Before == {"stop", "wait for halt", "wait for reset", "program", "error"}

\* The controller is stopped from the moment the driver has seen it halt until
\* all registers are programmed; a reset is pending only while the driver waits
\* for its end; registers are programmed in order.
BringUpInv ==
  /\ step \in Nat /\ halted \in BOOLEAN
  /\ DOMAIN portsc = Port /\ DOMAIN regs = Registers
  /\ "HC_RESET" \in usbcmd => pc = "wait for reset"
  /\ pc = "stop" => Stopped \/ AllFirmware
  /\ pc = "wait for halt" => "RUN_STOP" \notin usbcmd /\ (halted \/ AllFirmware)
  /\ pc \in {"wait for reset", "program", "start"} => Stopped
  /\ pc = "program" => step \in Registers /\ \A i \in Registers : i < step => regs[i] = "ours"
  /\ pc = "error" => Stopped \/ AllOurs
  /\ pc \notin Before => AllOurs

-----------------------------------------------------------------------------
(* The inductive invariant of the probe                                    *)

Commands == SUBSET {"MEMORY", "BUS_MASTER", "INTX_DISABLE"}

SpaceType ==
  [vd : [vendor : Nat, device : Nat], command : Commands, status : SUBSET {"ABORT"},
   size : Nat, bar : Nat, placed : Nat]

\* A BAR that the firmware has aligned to its size, with its type below.
Aligned(c) ==
  /\ c.size > 0 /\ c.size % 16 = 0 /\ c.size <= WORD * WORD /\ (WORD * WORD) % c.size = 0
  /\ Masked(c.placed) % c.size = 0

\* attach works on function bdf; it knows BAR 0; it knows its size.
Attaching == {"disable_interrupt", "enable_bus_master", "bar0", "write ones", "read size",
              "restore", "disable_cache", "new", "spawn"}
Located == {"write ones", "read size", "restore", "disable_cache", "new", "spawn"}
Sized == {"restore", "disable_cache", "new", "spawn"}

\* What RegistersReachable says of the xHC's configuration space.
Reachable(c) ==
  /\ {"MEMORY", "BUS_MASTER", "INTX_DISABLE"} \subseteq c.command
  /\ bar = [addr |-> Masked(c.bar), size |-> c.size]
  /\ c.bar = c.placed

\* The functions are tried in order, and the xHC's registers stay reachable
\* when the probe has left it.
OrderInv ==
  /\ bdf \in Nat
  /\ DOMAIN config = Function /\ DOMAIN outcome = Function
  /\ \A f \in Function : f >= bdf => outcome[f] = "untried"
  /\ outcome[XHC] = "spawned" => Reachable(config[XHC])

\* What attach has established of configuration space c when it is at phase.
AttachedSoFar(c) ==
  /\ c \in SpaceType
  /\ "MEMORY" \in c.command
  /\ phase # "disable_interrupt" => "INTX_DISABLE" \in c.command
  /\ phase \notin {"disable_interrupt", "enable_bus_master"} => "BUS_MASTER" \in c.command
  /\ bdf # XHC => c.bar % 8 = 0
  /\ bdf = XHC => Aligned(c)
  /\ bdf = XHC /\ phase \notin {"read size", "restore"} => c.bar = c.placed
  /\ phase \in {"read size", "restore"} => c.bar = (WORD * WORD - c.size) + (c.placed % 16)
  /\ phase \in Located => bar0 = c.placed
  /\ phase \in Sized => bar = [addr |-> Masked(c.placed), size |-> c.size]

AttachInv ==
  /\ phase \in Attaching \union {"error"} => bdf \in Function
  /\ phase \in Located => bdf = XHC
  /\ phase \in Attaching => AttachedSoFar(config[bdf])

ProbeInv == OrderInv /\ AttachInv

-----------------------------------------------------------------------------
(* The bring-up                                                            *)

LEMMA FourRegisters == Len(Program) = 4 /\ Registers = 1..4
BY DEF Program, Registers

LEMMA BringUpInit == Init => BringUpInv
BY FourRegisters DEF Init, BringUpInv, Stopped, AllFirmware, Before

\* Controller::new: the registers are written one by one while the controller
\* is stopped, and it is started when the last one is.
LEMMA NewKeepsBringUp == BringUpInv /\ ControllerNew => BringUpInv'
<1> SUFFICES ASSUME BringUpInv, ControllerNew PROVE BringUpInv'
  OBVIOUS
<1> USE FourRegisters DEF BringUpInv, Stopped, AllOurs, AllFirmware, Before
<1>1. CASE Stop
  BY <1>1 DEF Stop
<1>2. CASE Reset
  BY <1>2 DEF Reset
<1>3. CASE AllocScratchpads
  <2>1. /\ pc = "wait for reset" /\ "HC_RESET" \notin usbcmd /\ pc' \in {"program", "error"}
        /\ step' = 1 /\ regs' = regs /\ usbcmd' = usbcmd /\ halted' = halted /\ portsc' = portsc
    BY <1>3 DEF AllocScratchpads
  <2>2. Stopped /\ Stopped'
    BY <2>1
  <2>3. /\ step' \in Nat /\ halted' \in BOOLEAN /\ "HC_RESET" \notin usbcmd'
        /\ DOMAIN portsc' = Port /\ DOMAIN regs' = Registers
    BY <2>1
  <2>4. step' \in Registers /\ \A i \in Registers : i < step' => regs'[i] = "ours"
    <3> HIDE DEF BringUpInv, Stopped, AllOurs, AllFirmware
    <3>1. step' = 1
      BY <2>1
    <3>2. QED
      BY <3>1
  <2> HIDE DEF Stopped, AllOurs, AllFirmware, BringUpInv
  <2>5. QED
    BY <2>1, <2>2, <2>3, <2>4 DEF BringUpInv
<1>4. CASE ProgramNext
  <2>1. step \in 1..4 /\ step' = step + 1 /\ pc = "program"
    BY <1>4 DEF ProgramNext
  <2>2. \A i \in Registers : i < step + 1 => regs'[i] = "ours"
    BY <1>4, <2>1 DEF ProgramNext
  <2>3. pc' = IF step = 4 THEN "start" ELSE "program"
    BY <1>4 DEF ProgramNext
  <2>4. /\ DOMAIN regs' = DOMAIN regs
        /\ usbcmd' = usbcmd /\ halted' = halted /\ portsc' = portsc
    BY <1>4 DEF ProgramNext
  <2>5. Stopped' /\ "HC_RESET" \notin usbcmd'
    BY <2>1, <2>4
  <2>6. step = 4 => AllOurs'
    <3> HIDE DEF BringUpInv
    <3>1. QED
      BY <2>2
  <2> HIDE DEF Stopped, AllOurs, AllFirmware
  <2>7. QED
    BY <2>1, <2>2, <2>3, <2>4, <2>5, <2>6
<1>5. CASE Start
  BY <1>5 DEF Start
<1>6. CASE Started
  BY <1>6 DEF Started
<1>7. QED
  BY <1>1, <1>2, <1>3, <1>4, <1>5, <1>6 DEF ControllerNew

\* From the scan of the ports on the driver leaves USBCMD and the registers
\* of its structures alone.
LEMMA RunKeepsBringUp == BringUpInv /\ Run => BringUpInv'
<1> SUFFICES ASSUME BringUpInv, Run PROVE BringUpInv'
  OBVIOUS
<1>1. pc \notin Before /\ (pc' \notin Before \union {"start"} \/ pc' = "error")
  BY DEF Run, ScanPort, ScanDone, AssertPower, AssertReset, ReadPort, WritePort, PowerGood,
         PortResetSeen, IsEnabled, Before
<1>2. regs' = regs /\ usbcmd' = usbcmd /\ halted' = halted
  BY DEF Run, ScanPort, ScanDone, AssertPower, AssertReset, ReadPort, WritePort, PowerGood,
         PortResetSeen, IsEnabled
<1>3. step' \in {step, step + 1, 1} /\ DOMAIN portsc' = DOMAIN portsc
  BY DEF Run, ScanPort, ScanDone, AssertPower, AssertReset, ReadPort, WritePort, PowerGood,
         PortResetSeen, IsEnabled
<1>4. step' \in Nat
  <2>1. step \in Nat
    BY DEF BringUpInv
  <2>2. QED
    BY <1>3, <2>1
<1>5. AllOurs' /\ AllOurs
  BY <1>1, <1>2 DEF BringUpInv, AllOurs
<1>6. QED
  BY <1>1, <1>2, <1>3, <1>4, <1>5 DEF BringUpInv, Before

\* The controller halts, starts and resets when it is told to.
LEMMA HardwareKeepsBringUp == BringUpInv /\ (Controller \/ Plug) => BringUpInv'
<1> SUFFICES ASSUME BringUpInv, Controller \/ Plug PROVE BringUpInv'
  OBVIOUS
<1> USE FourRegisters DEF BringUpInv, Stopped, AllOurs, AllFirmware, Before, driver
<1>1. CASE HwHalt
  BY <1>1 DEF HwHalt
<1>2. CASE HwStart
  BY <1>2 DEF HwStart
<1>3. CASE HwReset
  BY <1>3 DEF HwReset
<1>4. ASSUME NEW p \in Port, PortResetDone(p) PROVE BringUpInv'
  BY <1>4 DEF PortResetDone
<1>5. ASSUME NEW p \in Port, Connect(p) \/ Disconnect(p) PROVE BringUpInv'
  BY <1>5 DEF Connect, Disconnect
<1>6. QED
  BY <1>1, <1>2, <1>3, <1>4, <1>5 DEF Controller, Plug

\* Every step of the probe that is not one of Controller::new or of the task
\* leaves the controller alone.
LEMMA ProbeLeavesController ==
  [PciNext]_pciVars => ControllerNew \/ Run \/ Controller \/ Plug \/ UNCHANGED vars
BY DEF PciNext, PciDriver, pciVars, ReadIds, AttachFailed, ProbeDone, DisableInterrupt,
       EnableBusMaster, SetFlags, ReadBar, WriteOnes, ReadSize, Restore, DisableCache, New,
       Attached, RunTask

LEMMA BringUpStep == BringUpInv /\ [PciNext]_pciVars => BringUpInv'
<1>1. BringUpInv /\ UNCHANGED vars => BringUpInv'
  <2> SUFFICES ASSUME BringUpInv, UNCHANGED vars PROVE BringUpInv'
    OBVIOUS
  <2>1. /\ pc' = pc /\ step' = step /\ regs' = regs /\ usbcmd' = usbcmd
        /\ halted' = halted /\ portsc' = portsc
    BY DEF vars, driver
  <2>2. AllOurs' = AllOurs /\ AllFirmware' = AllFirmware /\ Stopped' = Stopped
    BY <2>1 DEF AllOurs, AllFirmware, Stopped
  <2>3. QED
    BY <2>1, <2>2, Zenon DEF BringUpInv
<1>2. QED
  BY <1>1, NewKeepsBringUp, RunKeepsBringUp, HardwareKeepsBringUp, ProbeLeavesController

THEOREM BringUpSafety == PciSpec => []BringUpInv
<1>1. PciInit => BringUpInv
  BY BringUpInit DEF PciInit
<1>2. QED
  BY <1>1, BringUpStep, PTL DEF PciSpec

(***************************************************************************)
(* The controller never runs on a half-programmed set of structures, nor   *)
(* on the firmware's once the kernel has started it, for any number of     *)
(* ports and whatever the firmware has left.                               *)
(***************************************************************************)
THEOREM RunsOnOneSet == PciSpec => []RunsOnCompleteSet
<1>1. BringUpInv => RunsOnCompleteSet
  BY DEF BringUpInv, RunsOnCompleteSet, AllOurs, AllFirmware, Stopped, Before, Registers
<1>2. QED
  BY <1>1, BringUpSafety, PTL

-----------------------------------------------------------------------------
(* Writes to PORTSC                                                        *)

\* A port keeps its change bits, and stays enabled unless its device has gone
\* or a reset of it has started.
Spared(now, next) ==
  /\ now \intersect Change \subseteq next
  /\ "PED" \in now \ next => "CCS" \notin next \/ "PR" \in next

(***************************************************************************)
(* assert_bit writes back two bits of what it has read, neither of which   *)
(* clears anything: whatever the port has become since, it is spared.      *)
(***************************************************************************)
LEMMA WriteSpares ==
  ASSUME NEW now, NEW value, NEW bit \in {"PP", "PR"}
  PROVE  Spared(now, AfterWrite(now, Written(value, bit)))
<1> DEFINE w == Written(value, bit)
<1>1. w \intersect ({"PED"} \union Change) = {} /\ w \subseteq {"CCS", "PP", "PR"}
  BY DEF Written, PRESERVE_MASK, Change
<1> HIDE DEF w
<1>2. AfterWrite(now, w) =
        (now \ ({"PP"} \union (IF "PR" \in w THEN {"PED"} ELSE {}))) \union (w \intersect {"PP", "PR"})
  BY <1>1 DEF AfterWrite
<1>3. now \intersect Change \subseteq AfterWrite(now, w)
  BY <1>2 DEF Change
<1>4. "PED" \in now \ AfterWrite(now, w) => "PR" \in AfterWrite(now, w)
  BY <1>2
<1>5. QED
  BY <1>3, <1>4 DEF Spared, w

LEMMA RunSpares ==
  ASSUME BringUpInv, Run, NEW p \in Port
  PROVE  Spared(portsc[p], portsc'[p])
<1>1. CASE portsc' = portsc
  BY <1>1 DEF Spared
<1>2. ASSUME NEW from, NEW to, NEW bit \in {"PP", "PR"}, WritePort(from, bit, to)
      PROVE  Spared(portsc[p], portsc'[p])
  <2>1. portsc' = [portsc EXCEPT ![port] = AfterWrite(portsc[port], Written(old, bit))]
    BY <1>2 DEF WritePort
  <2>2. DOMAIN portsc = Port
    BY DEF BringUpInv
  <2>3. CASE p = port
    <3>1. portsc'[p] = AfterWrite(portsc[p], Written(old, bit))
      BY <2>1, <2>2, <2>3
    <3>2. QED
      BY <3>1, WriteSpares
  <2>4. CASE p # port
    <3>1. portsc'[p] = portsc[p]
      BY <2>1, <2>2, <2>4
    <3>2. QED
      BY <3>1 DEF Spared
  <2>5. QED
    BY <2>3, <2>4
<1>3. CASE AssertPower
  <2>1. portsc' = portsc \/ WritePort("write power", "PP", "wait for power")
    BY <1>3 DEF AssertPower, ReadPort
  <2>2. QED
    BY <1>1, <1>2, <2>1
<1>4. CASE AssertReset
  <2>1. portsc' = portsc \/ WritePort("write reset", "PR", "wait for port")
    BY <1>4 DEF AssertReset, ReadPort
  <2>2. QED
    BY <1>1, <1>2, <2>1
<1>5. CASE ScanPort \/ ScanDone \/ PowerGood \/ PortResetSeen \/ IsEnabled
  BY <1>1, <1>5 DEF ScanPort, ScanDone, PowerGood, PortResetSeen, IsEnabled
<1>6. QED
  BY <1>3, <1>4, <1>5 DEF Run

\* A reset of the controller clears change bits, but only while the driver
\* waits for it.
LEMMA HardwareSpares ==
  ASSUME BringUpInv, Controller \/ Plug, pc # "wait for reset", NEW p \in Port
  PROVE  Spared(portsc[p], portsc'[p])
<1>1. DOMAIN portsc = Port
  BY DEF BringUpInv
<1>2. CASE HwHalt \/ HwStart
  BY <1>2 DEF HwHalt, HwStart, Spared
<1>3. ~HwReset
  BY DEF HwReset, BringUpInv
<1>4. ASSUME NEW q \in Port, PortResetDone(q) PROVE Spared(portsc[p], portsc'[p])
  BY <1>1, <1>4 DEF PortResetDone, Spared, Change
<1>5. ASSUME NEW q \in Port, Connect(q) PROVE Spared(portsc[p], portsc'[p])
  BY <1>1, <1>5 DEF Connect, Spared
<1>6. ASSUME NEW q \in Port, Disconnect(q) PROVE Spared(portsc[p], portsc'[p])
  <2>1. portsc'[p] \in {portsc[p], (portsc[p] \ {"CCS", "PED"}) \union {"CSC"}}
    BY <1>1, <1>6 DEF Disconnect
  <2>2. QED
    BY <2>1 DEF Spared, Change
<1>7. QED
  BY <1>2, <1>3, <1>4, <1>5, <1>6 DEF Controller, Plug

(***************************************************************************)
(* The two accesses of assert_bit, with devices coming and going between   *)
(* them, acknowledge no change and disable no port, on any number of ports.*)
(***************************************************************************)
THEOREM PortWritesSpare == PciSpec => PortWritesHarmless
<1>1. ASSUME BringUpInv, [PciNext]_pciVars, pc # "wait for reset", NEW p \in Port
      PROVE  Spared(portsc[p], portsc'[p])
  <2>1. CASE ControllerNew
    <3>1. portsc' = portsc
      BY <2>1 DEF ControllerNew, Stop, Reset, AllocScratchpads, ProgramNext, Start, Started
    <3>2. QED
      BY <3>1 DEF Spared
  <2>2. CASE UNCHANGED vars
    BY <2>2 DEF vars, Spared
  <2>3. QED
    BY <1>1, <2>1, <2>2, RunSpares, HardwareSpares, ProbeLeavesController
<1>2. BringUpInv /\ [PciNext]_pciVars =>
        [pc # "wait for reset" =>
           \A p \in Port :
             /\ portsc[p] \intersect Change \subseteq portsc'[p]
             /\ "PED" \in portsc[p] \ portsc'[p] =>
                  "CCS" \notin portsc'[p] \/ "PR" \in portsc'[p]]_vars
  BY <1>1 DEF Spared
<1>3. QED
  BY <1>2, BringUpSafety, PTL DEF PciSpec, PortWritesHarmless

-----------------------------------------------------------------------------
(* The size of BAR 0                                                       *)

\* The remainder of a division, by what defines it.
LEMMA Remainder ==
  ASSUME NEW d \in Nat, d > 0, NEW q \in Nat, NEW r \in 0..(d - 1)
  PROVE  (d * q + r) % d = r
<1> DEFINE x == d * q + r
           k == x \div d
           m == x % d
<1>1. d * q \in Nat
  OBVIOUS
<1>2. x \in Nat
  BY <1>1
<1>3. k \in Nat /\ m \in 0..(d - 1) /\ x = d * k + m
  BY <1>2
<1> HIDE DEF k, m
<1>4. k = q
  <2>1. ASSUME k >= q + 1 PROVE FALSE
    <3>1. d * k = d * q + d + d * (k - (q + 1)) /\ d * (k - (q + 1)) \in Nat
      BY <1>3, <2>1
    <3>2. QED
      BY <1>1, <1>3, <3>1
  <2>2. ASSUME q >= k + 1 PROVE FALSE
    <3>1. d * q = d * k + d + d * (q - (k + 1)) /\ d * (q - (k + 1)) \in Nat
      BY <1>3, <2>2
    <3>2. d * k \in Nat
      BY <1>3
    <3>3. QED
      BY <1>3, <3>1, <3>2
  <2>3. QED
    BY <1>3, <2>1, <2>2
<1>5. m = r
  BY <1>1, <1>3, <1>4
<1>6. QED
  BY <1>5 DEF m

LEMMA WordFacts ==
  /\ WORD \in Nat /\ WORD * WORD \in Nat /\ (WORD * WORD) % 16 = 0
  /\ HALF \in Nat /\ HALF % 16 = 0
<1> DEFINE k == WORD \div 16
<1>1. WORD \in Nat /\ k \in Nat /\ WORD = 16 * k
  BY PciAssumption
<1> HIDE DEF k
<1> DEFINE j == k * k
<1>2. j \in Nat
  BY <1>1
<1>3. WORD * WORD = 256 * j
  BY <1>1
<1> HIDE DEF j
<1>4. WORD * WORD \in Nat /\ (WORD * WORD) % 16 = 0
  BY <1>2, <1>3
<1>5. HALF \in Nat /\ HALF % 16 = 0
  BY <1>2, <1>3 DEF HALF
<1>6. QED
  BY <1>1, <1>4, <1>5

\* All ones, as a BAR of size n keeps them: n divides 2^64.
LEMMA OnesLatched ==
  ASSUME NEW n \in Nat, n > 0, NEW w \in Nat, n <= w, w % n = 0
  PROVE  (w - 1) - ((w - 1) % n) = w - n
<1> DEFINE q == w \div n
<1>1. q \in Nat /\ w = n * q
  <2>1. q \in Nat /\ w = n * q + (w % n)
    OBVIOUS
  <2> HIDE DEF q
  <2>2. n * q \in Nat
    BY <2>1
  <2>3. QED
    BY <2>1, <2>2
<1> HIDE DEF q
<1>2. q # 0
  BY <1>1
<1>3. q - 1 \in Nat /\ w - 1 = n * (q - 1) + (n - 1)
  BY <1>1, <1>2
<1>4. (w - 1) % n = n - 1
  <2> DEFINE p == q - 1
             r == n - 1
  <2>1. p \in Nat /\ r \in 0..(n - 1)
    BY <1>3
  <2> HIDE DEF p, r
  <2>2. (n * p + r) % n = r
    BY <2>1, Remainder
  <2>3. QED
    BY <1>3, <2>2 DEF p, r
<1>5. QED
  BY <1>4

\* An address that is aligned to n, with type bits below 16.
LEMMA OldValueLatched ==
  ASSUME NEW n \in Nat, n >= 16, NEW v \in Nat, Masked(v) % n = 0
  PROVE  v - (v % n) = Masked(v) /\ v = Masked(v) + (v % 16) /\ Masked(v) \in Nat
<1> DEFINE a == Masked(v)
           q == a \div n
           t == v % 16
<1>1. a \in Nat /\ v = a + t /\ t \in 0..15
  BY DEF Masked
<1>2. a % n = 0
  OBVIOUS
<1> HIDE DEF a, t
<1>3. q \in Nat /\ a = n * q
  <2>1. q \in Nat /\ a = n * q + (a % n)
    BY <1>1
  <2> HIDE DEF q
  <2>2. n * q \in Nat
    BY <2>1
  <2>3. QED
    BY <1>2, <2>1, <2>2
<1> HIDE DEF q
<1>4. (n * q + t) % n = t
  BY <1>1, <1>3, Remainder
<1>5. v % n = t
  BY <1>1, <1>3, <1>4
<1>6. v - (v % n) = a
  BY <1>1, <1>5
<1>7. QED
  BY <1>1, <1>6 DEF a, t

(***************************************************************************)
(* What try_bar0_mem64 makes of all ones is the size of the BAR, and what  *)
(* it writes back restores it.                                             *)
(***************************************************************************)
LEMMA SizingIsExact ==
  ASSUME NEW c \in SpaceType, Aligned(c)
  PROVE  /\ c.bar % 16 = c.placed % 16 =>
              /\ Latched(c, WORD * WORD - 1) = (WORD * WORD - c.size) + (c.placed % 16)
              /\ Latched(c, c.placed) = c.placed
         /\ ((WORD * WORD - c.size) + (c.placed % 16)) \in Nat
         /\ ((WORD * WORD - c.size) + (c.placed % 16)) % 16 = c.placed % 16
         /\ Size((WORD * WORD - c.size) + (c.placed % 16)) = c.size
<1> DEFINE w == WORD * WORD
           n == c.size
           t == c.placed % 16
<1>1. w \in Nat /\ w % 16 = 0
  BY WordFacts
<1>2. n \in Nat /\ n >= 16 /\ n % 16 = 0 /\ n <= w /\ w % n = 0
  <2>1. c.size \in Nat /\ c.size > 0 /\ c.size % 16 = 0 /\ c.size <= w /\ w % c.size = 0
    BY DEF SpaceType, Aligned
  <2> HIDE DEF w
  <2>2. QED
    BY <2>1
<1>3. c.placed \in Nat /\ c.bar \in Nat /\ t \in 0..15 /\ Masked(c.placed) % n = 0
  BY DEF SpaceType, Aligned
<1> HIDE DEF w, n, t
<1>4. (w - 1) - ((w - 1) % n) = w - n
  BY <1>1, <1>2, OnesLatched
<1>5. /\ c.placed - (c.placed % n) = Masked(c.placed)
      /\ c.placed = Masked(c.placed) + t
  BY <1>2, <1>3, OldValueLatched DEF t
<1>6. Latched(c, w - 1) = (w - n) + (c.bar % 16) /\ Latched(c, c.placed) = Masked(c.placed) + (c.bar % 16)
  BY <1>4, <1>5 DEF Latched, n
<1>7. (w - n) + t \in Nat /\ ((w - n) + t) % 16 = t
  BY <1>1, <1>2, <1>3
<1>8. Masked((w - n) + t) = w - n
  BY <1>1, <1>2, <1>3, <1>7 DEF Masked
<1>9. Size((w - n) + t) = n
  <2>1. Size((w - n) + t) = 1 + (w - 1 - (w - n))
    BY <1>8 DEF Size, Not, w
  <2>2. QED
    BY <1>1, <1>2, <2>1
<1>10. QED
  BY <1>5, <1>6, <1>7, <1>9 DEF w, n, t

-----------------------------------------------------------------------------
(* The probe                                                               *)

LEMMA XhcIsFunction == XHC \in Function /\ Function \subseteq Nat
BY PciAssumption DEF Function

\* What the firmware leaves in configuration space.
LEMMA SpacesPlaced ==
  ASSUME NEW f \in Function, NEW c \in Spaces(f)
  PROVE  /\ c \in SpaceType /\ "MEMORY" \in c.command /\ c.bar = c.placed
         /\ f # XHC => c.bar % 8 = 0
         /\ f = XHC => Aligned(c)
<1>1. CASE f # XHC
  <2>1. PICK vd \in {[vendor |-> NOBODY, device |-> NOBODY],
                    [vendor |-> 32902, device |-> 10531],
                    [vendor |-> 32902, device |-> 749]} :
           c = Space(vd, {"MEMORY"}, {"ABORT"}, PAGE_SIZE, PAGE_SIZE, 0)
    BY <1>1 DEF Spaces, OtherSpaces
  <2>2. vd \in [vendor : Nat, device : Nat]
    BY DEF NOBODY
  <2>3. PAGE_SIZE \in Nat /\ PAGE_SIZE % 16 = 0
    BY PciAssumption
  <2>4. c = [vd |-> vd, command |-> {"MEMORY"}, status |-> {"ABORT"}, size |-> PAGE_SIZE,
             bar |-> PAGE_SIZE + 0, placed |-> PAGE_SIZE + 0]
    BY <2>1 DEF Space
  <2>5. PAGE_SIZE + 0 \in Nat /\ (PAGE_SIZE + 0) % 8 = 0
    <3> DEFINE k == PAGE_SIZE \div 16
    <3>1. k \in Nat /\ PAGE_SIZE = 16 * k
      BY <2>3
    <3> HIDE DEF k
    <3>2. QED
      BY <3>1
  <2> DEFINE b == PAGE_SIZE + 0
  <2>6. c = [vd |-> vd, command |-> {"MEMORY"}, status |-> {"ABORT"}, size |-> PAGE_SIZE,
             bar |-> b, placed |-> b]
    BY <2>4
  <2>7. b \in Nat /\ b % 8 = 0
    BY <2>5
  <2> HIDE DEF b
  <2>8. c \in SpaceType /\ "MEMORY" \in c.command /\ c.bar = b /\ c.placed = b
    BY <2>2, <2>3, <2>6, <2>7 DEF SpaceType, Commands
  <2>9. QED
    BY <1>1, <2>7, <2>8
<1>2. CASE f = XHC
  <2>1. c \in XhcSpaces /\ (c.bar - (c.bar % 16)) % c.size = 0
    BY <1>2 DEF Spaces
  <2>2. PICK command \in {{"MEMORY"}, {"MEMORY", "BUS_MASTER"}}, status \in SUBSET {"ABORT"},
             size \in BAR_SIZES, base \in BAR_SIZES \union {HALF}, type \in {0, 4, 12} :
           c = Space([vendor |-> 6966, device |-> 13], command, status, size, base, type)
    BY <2>1 DEF XhcSpaces
  <2>3. /\ size \in Nat /\ size >= 16 /\ size <= WORD * WORD
        /\ size % 16 = 0 /\ (WORD * WORD) % size = 0
    BY WordFacts, PciAssumption
  <2>4. base + type \in Nat
    BY WordFacts, PciAssumption
  <2>5. c = [vd |-> [vendor |-> 6966, device |-> 13], command |-> command, status |-> status,
             size |-> size, bar |-> base + type, placed |-> base + type]
    BY <2>2 DEF Space
  <2>6. command \in Commands /\ "MEMORY" \in command
    BY DEF Commands
  <2>7. c \in SpaceType /\ "MEMORY" \in c.command /\ c.bar = c.placed /\ c.size = size
    BY <2>3, <2>4, <2>5, <2>6 DEF SpaceType
  <2>8. Aligned(c)
    BY <2>1, <2>3, <2>7 DEF Aligned, Masked
  <2>9. QED
    BY <1>2, <2>7, <2>8
<1>3. QED
  BY <1>1, <1>2

\* A step that works on function bdf leaves the others, and what was said of
\* the xHC, as they were.
LEMMA OrderKept ==
  ASSUME OrderInv, bdf \in Function, bdf' = bdf, outcome' = outcome,
         DOMAIN config' = DOMAIN config,
         \A f \in Function : f # bdf => config'[f] = config[f],
         bdf # XHC => bar' = bar
  PROVE  OrderInv'
<1>1. CASE bdf = XHC
  <2>1. outcome[XHC] = "untried"
    BY <1>1, XhcIsFunction DEF OrderInv
  <2>2. QED
    BY <2>1 DEF OrderInv
<1>2. CASE bdf # XHC
  <2>1. config'[XHC] = config[XHC] /\ bar' = bar
    BY <1>2, XhcIsFunction
  <2>2. Reachable(config[XHC]) => Reachable(config[XHC])'
    BY <2>1 DEF Reachable
  <2>3. QED
    BY <2>2 DEF OrderInv
<1>3. QED
  BY <1>1, <1>2

\* On to the next function.
LEMMA FinishKeeps ==
  ASSUME OrderInv, bdf \in Function, NEW result, Finish(result),
         DOMAIN config' = DOMAIN config,
         \A f \in Function : f # bdf => config'[f] = config[f],
         bar' = bar,
         result = "spawned" /\ bdf = XHC => Reachable(config[XHC])'
  PROVE  ProbeInv'
<1>1. /\ outcome' = [outcome EXCEPT ![bdf] = result] /\ bdf' = bdf + 1 /\ phase' = "probe"
  BY DEF Finish
<1>2. bdf \in Nat /\ bdf' \in Nat /\ DOMAIN outcome' = Function /\ DOMAIN config' = Function
  BY <1>1 DEF OrderInv
<1>3. \A f \in Function : f >= bdf' => outcome'[f] = "untried"
  <2> TAKE f \in Function
  <2> HAVE f >= bdf'
  <2>1. f \in Nat /\ f >= bdf /\ f # bdf
    BY <1>1, <1>2, XhcIsFunction
  <2>2. outcome[f] = "untried" /\ f \in DOMAIN outcome
    BY <2>1 DEF OrderInv
  <2>3. QED
    BY <1>1, <2>1, <2>2
<1>4. outcome'[XHC] = "spawned" => Reachable(config[XHC])'
  <2>1. XHC \in DOMAIN outcome
    BY XhcIsFunction DEF OrderInv
  <2>2. outcome'[XHC] = IF XHC = bdf THEN result ELSE outcome[XHC]
    BY <1>1, <2>1
  <2>3. CASE XHC = bdf
    BY <2>2, <2>3
  <2>4. CASE XHC # bdf
    <3>1. config'[XHC] = config[XHC]
      BY <2>4, XhcIsFunction
    <3>2. Reachable(config[XHC]) => Reachable(config[XHC])'
      BY <3>1 DEF Reachable
    <3>3. QED
      BY <2>2, <2>4, <3>2 DEF OrderInv
  <2>5. QED
    BY <2>3, <2>4
<1>5. OrderInv'
  BY <1>2, <1>3, <1>4 DEF OrderInv
<1>6. AttachInv'
  BY <1>1 DEF AttachInv, Attaching, Located
<1>7. QED
  BY <1>5, <1>6 DEF ProbeInv

\* The driver is asked, or the function is left alone.
LEMMA ReadIdsKeeps == ProbeInv /\ ReadIds => ProbeInv'
<1> SUFFICES ASSUME ProbeInv, ReadIds PROVE ProbeInv'
  OBVIOUS
<1>1. bdf \in Function /\ bar' = bar
  BY DEF ReadIds
<1>2. PICK c \in Spaces(bdf) :
         /\ config' = [config EXCEPT ![bdf] = c]
         /\ \/ phase' = "disable_interrupt" /\ bdf' = bdf /\ outcome' = outcome
            \/ Finish("no driver")
  BY DEF ReadIds
<1>3. /\ DOMAIN config' = DOMAIN config /\ config'[bdf] = c
      /\ \A f \in Function : f # bdf => config'[f] = config[f]
  BY <1>1, <1>2 DEF ProbeInv, OrderInv
<1>4. CASE phase' = "disable_interrupt" /\ bdf' = bdf /\ outcome' = outcome
  <2>1. OrderInv'
    BY <1>1, <1>3, <1>4, OrderKept DEF ProbeInv
  <2>2. AttachedSoFar(config[bdf])'
    <3>1. /\ c \in SpaceType /\ "MEMORY" \in c.command /\ c.bar = c.placed
          /\ bdf # XHC => c.bar % 8 = 0
          /\ bdf = XHC => Aligned(c)
      BY <1>1, SpacesPlaced
    <3>2. config'[bdf'] = c
      BY <1>3, <1>4
    <3>3. AttachedSoFar(c)'
      BY <1>4, <3>1 DEF AttachedSoFar, Located, Sized
    <3>4. QED
      BY <3>2, <3>3 DEF AttachedSoFar
  <2>3. QED
    BY <1>1, <1>4, <2>1, <2>2 DEF ProbeInv, AttachInv, Located
<1>5. CASE Finish("no driver")
  BY <1>1, <1>3, <1>5, FinishKeeps DEF ProbeInv
<1>6. QED
  BY <1>2, <1>4, <1>5

\* Both read-modify-writes of the command register add a flag and keep the
\* others.
LEMMA SetFlagsKeeps ==
  ASSUME ProbeInv, DisableInterrupt \/ EnableBusMaster
  PROVE  ProbeInv'
<1>1. PICK flag \in {"INTX_DISABLE", "BUS_MASTER"} :
        /\ config' = [config EXCEPT ![bdf].command = @ \union {flag}, ![bdf].status = {}]
        /\ \/ /\ flag = "INTX_DISABLE"
              /\ phase = "disable_interrupt" /\ phase' = "enable_bus_master"
           \/ /\ flag = "BUS_MASTER"
              /\ phase = "enable_bus_master" /\ phase' = "bar0"
  BY DEF DisableInterrupt, EnableBusMaster, SetFlags
<1>2. bdf' = bdf /\ bar0' = bar0 /\ bar' = bar /\ outcome' = outcome
  BY DEF DisableInterrupt, EnableBusMaster, SetFlags
<1>3. bdf \in Function /\ AttachedSoFar(config[bdf])
  BY <1>1 DEF ProbeInv, AttachInv, Attaching
<1> DEFINE c == config[bdf]
           d == [c EXCEPT !.command = @ \union {flag}, !.status = {}]
<1>4. c \in SpaceType
  BY <1>3 DEF AttachedSoFar
<1>5. /\ d \in SpaceType /\ d.command = c.command \union {flag}
      /\ d.size = c.size /\ d.bar = c.bar /\ d.placed = c.placed
  BY <1>4 DEF SpaceType, Commands
<1>6. config' = [config EXCEPT ![bdf] = d]
  BY <1>1
<1>7. /\ DOMAIN config' = DOMAIN config /\ config'[bdf] = d
      /\ \A f \in Function : f # bdf => config'[f] = config[f]
  BY <1>3, <1>6 DEF ProbeInv, OrderInv
<1> HIDE DEF d
<1>8. OrderInv'
  BY <1>2, <1>3, <1>7, OrderKept DEF ProbeInv
<1>9. AttachedSoFar(config[bdf])'
  <2>1. Aligned(c) => Aligned(d)
    BY <1>5 DEF Aligned
  <2>2. /\ d \in SpaceType /\ "MEMORY" \in d.command
        /\ phase' # "disable_interrupt" => "INTX_DISABLE" \in d.command
        /\ phase' \notin {"disable_interrupt", "enable_bus_master"} => "BUS_MASTER" \in d.command
    BY <1>1, <1>3, <1>5 DEF AttachedSoFar
  <2>3. /\ bdf # XHC => d.bar % 8 = 0
        /\ bdf = XHC => Aligned(d) /\ d.bar = d.placed
    BY <1>1, <1>3, <1>5, <2>1 DEF AttachedSoFar
  <2>4. phase' \notin Located \union Sized \union {"read size", "restore"}
    BY <1>1 DEF Located, Sized
  <2>5. bdf' = bdf /\ config'[bdf'] = d
    BY <1>2, <1>7
  <2> HIDE DEF c
  <2>6. QED
    BY <2>2, <2>3, <2>4, <2>5 DEF AttachedSoFar, Located, Sized
<1>10. phase' \notin Located
  BY <1>1 DEF Located
<1>11. QED
  BY <1>2, <1>3, <1>8, <1>9, <1>10 DEF ProbeInv, AttachInv

\* Only the xHC has a BAR of 64 bits.
LEMMA ReadBarKeeps == ProbeInv /\ ReadBar => ProbeInv'
<1> SUFFICES ASSUME ProbeInv, ReadBar PROVE ProbeInv'
  OBVIOUS
<1>1. /\ phase = "bar0" /\ bar0' = config[bdf].bar
      /\ phase' = IF config[bdf].bar % 8 = 4 THEN "write ones" ELSE "error"
      /\ bdf' = bdf /\ config' = config /\ bar' = bar /\ outcome' = outcome
  BY DEF ReadBar
<1>2. bdf \in Function /\ AttachedSoFar(config[bdf])
  BY <1>1 DEF ProbeInv, AttachInv, Attaching
<1>3. OrderInv'
  BY <1>1, <1>2, OrderKept DEF ProbeInv
<1>4. CASE phase' = "error"
  BY <1>1, <1>2, <1>3, <1>4 DEF ProbeInv, AttachInv, Attaching, Located
<1>5. CASE phase' # "error"
  <2>1. phase' = "write ones" /\ config[bdf].bar % 8 = 4
    BY <1>1, <1>5
  <2>2. bdf = XHC
    <3>1. bdf # XHC => config[bdf].bar % 8 = 0
      BY <1>2 DEF AttachedSoFar
    <3> DEFINE width == config[bdf].bar % 8
    <3>2. width = 4 /\ (bdf # XHC => width = 0)
      BY <2>1, <3>1
    <3> HIDE DEF width
    <3>3. QED
      BY <3>2
  <2>3. AttachedSoFar(config[bdf])'
    BY <1>1, <1>2, <2>1, <2>2 DEF AttachedSoFar, Located, Sized
  <2>4. QED
    BY <1>1, <1>2, <1>3, <2>2, <2>3 DEF ProbeInv, AttachInv
<1>6. QED
  BY <1>4, <1>5

\* While it finds out the size, attach has BAR 0 elsewhere; then it is back.
LEMMA SizingKeeps ==
  ASSUME ProbeInv, WriteOnes \/ ReadSize \/ Restore
  PROVE  ProbeInv'
<1>1. phase \in {"write ones", "read size", "restore"} /\ bdf' = bdf /\ outcome' = outcome /\ bar0' = bar0
  BY DEF WriteOnes, ReadSize, Restore
<1>2. bdf \in Function /\ bdf = XHC /\ AttachedSoFar(config[bdf])
  BY <1>1 DEF ProbeInv, AttachInv, Attaching, Located
<1> DEFINE c == config[bdf]
           ones == (WORD * WORD - c.size) + (c.placed % 16)
<1>3. /\ c \in SpaceType /\ Aligned(c) /\ bar0 = c.placed
      /\ {"MEMORY", "INTX_DISABLE", "BUS_MASTER"} \subseteq c.command
  BY <1>1, <1>2 DEF AttachedSoFar, Located
<1>4. /\ phase = "write ones" => c.bar = c.placed
      /\ phase \in {"read size", "restore"} => c.bar = ones
      /\ phase = "restore" => bar = [addr |-> Masked(c.placed), size |-> c.size]
  BY <1>2 DEF AttachedSoFar, Sized
<1>5. /\ c.bar % 16 = c.placed % 16 =>
           /\ Latched(c, WORD * WORD - 1) = ones
           /\ Latched(c, c.placed) = c.placed
      /\ ones \in Nat /\ ones % 16 = c.placed % 16 /\ Size(ones) = c.size
  BY <1>3, SizingIsExact
<1> HIDE DEF c, ones
<1>6. c.bar % 16 = c.placed % 16
  BY <1>1, <1>4, <1>5
<1>7. c.placed \in Nat
  BY <1>3 DEF SpaceType
<1>8. PICK b \in Nat :
        /\ config'[bdf] = [c EXCEPT !.bar = b]
        /\ phase = "write ones" => b = ones
        /\ phase = "read size" => b = ones
        /\ phase = "restore" => b = c.placed
  <2>1. CASE WriteOnes
    <3>1. phase = "write ones" /\ config'[bdf] = [c EXCEPT !.bar = ones]
      BY <1>2, <1>5, <1>6, <2>1 DEF WriteOnes, WriteBar, c, ProbeInv, OrderInv
    <3>2. QED
      BY <1>5, <3>1
  <2>2. CASE Restore
    <3>1. phase = "restore" /\ config'[bdf] = [c EXCEPT !.bar = c.placed]
      BY <1>2, <1>3, <1>5, <1>6, <2>2 DEF Restore, WriteBar, c, ProbeInv, OrderInv
    <3>2. QED
      BY <1>7, <3>1
  <2>3. CASE ReadSize
    <3>1. phase = "read size" /\ config'[bdf] = c /\ c.bar = ones
      BY <1>4, <2>3 DEF ReadSize, c
    <3>2. c = [c EXCEPT !.bar = ones]
      BY <1>3, <3>1 DEF SpaceType
    <3>3. QED
      BY <1>5, <3>1, <3>2
  <2>4. QED
    BY <2>1, <2>2, <2>3
<1>9. /\ phase = "write ones" => phase' = "read size"
      /\ phase = "read size" =>
           phase' = "restore" /\ bar' = [addr |-> Masked(c.placed), size |-> c.size]
      /\ phase = "restore" => phase' = "disable_cache" /\ bar' = bar
  BY <1>3, <1>4, <1>5 DEF WriteOnes, ReadSize, Restore, c
<1> DEFINE d == [c EXCEPT !.bar = b]
<1>10. /\ d \in SpaceType /\ d.command = c.command /\ d.size = c.size /\ d.bar = b
       /\ d.placed = c.placed
  BY <1>3 DEF SpaceType
<1>11. config'[bdf] = d
  BY <1>8
<1>12. /\ DOMAIN config' = DOMAIN config
       /\ \A f \in Function : f # bdf => config'[f] = config[f]
  BY DEF WriteOnes, ReadSize, Restore, WriteBar, ProbeInv, OrderInv
<1> HIDE DEF d
<1>13. OrderInv'
  BY <1>1, <1>2, <1>12, OrderKept DEF ProbeInv
<1>14. Aligned(d)
  BY <1>3, <1>10 DEF Aligned
<1>15. phase' \in {"read size", "restore"} => d.bar = (WORD * WORD - d.size) + (d.placed % 16)
  BY <1>1, <1>8, <1>9, <1>10 DEF ones
<1>16. /\ phase' \in {"read size", "restore", "disable_cache"}
       /\ phase' = "disable_cache" => d.bar = d.placed
       /\ phase' # "read size" => bar' = [addr |-> Masked(d.placed), size |-> d.size]
  BY <1>1, <1>4, <1>8, <1>9, <1>10
<1>17. AttachedSoFar(config[bdf])'
  <2>1. config'[bdf'] = d /\ bdf' = XHC /\ bar0' = d.placed
        /\ {"MEMORY", "INTX_DISABLE", "BUS_MASTER"} \subseteq d.command
    BY <1>1, <1>2, <1>3, <1>10, <1>11
  <2>2. QED
    BY <1>10, <1>14, <1>15, <1>16, <2>1 DEF AttachedSoFar, Located, Sized
<1>18. QED
  BY <1>1, <1>2, <1>13, <1>17 DEF ProbeInv, AttachInv

\* From disable_cache to spawn the probe stays where it is.
LEMMA SettledKeeps ==
  ASSUME ProbeInv, phase \in {"disable_cache", "new"},
         phase' \in {"new", "spawn", "error", "panic"},
         bdf' = bdf, config' = config, bar0' = bar0, bar' = bar, outcome' = outcome
  PROVE  ProbeInv'
<1>1. bdf \in Function /\ bdf = XHC /\ AttachedSoFar(config[bdf])
  BY DEF ProbeInv, AttachInv, Attaching, Located
<1>2. OrderInv'
  BY <1>1, OrderKept DEF ProbeInv
<1>3. phase' \in {"new", "spawn"} => AttachedSoFar(config[bdf])'
  <2> DEFINE c == config[bdf]
  <2>1. /\ c \in SpaceType /\ Aligned(c) /\ c.bar = c.placed /\ bar0 = c.placed
        /\ {"MEMORY", "INTX_DISABLE", "BUS_MASTER"} \subseteq c.command
        /\ bar = [addr |-> Masked(c.placed), size |-> c.size]
    BY <1>1 DEF AttachedSoFar, Located, Sized
  <2>2. config'[bdf'] = c
    OBVIOUS
  <2> HIDE DEF c
  <2>3. QED
    BY <1>1, <2>1, <2>2 DEF AttachedSoFar
<1>4. QED
  BY <1>1, <1>2, <1>3 DEF ProbeInv, AttachInv, Attaching

\* What attach has established by the end is what RegistersReachable asks.
LEMMA AttachedReachable ==
  ASSUME ProbeInv, phase \in {"new", "spawn"}
  PROVE  bdf = XHC /\ Reachable(config[XHC])
<1>1. bdf = XHC /\ AttachedSoFar(config[bdf])
  BY DEF ProbeInv, AttachInv, Attaching, Located
<1>2. QED
  BY <1>1 DEF AttachedSoFar, Sized, Reachable

\* AttachFailed and Attached.
LEMMA AttachEnds ==
  ASSUME ProbeInv, AttachFailed \/ Attached
  PROVE  ProbeInv'
<1>1. config' = config /\ bar' = bar /\ bdf \in Function
  BY DEF AttachFailed, Attached, ProbeInv, AttachInv, Attaching
<1>2. CASE AttachFailed
  BY <1>1, <1>2, FinishKeeps DEF AttachFailed, ProbeInv
<1>3. CASE Attached
  <2>1. phase = "spawn" /\ Finish("spawned")
    BY <1>3 DEF Attached
  <2>2. Reachable(config[XHC])
    BY <2>1, AttachedReachable
  <2>3. Reachable(config[XHC])'
    BY <1>1, <2>2 DEF Reachable
  <2>4. QED
    BY <1>1, <2>1, <2>3, FinishKeeps DEF ProbeInv
<1>4. QED
  BY <1>2, <1>3

\* Nobody but the probe touches its state.
LEMMA ElsewhereKeeps ==
  ASSUME ProbeInv, bdf' = bdf, config' = config, bar0' = bar0, bar' = bar, outcome' = outcome,
         phase' = phase \/ phase' = "executor"
  PROVE  ProbeInv'
<1>1. OrderInv'
  <2>1. Reachable(config[XHC]) => Reachable(config[XHC])'
    BY DEF Reachable
  <2>2. QED
    BY <2>1 DEF ProbeInv, OrderInv
<1>2. CASE phase' = phase
  <2>1. phase \in Attaching => AttachedSoFar(config[bdf])
    BY DEF ProbeInv, AttachInv
  <2>2. AttachedSoFar(config[bdf]) => AttachedSoFar(config[bdf])'
    BY <1>2 DEF AttachedSoFar
  <2>3. QED
    BY <1>1, <1>2, <2>1, <2>2 DEF ProbeInv, AttachInv
<1>3. CASE phase' = "executor"
  BY <1>1, <1>3 DEF ProbeInv, AttachInv, Attaching, Located
<1>4. QED
  BY <1>2, <1>3

LEMMA ProbeStep == ProbeInv /\ [PciNext]_pciVars => ProbeInv'
<1> SUFFICES ASSUME ProbeInv, [PciNext]_pciVars PROVE ProbeInv'
  OBVIOUS
<1>1. CASE DisableCache
  BY <1>1, SettledKeeps DEF DisableCache
<1>2. CASE New
  <2>1. phase' \in {"error", "spawn", "new"}
    BY <1>2 DEF New
  <2>2. QED
    BY <1>2, <2>1, SettledKeeps DEF New
<1>3. CASE ProbeDone
  BY <1>3, ElsewhereKeeps DEF ProbeDone
<1>4. CASE UNCHANGED probe
  BY <1>4, ElsewhereKeeps DEF probe
<1>5. QED
  BY <1>1, <1>2, <1>3, <1>4, ReadIdsKeeps, SetFlagsKeeps, ReadBarKeeps, SizingKeeps, AttachEnds
     DEF PciNext, PciDriver, RunTask, pciVars

LEMMA ProbeInit == PciInit => ProbeInv
BY XhcIsFunction DEF PciInit, ProbeInv, OrderInv, AttachInv, Attaching, Located

(***************************************************************************)
(* The inductive invariant of the probe: which function it is at, and what *)
(* attach has made of its configuration space by each of its steps.        *)
(***************************************************************************)
THEOREM ProbeSafety == PciSpec => []ProbeInv
BY ProbeInit, ProbeStep, PTL DEF PciSpec

(***************************************************************************)
(* From Controller::new on the registers are where the driver takes them   *)
(* to be: sizing, with memory decoding on, leaves BAR 0 as it was, and the *)
(* size found is right to the last byte.                                   *)
(***************************************************************************)
THEOREM XhcReachable == PciSpec => []RegistersReachable
<1>1. ProbeInv => RegistersReachable
  BY AttachedReachable DEF RegistersReachable, Reachable, ProbeInv, OrderInv
<1>2. QED
  BY <1>1, ProbeSafety, PTL
=============================================================================
