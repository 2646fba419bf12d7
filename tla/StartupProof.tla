---------------------------- MODULE StartupProof ----------------------------
(***************************************************************************)
(* The safety of startup: what the heap is made from, what gets out on the *)
(* serial line, where pixels go, and which timers are quiet; for any       *)
(* memory maps, messages, screens and timers, and exceptions at any point. *)
(***************************************************************************)
EXTENDS Startup, Executor, SequenceTheorems, TLAPS

-----------------------------------------------------------------------------
(* The inductive invariant                                                 *)

\* Up to get_memory_map.
Early == {"efi_main", "loaded image", "init_vram", "init_display", "set_global_vram",
          "acpi_table", "get"}

\* The holder has the firmware's map, if that fits and has not changed since.
Fetched ==
  size <= CAPACITY /\ key = fwKey
    => size = Len(fwMap) /\ \A i \in 1..size : buffer[i] = fwMap[i]

\* An old key is smaller than the current one, so a map that has changed since
\* it was fetched has another.
MapInv ==
  /\ fwMap \in Maps /\ fwKey \in Nat /\ key \in Nat /\ key <= fwKey /\ size \in Nat
  /\ pc \in Early => size = CAPACITY /\ heapMap = <<>>
  /\ pc \in {"exit", "init_with_mmap"} => Fetched /\ heapMap = <<>>
  /\ HeapFromMapLeft

Prints == [msg : Messages, pos : 0..LEN, stage : {"serial", "screen", "draw"}] \union {Idle}

\* What call p has sent is on the line, but for the character that is still in
\* the transmitter.
Out(p) ==
  \A i \in 1..p.pos :
    <<p.msg, i>> \in line \/ (i = p.pos /\ thr = <<p.msg, i>>)

\* Only a breakpoint leaves a call to come back to, and it is one of the
\* kernel's: the message of the handler does not take its place on the line.
PrintInv ==
  /\ print \in Prints /\ saved \in Prints
  /\ print.stage = "serial" => print.pos < LEN
  /\ saved.stage = "serial" => saved.pos < LEN
  /\ mode = "kernel" => print = Idle \/ print.msg = "kernel"
  /\ mode \notin {"breakpoint", "dead"} => saved = Idle
  /\ saved = Idle \/ saved.msg = "kernel"
  /\ mode = "breakpoint" => print = Idle \/ print.msg = "exception"
  /\ loopback \in BOOLEAN
  /\ ~loopback => Out(print) /\ Out(saved)

\* Timers below the loop counter have lost their interrupt.
TimerInv ==
  /\ timer \in Nat /\ hpetOn \in BOOLEAN
  /\ pc = "hpet timers" => timers \subseteq timer..NUM_TIM_CAP
  /\ hpetOn => timers = {}

VramInv ==
  /\ pc = "init_display" => vram \in [width : WIDTHS, height : HEIGHTS, ppl : PPLS]
  /\ stray = FALSE

-----------------------------------------------------------------------------
(* The kinds of steps                                                      *)

\* A step of efi_main that leaves screen, timers and memory map alone.
Plain ==
  /\ UNCHANGED <<firmware, holder, heapMap, display, hpet>>
  /\ pc # "panic" /\ pc' \notin {"exit", "init_with_mmap", "init_display", "hpet timers"}
  /\ pc' \in Early => pc \in Early

\* A step of an exception, of a print or of the outside.
Aside == UNCHANGED <<vars, startupVars>>

LEMMA PlainSteps ==
  ASSUME \/ Booting \/ LocateLoadedImage \/ AcpiTable \/ HelloNonUefi \/ InitAllocator
         \/ InitExceptions \/ Lidt \/ InitPaging \/ InitHpet \/ InitPci
         \/ EnterExecutor \/ TaskPrints
         \/ LoopbackOn \/ LoopbackSend \/ LoopbackFails \/ LoopbackReads \/ LoopbackOff
         \/ StartMonitor \/ Monitor
  PROVE  Plain
<1> USE DEF Plain, Step, Early, startupVars, display
<1>1. CASE Booting
  BY <1>1 DEF Booting, Say1
<1>2. CASE LocateLoadedImage
  BY <1>2 DEF LocateLoadedImage, Say1
<1>3. CASE AcpiTable
  BY <1>3 DEF AcpiTable
<1>4. CASE HelloNonUefi \/ InitAllocator \/ InitExceptions
  BY <1>4 DEF HelloNonUefi, InitAllocator, InitExceptions, Say1
<1>5. CASE Lidt \/ InitPaging
  BY <1>5 DEF Lidt, InitPaging
<1>6. CASE InitHpet
  <2>1. \/ Say1("init_hpet", "hpet new")
        \/ Step("init_hpet", "panic") /\ UNCHANGED startupVars
    BY <1>6 DEF InitHpet
  <2>2. QED
    BY <2>1 DEF Say1
<1>7. CASE InitPci
  <2>1. \E to \in {"spawn", "panic"} : Step("init_pci", to) /\ UNCHANGED startupVars
    BY <1>7 DEF InitPci
  <2>2. QED
    BY <2>1
<1>8. CASE EnterExecutor \/ TaskPrints
  BY <1>8 DEF EnterExecutor, TaskPrints, Say1
<1>9. CASE LoopbackOn \/ LoopbackSend \/ LoopbackFails \/ LoopbackReads \/ LoopbackOff
  BY <1>9 DEF LoopbackOn, LoopbackSend, LoopbackFails, LoopbackReads, LoopbackOff
<1>10. CASE StartMonitor \/ Monitor
  BY <1>10 DEF StartMonitor, Monitor
<1>11. QED
  BY <1>1, <1>2, <1>3, <1>4, <1>5, <1>6, <1>7, <1>8, <1>9, <1>10

LEMMA StepKinds ==
  ASSUME [StartupNext]_allVars
  PROVE  \/ Plain \/ Aside
         \/ InitVram \/ InitDisplay \/ SetGlobalVram
         \/ HpetDisable \/ HpetTimer \/ HpetEnable
         \/ Kernel /\ UNCHANGED startupVars
         \/ ChangeMap /\ UNCHANGED startupVars
<1>1. CASE UNCHANGED allVars
  BY <1>1 DEF allVars, Aside
<1>2. CASE TakeOver
  BY <1>2 DEF TakeOver
<1>3. CASE PanicHandler
  BY <1>3 DEF PanicHandler, Aside
<1>4. CASE \/ (ConsoleStep \/ Trap \/ Transmit \/ KeyPress) /\ UNCHANGED <<vars, startupVars>>
  BY <1>4 DEF Aside
<1>5. CASE UseNull
  BY <1>5 DEF UseNull, Aside
<1>6. QED
  BY <1>1, <1>2, <1>3, <1>4, <1>5, PlainSteps DEF StartupNext, Cpu

-----------------------------------------------------------------------------
(* The memory map                                                          *)

LEMMA MapsAreSequences ==
  ASSUME NEW m \in Maps
  PROVE  Len(m) \in Nat /\ m = [i \in 1..Len(m) |-> m[i]] /\ m \in Seq(Descriptor)
<1>1. PICK n \in 1..MAX_MAP : m \in [1..n -> Descriptor]
  BY DEF Maps
<1>2. n \in Nat
  BY <1>1, BootAssumption
<1>3. m \in Seq(Descriptor) /\ Len(m) = n
  BY <1>1, <1>2
<1>4. QED
  BY <1>1, <1>2, <1>3

LEMMA MapInit == StartupInit => MapInv
<1> SUFFICES ASSUME StartupInit PROVE MapInv
  OBVIOUS
<1>1. /\ fwMap \in Maps /\ fwKey = 1 /\ key = 0 /\ size = CAPACITY /\ heapMap = <<>>
      /\ pc = "efi_main"
  BY DEF StartupInit, HolderInit
<1>2. QED
  BY <1>1, BootAssumption DEF MapInv, HeapFromMapLeft

\* Fetching the map, leaving the firmware, and the heap's iterator.
LEMMA KernelKeepsMap == MapInv /\ Kernel => MapInv'
<1> SUFFICES ASSUME MapInv, Kernel PROVE MapInv'
  OBVIOUS
<1>1. fwMap \in Maps /\ fwKey \in Nat /\ key \in Nat /\ key <= fwKey /\ size \in Nat
  BY DEF MapInv
<1>2. Len(fwMap) \in Nat /\ fwMap = [i \in 1..Len(fwMap) |-> fwMap[i]] /\ CAPACITY \in Nat
  BY <1>1, MapsAreSequences, BootAssumption
<1>3. CASE GetMemoryMap
  <2>1. /\ pc = "get" /\ pc' = "exit" /\ size' = Len(fwMap) /\ fwMap' = fwMap /\ fwKey' = fwKey
        /\ heapMap' = heapMap /\ FirmwareWrites
    BY <1>3 DEF GetMemoryMap, firmware
  <2>2. heapMap = <<>> /\ size = CAPACITY
    BY <2>1 DEF MapInv, Early
  <2>3. key' \in Nat /\ key' <= fwKey'
    BY <1>1, <2>1 DEF FirmwareWrites
  <2>4. Fetched'
    <3>1. CASE Len(fwMap) <= size
      <4>1. buffer' = [i \in 1..CAPACITY |-> IF i <= Len(fwMap) THEN fwMap[i] ELSE buffer[i]]
        BY <2>1, <3>1 DEF FirmwareWrites
      <4>2. \A i \in 1..Len(fwMap) : buffer'[i] = fwMap[i]
        BY <1>2, <2>2, <3>1, <4>1
      <4>3. QED
        BY <2>1, <4>2 DEF Fetched
    <3>2. CASE ~(Len(fwMap) <= size)
      <4>1. ~(size' <= CAPACITY)
        BY <2>1, <2>2, <3>2
      <4>2. QED
        BY <4>1 DEF Fetched
    <3>3. QED
      BY <3>1, <3>2
  <2>5. HeapFromMapLeft'
    BY <2>1, <2>2 DEF HeapFromMapLeft
  <2>6. QED
    BY <1>1, <1>2, <2>1, <2>2, <2>3, <2>4, <2>5 DEF MapInv, Early
<1>4. CASE ExitBootServices
  <2>1. /\ pc = "exit" /\ pc' = "init_with_mmap"
        /\ UNCHANGED <<fwMap, fwKey, buffer, size, key, heapMap>>
    BY <1>4 DEF ExitBootServices, firmware, holder
  <2>2. heapMap = <<>> /\ Fetched
    BY <2>1 DEF MapInv
  <2>3. Fetched'
    BY <2>1, <2>2 DEF Fetched
  <2>4. HeapFromMapLeft'
    BY <2>1, <2>2 DEF HeapFromMapLeft
  <2>5. QED
    BY <1>1, <2>1, <2>2, <2>3, <2>4 DEF MapInv, Early
<1>5. CASE InitWithMmap
  <2>1. /\ pc = "init_with_mmap" /\ pc' = "runtime"
        /\ heapMap' \in [1..size -> Descriptor \union {Nothing}]
        /\ \A i \in 1..size : heapMap'[i] \in At(i)
        /\ UNCHANGED <<fwMap, fwKey, buffer, size, key>>
    BY <1>5 DEF InitWithMmap, firmware, holder
  <2>2. Fetched
    BY <2>1 DEF MapInv
  <2>3. ASSUME size <= CAPACITY, key = fwKey PROVE heapMap' = fwMap
    <3>1. size = Len(fwMap) /\ \A i \in 1..size : buffer[i] = fwMap[i]
      BY <2>2, <2>3 DEF Fetched
    <3>2. ASSUME NEW i \in 1..size PROVE heapMap'[i] = fwMap[i]
      <4>1. i <= CAPACITY
        BY <1>1, <1>2, <2>3
      <4>2. heapMap'[i] = buffer[i]
        BY <2>1, <4>1 DEF At
      <4>3. QED
        BY <3>1, <4>2
    <3>3. heapMap' = [i \in 1..size |-> heapMap'[i]]
      BY <2>1
    <3>4. QED
      BY <1>2, <3>1, <3>2, <3>3
  <2>4. HeapFromMapLeft'
    BY <2>1, <2>3 DEF HeapFromMapLeft
  <2>5. QED
    BY <1>1, <2>1, <2>4 DEF MapInv, Early
<1>6. QED
  BY <1>3, <1>4, <1>5 DEF Kernel

\* The firmware gives a changed map a new key.
LEMMA ChangeKeepsMap == MapInv /\ ChangeMap => MapInv'
<1> SUFFICES ASSUME MapInv, ChangeMap PROVE MapInv'
  OBVIOUS
<1>1. /\ pc \in {"get", "exit"} /\ fwMap' \in Maps /\ fwKey' = fwKey + 1
      /\ UNCHANGED <<pc, buffer, size, key, heapMap>>
  BY DEF ChangeMap, holder
<1>2. fwKey \in Nat /\ key \in Nat /\ key <= fwKey /\ heapMap = <<>> /\ size \in Nat
  BY <1>1 DEF MapInv, Early
<1>3. key' <= fwKey' /\ key' # fwKey' /\ fwKey' \in Nat
  BY <1>1, <1>2
<1>4. Fetched' /\ HeapFromMapLeft'
  BY <1>3 DEF Fetched, HeapFromMapLeft
<1>5. QED
  BY <1>1, <1>2, <1>3, <1>4 DEF MapInv

LEMMA MapStep == MapInv /\ [StartupNext]_allVars => MapInv'
<1> SUFFICES ASSUME MapInv, [StartupNext]_allVars PROVE MapInv'
  OBVIOUS
<1>1. ASSUME UNCHANGED <<firmware, holder, heapMap>>,
             pc' \in {"exit", "init_with_mmap"} => pc' = pc, pc' \in Early => pc \in Early
      PROVE  MapInv'
  BY <1>1 DEF MapInv, firmware, holder, Fetched, HeapFromMapLeft
<1>2. CASE Aside
  BY <1>1, <1>2 DEF Aside, vars
<1>3. CASE InitVram \/ InitDisplay \/ SetGlobalVram \/ HpetDisable \/ HpetTimer \/ HpetEnable
  BY <1>1, <1>3 DEF InitVram, InitDisplay, SetGlobalVram, HpetDisable, HpetTimer, HpetEnable, Step, Early
<1>4. CASE Plain
  BY <1>1, <1>4 DEF Plain
<1>5. QED
  BY <1>2, <1>3, <1>4, StepKinds, KernelKeepsMap, ChangeKeepsMap

(***************************************************************************)
(* With a map that fits and a key the firmware accepts, the heap is made   *)
(* of the map as it is when the firmware leaves, however long it is and    *)
(* however often it changed before.                                        *)
(***************************************************************************)
THEOREM HeapFromMap == StartupSpec => []HeapFromMapLeft
<1>1. MapInv => HeapFromMapLeft
  BY DEF MapInv
<1>2. QED
  BY <1>1, MapInit, MapStep, PTL DEF StartupSpec

-----------------------------------------------------------------------------
(* The timers                                                              *)

LEMMA TimerStep == TimerInv /\ [StartupNext]_allVars => TimerInv'
<1> SUFFICES ASSUME TimerInv, [StartupNext]_allVars PROVE TimerInv'
  OBVIOUS
<1>1. NUM_TIM_CAP \in Nat /\ timer \in Nat /\ hpetOn \in BOOLEAN
  BY StartupAssumption DEF TimerInv
<1>2. CASE UNCHANGED hpet /\ (pc' = "hpet timers" => pc = "hpet timers")
  BY <1>2 DEF hpet, TimerInv
<1>3. CASE HpetDisable
  <2>1. CASE Step("hpet new", "panic") /\ UNCHANGED startupVars
    BY <1>2, <2>1 DEF Step, startupVars
  <2>2. CASE /\ Step("hpet new", "hpet timers")
             /\ hpetOn' = FALSE /\ timers' \in FirmwareTimers /\ timer' = 0
    <3>1. timers' \subseteq timer'..NUM_TIM_CAP
      BY <1>1, <2>2 DEF FirmwareTimers
    <3>2. timer' \in Nat
      BY <2>2
    <3>3. QED
      BY <2>2, <3>1, <3>2 DEF TimerInv
  <2>3. QED
    BY <1>3, <2>1, <2>2 DEF HpetDisable
<1>4. CASE HpetTimer
  <2>1. /\ pc = "hpet timers" /\ timers' = timers \ {timer} /\ timer' = timer + 1
        /\ hpetOn' = hpetOn
    BY <1>4 DEF HpetTimer, Step
  <2>2. timers \subseteq timer..NUM_TIM_CAP /\ (hpetOn => timers = {})
    BY <2>1 DEF TimerInv
  <2>3. timer' \in Nat /\ timers' \subseteq timer'..NUM_TIM_CAP
    <3>1. NUM_TIM_CAP \in Nat /\ timer \in Nat /\ timers' = timers \ {timer} /\ timer' = timer + 1
      BY <1>1, <2>1
    <3>2. timers \subseteq timer..NUM_TIM_CAP
      BY <2>2
    <3>3. \A t \in timers' : t \in timer'..NUM_TIM_CAP
      BY <3>1, <3>2
    <3>4. QED
      BY <3>1, <3>3
  <2>4. hpetOn' => timers' = {}
    BY <2>1, <2>2
  <2>5. QED
    BY <1>1, <2>1, <2>3, <2>4 DEF TimerInv
<1>5. CASE HpetEnable
  <2>1. /\ pc = "hpet timers" /\ pc' = "init_pci" /\ timer = NUM_TIM_CAP + 1
        /\ timers' = timers /\ timer' = timer /\ hpetOn' = TRUE
    BY <1>5 DEF HpetEnable, Step, num_of_timers
  <2>2. timers \subseteq timer..NUM_TIM_CAP
    BY <2>1 DEF TimerInv
  <2>3. timer..NUM_TIM_CAP = {}
    <3>1. NUM_TIM_CAP \in Nat /\ timer = NUM_TIM_CAP + 1
      BY <1>1, <2>1
    <3>2. QED
      BY <3>1
  <2>4. timers = {}
    BY <2>2, <2>3
  <2>5. QED
    BY <1>1, <2>1, <2>4 DEF TimerInv
<1>6. QED
  BY <1>2, <1>3, <1>4, <1>5, StepKinds
     DEF Plain, Aside, InitVram, InitDisplay, SetGlobalVram, Step, Kernel, GetMemoryMap, ExitBootServices,
         InitWithMmap, ChangeMap, vars, startupVars

(***************************************************************************)
(* The loop of Hpet::new reaches every timer before the HPET is switched   *)
(* on.                                                                     *)
(***************************************************************************)
THEOREM TimersAreQuiet == StartupSpec => []TimersQuiet
<1>1. StartupInit => TimerInv
  <2>1. StartupInit => pc = "efi_main" /\ timer = 0 /\ timers = {} /\ hpetOn = FALSE
    BY DEF StartupInit
  <2>2. StartupInit => timer \in Nat
    BY <2>1
  <2>3. QED
    BY <2>1, <2>2, Zenon DEF TimerInv
<1>2. TimerInv => TimersQuiet
  BY DEF TimerInv, TimersQuiet
<1>3. QED
  BY <1>1, <1>2, TimerStep, PTL DEF StartupSpec

-----------------------------------------------------------------------------
(* The frame buffer                                                        *)

Screens == [width : Nat, height : Nat, ppl : Nat]

FrameBuffer(s) == 0..(s.ppl * s.height - 1)

\* A point that is_in_x_range and is_in_y_range let through.
LEMMA PointInBuffer ==
  ASSUME NEW s \in Screens, NEW x \in Int, NEW y \in Int,
         is_in_x_range(s, x), is_in_y_range(s, y)
  PROVE  PixelAt(s, x, y) \in FrameBuffer(s)
<1> DEFINE p == s.ppl
           h == s.height
<1>1. p \in Nat /\ h \in Nat /\ x >= 0 /\ x < p /\ y >= 0 /\ y < h
  BY DEF Screens, is_in_x_range, is_in_y_range
<1>2. PixelAt(s, x, y) = y * p + x
  BY DEF PixelAt
<1>3. FrameBuffer(s) = 0..(p * h - 1)
  BY DEF FrameBuffer
<1> HIDE DEF p, h
<1>4. p * h = y * p + p * (h - y) /\ y * p \in Nat /\ p * h \in Nat
  BY <1>1
<1>5. p * (h - y) = p + p * ((h - y) - 1) /\ p * ((h - y) - 1) \in Nat
  BY <1>1
<1>6. y * p + x < p * h
  BY <1>1, <1>4, <1>5
<1>7. QED
  BY <1>1, <1>2, <1>3, <1>4, <1>6

\* fill_rect checks two corners; the points between them are in range too.
LEMMA RectInBuffer ==
  ASSUME NEW s \in Screens, NEW px \in Int, NEW py \in Int, NEW w \in Int, NEW h \in Int
  PROVE  fill_rect(s, px, py, w, h).pixels \subseteq FrameBuffer(s)
<1>1. CASE ~(/\ is_in_x_range(s, px) /\ is_in_x_range(s, px + w - 1)
             /\ is_in_y_range(s, py) /\ is_in_y_range(s, py + h - 1))
  BY <1>1 DEF fill_rect
<1>2. CASE /\ is_in_x_range(s, px) /\ is_in_x_range(s, px + w - 1)
           /\ is_in_y_range(s, py) /\ is_in_y_range(s, py + h - 1)
  <2>1. fill_rect(s, px, py, w, h).pixels =
          {PixelAt(s, p[1], p[2]) : p \in (px..(px + w - 1)) \X (py..(py + h - 1))}
    BY <1>2 DEF fill_rect
  <2>2. ASSUME NEW x \in px..(px + w - 1), NEW y \in py..(py + h - 1)
        PROVE  PixelAt(s, x, y) \in FrameBuffer(s)
    <3>1. s.width \in Nat /\ s.height \in Nat /\ s.ppl \in Nat
      BY DEF Screens
    <3>2. x \in Int /\ y \in Int /\ is_in_x_range(s, x) /\ is_in_y_range(s, y)
      BY <1>2, <3>1 DEF is_in_x_range, is_in_y_range
    <3>3. QED
      BY <3>2, PointInBuffer
  <2>3. QED
    BY <2>1, <2>2
<1>3. QED
  BY <1>1, <1>2

\* draw_line and draw_str_fg check every point, of which the line's are
\* integers.
LEMMA LinePointIsInt ==
  ASSUME NEW x0 \in Int, NEW y0 \in Int, NEW x1 \in Int, NEW y1 \in Int, NEW i \in Int
  PROVE  /\ LinePoint(x0, y0, x1, y1, i).x \in Int
         /\ LinePoint(x0, y0, x1, y1, i).y \in Int
<1>1. ASSUME NEW a \in Nat, NEW b \in Nat PROVE calc_slope_point(a, b, i) \in Int
  <2>1. CASE a = 0
    BY <2>1 DEF calc_slope_point
  <2>2. CASE a # 0
    <3> DEFINE n == 2 * b * i + a
               q == n \div a
    <3>1. n \in Int
      OBVIOUS
    <3> HIDE DEF n
    <3>2. q \in Int
      BY <2>2, <3>1
    <3> HIDE DEF q
    <3>3. q \div 2 \in Int
      BY <3>2
    <3>4. QED
      BY <2>2, <3>3 DEF calc_slope_point, n, q
  <2>3. QED
    BY <2>1, <2>2
<1> DEFINE dx == Abs(x1 - x0)
           dy == Abs(y1 - y0)
           rx_ == IF dx >= dy THEN i ELSE calc_slope_point(dy, dx, i)
           ry_ == IF dx >= dy THEN calc_slope_point(dx, dy, i) ELSE i
           sx == Signum(x1 - x0)
           sy == Signum(y1 - y0)
<1>2. dx \in Nat /\ dy \in Nat /\ sx \in Int /\ sy \in Int
  BY DEF Abs, Signum
<1>3. LinePoint(x0, y0, x1, y1, i) = [x |-> x0 + rx_ * sx, y |-> y0 + ry_ * sy]
  BY DEF LinePoint
<1> HIDE DEF dx, dy, sx, sy
<1>4. rx_ \in Int /\ ry_ \in Int
  BY <1>1, <1>2
<1> HIDE DEF rx_, ry_
<1>5. x0 + rx_ * sx \in Int /\ y0 + ry_ * sy \in Int
  BY <1>2, <1>4
<1>6. QED
  BY <1>3, <1>5

LEMMA LineInBuffer ==
  ASSUME NEW s \in Screens,
         NEW x0 \in Int, NEW y0 \in Int, NEW x1 \in Int, NEW y1 \in Int
  PROVE  draw_line(s, x0, y0, x1, y1).pixels \subseteq FrameBuffer(s)
<1> DEFINE n == IF Abs(x1 - x0) >= Abs(y1 - y0) THEN Abs(x1 - x0) ELSE Abs(y1 - y0)
           Point(i) == LinePoint(x0, y0, x1, y1, i)
           InRange(p) == is_in_x_range(s, p.x) /\ is_in_y_range(s, p.y)
           drawn == {i \in 0..(n - 1) : \A j \in 0..i : InRange(Point(j))}
           written == {PixelAt(s, Point(i).x, Point(i).y) : i \in drawn}
<1>1. draw_line(s, x0, y0, x1, y1).pixels \in {written, {}}
  BY DEF draw_line
<1>2. ASSUME NEW i \in drawn PROVE PixelAt(s, Point(i).x, Point(i).y) \in FrameBuffer(s)
  <2>1. i \in Int /\ i \in 0..i
    BY DEF Abs
  <2>2. InRange(Point(i))
    BY <2>1
  <2>3. Point(i).x \in Int /\ Point(i).y \in Int
    BY <2>1, LinePointIsInt
  <2> HIDE DEF Point
  <2>4. QED
    BY <2>2, <2>3, PointInBuffer
<1> HIDE DEF drawn
<1>3. QED
  BY <1>1, <1>2

LEMMA TextInBuffer ==
  ASSUME NEW s \in Screens, NEW x \in Int, NEW y \in Int, NEW n \in Nat
  PROVE  draw_str_fg(s, x, y, n) \subseteq FrameBuffer(s)
<1>1. ASSUME NEW a \in x..(x + 8 * n - 1), NEW b \in y..(y + 15),
             is_in_x_range(s, a), is_in_y_range(s, b)
      PROVE  PixelAt(s, a, b) \in FrameBuffer(s)
  BY <1>1, PointInBuffer
<1>2. QED
  BY <1>1 DEF draw_str_fg

\* Whatever the screen, and whether or not a rectangle of the test pattern
\* fits it.
LEMMA DisplayInBuffer ==
  ASSUME NEW s \in Screens, NEW w \in Nat
  PROVE  init_display(s, w).pixels \subseteq FrameBuffer(s)
<1> DEFINE h == w \div 2
           left == s.width - w - 1
           Square(k) == fill_rect(s, left + (k % 2) * h, (k \div 2) * h, h, h)
           rect == [k \in -1..7 |-> IF k = -1 THEN fill_rect(s, 0, 0, s.width, s.height) ELSE Square(k)]
           ok == \A k \in -1..7 : rect[k].ok
           corners == {0, w} \X {0, w}
           lines == UNION {draw_line(s, left + p[1], p[2], left + q[1], q[2]).pixels : p, q \in corners}
           after == lines
                      \union draw_str_fg(s, left, 4 * h, 10)
                      \union draw_str_fg(s, left, 4 * h + 16, 6)
           rects == {m \in -1..7 : \A j \in -1..m : rect[j].ok}
           filled == UNION {rect[k].pixels : k \in rects}
<1>1. init_display(s, w).pixels \subseteq filled \union after
  <2>1. init_display(s, w).pixels = filled \union (IF ok THEN after ELSE {})
    BY DEF init_display
  <2>2. (IF ok THEN after ELSE {}) \subseteq after
    <3> HIDE DEF after
    <3>1. QED
      OBVIOUS
  <2> DEFINE rest == IF ok THEN after ELSE {}
  <2>3. init_display(s, w).pixels = filled \union rest /\ rest \subseteq after
    BY <2>1, <2>2
  <2> HIDE DEF rest, filled, after
  <2>4. QED
    BY <2>3
<1>2. h \in Int /\ left \in Int /\ s.width \in Int /\ s.height \in Int /\ w \in Int
  BY DEF Screens
<1> HIDE DEF h, left
<1>3. ASSUME NEW k \in -1..7 PROVE rect[k].pixels \subseteq FrameBuffer(s)
  <2>1. CASE k = -1
    BY <1>2, <2>1, RectInBuffer
  <2>2. CASE k # -1
    <3>1. rect[k] = Square(k)
      BY <2>2
    <3>2. k % 2 \in Int /\ k \div 2 \in Int
      OBVIOUS
    <3>3. left + (k % 2) * h \in Int /\ (k \div 2) * h \in Int
      BY <1>2, <3>2
    <3>4. QED
      BY <1>2, <3>1, <3>3, RectInBuffer
  <2>3. QED
    BY <2>1, <2>2
<1>4. after \subseteq FrameBuffer(s)
  <2>1. ASSUME NEW p \in corners, NEW q \in corners
        PROVE  draw_line(s, left + p[1], p[2], left + q[1], q[2]).pixels \subseteq FrameBuffer(s)
    <3>1. p[1] \in Int /\ p[2] \in Int /\ q[1] \in Int /\ q[2] \in Int
      BY <1>2
    <3>2. left + p[1] \in Int /\ left + q[1] \in Int
      BY <1>2, <3>1
    <3>3. QED
      BY <3>1, <3>2, LineInBuffer
  <2>2. 4 * h \in Int /\ 4 * h + 16 \in Int
    BY <1>2
  <2>3. /\ draw_str_fg(s, left, 4 * h, 10) \subseteq FrameBuffer(s)
        /\ draw_str_fg(s, left, 4 * h + 16, 6) \subseteq FrameBuffer(s)
    BY <1>2, <2>2, TextInBuffer
  <2> HIDE DEF corners
  <2>4. ASSUME NEW z \in lines PROVE z \in FrameBuffer(s)
    <3>1. PICK p \in corners, q \in corners :
             z \in draw_line(s, left + p[1], p[2], left + q[1], q[2]).pixels
      OBVIOUS
    <3>2. QED
      BY <2>1, <3>1
  <2> HIDE DEF lines
  <2>5. QED
    BY <2>3, <2>4
<1>5. rects \subseteq -1..7
  OBVIOUS
<1> HIDE DEF rects, after, rect, ok
<1>6. ASSUME NEW z \in filled PROVE z \in FrameBuffer(s)
  <2>1. PICK k \in rects : z \in rect[k].pixels
    OBVIOUS
  <2>2. QED
    BY <1>3, <1>5, <2>1
<1>7. filled \subseteq FrameBuffer(s)
  BY <1>6
<1> HIDE DEF filled
<1>8. QED
  BY <1>1, <1>4, <1>7

LEMMA VramStep == VramInv /\ [StartupNext]_allVars => VramInv'
<1> SUFFICES ASSUME VramInv, [StartupNext]_allVars PROVE VramInv'
  OBVIOUS
<1>1. ASSUME UNCHANGED display, pc' = "init_display" => pc = "init_display"
      PROVE  VramInv'
  BY <1>1 DEF VramInv, display
<1>2. CASE InitVram
  <2>1. /\ pc = "init_vram" /\ pc' = "init_display" /\ stray' = stray
        /\ vram' \in [width : WIDTHS, height : HEIGHTS, ppl : PPLS]
    BY <1>2 DEF InitVram, Step
  <2>2. QED
    BY <2>1 DEF VramInv
<1>3. CASE InitDisplay
  <2>1. /\ pc = "init_display" /\ pc' \in {"set_global_vram", "panic"}
        /\ stray' = (located /\ ~(init_display(vram, PATTERN).pixels
                                     \subseteq 0..(vram.ppl * vram.height - 1)))
    BY <1>3 DEF InitDisplay, Step
  <2>2. vram \in Screens /\ PATTERN \in Nat
    BY <2>1, StartupAssumption DEF VramInv, Screens
  <2>3. init_display(vram, PATTERN).pixels \subseteq 0..(vram.ppl * vram.height - 1)
    BY <2>2, DisplayInBuffer DEF FrameBuffer
  <2>4. stray' = FALSE
    BY <2>1, <2>3
  <2>5. QED
    BY <2>1, <2>4 DEF VramInv
<1>4. CASE SetGlobalVram
  <2>1. pc' = "acpi_table" /\ stray' = stray
    BY <1>4 DEF SetGlobalVram, Step
  <2>2. QED
    BY <2>1 DEF VramInv
<1>5. CASE HpetDisable \/ HpetTimer \/ HpetEnable
  BY <1>1, <1>5 DEF HpetDisable, HpetTimer, HpetEnable, Step, startupVars
<1>6. CASE (Kernel \/ ChangeMap) /\ UNCHANGED startupVars
  BY <1>1, <1>6 DEF Kernel, GetMemoryMap, ExitBootServices, InitWithMmap, ChangeMap, startupVars
<1>7. CASE Plain \/ Aside
  BY <1>1, <1>7 DEF Plain, Aside, vars, startupVars
<1>8. QED
  BY <1>2, <1>3, <1>4, <1>5, <1>6, <1>7, StepKinds

(***************************************************************************)
(* Drawing stays in the frame buffer the firmware has described, for any   *)
(* width, height and length of the scan lines.                             *)
(***************************************************************************)
THEOREM DrawsInBuffer == StartupSpec => []PixelsInBuffer
<1>1. StartupInit => VramInv
  BY DEF StartupInit, VramInv
<1>2. VramInv => PixelsInBuffer
  BY DEF VramInv, PixelsInBuffer
<1>3. QED
  BY <1>1, <1>2, VramStep, PTL DEF StartupSpec

-----------------------------------------------------------------------------
(* The serial line                                                         *)

Fresh(m) == [msg |-> m, pos |-> 0, stage |-> "serial"]

LEMMA SayIsFresh ==
  ASSUME NEW m \in Messages, Say(m)
  PROVE  print' = Fresh(m) /\ line' = {c \in line : c[1] # m}
BY DEF Say, Fresh, FirstStage, Order

LEMMA PrintTypes ==
  /\ Idle \in Prints /\ Idle.pos = 0 /\ Idle.stage = "idle"
  /\ \A m \in Messages : Fresh(m) \in Prints /\ Fresh(m).pos = 0 /\ Fresh(m).msg = m
  /\ \A p \in Prints : p.pos \in 0..LEN /\ (p.stage # "idle" => p.msg \in Messages)
  /\ LEN \in Nat /\ LEN > 0
<1>1. Idle \in Prints /\ Idle.pos = 0 /\ Idle.stage = "idle"
  BY DEF Prints, Idle
<1>2. LEN \in Nat /\ LEN > 0
  BY ConsoleAssumption
<1>3. ASSUME NEW m \in Messages
      PROVE  Fresh(m) \in Prints /\ Fresh(m).pos = 0 /\ Fresh(m).msg = m
  BY <1>2 DEF Prints, Fresh
<1>4. ASSUME NEW p \in Prints
      PROVE  p.pos \in 0..LEN /\ (p.stage # "idle" => p.msg \in Messages)
  <2>1. CASE p = Idle
    BY <1>1, <1>2, <2>1
  <2>2. CASE p \in [msg : Messages, pos : 0..LEN, stage : {"serial", "screen", "draw"}]
    BY <2>2
  <2>3. QED
    BY <2>1, <2>2 DEF Prints
<1>5. QED
  BY <1>1, <1>2, <1>3, <1>4

\* A new call takes the place of all others, or there is none.
LEMMA StartsAfresh ==
  ASSUME PrintInv, saved' = Idle, loopback' \in BOOLEAN,
         \/ print' = Idle /\ mode' # "breakpoint"
         \/ \E m \in Messages : /\ print' = Fresh(m) /\ mode' # "breakpoint"
                                /\ mode' = "kernel" => m = "kernel"
  PROVE  PrintInv'
<1>1. /\ print' \in Prints /\ print'.pos = 0 /\ LEN > 0 /\ LEN \in Nat
      /\ mode' = "kernel" => print' = Idle \/ print'.msg = "kernel"
      /\ mode' # "breakpoint"
  BY PrintTypes
<1>2. /\ saved' \in Prints /\ saved'.pos = 0
  BY PrintTypes
<1>3. Out(print)' /\ Out(saved)'
  BY <1>1, <1>2 DEF Out
<1>4. QED
  BY <1>1, <1>2, <1>3 DEF PrintInv

\* What is on the line stays there, but for messages of another kind.
LEMMA StaysOut ==
  ASSUME NEW p \in Prints, Out(p), NEW m, p = Idle \/ p.msg # m,
         \A c \in line : c[1] # m => c \in line',
         thr' = thr \/ thr \in line'
  PROVE  Out(p)'
<1> SUFFICES ASSUME NEW i \in 1..p.pos
             PROVE  <<p.msg, i>> \in line' \/ (i = p.pos /\ thr' = <<p.msg, i>>)
  BY DEF Out
<1>1. p # Idle
  BY PrintTypes
<1>2. <<p.msg, i>> \in line \/ (i = p.pos /\ thr = <<p.msg, i>>)
  BY DEF Out
<1>3. CASE <<p.msg, i>> \in line
  BY <1>1, <1>3
<1>4. CASE i = p.pos /\ thr = <<p.msg, i>>
  BY <1>4
<1>5. QED
  BY <1>2, <1>3, <1>4

\* The steps of efi_main and of the tasks: there is no call to come back to.
LEMMA KernelKeepsPrint ==
  ASSUME PrintInv, Running, mode' = mode, saved' = saved, loopback' \in BOOLEAN,
         print' = Idle \/ print' = Fresh("kernel")
  PROVE  PrintInv'
<1>1. mode = "kernel" /\ saved' = Idle
  BY DEF Running, PrintInv
<1>2. QED
  BY <1>1, StartsAfresh DEF Messages

\* A step that leaves the calls and the serial port alone.
LEMMA QuietKeepsPrint ==
  ASSUME PrintInv, UNCHANGED <<mode, print, saved, thr, line, loopback>>
  PROVE  PrintInv'
<1>1. (Out(print) => Out(print)') /\ (Out(saved) => Out(saved)')
  BY DEF Out
<1>2. QED
  BY <1>1 DEF PrintInv

\* send_str: the transmitter is empty, so all that was sent before is out.
LEMMA SendKeepsPrint == PrintInv /\ SendChar => PrintInv'
<1> SUFFICES ASSUME PrintInv, SendChar PROVE PrintInv'
  OBVIOUS
<1>1. PICK p : p = print
  OBVIOUS
<1>2. PICK q : q = saved
  OBVIOUS
<1>3. /\ p \in Prints /\ q \in Prints /\ p.stage = "serial" /\ p.pos < LEN
      /\ loopback \in BOOLEAN /\ (q.stage = "serial" => q.pos < LEN)
      /\ ~loopback => Out(print) /\ Out(saved)
  BY <1>1, <1>2 DEF PrintInv, SendChar
<1>4. /\ p.msg \in Messages /\ p.pos \in Nat /\ LEN \in Nat /\ p # Idle
      /\ p \in [msg : Messages, pos : 0..LEN, stage : {"serial", "screen", "draw"}]
  BY <1>3, PrintTypes DEF Prints
<1>5. /\ mode' = mode /\ saved' = q /\ line' = line /\ loopback' = loopback
      /\ thr = None /\ thr' = <<p.msg, p.pos + 1>>
  BY <1>1, <1>2 DEF SendChar, TransmitterEmpty
<1>6. \/ print' = Idle
      \/ /\ print'.msg = p.msg /\ print'.pos = p.pos + 1 /\ print' \in Prints
         /\ print'.stage = "serial" => p.pos + 1 < LEN
  <2>1. CASE p.pos + 1 < LEN
    <3>1. print' = [p EXCEPT !.pos = p.pos + 1]
      BY <1>1, <2>1 DEF SendChar
    <3>2. p.pos + 1 \in 0..LEN
      BY <1>4, <2>1
    <3>3. QED
      BY <1>4, <2>1, <3>1, <3>2 DEF Prints
  <2>2. CASE ~(p.pos + 1 < LEN)
    <3>1. p.pos + 1 = LEN
      BY <1>3, <1>4, <2>2
    <3>2. print' \in {[p EXCEPT !.pos = LEN, !.stage = "screen"], Idle}
      BY <1>1, <2>2 DEF SendChar, GoOn, Order
    <3>3. LEN \in 0..LEN
      BY <1>4
    <3>4. ASSUME NEW r, r = [p EXCEPT !.pos = LEN, !.stage = "screen"]
          PROVE  r \in Prints /\ r.msg = p.msg /\ r.pos = LEN /\ r.stage = "screen"
      BY <1>4, <3>3, <3>4 DEF Prints
    <3>5. QED
      BY <3>1, <3>2, <3>4
  <2>3. QED
    BY <2>1, <2>2
<1>7. ASSUME ~loopback PROVE Out(print)' /\ Out(saved)'
  <2>1. ASSUME NEW r \in {p, q}, NEW i \in 1..r.pos PROVE <<r.msg, i>> \in line
    <3>1. r # Idle /\ r \in Prints /\ r.pos \in 0..LEN
      BY <1>3, PrintTypes
    <3>2. r.msg \in Messages /\ i \in 1..LEN
      BY <1>4, <3>1 DEF Prints
    <3>3. None # <<r.msg, i>>
      BY <3>2, ConsoleAssumption
    <3>4. Out(r)
      BY <1>1, <1>2, <1>3, <1>7
    <3>5. QED
      BY <1>5, <3>3, <3>4 DEF Out
  <2>2. Out(q)'
    BY <1>5, <2>1 DEF Out
  <2>3. Out(print)'
    <3>1. CASE print' = Idle
      BY <3>1, PrintTypes DEF Out
    <3>2. CASE print'.msg = p.msg /\ print'.pos = p.pos + 1
      <4> SUFFICES ASSUME NEW i \in 1..print'.pos
                   PROVE  \/ <<print'.msg, i>> \in line'
                          \/ i = print'.pos /\ thr' = <<print'.msg, i>>
        BY DEF Out
      <4>1. i \in 1..p.pos \/ i = p.pos + 1
        BY <1>4, <3>2
      <4>2. QED
        BY <1>5, <2>1, <3>2, <4>1
    <3>3. QED
      BY <1>6, <3>1, <3>2
  <2>4. QED
    BY <1>5, <2>2, <2>3 DEF Out
<1>8. /\ mode = "kernel" => p.msg = "kernel"
      /\ mode \notin {"breakpoint", "dead"} => q = Idle
      /\ q = Idle \/ q.msg = "kernel"
      /\ mode = "breakpoint" => p.msg = "exception"
  BY <1>1, <1>2, <1>4 DEF PrintInv
<1>9. print' \in Prints /\ (print'.stage = "serial" => print'.pos < LEN)
  BY <1>6, PrintTypes
<1>10. QED
  BY <1>3, <1>5, <1>6, <1>7, <1>8, <1>9 DEF PrintInv

\* Lock and Draw: the call goes on with what it has sent, or it ends.
LEMMA DrawKeepsPrint ==
  ASSUME PrintInv, Lock \/ Draw
  PROVE  PrintInv'
<1>1. PICK p : p = print
  OBVIOUS
<1>2. /\ p \in Prints /\ p.stage \in {"screen", "draw"}
      /\ UNCHANGED <<mode, saved, thr, line, loopback>>
  BY <1>1 DEF PrintInv, Lock, Draw, uart
<1>3. print' \in {[p EXCEPT !.stage = "draw"], Idle}
  BY <1>1 DEF Lock, Draw, GoOn, Order
<1>4. p \in [msg : Messages, pos : 0..LEN, stage : {"serial", "screen", "draw"}] /\ p # Idle
  BY <1>2, PrintTypes DEF Prints
<1>5. \/ print' = Idle
      \/ /\ print' \in Prints /\ print'.msg = p.msg /\ print'.pos = p.pos
         /\ print'.stage = "draw"
  BY <1>3, <1>4 DEF Prints
<1>6. Out(saved) => Out(saved)'
  BY <1>2 DEF Out
<1>7. Out(print) => Out(print)'
  <2>1. CASE print' = Idle
    BY <2>1, PrintTypes DEF Out
  <2>2. CASE print'.msg = p.msg /\ print'.pos = p.pos
    BY <1>1, <1>2, <2>2 DEF Out
  <2>3. QED
    BY <1>5, <2>1, <2>2
<1>8. /\ mode = "kernel" => p.msg = "kernel"
      /\ mode \notin {"breakpoint", "dead"} => saved = Idle
      /\ saved = Idle \/ saved.msg = "kernel"
      /\ mode = "breakpoint" => p.msg = "exception"
      /\ saved \in Prints /\ loopback \in BOOLEAN
      /\ saved.stage = "serial" => saved.pos < LEN
      /\ ~loopback => Out(print) /\ Out(saved)
  BY <1>1, <1>4 DEF PrintInv
<1>9. print' \in Prints /\ print'.stage # "serial"
  BY <1>5, PrintTypes
<1>10. QED
  BY <1>2, <1>5, <1>6, <1>7, <1>8, <1>9 DEF PrintInv

\* Exceptions: a breakpoint leaves the kernel's message on the line.
LEMMA TakeKeepsPrint ==
  ASSUME PrintInv, NEW vector, Take(vector), vector = 3 => mode = "kernel"
  PROVE  PrintInv'
<1>1. loopback' = loopback /\ loopback \in BOOLEAN /\ thr' = thr
  BY DEF Take, PrintInv
<1>2. CASE ~idt
  <2>1. mode' = "dead" /\ print' = Idle /\ saved' = saved /\ line' = line
    BY <1>2 DEF Take
  <2>2. Out(saved) => Out(saved)'
    BY <1>1, <2>1 DEF Out
  <2>3. Out(print)' /\ print' \in Prints /\ print'.stage # "serial"
    BY <2>1, PrintTypes DEF Out
  <2>4. QED
    BY <1>1, <2>1, <2>2, <2>3 DEF PrintInv
<1>3. CASE idt /\ vector \notin Vectors
  <2>1. mode' = "panic" /\ saved' = Idle /\ Say("panic")
    BY <1>3 DEF Take, Panic
  <2>2. QED
    BY <1>1, <2>1, SayIsFresh, StartsAfresh DEF Messages
<1>4. CASE idt /\ vector \in Vectors
  <2>1. /\ mode' = (IF vector = 3 THEN "breakpoint" ELSE "exception")
        /\ saved' = (IF vector = 3 THEN print ELSE Idle)
        /\ Say("exception")
    BY <1>4 DEF Take
  <2>2. print' = Fresh("exception") /\ line' = {c \in line : c[1] # "exception"}
    BY <2>1, SayIsFresh DEF Messages
  <2>3. CASE vector # 3
    BY <1>1, <2>1, <2>2, <2>3, StartsAfresh DEF Messages
  <2>4. CASE vector = 3
    <3>1. PICK p : p = print
      OBVIOUS
    <3>2. /\ p \in Prints /\ (p = Idle \/ p.msg = "kernel") /\ (~loopback => Out(p))
          /\ p.stage = "serial" => p.pos < LEN
      BY <2>4, <3>1 DEF PrintInv
    <3>3. mode' = "breakpoint" /\ saved' = p
      BY <2>1, <2>4, <3>1
    <3>4. ~loopback => Out(p)'
      BY <1>1, <2>2, <3>2, StaysOut
    <3>5. ~loopback => Out(saved)'
      BY <3>3, <3>4 DEF Out
    <3>6. /\ print' \in Prints /\ print'.msg = "exception" /\ print'.pos = 0 /\ LEN > 0
      BY <2>2, PrintTypes DEF Messages
    <3>7. Out(print)'
      BY <3>6 DEF Out
    <3>8. QED
      BY <1>1, <3>2, <3>3, <3>5, <3>6, <3>7 DEF PrintInv
  <2>5. QED
    BY <2>3, <2>4
<1>5. QED
  BY <1>2, <1>3, <1>4

\* A character leaves the transmitter, for the line unless in loopback.
LEMMA TransmitKeepsPrint == PrintInv /\ Transmit => PrintInv'
<1> SUFFICES ASSUME PrintInv, Transmit PROVE PrintInv'
  OBVIOUS
<1>1. /\ mode' = mode /\ print' = print /\ saved' = saved /\ loopback' = loopback
      /\ loopback \in BOOLEAN
  BY DEF PrintInv, Transmit, cpu
<1>2. ASSUME ~loopback PROVE Out(print)' /\ Out(saved)'
  <2>1. line' = line \union {thr}
    BY <1>2 DEF Transmit
  <2>2. Out(print) /\ Out(saved)
    BY <1>2 DEF PrintInv
  <2>3. QED
    BY <1>1, <2>1, <2>2 DEF Out
<1>3. QED
  BY <1>1, <1>2 DEF PrintInv

\* The end of inthandler: after a breakpoint the kernel's call goes on.
LEMMA InthandlerKeepsPrint == PrintInv /\ Inthandler => PrintInv'
<1> SUFFICES ASSUME PrintInv, Inthandler PROVE PrintInv'
  OBVIOUS
<1>1. loopback' = loopback /\ loopback \in BOOLEAN /\ thr' = thr
  BY DEF PrintInv, Inthandler
<1>2. CASE Panic
  <2>1. mode' = "panic" /\ saved' = Idle /\ Say("panic")
    BY <1>2 DEF Panic
  <2>2. QED
    BY <1>1, <2>1, SayIsFresh, StartsAfresh DEF Messages
<1>3. CASE mode' = "kernel" /\ print' = saved /\ saved' = Idle /\ line' = line
  <2>1. PICK q : q = saved
    OBVIOUS
  <2>2. /\ q \in Prints /\ (q = Idle \/ q.msg = "kernel") /\ (~loopback => Out(q))
        /\ q.stage = "serial" => q.pos < LEN
    BY <2>1 DEF PrintInv
  <2>3. ~loopback => Out(print)' /\ Out(saved)'
    <3>1. ~loopback => Out(q)'
      BY <1>1, <1>3, <2>2 DEF Out
    <3>2. Out(saved)'
      BY <1>3, PrintTypes DEF Out
    <3>3. print' = q
      BY <1>3, <2>1
    <3>4. QED
      BY <3>1, <3>2, <3>3 DEF Out
  <2>4. saved' \in Prints /\ saved'.stage # "serial" /\ print' = q /\ saved' = Idle
    BY <1>3, <2>1, PrintTypes
  <2>5. QED
    BY <1>1, <1>3, <2>2, <2>3, <2>4 DEF PrintInv
<1>4. QED
  BY <1>2, <1>3 DEF Inthandler

LEMMA ConsoleKeepsPrint ==
  ASSUME PrintInv, ConsoleStep \/ Trap \/ Transmit \/ KeyPress
  PROVE  PrintInv'
<1>0. loopback \in BOOLEAN
  BY DEF PrintInv
<1>1. CASE LockFails
  <2>1. mode' = "panic" /\ saved' = Idle /\ Say("panic") /\ loopback' = loopback
    BY <1>1 DEF LockFails, Panic
  <2>2. QED
    BY <1>0, <2>1, SayIsFresh, StartsAfresh DEF Messages
<1>2. CASE DrawFault
  BY <1>2, TakeKeepsPrint DEF DrawFault
<1>3. CASE PanicPrinted
  <2>1. mode' = "exit" /\ saved' = Idle /\ Say("exit") /\ loopback' = FALSE
    BY <1>3 DEF PanicPrinted, SerialInit, PrintInv
  <2>2. QED
    BY <2>1, SayIsFresh, StartsAfresh DEF Messages
<1>4. CASE WriteExitCode
  <2>1. mode' = "exited" /\ print' = Idle /\ saved' = Idle /\ loopback' = loopback
    BY <1>4 DEF WriteExitCode, PrintInv, uart
  <2>2. QED
    BY <1>0, <2>1, StartsAfresh
<1>5. CASE Trap
  <2>1. PICK vector \in {3, 14, 255} : (vector = 3 => mode = "kernel") /\ Take(vector)
    BY <1>5 DEF Trap
  <2>2. QED
    BY <2>1, TakeKeepsPrint
<1>6. CASE KeyPress
  BY <1>6, QuietKeepsPrint DEF KeyPress, cpu
<1>7. QED
  BY <1>1, <1>2, <1>3, <1>4, <1>5, <1>6, SendKeepsPrint, DrawKeepsPrint, InthandlerKeepsPrint,
     TransmitKeepsPrint DEF ConsoleStep

LEMMA PrintStep == PrintInv /\ [StartupNext]_allVars => PrintInv'
<1> SUFFICES ASSUME PrintInv, [StartupNext]_allVars PROVE PrintInv'
  OBVIOUS
<1>0. loopback \in BOOLEAN
  BY DEF PrintInv
<1>1. ASSUME UNCHANGED consoleVars PROVE PrintInv'
  BY <1>1, QuietKeepsPrint DEF consoleVars, cpu, uart
<1>2. ASSUME Running, Printing PROVE PrintInv'
  <2>1. print' = Fresh("kernel") /\ mode' = mode /\ saved' = saved /\ loopback' = loopback
    BY <1>2, SayIsFresh DEF Printing, Messages
  <2>2. QED
    BY <1>0, <1>2, <2>1, KernelKeepsPrint
<1>3. ASSUME NEW from, NEW to, Say1(from, to) PROVE PrintInv'
  BY <1>2, <1>3 DEF Say1, Step
<1>4. CASE Booting \/ HelloNonUefi \/ InitAllocator \/ InitExceptions \/ EnterExecutor \/ TaskPrints
  BY <1>3, <1>4 DEF Booting, HelloNonUefi, InitAllocator, InitExceptions, EnterExecutor, TaskPrints
<1>5. CASE LocateLoadedImage \/ InitHpet
  BY <1>1, <1>3, <1>5 DEF LocateLoadedImage, InitHpet, Quietly
<1>6. CASE InitVram \/ InitDisplay \/ AcpiTable \/ TakeOver \/ HpetDisable \/ HpetTimer \/ HpetEnable
  BY <1>1, <1>6
     DEF InitVram, InitDisplay, AcpiTable, TakeOver, HpetDisable, HpetTimer, HpetEnable, Quietly
<1>7. CASE SetGlobalVram \/ Lidt \/ InitPaging
  BY <1>7, QuietKeepsPrint DEF SetGlobalVram, Lidt, InitPaging, cpu, uart
<1>8. CASE InitPci
  <2>1. Running /\ (Quietly \/ Printing)
    BY <1>8 DEF InitPci, Step
  <2>2. QED
    BY <1>1, <1>2, <2>1 DEF Quietly
<1>9. CASE LoopbackOn \/ LoopbackOff \/ LoopbackSend \/ LoopbackReads
  <2>1. /\ Running /\ mode' = mode /\ print' = print /\ saved' = saved /\ loopback' \in BOOLEAN
    BY <1>0, <1>9
       DEF LoopbackOn, LoopbackOff, LoopbackSend, LoopbackReads, Step, SetLoopback, SendT, cpu
  <2>2. QED
    BY <2>1, KernelKeepsPrint DEF Running
<1>10. CASE LoopbackFails \/ Monitor
  <2>1. /\ Running /\ mode' = mode /\ Say("kernel") /\ saved' = saved /\ loopback' = loopback
    BY <1>10 DEF LoopbackFails, Monitor, Step
  <2>2. QED
    BY <1>0, <2>1, SayIsFresh, KernelKeepsPrint DEF Messages
<1>11. CASE StartMonitor
  BY <1>2, <1>11 DEF StartMonitor, Step
<1>12. CASE PanicHandler
  <2>1. mode' = "panic" /\ saved' = Idle /\ Say("panic") /\ loopback' = loopback
    BY <1>12 DEF PanicHandler, Panic
  <2>2. QED
    BY <1>0, <2>1, SayIsFresh, StartsAfresh DEF Messages
<1>13. CASE ChangeMap /\ UNCHANGED <<consoleVars, startupVars>>
  BY <1>1, <1>13
<1>14. CASE UNCHANGED allVars
  BY <1>1, <1>14 DEF allVars
<1>15. CASE UseNull
  <2>1. PICK vector : vector = 14 /\ Take(vector)
    BY <1>15, Zenon DEF UseNull
  <2>2. vector # 3
    BY <2>1
  <2>3. QED
    BY <2>1, <2>2, TakeKeepsPrint
<1>16. ASSUME ConsoleStep \/ Trap \/ Transmit \/ KeyPress PROVE PrintInv'
  BY <1>16, ConsoleKeepsPrint
<1>17. CASE Cpu
  BY <1>4, <1>5, <1>6, <1>7, <1>8, <1>9, <1>10, <1>11, <1>12, <1>15, <1>16, <1>17, Zenon DEF Cpu
<1>18. QED
  BY <1>13, <1>14, <1>16, <1>17, Zenon DEF StartupNext

LEMMA PrintInit == StartupInit => PrintInv
<1> SUFFICES ASSUME StartupInit PROVE PrintInv
  OBVIOUS
<1>1. mode = "kernel" /\ print = Idle /\ saved = Idle /\ loopback = FALSE
  BY DEF StartupInit, ConsoleInit
<1>2. Out(print) /\ Out(saved)
  BY <1>1, PrintTypes DEF Out
<1>3. Idle \in Prints /\ Idle.stage # "serial"
  BY PrintTypes
<1>4. QED
  BY <1>1, <1>2, <1>3 DEF PrintInv

(***************************************************************************)
(* What is printed gets out on the serial line, whatever exceptions come   *)
(* in between, for messages of any length.                                 *)
(***************************************************************************)
THEOREM MessagesGetOut == StartupSpec => []MessagesOut
<1>1. PrintInv => MessagesOut
  <2> SUFFICES ASSUME PrintInv, ~loopback, NEW i \in 1..(print.pos - 1)
               PROVE  <<print.msg, i>> \in line
    BY DEF MessagesOut
  <2>1. Out(print) /\ print.pos \in Nat
    BY PrintTypes DEF PrintInv
  <2>2. i \in 1..print.pos /\ i # print.pos
    BY <2>1
  <2>3. QED
    BY <2>1, <2>2 DEF Out
<1>2. QED
  BY <1>1, PrintInit, PrintStep, PTL DEF StartupSpec

(***************************************************************************)
(* The executor (Executor), which startup ends in: for any number of tasks *)
(* and any durations the lock is free whenever it is taken, no task is     *)
(* lost, doubled or polled after it returned, and the queue is served in   *)
(* order.                                                                  *)
(***************************************************************************)
\* A task is in the executor's hands exactly between pop_front and push_back.
HandsFull == thread \in {"poll", "run", "push"} <=> cur # NoTask

ExecutorInv ==
  /\ TypeOK
  /\ NeverPanics
  /\ is_taken = FALSE
  /\ HandsFull
  /\ TasksConserved

\* The tasks of a queue after push_back.
LEMMA QueuedAppend ==
  ASSUME NEW q \in Seq(Task), NEW t \in Task, NEW u
  PROVE  /\ Append(q, t) \in Seq(Task)
         /\ (\E i \in 1..Len(Append(q, t)) : Append(q, t)[i] = u)
              <=> ((\E i \in 1..Len(q) : q[i] = u) \/ u = t)
<1>1. Append(q, t) \in Seq(Task) /\ Len(Append(q, t)) = Len(q) + 1 /\ Len(q) \in Nat
      /\ Append(q, t)[Len(q) + 1] = t /\ \A i \in 1..Len(q) : Append(q, t)[i] = q[i]
  OBVIOUS
<1>2. QED
  BY <1>1

\* push_back of a task that is not in the queue keeps the entries distinct.
LEMMA DistinctAppend ==
  ASSUME NEW q \in Seq(Task), NEW t \in Task,
         \A i, j \in 1..Len(q) : q[i] = q[j] => i = j,
         ~\E i \in 1..Len(q) : q[i] = t
  PROVE  \A i, j \in 1..Len(Append(q, t)) : Append(q, t)[i] = Append(q, t)[j] => i = j
<1>1. Append(q, t) \in Seq(Task) /\ Len(Append(q, t)) = Len(q) + 1 /\ Len(q) \in Nat
      /\ Append(q, t)[Len(q) + 1] = t /\ \A i \in 1..Len(q) : Append(q, t)[i] = q[i]
  OBVIOUS
<1>2. QED
  BY <1>1

\* The tasks of a queue after pop_front.
LEMMA QueuedTail ==
  ASSUME NEW q \in Seq(Task), q # <<>>,
         \A i, j \in 1..Len(q) : q[i] = q[j] => i = j
  PROVE  /\ Tail(q) \in Seq(Task) /\ Head(q) \in Task
         /\ \A i, j \in 1..Len(Tail(q)) : Tail(q)[i] = Tail(q)[j] => i = j
         /\ ~\E i \in 1..Len(Tail(q)) : Tail(q)[i] = Head(q)
         /\ \A u : (\E i \in 1..Len(q) : q[i] = u)
                     <=> ((\E i \in 1..Len(Tail(q)) : Tail(q)[i] = u) \/ u = Head(q))
<1>1. /\ Len(q) \in Nat /\ Len(q) >= 1 /\ Tail(q) \in Seq(Task) /\ Len(Tail(q)) = Len(q) - 1
      /\ Head(q) = q[1] /\ \A i \in 1..(Len(q) - 1) : Tail(q)[i] = q[i + 1]
      /\ q[1] \in Task
  OBVIOUS
<1>2. \A i, j \in 1..Len(Tail(q)) : Tail(q)[i] = Tail(q)[j] => i = j
  <2> SUFFICES ASSUME NEW i \in 1..Len(Tail(q)), NEW j \in 1..Len(Tail(q)), Tail(q)[i] = Tail(q)[j]
               PROVE i = j
    OBVIOUS
  <2>1. q[i + 1] = q[j + 1] /\ i + 1 \in 1..Len(q) /\ j + 1 \in 1..Len(q)
    BY <1>1
  <2>2. QED
    BY <2>1
<1>3. ~\E i \in 1..Len(Tail(q)) : Tail(q)[i] = Head(q)
  <2> SUFFICES ASSUME NEW i \in 1..Len(Tail(q)), Tail(q)[i] = Head(q) PROVE FALSE
    OBVIOUS
  <2>1. q[i + 1] = q[1] /\ i + 1 \in 1..Len(q) /\ 1 \in 1..Len(q) /\ i + 1 # 1
    BY <1>1
  <2>2. QED
    BY <2>1
<1>4. ASSUME NEW u
      PROVE  (\E i \in 1..Len(q) : q[i] = u)
                <=> ((\E i \in 1..Len(Tail(q)) : Tail(q)[i] = u) \/ u = Head(q))
  <2>1. ASSUME NEW i \in 1..Len(q), q[i] = u
        PROVE (\E j \in 1..Len(Tail(q)) : Tail(q)[j] = u) \/ u = Head(q)
    <3>1. CASE i = 1
      BY <1>1, <2>1, <3>1
    <3>2. CASE i # 1
      <4>1. i - 1 \in 1..Len(Tail(q)) /\ Tail(q)[i - 1] = q[(i - 1) + 1] /\ (i - 1) + 1 = i
        BY <1>1, <3>2
      <4>2. QED
        BY <2>1, <4>1
    <3>3. QED
      BY <3>1, <3>2
  <2>2. ASSUME NEW i \in 1..Len(Tail(q)), Tail(q)[i] = u PROVE \E j \in 1..Len(q) : q[j] = u
    <3>1. i + 1 \in 1..Len(q) /\ q[i + 1] = u
      BY <1>1, <2>2
    <3>2. QED
      BY <3>1
  <2>3. ASSUME u = Head(q) PROVE \E j \in 1..Len(q) : q[j] = u
    BY <1>1, <2>3
  <2>4. QED
    BY <2>1, <2>2, <2>3
<1>5. QED
  BY <1>1, <1>2, <1>3, <1>4

(***************************************************************************)
(* The executor's invariant.                                               *)
(***************************************************************************)
THEOREM ExecutorSafety == ExecutorSpec => []ExecutorInv
<1> USE NoTaskAssumption, MaxSleepAssumption
<1>1. ExecutorInit => ExecutorInv
  <2> SUFFICES ASSUME ExecutorInit PROVE ExecutorInv
    OBVIOUS
  <2>1. queue = <<>> /\ Len(queue) = 0 /\ queue \in Seq(Task)
    BY DEF ExecutorInit
  <2>2. 0 \in Durations /\ 0 \in 0..(MaxSleep + 1)
    BY DEF Durations
  <2>3. waits \in [Task -> Await] /\ duration \in [Task -> Durations] /\ slept \in [Task -> 0..(MaxSleep + 1)]
    BY <2>2 DEF ExecutorInit, Await
  <2>4. TypeOK
    BY <2>1, <2>3 DEF ExecutorInit, TypeOK
  <2>5. \A t : ~Queued(t)
    BY <2>1 DEF Queued
  <2>6. \A t \in Task : ~Live(t) /\ cur # t
    BY DEF ExecutorInit, Live
  <2>7. TasksConserved
    BY <2>1, <2>5, <2>6 DEF TasksConserved
  <2>8. QED
    BY <2>4, <2>7 DEF ExecutorInit, ExecutorInv, NeverPanics, HandsFull
<1>2. ExecutorInv /\ [ExecutorNext]_execVars => ExecutorInv'
  <2> SUFFICES ASSUME ExecutorInv, [ExecutorNext]_execVars PROVE ExecutorInv'
    OBVIOUS
  <2>0. /\ TypeOK /\ NeverPanics /\ is_taken = FALSE /\ HandsFull /\ TasksConserved
        /\ queue \in Seq(Task) /\ waits \in [Task -> Await]
    BY DEF ExecutorInv, TypeOK
  <2>1. ASSUME NEW t \in Task, Spawn(t) PROVE ExecutorInv'
    <3>1. /\ thread \in {"boot", "run"} /\ waits[t] = "unborn"
          /\ queue' = Append(queue, t)
          /\ waits' = [waits EXCEPT ![t] = "nothing"]
          /\ UNCHANGED <<thread, cur, duration, slept, is_taken>>
      BY <2>0, <2>1 DEF Spawn, UnderLock, sleeps
    <3>2. ~Queued(t) /\ cur # t
      BY <2>0, <3>1 DEF TasksConserved, Live
    <3>3. /\ queue' \in Seq(Task)
          /\ \A u : Queued(u)' <=> (Queued(u) \/ u = t)
          /\ \A i, j \in 1..Len(queue') : queue'[i] = queue'[j] => i = j
      <4>1. /\ queue \in Seq(Task)
            /\ \A i, j \in 1..Len(queue) : queue[i] = queue[j] => i = j
            /\ ~\E i \in 1..Len(queue) : queue[i] = t
        BY <2>0, <3>2 DEF Queued, TasksConserved, TypeOK
      <4>2. /\ queue' \in Seq(Task)
            /\ \A u : (\E i \in 1..Len(queue') : queue'[i] = u)
                   <=> ((\E i \in 1..Len(queue) : queue[i] = u) \/ u = t)
        BY <3>1, <3>2, <4>1, QueuedAppend
      <4>3. \A i, j \in 1..Len(queue') : queue'[i] = queue'[j] => i = j
        BY <3>1, <3>2, <4>1, DistinctAppend
      <4>4. QED
        BY <4>2, <4>3, Zenon DEF Queued
    <3>4. TypeOK' /\ \A u \in Task : Live(u)' <=> (Live(u) \/ u = t)
      BY <2>0, <3>1, <3>3 DEF TypeOK, Await, Live
    <3>5. TasksConserved'
      BY <2>0, <3>1, <3>2, <3>3, <3>4 DEF TasksConserved
    <3>6. QED
      BY <2>0, <3>1, <3>4, <3>5 DEF ExecutorInv, NeverPanics, HandsFull
  <2>2. CASE StartGlobalExecutor
    BY <2>0, <2>2 DEF StartGlobalExecutor, sleeps, ExecutorInv, TypeOK, NeverPanics,
       HandsFull, TasksConserved,
       Live, Queued
  <2>3. CASE PopFront
    <3>1. CASE queue = <<>>
      <4>1. UNCHANGED <<thread, cur, queue, is_taken, waits, duration, slept>>
        BY <2>0, <2>3, <3>1 DEF PopFront, UnderLock, sleeps
      <4>2. QED
        BY <2>0, <4>1 DEF ExecutorInv, TypeOK, NeverPanics, HandsFull, TasksConserved,
           Live, Queued
    <3>2. CASE queue # <<>>
      <4>1. /\ thread = "pop" /\ thread' = "poll" /\ cur' = Head(queue) /\ queue' = Tail(queue)
            /\ UNCHANGED <<waits, duration, slept, is_taken>>
        BY <2>0, <2>3, <3>2 DEF PopFront, UnderLock, sleeps
      <4>2. cur = NoTask
        BY <2>0, <4>1 DEF HandsFull
      <4>3. /\ queue' \in Seq(Task) /\ cur' \in Task
            /\ \A i, j \in 1..Len(queue') : queue'[i] = queue'[j] => i = j
            /\ ~(\E i \in 1..Len(queue') : queue'[i] = cur')
            /\ \A u : Queued(u) <=> (Queued(u)' \/ u = cur')
        <5>1. \A i, j \in 1..Len(queue) : queue[i] = queue[j] => i = j
          BY <2>0 DEF TasksConserved
        <5>2. /\ Tail(queue) \in Seq(Task) /\ Head(queue) \in Task
              /\ \A i, j \in 1..Len(Tail(queue)) : Tail(queue)[i] = Tail(queue)[j] => i = j
              /\ ~\E i \in 1..Len(Tail(queue)) : Tail(queue)[i] = Head(queue)
              /\ \A u : (\E i \in 1..Len(queue) : queue[i] = u)
                     <=> ((\E i \in 1..Len(Tail(queue)) : Tail(queue)[i] = u) \/ u = Head(queue))
          BY <2>0, <3>2, <5>1, QueuedTail
        <5>3. QED
          BY <4>1, <5>2, Zenon DEF Queued
      <4>4. TypeOK' /\ \A u \in Task : Live(u)' <=> Live(u)
        BY <2>0, <4>1, <4>3 DEF TypeOK, Live
      <4>5. TasksConserved'
        <5>1. \A u \in Task : Live(u)' <=> (Queued(u)' \/ cur' = u)
          BY <2>0, <4>2, <4>3, <4>4 DEF TasksConserved
        <5>2. ~Queued(cur)'
          BY <4>3 DEF Queued
        <5>3. QED
          BY <4>3, <5>1, <5>2 DEF TasksConserved
      <4>6. QED
        BY <2>0, <4>1, <4>3, <4>4, <4>5 DEF ExecutorInv, NeverPanics, HandsFull
    <3>3. QED
      BY <3>1, <3>2
  <2>4. CASE PushBack
    <3>1. /\ thread = "push" /\ thread' = "pop" /\ cur' = NoTask /\ queue' = Append(queue, cur)
          /\ UNCHANGED <<waits, duration, slept, is_taken>>
      BY <2>0, <2>4 DEF PushBack, UnderLock, sleeps
    <3>2. cur \in Task /\ ~Queued(cur)
      BY <2>0, <3>1 DEF HandsFull, TypeOK, TasksConserved
    <3>3. /\ queue' \in Seq(Task)
          /\ \A u : Queued(u)' <=> (Queued(u) \/ u = cur)
          /\ \A i, j \in 1..Len(queue') : queue'[i] = queue'[j] => i = j
      <4>1. /\ queue \in Seq(Task)
            /\ \A i, j \in 1..Len(queue) : queue[i] = queue[j] => i = j
            /\ ~\E i \in 1..Len(queue) : queue[i] = cur
        BY <2>0, <3>2 DEF Queued, TasksConserved, TypeOK
      <4>2. /\ queue' \in Seq(Task)
            /\ \A u : (\E i \in 1..Len(queue') : queue'[i] = u)
                   <=> ((\E i \in 1..Len(queue) : queue[i] = u) \/ u = cur)
        BY <3>1, <3>2, <4>1, QueuedAppend
      <4>3. \A i, j \in 1..Len(queue') : queue'[i] = queue'[j] => i = j
        BY <3>1, <3>2, <4>1, DistinctAppend
      <4>4. QED
        BY <4>2, <4>3, Zenon DEF Queued
    <3>4. TypeOK' /\ \A u \in Task : Live(u)' <=> Live(u)
      BY <2>0, <3>1, <3>3 DEF TypeOK, Live
    <3>5. TasksConserved'
      <4>1. \A u \in Task : Live(u)' <=> (Queued(u)' \/ cur' = u)
        BY <2>0, <3>1, <3>3, <3>4 DEF TasksConserved
      <4>2. ~Queued(cur)'
        <5>1. \A i \in 1..Len(queue') : queue'[i] \in Task
          BY <3>3
        <5>2. QED
          BY <3>1, <5>1 DEF Queued
      <4>3. QED
        BY <3>3, <4>1, <4>2 DEF TasksConserved
    <3>6. QED
      BY <2>0, <3>1, <3>4, <3>5 DEF ExecutorInv, NeverPanics, HandsFull
  <2>5. CASE Poll
    <3>1. /\ thread = "poll" /\ thread' \in {"run", "push"} /\ waits[cur] \in {"nothing", "yield", "yielded", "sleep"}
          /\ (waits' = waits \/ \E w \in {"nothing", "yielded"} : waits' = [waits EXCEPT ![cur] = w])
          /\ UNCHANGED <<cur, queue, is_taken, duration, slept>>
      BY <2>5 DEF Poll, sleeps
    <3>2. cur \in Task
      BY <2>0, <3>1 DEF HandsFull, TypeOK
    <3>3. TypeOK' /\ \A u \in Task : Live(u)' <=> Live(u)
      BY <2>0, <3>1, <3>2 DEF TypeOK, Live, Await
    <3>4. TasksConserved'
      BY <2>0, <3>1, <3>3 DEF TasksConserved, Queued
    <3>5. QED
      BY <2>0, <3>1, <3>3, <3>4 DEF ExecutorInv, NeverPanics, HandsFull
  <2>6. ASSUME YieldExecution \/ \E d \in Durations : SleepPending(d) PROVE ExecutorInv'
    <3>1. /\ thread = "run" /\ thread' \in {"poll", "push"}
          /\ \E w \in {"yield", "sleep"} : waits' = [waits EXCEPT ![cur] = w]
          /\ UNCHANGED <<cur, queue, is_taken>>
      BY <2>6 DEF YieldExecution, SleepPending
    <3>2. cur \in Task
      BY <2>0, <3>1 DEF HandsFull, TypeOK
    <3>3. duration' \in [Task -> Durations] /\ slept' \in [Task -> 0..(MaxSleep + 1)]
      <4>1. CASE YieldExecution
        BY <2>0, <4>1 DEF YieldExecution, sleeps, TypeOK
      <4>2. ASSUME NEW d \in Durations, SleepPending(d)
            PROVE duration' \in [Task -> Durations] /\ slept' \in [Task -> 0..(MaxSleep + 1)]
        <5>1. duration' = [duration EXCEPT ![cur] = d] /\ slept' = [slept EXCEPT ![cur] = 0]
          BY <4>2 DEF SleepPending
        <5>2. duration \in [Task -> Durations] /\ slept \in [Task -> 0..(MaxSleep + 1)]
          BY <2>0 DEF TypeOK
        <5>3. 0 \in 0..(MaxSleep + 1)
          OBVIOUS
        <5>4. QED
          BY <3>2, <5>1, <5>2, <5>3
      <4>3. QED
        BY <2>6, <4>1, <4>2
    <3>4. Live(cur)
      BY <2>0, <3>2 DEF TasksConserved
    <3>5. TypeOK' /\ \A u \in Task : Live(u)' <=> Live(u)
      BY <2>0, <3>1, <3>2, <3>3, <3>4 DEF TypeOK, Live, Await
    <3>6. TasksConserved'
      BY <2>0, <3>1, <3>5 DEF TasksConserved, Queued
    <3>7. QED
      BY <2>0, <3>1, <3>5, <3>6 DEF ExecutorInv, NeverPanics, HandsFull
  <2>7. CASE Complete
    <3>1. /\ thread = "run" /\ thread' = "pop" /\ cur' = NoTask
          /\ waits' = [waits EXCEPT ![cur] = "done"]
          /\ UNCHANGED <<queue, is_taken, duration, slept>>
      BY <2>7 DEF Complete, sleeps
    <3>2. cur \in Task /\ ~Queued(cur)
      BY <2>0, <3>1 DEF HandsFull, TypeOK, TasksConserved
    <3>3. TypeOK' /\ \A u \in Task : Live(u)' <=> (Live(u) /\ u # cur)
      BY <2>0, <3>1, <3>2 DEF TypeOK, Live, Await
    <3>4. \A u : Queued(u)' <=> Queued(u)
      BY <3>1 DEF Queued
    <3>5. ~Queued(NoTask)
      BY <2>0 DEF Queued
    <3>6. TasksConserved'
      BY <2>0, <3>1, <3>2, <3>3, <3>4, <3>5 DEF TasksConserved
    <3>7. QED
      BY <2>0, <3>1, <3>3, <3>6 DEF ExecutorInv, NeverPanics, HandsFull
  <2>8. CASE Tick
    <3>1. slept' \in [Task -> 0..(MaxSleep + 1)] /\ UNCHANGED <<thread, cur, queue, is_taken, waits, duration>>
      BY <2>0, <2>8 DEF Tick, TypeOK
    <3>2. QED
      BY <2>0, <3>1 DEF ExecutorInv, TypeOK, NeverPanics, HandsFull, TasksConserved,
         Live, Queued
  <2>9. CASE UNCHANGED execVars
    BY <2>0, <2>9 DEF execVars, sleeps, ExecutorInv, TypeOK, NeverPanics, HandsFull,
       TasksConserved, Live, Queued
  <2>10. CASE \E d \in Durations : Sleep(d)
    BY <2>6, <2>9, <2>10, Zenon DEF Sleep
  <2>11. QED
    BY <2>1, <2>2, <2>3, <2>4, <2>5, <2>6, <2>7, <2>8, <2>9, <2>10, Zenon DEF ExecutorNext, Run, RunTask
<1>3. QED
  BY <1>1, <1>2, PTL DEF ExecutorSpec

\* spawn_global, pop_front and push_back always find the mutex free.
THEOREM LockAlwaysFree == ExecutorSpec => []NeverPanics
BY ExecutorSafety, PTL DEF ExecutorInv

\* Every task that was spawned and has not returned is kept exactly once.
THEOREM NoTaskLost == ExecutorSpec => []TasksConserved
BY ExecutorSafety, PTL DEF ExecutorInv

\* The queue is served in order: pop_front takes the first, push_back and
\* spawn go behind everybody who is waiting.
THEOREM QueueInOrder == ExecutorSpec => NoOvertaking
<1>1. ASSUME ExecutorInv, [ExecutorNext]_execVars, NEW t \in Task, NEW u \in Task, Ahead(t, u)
      PROVE  Ahead(t, u)' \/ cur' = t
  <2>0. queue \in Seq(Task) /\ is_taken = FALSE
    BY <1>1 DEF ExecutorInv, TypeOK
  <2>1. PICK i \in 1..Len(queue), j \in 1..Len(queue) : i < j /\ queue[i] = t /\ queue[j] = u
    BY <1>1 DEF Ahead
  <2>2. ASSUME NEW x, queue' = Append(queue, x) PROVE Ahead(t, u)'
    <3>1. i \in 1..Len(queue') /\ j \in 1..Len(queue') /\ queue'[i] = t /\ queue'[j] = u
      BY <2>0, <2>1, <2>2
    <3>2. QED
      BY <2>1, <3>1 DEF Ahead
  <2>3. ASSUME UNCHANGED queue PROVE Ahead(t, u)'
    BY <1>1, <2>3 DEF Ahead
  <2>4. ASSUME PopFront PROVE Ahead(t, u)' \/ cur' = t
    <3>1. queue' = Tail(queue) /\ cur' = Head(queue)
      BY <2>0, <2>1, <2>4 DEF PopFront, UnderLock
    <3>2. CASE i = 1
      BY <2>0, <2>1, <3>1, <3>2
    <3>3. CASE i # 1
      <4>1. /\ i - 1 \in 1..Len(queue') /\ j - 1 \in 1..Len(queue') /\ i - 1 < j - 1
            /\ queue'[i - 1] = t /\ queue'[j - 1] = u
        <5>1. Len(queue') = Len(queue) - 1 /\ \A k \in 1..(Len(queue) - 1) : queue'[k] = queue[k + 1]
          BY <2>0, <2>1, <3>1
        <5>2. i - 1 \in 1..(Len(queue) - 1) /\ j - 1 \in 1..(Len(queue) - 1) /\ (i - 1) + 1 = i /\ (j - 1) + 1 = j
          BY <2>0, <2>1, <3>3
        <5>3. QED
          BY <2>1, <5>1, <5>2
      <4>2. QED
        BY <4>1 DEF Ahead
    <3>4. QED
      BY <3>2, <3>3
  <2>5. ASSUME NEW s \in Task, Spawn(s) PROVE queue' = Append(queue, s)
    BY <2>0, <2>5 DEF Spawn, UnderLock
  <2>6. ASSUME PushBack PROVE queue' = Append(queue, cur)
    BY <2>0, <2>6 DEF PushBack, UnderLock
  <2>7. ASSUME StartGlobalExecutor \/ Poll \/ RunTask \/ Tick \/ UNCHANGED execVars PROVE UNCHANGED queue
    BY <2>7 DEF StartGlobalExecutor, Poll, RunTask, YieldExecution, Sleep,
       SleepPending, Complete, Tick, execVars
  <2>8. QED
    BY <1>1, <2>2, <2>3, <2>4, <2>5, <2>6, <2>7, Zenon DEF ExecutorNext, Run
<1>2. ASSUME ExecutorInv, [ExecutorNext]_execVars, NEW t \in Task, NEW u \in Task,
             Queued(t), ~Queued(u), Queued(u)'
      PROVE  Ahead(t, u)'
  <2>0. queue \in Seq(Task) /\ is_taken = FALSE
    BY <1>2 DEF ExecutorInv, TypeOK
  <2>1. PICK i \in 1..Len(queue) : queue[i] = t
    BY <1>2 DEF Queued
  <2>2. PICK j \in 1..Len(queue') : queue'[j] = u
    BY <1>2 DEF Queued
  <2>3. ASSUME NEW x, queue' = Append(queue, x) PROVE Ahead(t, u)'
    <3>1. Len(queue') = Len(queue) + 1 /\ \A k \in 1..Len(queue) : queue'[k] = queue[k]
      BY <2>0, <2>3
    <3>2. j = Len(queue) + 1
      BY <1>2, <2>0, <2>2, <3>1 DEF Queued
    <3>3. i \in 1..Len(queue') /\ i < j /\ queue'[i] = t
      BY <2>0, <2>1, <3>1, <3>2
    <3>4. QED
      BY <2>2, <3>3 DEF Ahead
  <2>4. queue' # queue
    BY <1>2 DEF Queued
  <2>5. ~PopFront
    <3>1. SUFFICES ASSUME PopFront PROVE FALSE
      OBVIOUS
    <3>2. queue' = Tail(queue) /\ queue # <<>>
      BY <2>0, <2>4, <3>1 DEF PopFront, UnderLock
    <3>3. j + 1 \in 1..Len(queue) /\ queue[j + 1] = u
      BY <2>0, <2>2, <3>2
    <3>4. QED
      BY <1>2, <3>3 DEF Queued
  <2>6. ASSUME NEW s \in Task, Spawn(s) PROVE queue' = Append(queue, s)
    BY <2>0, <2>6 DEF Spawn, UnderLock
  <2>7. ASSUME PushBack PROVE queue' = Append(queue, cur)
    BY <2>0, <2>7 DEF PushBack, UnderLock
  <2>8. ASSUME StartGlobalExecutor \/ Poll \/ RunTask \/ Tick \/ UNCHANGED execVars PROVE queue' = queue
    BY <2>8 DEF StartGlobalExecutor, Poll, RunTask, YieldExecution, Sleep,
       SleepPending, Complete, Tick, execVars
  <2>9. QED
    BY <1>2, <2>3, <2>4, <2>5, <2>6, <2>7, <2>8, Zenon DEF ExecutorNext, Run
<1>3. ExecutorInv /\ [ExecutorNext]_execVars => [\A t, u \in Task : ~Overtakes(u, t)]_execVars
  BY <1>1, <1>2, Zenon DEF Overtakes
<1>4. QED
  BY <1>3, ExecutorSafety, PTL DEF ExecutorSpec, NoOvertaking
=============================================================================
