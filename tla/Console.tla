------------------------------ MODULE Console -------------------------------
(***************************************************************************)
(* print.rs, serial.rs, qemu.rs, the panic handler of main.rs and the      *)
(* exception handlers of x86.rs: how a message gets out of the kernel,     *)
(* also when the kernel is in trouble.                                     *)
(*                                                                         *)
(* global_print sends the message to the serial port, character by         *)
(* character, and then draws it under the lock of GLOBAL_VRAM_WRITER.  An  *)
(* exception may come at any point of that.  Its handler prints, and so    *)
(* does the panic handler; neither returns to what it has interrupted,     *)
(* except for a breakpoint.                                                *)
(*                                                                         *)
(* A message is its kind, a character of it is <<kind, position>>; the     *)
(* last character is the newline.                                          *)
(***************************************************************************)
EXTENDS Integers, Sequences

CONSTANTS
  LEN,          \* characters of a message
  RX_DEPTH,     \* characters the receiver of the UART holds
  MAX_TRAPS,    \* bound on exceptions other than those of drawing
  None          \* no character

\* The kinds of messages; "T" and "key" are characters of their own.
Messages == {"kernel", "exception", "panic", "exit"}

ASSUME ConsoleAssumption ==
  /\ LEN \in Nat \ {0} /\ RX_DEPTH \in Nat /\ MAX_TRAPS \in Nat
  /\ None \notin (Messages \union {"T", "key"}) \X (1..LEN)

VARIABLES
  mode,         \* who runs: the kernel, a handler, or nobody any more
  print,        \* the call of global_print that runs: message, characters sent, stage
  saved,        \* the call a breakpoint has interrupted
  locked,       \* GLOBAL_VRAM_WRITER.is_taken
  writer,       \* it holds Some(w)
  mapped,       \* the frame buffer is mapped
  idt,          \* the kernel's IDT is loaded
  thr,          \* UART: the character in the transmitter, or None
  rx,           \* UART: the characters received
  loopback,     \* UART: bit 4 of MCR
  line,         \* the characters that have gone out on the line
  traps,        \* exceptions so far
  drawTrapped   \* an exception has interrupted the drawing

cpu == <<mode, print, saved, traps, drawTrapped>>
uart == <<thr, rx, loopback, line>>
screen == <<locked, writer, mapped>>
consoleVars == <<cpu, uart, screen, idt>>

Idle == [msg |-> "", pos |-> 0, stage |-> "idle"]

\* The state the firmware leaves: nothing on the screen, no IDT of ours.
ConsoleInit ==
  /\ mode = "kernel" /\ print = Idle /\ saved = Idle
  /\ locked = FALSE /\ writer = FALSE /\ mapped = TRUE /\ idt = FALSE
  /\ thr = None /\ rx = <<>> /\ loopback = FALSE /\ line = {}
  /\ traps = 0 /\ drawTrapped = FALSE

-----------------------------------------------------------------------------
(* global_print                                                            *)

\* Mutant: the screen first.
ScreenFirst == <<"screen", "serial">>

Order == <<"serial", "screen">>

\* exit_qemu writes to the port only.
FirstStage(m) == IF m = "exit" THEN "serial" ELSE Order[1]

\* A call for message m; line forgets the one before of that kind.
Say(m) ==
  /\ print' = [msg |-> m, pos |-> 0, stage |-> FirstStage(m)]
  /\ line' = {c \in line : c[1] # m}

\* The call goes on after one of its two parts.
GoOn(stage, pos) ==
  print' = IF stage = Order[1] /\ print.msg # "exit"
           THEN [print EXCEPT !.pos = pos, !.stage = Order[2]]
           ELSE Idle

\* panic!: the panic handler prints; what was interrupted is never resumed.
Panic == mode' = "panic" /\ saved' = Idle /\ Say("panic")

\* Mutant: does not wait for the transmitter.
TransmitterAny == TRUE

\* send_char's wait: LSR says that the transmitter is empty.
TransmitterEmpty == thr = None

\* send_str: one character.
SendChar ==
  /\ print.stage = "serial"
  /\ TransmitterEmpty
  /\ thr' = <<print.msg, print.pos + 1>>
  /\ IF print.pos + 1 < LEN THEN print' = [print EXCEPT !.pos = @ + 1]
                            ELSE GoOn("serial", LEN)
  /\ UNCHANGED <<mode, saved, traps, drawTrapped, rx, loopback, line, screen, idt>>

\* lock() panics if the writer is taken: nobody else can release it while
\* this thread tries.
LockFails ==
  /\ print.stage = "screen" /\ locked
  /\ Panic
  /\ UNCHANGED <<traps, drawTrapped, thr, rx, loopback, screen, idt>>

\* There may be no writer yet.
Lock ==
  /\ print.stage = "screen" /\ ~locked
  /\ IF writer THEN print' = [print EXCEPT !.stage = "draw"] /\ locked' = TRUE
               ELSE GoOn("screen", print.pos) /\ UNCHANGED locked
  /\ UNCHANGED <<mode, saved, traps, drawTrapped, uart, writer, mapped, idt>>

\* Mutant: the guard is not dropped.
DrawKeepingGuard ==
  /\ print.stage = "draw" /\ mapped
  /\ GoOn("screen", print.pos)
  /\ UNCHANGED <<mode, saved, traps, drawTrapped, uart, screen, idt>>

\* write_str of BitmapTextWriter, and the drop of the guard.
Draw ==
  /\ print.stage = "draw" /\ mapped
  /\ GoOn("screen", print.pos) /\ locked' = FALSE
  /\ UNCHANGED <<mode, saved, traps, drawTrapped, uart, writer, mapped, idt>>

-----------------------------------------------------------------------------
(* Exceptions                                                              *)

\* The vectors the IDT has entry points for; the others have
\* int_handler_unimplemented.
Vectors == {3, 6, 8, 13, 14, 32}

\* A vector is taken.  Before lidt the handlers are the firmware's, and they
\* stop the machine.
Take(vector) ==
  /\ drawTrapped' = (drawTrapped \/ print.stage = "draw")
  /\ UNCHANGED <<thr, rx, loopback, screen, idt>>
  /\ IF ~idt THEN mode' = "dead" /\ print' = Idle /\ UNCHANGED <<saved, line>>
     ELSE IF vector \notin Vectors THEN Panic
     ELSE /\ mode' = (IF vector = 3 THEN "breakpoint" ELSE "exception")
          /\ saved' = (IF vector = 3 THEN print ELSE Idle)
          /\ Say("exception")

\* Any instruction may fault or be interrupted, in the handlers too.  All
\* handlers but that of the double fault share one stack, so a handler that is
\* interrupted is not resumed; only the kernel's own code has breakpoints.
Trap ==
  /\ mode \in {"kernel", "breakpoint", "exception", "panic", "exit"}
  /\ traps < MAX_TRAPS /\ traps' = traps + 1
  /\ \E vector \in {3, 14, 255} : (vector = 3 => mode = "kernel") /\ Take(vector)

\* The page fault of drawing to a frame buffer that is not mapped.
DrawFault ==
  /\ print.stage = "draw" /\ ~mapped
  /\ Take(14)
  /\ UNCHANGED traps

\* The end of inthandler: iretq after a breakpoint, panic! otherwise.
Inthandler ==
  /\ print = Idle
  /\ \/ /\ mode = "breakpoint"
        /\ mode' = "kernel" /\ print' = saved /\ saved' = Idle
        /\ UNCHANGED line
     \/ mode = "exception" /\ Panic
  /\ UNCHANGED <<traps, drawTrapped, thr, rx, loopback, screen, idt>>

-----------------------------------------------------------------------------
(* exit_qemu                                                               *)

\* SerialPort::init: the FIFOs are cleared and MCR is set, bit 4 zero.
SerialInit == thr' = None /\ rx' = <<>> /\ loopback' = FALSE

\* The panic message is out; exit_qemu starts.
PanicPrinted ==
  /\ mode = "panic" /\ print = Idle
  /\ SerialInit
  /\ mode' = "exit" /\ Say("exit")
  /\ UNCHANGED <<saved, traps, drawTrapped, screen, idt>>

\* ... and writes the exit code to port 0xf4.
WriteExitCode ==
  /\ mode = "exit" /\ print = Idle
  /\ mode' = "exited"
  /\ UNCHANGED <<print, saved, traps, drawTrapped, uart, screen, idt>>

-----------------------------------------------------------------------------
(* The serial port's receiver                                              *)

\* loopback_test: MCR, then send_char('T').
SetLoopback(on) == loopback' = on /\ UNCHANGED <<thr, rx, line>>

SendT == TransmitterEmpty /\ thr' = <<"T", 1>> /\ UNCHANGED <<rx, loopback, line>>

\* try_read with a character there: it is Head(rx), and writing FCR clears
\* both FIFOs.
TryReadSome == rx # <<>> /\ rx' = <<>> /\ thr' = None

\* The UART (external): a character leaves the transmitter, for the line or
\* in loopback for its own receiver.
Received(c) == rx' = IF Len(rx) < RX_DEPTH THEN Append(rx, c) ELSE rx

Transmit ==
  /\ thr # None
  /\ thr' = None
  /\ IF loopback THEN Received(thr) /\ UNCHANGED line
                 ELSE line' = line \union {thr} /\ UNCHANGED rx
  /\ UNCHANGED <<loopback, cpu, screen, idt>>

\* A character comes in on the line, which is cut off in loopback.
KeyPress ==
  /\ ~loopback /\ Len(rx) < RX_DEPTH
  /\ Received(<<"key", 1>>)
  /\ UNCHANGED <<thr, loopback, line, cpu, screen, idt>>

-----------------------------------------------------------------------------
\* What the processor does in a print, a handler or exit_qemu.
ConsoleStep ==
  \/ SendChar \/ LockFails \/ Lock \/ Draw \/ DrawFault
  \/ Inthandler \/ PanicPrinted \/ WriteExitCode

\* The kernel's own code runs.
Running == mode = "kernel" /\ print = Idle

-----------------------------------------------------------------------------
(* Properties                                                              *)

\* Serial output is complete: outside loopback mode every character of the
\* message being printed, up to the one just handed to the UART, has gone out
\* on the line.  Breakpoints in the middle of it and FIFO resets of try_read
\* and exit_qemu cost at most a newline.
MessagesOut ==
  ~loopback => \A i \in 1..(print.pos - 1) : <<print.msg, i>> \in line

\* Whatever is locked when the kernel panics, the panic message gets out on
\* the serial line, unless the port was left in loopback mode, or another
\* exception comes before there are handlers.
PanicReported ==
  (mode = "panic" /\ ~loopback)
     ~> (mode = "dead" \/ \A i \in 1..(LEN - 1) : <<"panic", i>> \in line)
=============================================================================
