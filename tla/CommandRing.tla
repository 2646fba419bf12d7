---------------------------- MODULE CommandRing -----------------------------
(***************************************************************************)
(* xhci.rs: CommandRing and TrbRing, the rings on which the driver hands   *)
(* commands and control transfers to the host controller.  The ring has    *)
(* NUM_TRB entries, the last of them a Link TRB back to the first.  Each   *)
(* entry has a cycle bit; the controller owns an entry when the bit equals *)
(* its own cycle state.                                                    *)
(*                                                                         *)
(* push writes the TRB with a cycle bit the controller does not accept,    *)
(* then flips the bit: two stores that the controller, which reads the     *)
(* same memory, sees one after the other.  So push is three steps here     *)
(* (write, publish, follow the Link), between any two of which the         *)
(* controller may run.                                                     *)
(*                                                                         *)
(* The users of the ring are send_command and the request_* functions:     *)
(* they push one, two or three TRBs, ring the doorbell once, and wait for  *)
(* the completion of one of them before they use the ring again.           *)
(***************************************************************************)
EXTENDS Integers, Sequences

CONSTANTS
  NUM_TRB,   \* entries of a ring, 16 in the code
  Body       \* what a TRB carries: type, pointers and flags

\* Four TRBs can be on the ring at once (see AtMostFour), one entry is the
\* Link, and the driver must not come round to the Link again before the
\* controller has followed it.
ASSUME RingSizeAssumption == NUM_TRB \in Nat /\ NUM_TRB >= 6
ASSUME BodyAssumption == Body # {}

Last == NUM_TRB - 1              \* the index of the Link TRB
Slots == 0..Last
Bit == {0, 1}                    \* a cycle bit; 1 - c is the other one

(***************************************************************************)
(* The uses of a ring: how many TRBs are pushed, and how many of them come *)
(* after the one whose completion is awaited.                              *)
(*   send_command                        one command, awaited              *)
(*   request_set_config/interface/protocol   Setup, Status (awaited)       *)
(*   request_descriptor, request_report_bytes  Setup, Data (awaited), Status *)
(***************************************************************************)
Uses == {[trbs |-> 1, after |-> 0], [trbs |-> 2, after |-> 0], [trbs |-> 3, after |-> 1]}

NoUse == [trbs |-> 0, after |-> 0]

VARIABLES
  trb,        \* the ring in memory: index |-> [cycle, body]
  index,      \* TrbRing.current_index
  ours,       \* CommandRing.cycle_state_ours
  pc,         \* where the driver is
  use,        \* the use of the ring under way, and
  left,       \* how many of its TRBs are still to be pushed
  hwIndex,    \* the controller's dequeue index
  hwCycle,    \* its consumer cycle state
  running     \* it is processing the ring

driverVars == <<index, ours, pc, use, left>>
hwVars == <<hwIndex, hwCycle, running>>
vars == <<trb, driverVars, hwVars>>

\* IoBox::new zeroes the ring; set_cmd_ring_ctrl and set_dequeue_cycle_state
\* give the controller the cycle state 1.  No body is read before it is
\* written: any will do.
Init ==
  /\ \E b \in Body : trb = [i \in Slots |-> [cycle |-> 0, body |-> b]]
  /\ index = 0
  /\ ours = 0
  /\ pc = "idle"
  /\ use = NoUse
  /\ left = 0
  /\ hwIndex = 0
  /\ hwCycle = 1
  /\ running = FALSE

-----------------------------------------------------------------------------
(* The driver                                                              *)

\* send_command or a request_* function begins.
StartUse(u) ==
  /\ pc = "idle"
  /\ pc' = "write"
  /\ use' = u
  /\ left' = u.trbs
  /\ UNCHANGED <<trb, index, ours, hwVars>>

\* Mutant: the TRB is written with the bit of the controller at once.
PushWriteOwned(b) ==
  /\ pc = "write"
  /\ trb' = [trb EXCEPT ![index] = [cycle |-> 1 - ours, body |-> b]]
  /\ pc' = "publish"
  /\ UNCHANGED <<index, ours, use, left, hwVars>>

\* push, up to write_current: the entry must carry our cycle bit, and the new
\* TRB is written with the same bit.
PushWrite(b) ==
  /\ pc = "write"
  /\ IF trb[index].cycle # ours
     THEN pc' = "ring full" /\ UNCHANGED trb
     ELSE /\ trb' = [trb EXCEPT ![index] = [cycle |-> ours, body |-> b]]
          /\ pc' = "publish"
  /\ UNCHANGED <<index, ours, use, left, hwVars>>

\* TrbRing::advance_index(!ours): Err if the bit is the new one already.
AdvanceIndex ==
  /\ trb' = [trb EXCEPT ![index] = [cycle |-> 1 - ours, body |-> @.body]]
  /\ index' = (index + 1) % NUM_TRB

AfterPush == IF left = 1 THEN "notify" ELSE "write"

\* push: the TRB is published; behind the last one comes the Link.
PushPublish ==
  /\ pc = "publish"
  /\ IF trb[index].cycle = 1 - ours
     THEN pc' = "cycle error" /\ UNCHANGED <<trb, index, left>>
     ELSE /\ AdvanceIndex
          /\ pc' = IF index' = Last THEN "link" ELSE AfterPush
          /\ left' = left - 1
  /\ UNCHANGED <<ours, use, hwVars>>

\* Mutant: our cycle state is not toggled at the Link.
PushLinkNoToggle ==
  /\ pc = "link"
  /\ AdvanceIndex
  /\ pc' = IF left = 0 THEN "notify" ELSE "write"
  /\ UNCHANGED <<ours, use, left, hwVars>>

\* push: the Link TRB is published too and our cycle state toggles.
PushLink ==
  /\ pc = "link"
  /\ IF trb[index].cycle = 1 - ours
     THEN pc' = "cycle error" /\ UNCHANGED <<trb, index, ours>>
     ELSE /\ AdvanceIndex
          /\ ours' = 1 - ours
          /\ pc' = IF left = 0 THEN "notify" ELSE "write"
  /\ UNCHANGED <<use, left, hwVars>>

\* Mutant: the doorbell is not rung.
NotifyNobody ==
  /\ pc = "notify"
  /\ pc' = "wait"
  /\ UNCHANGED <<trb, index, ours, use, left, hwVars>>

\* notify_xhc or notify_ep: the doorbell.
Notify ==
  /\ pc = "notify"
  /\ running' = TRUE
  /\ pc' = "wait"
  /\ UNCHANGED <<trb, index, ours, use, left, hwIndex, hwCycle>>

\* TRBs the controller has still to take.
Outstanding ==
  IF hwCycle = 1 - ours THEN index - hwIndex ELSE (Last - hwIndex) + index

\* Mutant: the completion is not awaited.
CompletedAtOnce ==
  /\ pc = "wait"
  /\ pc' = "idle"
  /\ use' = NoUse
  /\ UNCHANGED <<trb, index, ours, left, hwVars>>

\* The EventFuture of the awaited TRB is ready: the controller has gone past it.
Completed ==
  /\ pc = "wait"
  /\ Outstanding <= use.after
  /\ pc' = "idle"
  /\ use' = NoUse
  /\ UNCHANGED <<trb, index, ours, left, hwVars>>

-----------------------------------------------------------------------------
(* The controller (external): it takes the TRBs whose cycle bit is its own, *)
(* follows the Link, whose toggle bit flips its cycle state, and stops at   *)
(* the first TRB that is not its own until the next doorbell.               *)

HwTake ==
  /\ running
  /\ trb[hwIndex].cycle = hwCycle
  /\ hwIndex # Last
  /\ hwIndex' = hwIndex + 1
  /\ UNCHANGED <<trb, driverVars, hwCycle, running>>

HwLink ==
  /\ running
  /\ trb[hwIndex].cycle = hwCycle
  /\ hwIndex = Last
  /\ hwIndex' = 0
  /\ hwCycle' = 1 - hwCycle
  /\ UNCHANGED <<trb, driverVars, running>>

HwStop ==
  /\ running
  /\ trb[hwIndex].cycle # hwCycle
  /\ running' = FALSE
  /\ UNCHANGED <<trb, driverVars, hwIndex, hwCycle>>

Push == (\E b \in Body : PushWrite(b)) \/ PushPublish \/ PushLink

Hardware == HwTake \/ HwLink \/ HwStop

Next == \/ \E u \in Uses : StartUse(u)
        \/ \E b \in Body : PushWrite(b)
        \/ PushPublish
        \/ PushLink
        \/ Notify
        \/ Completed
        \/ HwTake
        \/ HwLink
        \/ HwStop

\* The driver runs on: the code between two awaits is not interruptible, and
\* the executor polls a ready future again.  The controller serves a doorbell.
Fairness == WF_vars(Push) /\ WF_vars(Notify) /\ WF_vars(Completed) /\ WF_vars(Hardware)

Spec == Init /\ [][Next]_vars /\ Fairness

-----------------------------------------------------------------------------
(* Properties                                                              *)

PC == {"idle", "write", "publish", "link", "notify", "wait", "ring full", "cycle error"}

\* The ring, the indices and the driver's counters stay in range.
TypeOK ==
  /\ trb \in [Slots -> [cycle : Bit, body : Body]]
  /\ index \in Slots
  /\ ours \in Bit
  /\ pc \in PC
  /\ use \in Uses \union {NoUse}
  /\ left \in 0..3
  /\ hwIndex \in Slots
  /\ hwCycle \in Bit
  /\ running \in BOOLEAN

\* push never returns an error: neither "Command Ring is Full" nor "cycle
\* state does not change".  (The full check looks at the producer's own bits
\* and cannot see a slow controller; what keeps the ring from overflowing is
\* the way it is used.)
PushNeverFails == pc \notin {"ring full", "cycle error"}

\* The controller owns exactly the entries that were published and not yet
\* taken: it never sees a half-written TRB as its own, and never stops in
\* front of a published one.
ControllerSeesPublished ==
  (trb[hwIndex].cycle = hwCycle) <=>
     \/ Outstanding > 0
     \/ hwIndex = Last /\ index # Last

\* At most four TRBs are outstanding: the Status stage of a finished transfer
\* and the three TRBs of the next one.
AtMostFour == Outstanding \in 0..4

\* The index of the k-th entry behind the controller's, not counting the Link.
SlotAhead(k) == IF hwIndex + k < Last THEN hwIndex + k ELSE hwIndex + k - Last

\* The ring as a channel: the outstanding TRBs, in ring order.
Pending == [k \in 1..Outstanding |-> trb[SlotAhead(k - 1)].body]

Channel == INSTANCE TrbChannel WITH pending <- Pending

\* Seen from both sides the ring is a FIFO channel: publishing a TRB appends
\* it, the controller takes the oldest, and no other store to the ring (the
\* first write of a TRB, the Link) changes what the controller will read.
ImplementsChannel == Channel!Spec

\* A submitted command or transfer is taken: no doorbell is lost between the
\* controller's last look at the ring and the publication of a TRB.
SubmissionsComplete == (pc = "wait") ~> (pc = "idle")
=============================================================================
