-------------------------------- MODULE Xhci --------------------------------
(***************************************************************************)
(* xhci.rs: how the USB driver, the event-polling task and the controller  *)
(* work together.  The driver (Controller::run, then the keyboard or the   *)
(* tablet driver) issues one request at a time: it pushes TRBs, rings a    *)
(* doorbell, registers a waiter for one of the TRBs and awaits its event.  *)
(* The polling task takes events from the event ring and hands them to the *)
(* waiters that match.                                                     *)
(*                                                                         *)
(* Both tasks run on one thread and give it up only at an await, but the   *)
(* controller runs beside them: it may take a TRB and post its completion  *)
(* before the driver has registered the waiter.                            *)
(*                                                                         *)
(* The rings are channels here; CommandRing and EventRing show that they   *)
(* are.  A TRB's address is its place in the ring, and comes round again.  *)
(***************************************************************************)
EXTENDS Integers, Sequences, FiniteSets

CONSTANTS
  PLACES,      \* entries of a ring that hold TRBs (NUM_TRB - 1)
  MAX_EVENTS,  \* events the event ring has room for
  NUM_PORTS,   \* CapabilityRegisters.num_of_ports
  MAX_SLOTS,   \* CapabilityRegisters.num_of_device_slots
  Waiter       \* identities for EventWaitInfo allocations

ASSUME SizesAssumption ==
  /\ PLACES \in Nat /\ PLACES >= 5
  /\ MAX_EVENTS \in Nat /\ MAX_EVENTS >= 1
  /\ NUM_PORTS \in Nat /\ NUM_PORTS >= 1
  /\ MAX_SLOTS \in Nat /\ MAX_SLOTS >= 1

Ring == {"command", "endpoint"}
Addr == Ring \X (0..(PLACES - 1))
NoAddr == <<"port", 0>>          \* the data of a port status change event
Code == {"success", "short_packet", "error"}
Event == [addr : Addr \union {NoAddr}, code : Code, slot : 0..MAX_SLOTS]

(***************************************************************************)
(* The requests.  NoData stands for request_set_config, _set_interface and *)
(* _set_protocol; DataIn for request_descriptor, the same for an interface *)
(* and request_report_bytes.  Only the awaited TRB has the interrupt bit.  *)
(***************************************************************************)
Kind == {"EnableSlot", "AddressDevice", "NoData", "DataIn"}
Stages(k) == IF k = "DataIn" THEN 3 ELSE IF k = "NoData" THEN 2 ELSE 1
AwaitedStage(k) == IF k \in {"DataIn", "NoData"} THEN 2 ELSE 1
RingOf(k) == IF k \in {"DataIn", "NoData"} THEN "endpoint" ELSE "command"

VARIABLES
  pc,         \* where the driver is
  kind,       \* its request
  pushed,     \* TRBs of the request pushed so far
  ptr,        \* the address of the awaited TRB
  slot,       \* the device slot, 0 before there is one
  place,      \* ring |-> index of the next TRB
  ring,       \* ring |-> the TRBs published and not taken
  running,    \* the rings the controller is processing
  halted,     \* the control endpoint has stopped after an error
  events,     \* the event ring
  wait_list,  \* EventRing.wait_list: weak references; each is put in once, and
              \* their order does not matter
  future,     \* the waiters an EventFuture holds (strong references)
  cond,       \* waiter |-> the address it waits for
  trbs        \* waiter |-> the events it was resolved with

driverVars == <<pc, kind, pushed, ptr, slot, place>>
waiterVars == <<wait_list, future, cond, trbs>>
hwVars == <<running, halted>>
vars == <<driverVars, ring, hwVars, events, waiterVars>>

\* Controller::new has set up the rings; run has spawned the polling task and
\* found a connected port.
Init ==
  /\ pc = "init_port" /\ kind = "EnableSlot" /\ pushed = 0 /\ ptr = NoAddr /\ slot = 0
  /\ place = [r \in Ring |-> 0]
  /\ ring = [r \in Ring |-> <<>>]
  /\ running = {} /\ halted = FALSE
  /\ events = <<>>
  /\ wait_list = {} /\ future = {}
  /\ cond = [w \in Waiter |-> NoAddr]
  /\ trbs = [w \in Waiter |-> <<>>]

-----------------------------------------------------------------------------
(* The driver                                                              *)

\* init_port: after the reset the port is enabled, or the task ends with an
\* error.  What follows is send_command(EnableSlot).
InitPort ==
  /\ pc = "init_port"
  /\ pc' \in {"push", "ended"}
  /\ UNCHANGED <<kind, pushed, ptr, slot, place, ring, hwVars, events, waiterVars>>

\* A control transfer of the enumeration or of the device driver.
StartTransfer ==
  /\ pc = "ready"
  /\ pc' = "push"
  /\ kind' \in {"NoData", "DataIn"}
  /\ pushed' = 0
  /\ UNCHANGED <<ptr, slot, place, ring, hwVars, events, waiterVars>>

\* run returns: no driver fits the device.
EndRun ==
  /\ pc = "ready"
  /\ pc' = "ended"
  /\ UNCHANGED <<kind, pushed, ptr, slot, place, ring, hwVars, events, waiterVars>>

\* CommandRing::push of one stage; the address of the awaited one is kept.
Push ==
  /\ pc = "push"
  /\ LET r == RingOf(kind)
         awaited == pushed + 1 = AwaitedStage(kind)
     IN /\ ring' = [ring EXCEPT ![r] = Append(@, [addr |-> <<r, place[r]>>, ioc |-> awaited])]
        /\ place' = [place EXCEPT ![r] = (@ + 1) % PLACES]
        /\ ptr' = IF awaited THEN <<r, place[r]>> ELSE ptr
        /\ pushed' = pushed + 1
        /\ pc' = IF pushed + 1 = Stages(kind) THEN "notify" ELSE "push"
  /\ UNCHANGED <<kind, slot, hwVars, events, waiterVars>>

\* setup_xhc_registers makes doorbells 0..num_of_ports.
Doorbells == 0..NUM_PORTS

\* Mutant: the doorbell is not rung.
NotifyNobody ==
  /\ pc = "notify"
  /\ pc' = "register"
  /\ UNCHANGED <<kind, pushed, ptr, slot, place, ring, hwVars, events, waiterVars>>

\* notify_xhc, or notify_ep, which fails if the slot has no doorbell.
Notify ==
  /\ pc = "notify"
  /\ IF RingOf(kind) = "command" \/ slot \in Doorbells
     THEN running' = running \union {RingOf(kind)} /\ pc' = "register"
     ELSE UNCHANGED running /\ pc' = "ended"
  /\ UNCHANGED <<kind, pushed, ptr, slot, place, ring, halted, events, waiterVars>>

\* An EventWaitInfo's memory is free once nothing refers to it.
Unused == Waiter \ (future \union wait_list)

\* Mutant: the request is not awaited.
RegisterAndDrop ==
  /\ pc = "register"
  /\ pc' = "ready"
  /\ UNCHANGED <<kind, pushed, ptr, slot, place, ring, hwVars, events, waiterVars>>

\* EventFuture::new: a new waiter, held by the future, known to the ring.
Register ==
  /\ pc = "register"
  /\ Unused # {}
  /\ LET w == CHOOSE w \in Unused : TRUE
     IN /\ cond' = [cond EXCEPT ![w] = ptr]
        /\ future' = {w}
        /\ wait_list' = wait_list \union {w}
  /\ pc' = "await"
  /\ UNCHANGED <<kind, pushed, ptr, slot, place, ring, hwVars, events, trbs>>

\* transfer_result_ok accepts a short packet, cmd_result_ok does not.
ResultOk(e) ==
  IF RingOf(kind) = "endpoint" THEN e.code # "error" ELSE e.code = "success"

\* address_device.  set_output_context indexes with slot - 1: slot 0 is a panic.
\* The port may have lost its speed, which ends the task with an error.
AfterEnableSlot(e) ==
  \/ e.slot = 0 /\ pc' = "panic" /\ UNCHANGED <<kind, pushed>>
  \/ e.slot # 0 /\ pc' = "push" /\ kind' = "AddressDevice" /\ pushed' = 0
  \/ e.slot # 0 /\ pc' = "ended" /\ UNCHANGED <<kind, pushed>>

\* EventFuture::poll is ready; the future and with it the EventWaitInfo are
\* dropped (the ring's weak reference stays) and the driver goes on.  init_port
\* takes the slot from the event without looking at its code.
Resume ==
  /\ pc = "await"
  /\ \E w \in future :
       /\ trbs[w] # <<>>
       /\ LET e == Head(trbs[w])
          IN IF kind = "EnableSlot"
             THEN AfterEnableSlot(e) /\ slot' = e.slot
             ELSE /\ pc' = IF ResultOk(e) THEN "ready" ELSE "ended"
                  /\ UNCHANGED <<kind, pushed, slot>>
       /\ trbs' = [trbs EXCEPT ![w] = <<>>]
       /\ cond' = [cond EXCEPT ![w] = NoAddr]
  /\ future' = {}
  /\ UNCHANGED <<ptr, place, ring, hwVars, events, wait_list>>

Driver == InitPort \/ StartTransfer \/ EndRun \/ Push \/ Notify \/ Register \/ Resume

-----------------------------------------------------------------------------
(* The polling task                                                        *)

\* Mutant: the driver awaits something between the doorbell and the waiter.
DriverYieldsEarly == pc \in {"init_port", "register", "await", "ready", "ended"}

\* The thread is free while the driver waits for the port reset or for its
\* event, when it has ended, and between run and the device driver it spawns.
DriverYields == pc \in {"init_port", "await", "ready", "ended"}

\* EventWaitInfo::matches, for a live waiter (upgrade succeeds)
Matches(w, e) == w \in future /\ cond[w] = e.addr

\* Mutant: stale waiters stay.
NotCleanedUp == wait_list

\* The waiters that stay after "cleanup stale waiters".
CleanedUp == wait_list \intersect future

\* EventRing::poll: pop, resolve every waiter that matches, drop the stale ones.
PollEvent ==
  /\ DriverYields
  /\ events # <<>>
  /\ events' = Tail(events)
  /\ trbs' = [w \in Waiter |->
                IF w \in wait_list /\ Matches(w, Head(events))
                THEN Append(trbs[w], Head(events)) ELSE trbs[w]]
  /\ wait_list' = CleanedUp
  /\ UNCHANGED <<driverVars, ring, hwVars, future, cond>>

-----------------------------------------------------------------------------
(* The controller (external)                                               *)

HasRoom == Len(events) < MAX_EVENTS

\* A TRB is taken and succeeds; it reports if the interrupt bit says so.  A
\* successful command names the slot.
HwSucceed(r) ==
  /\ r \in running /\ ring[r] # <<>> /\ ~(r = "endpoint" /\ halted)
  /\ LET t == Head(ring[r])
     IN IF t.ioc
        THEN /\ HasRoom
             /\ \E c \in (IF r = "endpoint" THEN {"success", "short_packet"} ELSE {"success"}),
                   s \in 1..MAX_SLOTS :
                  events' = Append(events, [addr |-> t.addr, code |-> c,
                                            slot |-> IF slot = 0 THEN s ELSE slot])
        ELSE UNCHANGED events
  /\ ring' = [ring EXCEPT ![r] = Tail(@)]
  /\ UNCHANGED <<driverVars, hwVars, waiterVars>>

\* A TRB fails: that is always reported.  An endpoint then stops.
HwFail(r) ==
  /\ r \in running /\ ring[r] # <<>> /\ ~(r = "endpoint" /\ halted)
  /\ HasRoom
  /\ events' = Append(events, [addr |-> Head(ring[r]).addr, code |-> "error", slot |-> slot])
  /\ ring' = [ring EXCEPT ![r] = Tail(@)]
  /\ halted' = (halted \/ r = "endpoint")
  /\ UNCHANGED <<driverVars, running, waiterVars>>

\* The ring is empty: the controller waits for the next doorbell.
HwIdle(r) ==
  /\ r \in running /\ ring[r] = <<>>
  /\ running' = running \ {r}
  /\ UNCHANGED <<driverVars, ring, halted, events, waiterVars>>

\* A port changes.
HwPortChange ==
  /\ HasRoom
  /\ events' = Append(events, [addr |-> NoAddr, code |-> "success", slot |-> 0])
  /\ UNCHANGED <<driverVars, ring, hwVars, waiterVars>>

Next ==
  \/ Driver
  \/ PollEvent
  \/ \E r \in Ring : HwSucceed(r) \/ HwFail(r) \/ HwIdle(r)
  \/ HwPortChange

\* The executor polls both tasks again and again (Executor).  The controller
\* processes a ring whose doorbell was rung, and port changes do not keep its
\* completions off the event ring for ever.
Fairness ==
  /\ WF_vars(Driver)
  /\ WF_vars(PollEvent)
  /\ \A r \in Ring : SF_vars(HwSucceed(r) \/ HwFail(r))

Spec == Init /\ [][Next]_vars /\ Fairness

-----------------------------------------------------------------------------
(* Properties                                                              *)

Addresses(s) == {s[i].addr : i \in 1..Len(s)}
Count(s, a) == Cardinality({i \in 1..Len(s) : s[i].addr = a})

\* While the driver awaits a TRB, that TRB is exactly once on its way: on the
\* ring, or its event in the event ring, or with the waiter.  So no completion
\* is dropped as unhandled because it came before the waiter was registered,
\* and none is delivered twice.
AwaitedExactlyOnce ==
  pc = "await" =>
    \E w \in future :
       Count(ring[RingOf(kind)], ptr) + Count(events, ptr) + Len(trbs[w]) = 1

\* Addresses are reused, but never while an event still names the old TRB:
\* a waiter cannot be woken by a completion from the lap before.
NoAddressInUseTwice ==
  /\ \A r \in Ring : Addresses(events) \intersect Addresses(ring[r]) = {}
  /\ \A r \in Ring : Cardinality(Addresses(ring[r])) = Len(ring[r])

\* Stale waiters do not pile up: at most the awaited one and the one before.
WaitListBounded == Cardinality(wait_list) <= 2

\* The awaited TRB will never be taken: an earlier stage has failed, and its
\* event has no waiter.
Stuck == halted /\ pc = "await" /\ ptr \in Addresses(ring["endpoint"])

\* A request is answered, with its result or with its error, unless the
\* controller stopped before the awaited stage.
RequestsAnswered == (pc = "await") ~> (pc # "await" \/ Stuck)
=============================================================================
