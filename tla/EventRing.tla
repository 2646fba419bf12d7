----------------------------- MODULE EventRing ------------------------------
(***************************************************************************)
(* xhci.rs: EventRing, on which the controller reports to the driver, with *)
(* TrbRing::advance_index_notoggle.  Here the controller is the producer:  *)
(* it writes an event with its cycle state and toggles that state each lap *)
(* (there is no Link).  The driver owns an entry when the bit equals       *)
(* cycle_state_ours.                                                       *)
(*                                                                         *)
(* The controller learns from the register ERDP how far the driver has     *)
(* read.  pop writes to it the address of the entry just consumed, not of  *)
(* the next one, so the register is always one entry behind.               *)
(*                                                                         *)
(* pop reads the entry three times (has_next_event, current and            *)
(* advance_index_notoggle) and then writes ERDP; the controller may post   *)
(* between any two of these accesses.                                      *)
(***************************************************************************)
EXTENDS Integers, Sequences

CONSTANTS
  NUM_TRB,   \* entries of the ring, 16 in the code
  Event      \* what an event TRB carries: type, pointer, completion code

\* With ERDP one entry behind, a ring of two entries would look full when
\* it is empty.
ASSUME EventRingSizeAssumption == NUM_TRB \in Nat /\ NUM_TRB >= 3
ASSUME EventAssumption == Event # {}

Slots == 0..(NUM_TRB - 1)
Bit == {0, 1}                    \* a cycle bit; 1 - c is the other one

VARIABLES
  trb,        \* the ring in memory: index |-> [cycle, body]
  index,      \* TrbRing.current_index
  ours,       \* EventRing.cycle_state_ours
  pc,         \* where pop is
  event,      \* the event pop has read
  erdp,       \* the register: index of the entry it points to
  hwIndex,    \* the controller's enqueue index
  hwCycle     \* its producer cycle state

driverVars == <<index, ours, pc, event, erdp>>
hwVars == <<trb, hwIndex, hwCycle>>
vars == <<driverVars, hwVars>>

Succ(i) == (i + 1) % NUM_TRB

\* EventRing::new, init_irs: the ring is zeroed and ERDP is its base.  The
\* controller starts with cycle state 1.
Init ==
  /\ \E b \in Event : trb = [i \in Slots |-> [cycle |-> 0, body |-> b]] /\ event = b
  /\ index = 0
  /\ ours = 1
  /\ pc = "idle"
  /\ erdp = 0
  /\ hwIndex = 0
  /\ hwCycle = 1

-----------------------------------------------------------------------------
(* The driver: EventRing::pop                                              *)

\* Mutant: the cycle bit is not looked at.
HasNextEventAlways ==
  /\ pc = "idle"
  /\ pc' = "read"
  /\ UNCHANGED <<index, ours, event, erdp, hwVars>>

\* has_next_event; when it is false pop returns None and nothing changes.
HasNextEvent ==
  /\ pc = "idle"
  /\ trb[index].cycle = ours
  /\ pc' = "read"
  /\ UNCHANGED <<index, ours, event, erdp, hwVars>>

\* e = current()
ReadCurrent ==
  /\ pc = "read"
  /\ event' = trb[index].body
  /\ pc' = "advance"
  /\ UNCHANGED <<index, ours, erdp, hwVars>>

\* advance_index_notoggle: Err if the bit is no longer ours.
AdvanceIndexNoToggle ==
  /\ pc = "advance"
  /\ IF trb[index].cycle # ours
     THEN pc' = "cycle mismatch" /\ UNCHANGED index
     ELSE pc' = "erdp" /\ index' = Succ(index)
  /\ UNCHANGED <<ours, event, erdp, hwVars>>

\* Mutants: the entry behind the next one; the register is not written; our
\* cycle state is not toggled.
WriteErdpAhead ==
  /\ pc = "erdp"
  /\ erdp' = Succ(index)
  /\ ours' = IF index = 0 THEN 1 - ours ELSE ours
  /\ pc' = "idle"
  /\ UNCHANGED <<index, event, hwVars>>
WriteErdpNever ==
  /\ pc = "erdp"
  /\ ours' = IF index = 0 THEN 1 - ours ELSE ours
  /\ pc' = "idle"
  /\ UNCHANGED <<index, event, erdp, hwVars>>
WriteErdpNoToggle ==
  /\ pc = "erdp"
  /\ erdp' = (index + NUM_TRB - 1) % NUM_TRB
  /\ pc' = "idle"
  /\ UNCHANGED <<index, ours, event, hwVars>>

\* ERDP := the entry just consumed; a new lap toggles our cycle state.
WriteErdp ==
  /\ pc = "erdp"
  /\ erdp' = (index + NUM_TRB - 1) % NUM_TRB
  /\ ours' = IF index = 0 THEN 1 - ours ELSE ours
  /\ pc' = "idle"
  /\ UNCHANGED <<index, event, hwVars>>

-----------------------------------------------------------------------------
(* The controller (external) posts an event unless that would bring its    *)
(* enqueue index to the entry ERDP points to; then it holds the event back. *)

HasRoom == Succ(hwIndex) # erdp

Post(e) ==
  /\ HasRoom
  /\ trb' = [trb EXCEPT ![hwIndex] = [cycle |-> hwCycle, body |-> e]]
  /\ hwIndex' = Succ(hwIndex)
  /\ hwCycle' = IF Succ(hwIndex) = 0 THEN 1 - hwCycle ELSE hwCycle
  /\ UNCHANGED driverVars

Pop == HasNextEvent \/ ReadCurrent \/ AdvanceIndexNoToggle \/ WriteErdp

Next == Pop \/ \E e \in Event : Post(e)

\* The task that polls the ring runs for ever and yields after each poll.
Fairness == WF_vars(Pop)

Spec == Init /\ [][Next]_vars /\ Fairness

-----------------------------------------------------------------------------
(* Properties                                                              *)

\* The ring, the indices, the register and the position in pop are in range.
TypeOK ==
  /\ trb \in [Slots -> [cycle : Bit, body : Event]]
  /\ index \in Slots
  /\ ours \in Bit
  /\ pc \in {"idle", "read", "advance", "erdp", "cycle mismatch"}
  /\ event \in Event
  /\ erdp \in Slots
  /\ hwIndex \in Slots
  /\ hwCycle \in Bit

\* An entry does not change hands while pop is looking at it: the error
\* "cycle state mismatch" is never returned, which would end the task that
\* polls the ring.
PopNeverFails == pc # "cycle mismatch"

\* The cycle state of the entry at index, also after index has come round to
\* 0 and before pop toggles ours.
Lap == IF pc = "erdp" /\ index = 0 THEN 1 - ours ELSE ours

\* Events posted and not consumed.
Unread == IF hwCycle = Lap THEN hwIndex - index ELSE NUM_TRB - index + hwIndex

\* The controller stops one entry short of a full lap, so that the cycle bits
\* tell a full ring from an empty one.
NeverLapped == Unread \in 0..(NUM_TRB - 1)

\* The register lags, yet never so far that an empty ring looks full: with
\* nothing to read the controller can post, so neither side waits for the other.
EmptyHasRoom == (pc = "idle" /\ trb[index].cycle # ours) => HasRoom

\* The index of the k-th entry behind the driver's.
SlotAhead(k) == IF index + k < NUM_TRB THEN index + k ELSE index + k - NUM_TRB

\* The ring as a channel: the unread events, in ring order.
Pending == [k \in 1..Unread |-> trb[SlotAhead(k - 1)].body]

\* What pop returns is the oldest unread event, although it reads the entry
\* and consumes it in different steps.
ReadsOldest == pc = "advance" => Pending # <<>> /\ event = Head(Pending)

Channel == INSTANCE TrbChannel WITH Body <- Event, pending <- Pending

\* Seen from both sides the event ring is a FIFO channel: no event is lost,
\* repeated, reordered or overwritten before it is read.
ImplementsChannel == Channel!Spec

\* However fast it posts, the controller is not kept waiting for room for
\* ever: what the polling task consumes is given back through ERDP.
RoomReturns == []<>HasRoom
=============================================================================
