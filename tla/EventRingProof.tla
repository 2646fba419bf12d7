--------------------------- MODULE EventRingProof ---------------------------
(***************************************************************************)
(* The safety of the event ring, and that it is a FIFO channel, for every  *)
(* ring size from three entries on and every content of the events.        *)
(***************************************************************************)
EXTENDS EventRing, TLAPS, SequenceTheorems

\* The entries before the controller's index were written in its lap, the
\* others in the lap before.
CycleBits ==
  \A j \in Slots : trb[j].cycle = IF j < hwIndex THEN hwCycle ELSE 1 - hwCycle

\* The driver is in the controller's lap and not ahead of it, or one lap behind.
ReaderBehind == \/ hwCycle = Lap /\ index <= hwIndex
                \/ hwCycle = 1 - Lap /\ hwIndex < index

\* ERDP lags d entries behind the driver, and the controller leaves it that
\* much room: the events it may have posted and the lag never fill a lap.
ErdpLags ==
  \E d \in 0..2 :
     /\ erdp = index - d \/ erdp = index - d + NUM_TRB
     /\ pc # "erdp" => d <= 1
     /\ pc = "erdp" => d >= 1
     /\ Unread + d <= NUM_TRB - 1

\* What pop has seen so far is still there.
PopState ==
  /\ pc \in {"read", "advance"} => Unread > 0
  /\ pc = "advance" => event = trb[index].body

EventInv ==
  /\ TypeOK
  /\ PopNeverFails
  /\ CycleBits
  /\ ReaderBehind
  /\ ErdpLags
  /\ PopState

\* The successor of an index, without the modulus.
LEMMA SuccValue == \A i \in Slots : Succ(i) = IF i = NUM_TRB - 1 THEN 0 ELSE i + 1
<1> SUFFICES ASSUME NEW i \in Slots PROVE Succ(i) = IF i = NUM_TRB - 1 THEN 0 ELSE i + 1
  OBVIOUS
<1> USE EventRingSizeAssumption DEF Slots, Succ
<1>1. CASE i = NUM_TRB - 1
  BY <1>1
<1>2. CASE i # NUM_TRB - 1
  <2>1. i + 1 \in 0..(NUM_TRB - 1)
    BY <1>2
  <2>2. QED
    BY <1>2, <2>1
<1>3. QED
  BY <1>1, <1>2

\* The address pop computes for ERDP is the entry before the new index.
LEMMA PredValue ==
  \A i \in Slots : (i + NUM_TRB - 1) % NUM_TRB = IF i = 0 THEN NUM_TRB - 1 ELSE i - 1
<1> SUFFICES ASSUME NEW i \in Slots
             PROVE (i + NUM_TRB - 1) % NUM_TRB = IF i = 0 THEN NUM_TRB - 1 ELSE i - 1
  OBVIOUS
<1> USE EventRingSizeAssumption DEF Slots
<1>1. CASE i = 0
  BY <1>1
<1>2. CASE i # 0
  <2>1. i + NUM_TRB - 1 = (i - 1) + NUM_TRB /\ i - 1 \in 0..(NUM_TRB - 1)
    BY <1>2
  <2>2. QED
    BY <1>2, <2>1
<1>3. QED
  BY <1>1, <1>2

\* The arithmetic facts of a state that the proofs below start from.
LEMMA Ranges ==
  EventInv => /\ index \in 0..(NUM_TRB - 1) /\ hwIndex \in 0..(NUM_TRB - 1)
              /\ erdp \in 0..(NUM_TRB - 1)
              /\ ours \in {0, 1} /\ hwCycle \in {0, 1} /\ Lap \in {0, 1}
              /\ Unread \in 0..(NUM_TRB - 1)
<1> SUFFICES ASSUME EventInv
             PROVE  /\ index \in 0..(NUM_TRB - 1) /\ hwIndex \in 0..(NUM_TRB - 1)
                    /\ erdp \in 0..(NUM_TRB - 1)
                    /\ ours \in {0, 1} /\ hwCycle \in {0, 1} /\ Lap \in {0, 1}
                    /\ Unread \in 0..(NUM_TRB - 1)
  OBVIOUS
<1>1. /\ index \in 0..(NUM_TRB - 1) /\ hwIndex \in 0..(NUM_TRB - 1)
      /\ erdp \in 0..(NUM_TRB - 1) /\ ours \in {0, 1} /\ hwCycle \in {0, 1}
  BY DEF EventInv, TypeOK, Slots, Bit
<1>2. Lap \in {0, 1}
  BY <1>1 DEF Lap
<1>3. ReaderBehind
  BY DEF EventInv
<1>4. Unread \in 0..(NUM_TRB - 1)
  BY <1>1, <1>2, <1>3, EventRingSizeAssumption DEF ReaderBehind, Unread
<1>5. QED
  BY <1>1, <1>2, <1>4

\* An entry carries the driver's bit exactly when there is something to read.
LEMMA OwnedIsUnread == EventInv => ((trb[index].cycle = Lap) <=> (Unread > 0))
<1> SUFFICES ASSUME EventInv PROVE (trb[index].cycle = Lap) <=> (Unread > 0)
  OBVIOUS
<1>1. trb[index].cycle = IF index < hwIndex THEN hwCycle ELSE 1 - hwCycle
  BY DEF EventInv, TypeOK, CycleBits
<1>2. /\ index \in 0..(NUM_TRB - 1) /\ hwIndex \in 0..(NUM_TRB - 1)
      /\ hwCycle \in {0, 1} /\ Lap \in {0, 1}
  BY Ranges
<1>3. ReaderBehind
  BY DEF EventInv
<1>4. QED
  BY <1>1, <1>2, <1>3, EventRingSizeAssumption DEF ReaderBehind, Unread

(***************************************************************************)
(* The event ring's invariant: the controller never overtakes the driver,  *)
(* although the register that tells it where the driver is lags behind.    *)
(***************************************************************************)
THEOREM EventRingSafety == Spec => []EventInv
<1> USE EventRingSizeAssumption
<1>1. Init => EventInv
  <2> SUFFICES ASSUME Init PROVE EventInv
    OBVIOUS
  <2>1. PICK b \in Event : trb = [i \in Slots |-> [cycle |-> 0, body |-> b]] /\ event = b
    BY DEF Init
  <2>2. trb \in [Slots -> [cycle : Bit, body : Event]] /\ \A j \in Slots : trb[j].cycle = 0
    BY <2>1 DEF Bit
  <2>3. TypeOK
    <3>1. index = 0 /\ ours = 1 /\ pc = "idle" /\ erdp = 0 /\ hwIndex = 0 /\ hwCycle = 1 /\ 0 \in Slots
      BY DEF Init, Slots
    <3>2. event \in Event /\ 1 \in Bit
      BY <2>1 DEF Bit
    <3>3. QED
      BY <2>2, <3>1, <3>2, Zenon DEF TypeOK
  <2>4. Lap = 1 /\ Unread = 0
    BY DEF Init, Lap, Unread
  <2>5. CycleBits
    BY <2>2 DEF Init, CycleBits, Slots
  <2>6. ErdpLags
    <3>1. 0 \in 0..2 /\ erdp = index - 0 /\ 0 <= 1 /\ pc # "erdp" /\ Unread + 0 <= NUM_TRB - 1
      BY <2>4 DEF Init
    <3>2. QED
      BY <3>1 DEF ErdpLags
  <2>7. QED
    BY <2>3, <2>4, <2>5, <2>6 DEF Init, EventInv, PopNeverFails, ReaderBehind, PopState
<1>2. EventInv /\ [Next]_vars => EventInv'
  <2> SUFFICES ASSUME EventInv, [Next]_vars PROVE EventInv'
    OBVIOUS
  <2>0. /\ index \in 0..(NUM_TRB - 1) /\ hwIndex \in 0..(NUM_TRB - 1)
        /\ erdp \in 0..(NUM_TRB - 1)
        /\ ours \in {0, 1} /\ hwCycle \in {0, 1} /\ Lap \in {0, 1}
        /\ Unread \in 0..(NUM_TRB - 1)
    BY Ranges
  <2>1. CASE HasNextEvent
    <3>1. /\ pc = "idle" /\ pc' = "read" /\ trb[index].cycle = ours
          /\ UNCHANGED <<index, ours, event, erdp, trb, hwIndex, hwCycle>>
      BY <2>1, Zenon DEF HasNextEvent, hwVars
    <3>2. Lap = ours /\ Lap' = Lap /\ Unread' = Unread
      BY <3>1 DEF Lap, Unread
    <3>3. Unread > 0
      BY <3>1, <3>2, OwnedIsUnread
    <3>4. ReaderBehind' /\ ErdpLags'
      BY <3>1, <3>2 DEF EventInv, ReaderBehind, ErdpLags
    <3>5. QED
      BY <3>1, <3>2, <3>3, <3>4 DEF EventInv, TypeOK, PopNeverFails, CycleBits, PopState
  <2>2. CASE ReadCurrent
    <3>1. /\ pc = "read" /\ pc' = "advance" /\ event' = trb[index].body
          /\ UNCHANGED <<index, ours, erdp, trb, hwIndex, hwCycle>>
      BY <2>2, Zenon DEF ReadCurrent, hwVars
    <3>2. Lap' = Lap /\ Unread' = Unread
      BY <3>1 DEF Lap, Unread
    <3>3. ReaderBehind' /\ ErdpLags' /\ PopState'
      BY <3>1, <3>2 DEF EventInv, ReaderBehind, ErdpLags, PopState
    <3>4. event' \in Event
      BY <3>1 DEF EventInv, TypeOK
    <3>5. QED
      BY <3>1, <3>2, <3>3, <3>4 DEF EventInv, TypeOK, PopNeverFails, CycleBits
  <2>3. CASE AdvanceIndexNoToggle
    <3>1. pc = "advance" /\ Unread > 0 /\ Lap = ours
      BY <2>3, Zenon DEF AdvanceIndexNoToggle, EventInv, PopState, Lap
    <3>2. trb[index].cycle = ours
      BY <3>1, OwnedIsUnread
    <3>3. /\ pc' = "erdp" /\ index' = Succ(index)
          /\ UNCHANGED <<ours, event, erdp, trb, hwIndex, hwCycle>>
      BY <2>3, <3>2, Zenon DEF AdvanceIndexNoToggle, hwVars
    <3>4. index' = IF index = NUM_TRB - 1 THEN 0 ELSE index + 1
      BY <2>0, <3>3, SuccValue DEF Slots
    <3>5. Lap' = (IF index' = 0 THEN 1 - ours ELSE ours) /\ Unread' = Unread - 1 /\ ReaderBehind'
      BY <2>0, <3>1, <3>3, <3>4 DEF Lap, Unread, EventInv, ReaderBehind
    <3>6. ErdpLags'
      <4>1. PICK d \in 0..2 : /\ erdp = index - d \/ erdp = index - d + NUM_TRB
                              /\ d <= 1
                              /\ Unread + d <= NUM_TRB - 1
        BY <3>1 DEF EventInv, ErdpLags
      <4>2. d + 1 \in 0..2 /\ d + 1 >= 1 /\ Unread' + (d + 1) <= NUM_TRB - 1
        BY <2>0, <3>5, <4>1
      <4>3. erdp' = index' - (d + 1) \/ erdp' = index' - (d + 1) + NUM_TRB
        BY <2>0, <3>3, <3>4, <4>1
      <4>4. QED
        BY <3>3, <4>2, <4>3 DEF ErdpLags
    <3>7. TypeOK'
      <4>1. index' \in Slots
        BY <2>0, <3>4 DEF Slots
      <4>2. QED
        BY <3>3, <4>1 DEF EventInv, TypeOK
    <3>8. QED
      BY <3>3, <3>5, <3>6, <3>7 DEF EventInv, PopNeverFails, CycleBits, PopState
  <2>4. CASE WriteErdp
    <3>1. /\ pc = "erdp" /\ pc' = "idle"
          /\ erdp' = (index + NUM_TRB - 1) % NUM_TRB
          /\ ours' = IF index = 0 THEN 1 - ours ELSE ours
          /\ UNCHANGED <<index, event, trb, hwIndex, hwCycle>>
      BY <2>4, Zenon DEF WriteErdp, hwVars
    <3>2. erdp' = IF index = 0 THEN NUM_TRB - 1 ELSE index - 1
      BY <2>0, <3>1, PredValue DEF Slots
    <3>3. Lap' = Lap /\ Unread' = Unread /\ ReaderBehind'
      BY <2>0, <3>1 DEF Lap, Unread, EventInv, ReaderBehind
    <3>4. ErdpLags'
      <4>1. PICK d \in 0..2 : d >= 1 /\ Unread + d <= NUM_TRB - 1
        BY <3>1 DEF EventInv, ErdpLags
      <4>2. 1 \in 0..2 /\ Unread' + 1 <= NUM_TRB - 1
        BY <2>0, <3>3, <4>1
      <4>3. erdp' = index' - 1 \/ erdp' = index' - 1 + NUM_TRB
        BY <2>0, <3>1, <3>2
      <4>4. QED
        BY <3>1, <4>2, <4>3 DEF ErdpLags
    <3>5. TypeOK'
      <4>1. erdp' \in Slots /\ ours' \in Bit
        BY <2>0, <3>1, <3>2 DEF Slots, Bit
      <4>2. QED
        BY <3>1, <4>1 DEF EventInv, TypeOK
    <3>6. QED
      BY <3>1, <3>3, <3>4, <3>5 DEF EventInv, PopNeverFails, CycleBits, PopState
  <2>5. ASSUME NEW e \in Event, Post(e) PROVE EventInv'
    <3>1. /\ Succ(hwIndex) # erdp
          /\ trb' = [trb EXCEPT ![hwIndex] = [cycle |-> hwCycle, body |-> e]]
          /\ hwIndex' = Succ(hwIndex)
          /\ hwCycle' = IF Succ(hwIndex) = 0 THEN 1 - hwCycle ELSE hwCycle
          /\ UNCHANGED <<index, ours, pc, event, erdp>>
      BY <2>5, Zenon DEF Post, HasRoom, driverVars
    <3>2. Succ(hwIndex) = IF hwIndex = NUM_TRB - 1 THEN 0 ELSE hwIndex + 1
      BY <2>0, SuccValue DEF Slots
    <3>3. trb' \in [Slots -> [cycle : Bit, body : Event]]
      BY <2>0, <3>1 DEF EventInv, TypeOK, Bit
    <3>4. \A j \in Slots : trb'[j].cycle = IF j = hwIndex THEN hwCycle ELSE trb[j].cycle
      BY <2>0, <3>1 DEF EventInv, TypeOK
    <3>5. CycleBits'
      BY <2>0, <3>1, <3>2, <3>4 DEF EventInv, CycleBits, Slots
    <3>6. PICK d \in 0..2 : /\ erdp = index - d \/ erdp = index - d + NUM_TRB
                            /\ pc # "erdp" => d <= 1
                            /\ pc = "erdp" => d >= 1
                            /\ Unread + d <= NUM_TRB - 1
      BY DEF EventInv, ErdpLags
    <3>7. Unread + d < NUM_TRB - 1
      BY <2>0, <3>1, <3>2, <3>6 DEF Unread, EventInv, ReaderBehind
    <3>8. Lap' = Lap /\ Unread' = Unread + 1 /\ ReaderBehind'
      <4>1. Lap' = Lap
        BY <3>1 DEF Lap
      <4>2. Unread < NUM_TRB - 1
        BY <2>0, <3>7
      <4>3. QED
        BY <2>0, <3>1, <3>2, <4>1, <4>2 DEF Unread, EventInv, ReaderBehind
    <3>9. ErdpLags'
      <4>1. Unread' + d <= NUM_TRB - 1
        BY <2>0, <3>7, <3>8
      <4>2. QED
        BY <3>1, <3>6, <4>1 DEF ErdpLags
    <3>10. PopState'
      <4>1. pc' \in {"read", "advance"} => Unread' > 0
        BY <2>0, <3>8
      <4>2. ASSUME pc' = "advance" PROVE event' = trb'[index].body
        <5>1. Unread > 0 /\ event = trb[index].body
          BY <3>1, <4>2 DEF EventInv, PopState
        <5>2. index # hwIndex
          BY <2>0, <5>1, <3>7 DEF Unread, EventInv, ReaderBehind
        <5>3. trb'[index] = trb[index]
          BY <2>0, <3>1, <5>2 DEF EventInv, TypeOK, Slots
        <5>4. QED
          BY <3>1, <5>1, <5>3
      <4>3. QED
        BY <3>1, <4>1, <4>2 DEF PopState
    <3>11. TypeOK'
      <4>1. hwIndex' \in Slots /\ hwCycle' \in Bit
        BY <2>0, <3>1, <3>2 DEF Slots, Bit
      <4>2. QED
        BY <3>1, <3>3, <4>1 DEF EventInv, TypeOK
    <3>12. QED
      BY <3>1, <3>5, <3>8, <3>9, <3>10, <3>11 DEF EventInv, PopNeverFails
  <2>6. CASE UNCHANGED vars
    <3>1. UNCHANGED <<index, ours, pc, event, erdp, trb, hwIndex, hwCycle>>
      BY <2>6, Zenon DEF vars, driverVars, hwVars
    <3>2. QED
      BY <3>1 DEF EventInv, TypeOK, PopNeverFails, CycleBits, ReaderBehind, ErdpLags, PopState,
         Lap, Unread
  <2>7. QED
    BY <2>1, <2>2, <2>3, <2>4, <2>5, <2>6, Zenon DEF Next, Pop
<1>3. QED
  BY <1>1, <1>2, PTL DEF Spec

-----------------------------------------------------------------------------
(* What the invariant gives the run's properties.                          *)

\* pop never meets an entry that changed hands under it.
THEOREM PopSucceeds == Spec => []PopNeverFails
BY EventRingSafety, PTL DEF EventInv

\* The controller never fills the lap, whatever the register shows it.
THEOREM ControllerNeverLaps == Spec => []NeverLapped
<1>1. EventInv => NeverLapped
  BY Ranges DEF NeverLapped
<1>2. QED
  BY <1>1, EventRingSafety, PTL

\* An empty ring never looks full to the controller: no mutual waiting.
THEOREM EmptyRingHasRoom == Spec => []EmptyHasRoom
<1>1. EventInv => EmptyHasRoom
  <2> SUFFICES ASSUME EventInv, pc = "idle", trb[index].cycle # ours PROVE HasRoom
    BY DEF EmptyHasRoom
  <2>1. /\ index \in 0..(NUM_TRB - 1) /\ hwIndex \in 0..(NUM_TRB - 1)
        /\ ours \in {0, 1} /\ hwCycle \in {0, 1} /\ Lap = ours /\ Unread \in 0..(NUM_TRB - 1)
    BY Ranges DEF Lap
  <2>2. Unread = 0
    BY <2>1, OwnedIsUnread
  <2>3. hwIndex = index
    BY <2>1, <2>2, EventRingSizeAssumption DEF Unread
  <2>4. PICK d \in 0..1 : erdp = index - d \/ erdp = index - d + NUM_TRB
    BY DEF EventInv, ErdpLags
  <2>5. Succ(hwIndex) = IF hwIndex = NUM_TRB - 1 THEN 0 ELSE hwIndex + 1
    BY <2>1, SuccValue DEF Slots
  <2>6. QED
    BY <2>1, <2>3, <2>4, <2>5, EventRingSizeAssumption DEF HasRoom
<1>2. QED
  BY <1>1, EventRingSafety, PTL

-----------------------------------------------------------------------------
(* The ring implements the channel.                                        *)

\* The entries ahead of the driver are entries of the ring, the first is its
\* own, and behind the unread ones comes the controller's.
LEMMA AheadSlots ==
  ASSUME EventInv
  PROVE  /\ \A k \in 0..(NUM_TRB - 1) : SlotAhead(k) \in Slots
         /\ SlotAhead(0) = index
         /\ SlotAhead(Unread) = hwIndex
         /\ \A k \in 0..(Unread - 1) : SlotAhead(k) # hwIndex
<1>1. /\ index \in 0..(NUM_TRB - 1) /\ hwIndex \in 0..(NUM_TRB - 1) /\ Unread \in 0..(NUM_TRB - 1)
      /\ hwCycle \in {0, 1} /\ Lap \in {0, 1}
  BY Ranges
<1>2. ReaderBehind
  BY DEF EventInv
<1>3. QED
  BY <1>1, <1>2, EventRingSizeAssumption DEF ReaderBehind, Unread, SlotAhead, Slots

\* Pending is a sequence of events.
LEMMA PendingSeq == EventInv => Pending \in Seq(Event) /\ Len(Pending) = Unread
<1> SUFFICES ASSUME EventInv PROVE Pending \in Seq(Event) /\ Len(Pending) = Unread
  OBVIOUS
<1>1. Unread \in 0..(NUM_TRB - 1)
  BY Ranges
<1>2. \A k \in 1..Unread : trb[SlotAhead(k - 1)].body \in Event
  <2> SUFFICES ASSUME NEW k \in 1..Unread PROVE trb[SlotAhead(k - 1)].body \in Event
    OBVIOUS
  <2>1. k - 1 \in 0..(NUM_TRB - 1)
    BY <1>1, EventRingSizeAssumption
  <2>2. SlotAhead(k - 1) \in Slots
    BY <2>1, AheadSlots
  <2>3. QED
    BY <2>2 DEF EventInv, TypeOK
<1>3. QED
  BY <1>1, <1>2 DEF Pending

\* What pop has read, at the moment it consumes the entry, is the head of the
\* channel.
THEOREM PopReturnsOldest == Spec => []ReadsOldest
<1>1. EventInv => ReadsOldest
  <2> SUFFICES ASSUME EventInv, pc = "advance" PROVE Pending # <<>> /\ event = Head(Pending)
    BY DEF ReadsOldest
  <2>1. Unread > 0 /\ event = trb[index].body
    BY DEF EventInv, PopState
  <2>2. Pending \in Seq(Event) /\ Len(Pending) = Unread /\ Unread \in Nat
    BY PendingSeq, Ranges
  <2>3. Pending[1] = trb[SlotAhead(1 - 1)].body
    BY <2>1, <2>2 DEF Pending
  <2>4. Pending[1] = trb[index].body
    BY <2>3, AheadSlots
  <2>5. QED
    BY <2>1, <2>2, <2>4
<1>2. QED
  BY <1>1, EventRingSafety, PTL

\* Every step of the ring is a step of the channel or leaves it alone.
LEMMA ChannelStep == EventInv /\ EventInv' /\ [Next]_vars => [Channel!Next]_Pending
<1>a. EventInv' => (/\ Unread \in 0..(NUM_TRB - 1) /\ Pending \in Seq(Event)
                    /\ Len(Pending) = Unread /\ index \in 0..(NUM_TRB - 1))'
  <2>1. EventInv => /\ Unread \in 0..(NUM_TRB - 1) /\ Pending \in Seq(Event)
                    /\ Len(Pending) = Unread /\ index \in 0..(NUM_TRB - 1)
    BY Ranges, PendingSeq
  <2>2. QED
    BY <2>1, PTL
<1> SUFFICES ASSUME EventInv, EventInv', [Next]_vars PROVE [Channel!Next]_Pending
  OBVIOUS
<1> USE EventRingSizeAssumption
<1>0. /\ index \in 0..(NUM_TRB - 1) /\ hwIndex \in 0..(NUM_TRB - 1)
      /\ hwCycle \in {0, 1} /\ Lap \in {0, 1} /\ ours \in {0, 1} /\ ReaderBehind
      /\ Unread \in 0..(NUM_TRB - 1) /\ Pending \in Seq(Event) /\ Len(Pending) = Unread
      /\ Unread' \in 0..(NUM_TRB - 1) /\ Pending' \in Seq(Event) /\ Len(Pending') = Unread'
      /\ trb \in [Slots -> [cycle : Bit, body : Event]]
  BY <1>a, Ranges, PendingSeq DEF EventInv, TypeOK
<1>1. ASSUME UNCHANGED <<trb, index, hwIndex, hwCycle, Lap>> PROVE UNCHANGED Pending
  BY <1>1, Zenon DEF Pending, Unread, SlotAhead
<1>2. ASSUME HasNextEvent \/ ReadCurrent \/ WriteErdp \/ UNCHANGED vars
      PROVE UNCHANGED <<trb, index, hwIndex, hwCycle, Lap>>
  <2>1. CASE HasNextEvent
    BY <2>1 DEF HasNextEvent, hwVars, Lap
  <2>2. CASE ReadCurrent
    BY <2>2 DEF ReadCurrent, hwVars, Lap
  <2>3. CASE WriteErdp
    BY <2>3 DEF WriteErdp, hwVars, Lap
  <2>4. CASE UNCHANGED vars
    BY <2>4 DEF vars, driverVars, hwVars, Lap
  <2>5. QED
    BY <1>2, <2>1, <2>2, <2>3, <2>4
<1>3. ASSUME AdvanceIndexNoToggle PROVE Channel!Take
  <2>1. pc = "advance" /\ Unread > 0 /\ Lap = ours
    BY <1>3, Zenon DEF AdvanceIndexNoToggle, EventInv, PopState, Lap
  <2>2. trb[index].cycle = ours
    BY <2>1, OwnedIsUnread
  <2>3. pc' = "erdp" /\ index' = Succ(index) /\ UNCHANGED <<ours, trb, hwIndex, hwCycle>>
    BY <1>3, <2>2, Zenon DEF AdvanceIndexNoToggle, hwVars
  <2>4. index' = IF index = NUM_TRB - 1 THEN 0 ELSE index + 1
    BY <1>0, <2>3, SuccValue DEF Slots
  <2>5. Unread' = Unread - 1
    BY <1>0, <2>1, <2>3, <2>4 DEF Lap, Unread, ReaderBehind
  <2>6. \A k \in 0..(NUM_TRB - 2) : SlotAhead(k)' = SlotAhead(k + 1)
    BY <1>0, <2>4 DEF SlotAhead
  <2>7. \A k \in 1..Unread' : Pending'[k] = Pending[k + 1]
    <3> SUFFICES ASSUME NEW k \in 1..Unread' PROVE Pending'[k] = Pending[k + 1]
      OBVIOUS
    <3>1. k + 1 \in 1..Unread /\ (k + 1) - 1 = (k - 1) + 1 /\ k - 1 \in 0..(NUM_TRB - 2)
      BY <1>0, <2>5
    <3>2. Pending'[k] = trb'[SlotAhead(k - 1)'].body
      BY DEF Pending
    <3>3. Pending[k + 1] = trb[SlotAhead((k + 1) - 1)].body
      BY <3>1 DEF Pending
    <3>4. QED
      BY <2>3, <2>6, <3>1, <3>2, <3>3
  <2>8. Pending' = Tail(Pending) /\ Pending # <<>>
    BY <1>0, <2>1, <2>5, <2>7
  <2>9. QED
    BY <2>8 DEF Channel!Take
<1>4. ASSUME NEW e \in Event, Post(e) PROVE Channel!Put
  <2>1. /\ trb' = [trb EXCEPT ![hwIndex] = [cycle |-> hwCycle, body |-> e]]
        /\ hwIndex' = Succ(hwIndex)
        /\ hwCycle' = IF Succ(hwIndex) = 0 THEN 1 - hwCycle ELSE hwCycle
        /\ UNCHANGED <<index, ours, pc>>
    BY <1>4, Zenon DEF Post, driverVars
  <2>2. Succ(hwIndex) = IF hwIndex = NUM_TRB - 1 THEN 0 ELSE hwIndex + 1
    BY <1>0, SuccValue DEF Slots
  <2>3. Lap' = Lap /\ \A k \in 0..(NUM_TRB - 1) : SlotAhead(k)' = SlotAhead(k)
    BY <2>1 DEF Lap, SlotAhead
  <2>4. Unread' = Unread + 1
    <3>1. ReaderBehind'
      BY DEF EventInv
    <3>2. QED
      BY <1>0, <2>1, <2>2, <2>3, <3>1 DEF Unread, ReaderBehind
  <2>5. \A k \in 1..Unread : Pending'[k] = Pending[k]
    <3> SUFFICES ASSUME NEW k \in 1..Unread PROVE Pending'[k] = Pending[k]
      OBVIOUS
    <3>1. k \in 1..Unread' /\ k - 1 \in 0..(NUM_TRB - 1) /\ k - 1 \in 0..(Unread - 1)
      BY <1>0, <2>4
    <3>2. Pending'[k] = trb'[SlotAhead(k - 1)'].body
      BY <3>1 DEF Pending
    <3>3. Pending[k] = trb[SlotAhead(k - 1)].body
      BY DEF Pending
    <3>4. SlotAhead(k - 1) # hwIndex /\ SlotAhead(k - 1) \in Slots
      BY <3>1, AheadSlots
    <3>5. trb'[SlotAhead(k - 1)] = trb[SlotAhead(k - 1)]
      BY <1>0, <2>1, <3>4
    <3>6. QED
      BY <2>3, <3>1, <3>2, <3>3, <3>5
  <2>6. Pending'[Unread + 1] = e
    <3>1. ASSUME NEW k \in 1..Unread', k = Unread + 1 PROVE Pending'[k] = e
      <4>1. Pending'[k] = trb'[SlotAhead(k - 1)'].body
        BY DEF Pending
      <4>2. k - 1 = Unread /\ k - 1 \in 0..(NUM_TRB - 1)
        BY <1>0, <3>1
      <4>3. SlotAhead(k - 1)' = hwIndex
        BY <2>3, <4>2, AheadSlots
      <4>4. trb'[hwIndex].body = e
        BY <1>0, <2>1 DEF Slots
      <4>5. QED
        BY <4>1, <4>3, <4>4
    <3>2. Unread + 1 \in 1..Unread'
      BY <1>0, <2>4
    <3>3. QED
      BY <3>1, <3>2
  <2>7. Pending' = Append(Pending, e)
    BY <1>0, <2>4, <2>5, <2>6
  <2>8. QED
    BY <2>7 DEF Channel!Put
<1>5. QED
  BY <1>1, <1>2, <1>3, <1>4, Zenon DEF Next, Pop, Channel!Next

\* The event ring is a FIFO channel from controller to driver for every ring
\* size: no event is lost, repeated or overwritten before it is read.
THEOREM EventRingIsChannel == Spec => ImplementsChannel
<1>1. Init => Channel!Init
  <2> SUFFICES ASSUME Init PROVE Pending = <<>>
    BY DEF Channel!Init
  <2>1. Unread = 0
    BY DEF Init, Unread, Lap
  <2>2. QED
    BY <2>1 DEF Pending
<1>2. QED
  BY <1>1, EventRingSafety, ChannelStep, PTL DEF Spec, ImplementsChannel, Channel!Spec
=============================================================================
