-------------------------- MODULE CommandRingProof --------------------------
(***************************************************************************)
(* The safety of the command and transfer rings for every ring size the    *)
(* uses of the ring allow, and for every content of the TRBs.              *)
(***************************************************************************)
EXTENDS CommandRing, TLAPS, SequenceTheorems

\* The entries before the driver's index were published in this lap, the
\* others carry the bit of the lap before.
CycleBits ==
  \A j \in Slots : trb[j].cycle = IF j < index THEN 1 - ours ELSE ours

\* The controller is in the driver's lap and not ahead of it, or one lap
\* behind and not yet overtaken.
HwBehind == \/ hwCycle = 1 - ours /\ hwIndex <= index
            \/ hwCycle = ours /\ index < hwIndex

\* How many TRBs may be outstanding at each point of a use of the ring.
UseBound ==
  /\ pc = "idle" => Outstanding <= 1
  /\ pc \in {"write", "publish"} => left >= 1 /\ Outstanding + left <= 1 + use.trbs
  /\ pc = "link" => Outstanding + left <= 1 + use.trbs
  /\ pc \in {"notify", "wait"} => Outstanding <= 1 + use.trbs

RingInv ==
  /\ TypeOK
  /\ PushNeverFails
  /\ CycleBits
  /\ HwBehind
  /\ UseBound
  /\ (pc = "link" <=> index = Last)
  /\ Outstanding >= 0

(***************************************************************************)
(* The ring invariant: the driver is never more than a lap ahead of the    *)
(* controller, so that no published TRB and no published Link is written   *)
(* over, and push's own checks never fail.                                 *)
(***************************************************************************)
THEOREM RingSafety == Spec => []RingInv
<1> USE RingSizeAssumption DEF Last, Slots, Bit
<1>1. Init => RingInv
  <2> SUFFICES ASSUME Init PROVE RingInv
    OBVIOUS
  <2>1. PICK b \in Body : trb = [i \in Slots |-> [cycle |-> 0, body |-> b]]
    BY DEF Init
  <2>2. trb \in [Slots -> [cycle : Bit, body : Body]]
    BY <2>1
  <2>3. \A j \in Slots : trb[j].cycle = 0
    BY <2>1
  <2>4. TypeOK
    <3>1. use \in Uses \union {NoUse} /\ running \in BOOLEAN
      BY DEF Init
    <3>2. QED
      BY <2>2, <3>1 DEF Init, TypeOK, PC
  <2>5. Outstanding = 0
    BY DEF Init, Outstanding
  <2>6. QED
    BY <2>3, <2>4, <2>5 DEF Init, RingInv, PushNeverFails, CycleBits, HwBehind, UseBound
<1>2. RingInv /\ [Next]_vars => RingInv'
  <2> SUFFICES ASSUME RingInv, [Next]_vars PROVE RingInv'
    OBVIOUS
  <2> USE DEF RingInv
  <2>1. ASSUME NEW u \in Uses, StartUse(u) PROVE RingInv'
    BY <2>1 DEF StartUse, hwVars, Uses, NoUse, TypeOK, PC, PushNeverFails, CycleBits, HwBehind,
                UseBound, Outstanding
  <2>2. ASSUME NEW b \in Body, PushWrite(b) PROVE RingInv'
    <3>1. trb[index].cycle = ours
      BY DEF TypeOK, CycleBits
    <3>2. /\ trb' = [trb EXCEPT ![index] = [cycle |-> ours, body |-> b]]
          /\ pc = "write" /\ pc' = "publish"
          /\ UNCHANGED <<index, ours, use, left, hwIndex, hwCycle, running>>
      BY <2>2, <3>1 DEF PushWrite, hwVars
    <3>3. trb' \in [Slots -> [cycle : Bit, body : Body]] /\ \A j \in Slots : trb'[j].cycle = trb[j].cycle
      BY <3>1, <3>2 DEF TypeOK
    <3>4. QED
      BY <3>2, <3>3 DEF TypeOK, PC, PushNeverFails, CycleBits, HwBehind,
                UseBound, Outstanding, Uses, NoUse
  <2>3. CASE PushPublish
    <3>0. /\ pc = "publish"
          /\ IF trb[index].cycle = 1 - ours
             THEN pc' = "cycle error" /\ UNCHANGED <<trb, index, left>>
             ELSE /\ AdvanceIndex
                  /\ pc' = IF index' = Last THEN "link" ELSE AfterPush
                  /\ left' = left - 1
          /\ UNCHANGED <<ours, use, hwIndex, hwCycle, running>>
      BY <2>3, Zenon DEF PushPublish, hwVars
    <3>a. index # Last
      BY <3>0
    <3>b. ours \in Bit /\ index \in 0..Last
      BY DEF TypeOK
    <3>c. trb[index].cycle = ours
      BY <3>b DEF CycleBits
    <3>d. (index + 1) % NUM_TRB = index + 1
      BY <3>a, <3>b
    <3>1. trb[index].cycle = ours /\ index # Last /\ ours \in Bit /\ index \in 0..Last
      BY <3>a, <3>b, <3>c
    <3>2. /\ trb' = [trb EXCEPT ![index] = [cycle |-> 1 - ours, body |-> @.body]]
          /\ index' = index + 1
          /\ pc = "publish" /\ pc' = IF index' = Last THEN "link" ELSE AfterPush
          /\ left' = left - 1
          /\ UNCHANGED <<ours, use, hwIndex, hwCycle, running>>
      <4>1. trb[index].cycle # 1 - ours
        BY <3>1
      <4>2. AdvanceIndex
        BY <3>0, <4>1, Zenon
      <4>3. QED
        BY <3>0, <3>d, <4>1, <4>2, Zenon DEF AdvanceIndex
    <3>3. /\ trb' \in [Slots -> [cycle : Bit, body : Body]]
          /\ \A j \in Slots : trb'[j].cycle = IF j = index THEN 1 - ours ELSE trb[j].cycle
      BY <3>1, <3>2 DEF TypeOK
    <3>4. CycleBits'
      BY <3>1, <3>2, <3>3 DEF CycleBits, TypeOK
    <3>5. Outstanding' = Outstanding + 1
      BY <3>1, <3>2 DEF Outstanding, TypeOK
    <3>6. use.trbs <= 3 /\ use.trbs \in Nat /\ use.after \in Nat
      BY DEF TypeOK, Uses, NoUse
    <3>7. HwBehind'
      BY <3>1, <3>2, <3>6 DEF HwBehind, UseBound, Outstanding, TypeOK
    <3>8. TypeOK'
      BY <3>1, <3>2, <3>3 DEF TypeOK, PC, AfterPush, UseBound
    <3>9. UseBound' /\ (Outstanding >= 0)'
      BY <3>1, <3>2, <3>5, <3>6, <3>8 DEF UseBound, AfterPush, TypeOK, Outstanding
    <3>10. QED
      BY <3>1, <3>2, <3>4, <3>7, <3>8, <3>9 DEF PushNeverFails, AfterPush
  <2>4. CASE PushLink
    <3>0. /\ pc = "link"
          /\ IF trb[index].cycle = 1 - ours
             THEN pc' = "cycle error" /\ UNCHANGED <<trb, index, ours>>
             ELSE /\ AdvanceIndex
                  /\ ours' = 1 - ours
                  /\ pc' = IF left = 0 THEN "notify" ELSE "write"
          /\ UNCHANGED <<use, left, hwIndex, hwCycle, running>>
      BY <2>4, Zenon DEF PushLink, hwVars
    <3>a. index = Last
      BY <3>0
    <3>b. ours \in Bit /\ index \in 0..Last
      BY DEF TypeOK
    <3>c. trb[index].cycle = ours
      BY <3>b DEF CycleBits
    <3>d. (index + 1) % NUM_TRB = 0
      BY <3>a
    <3>1. trb[index].cycle = ours /\ index = Last /\ ours \in Bit
      BY <3>a, <3>b, <3>c
    <3>2. /\ trb' = [trb EXCEPT ![index] = [cycle |-> 1 - ours, body |-> @.body]]
          /\ index' = 0
          /\ ours' = 1 - ours
          /\ pc = "link" /\ pc' = IF left = 0 THEN "notify" ELSE "write"
          /\ UNCHANGED <<left, use, hwIndex, hwCycle, running>>
      <4>1. trb[index].cycle # 1 - ours
        BY <3>1
      <4>2. AdvanceIndex
        BY <3>0, <4>1, Zenon
      <4>3. QED
        BY <3>0, <3>d, <4>1, <4>2, Zenon DEF AdvanceIndex
    <3>3. /\ trb' \in [Slots -> [cycle : Bit, body : Body]]
          /\ \A j \in Slots : trb'[j].cycle = IF j = index THEN 1 - ours ELSE trb[j].cycle
      BY <3>1, <3>2 DEF TypeOK
    <3>4. CycleBits'
      BY <3>1, <3>2, <3>3 DEF CycleBits, TypeOK
    <3>6. use.trbs <= 3 /\ use.trbs \in Nat /\ use.after \in Nat
      BY DEF TypeOK, Uses, NoUse
    <3>7. hwCycle = 1 - ours /\ hwIndex <= Last /\ hwIndex \in Nat /\ Outstanding = Last - hwIndex
      BY <3>1 DEF HwBehind, TypeOK, Outstanding
    <3>8. hwIndex > 0
      BY <3>2, <3>6, <3>7 DEF UseBound, TypeOK
    <3>9. HwBehind' /\ Outstanding' = Outstanding
      BY <3>1, <3>2, <3>7, <3>8 DEF HwBehind, Outstanding
    <3>10. TypeOK'
      BY <3>1, <3>2, <3>3 DEF TypeOK, PC
    <3>11. UseBound'
      BY <3>2, <3>9, <3>6, <3>7 DEF UseBound, TypeOK
    <3>12. QED
      BY <3>1, <3>2, <3>4, <3>9, <3>10, <3>11 DEF PushNeverFails
  <2>5. CASE Notify
    BY <2>5 DEF Notify, hwVars, TypeOK, PC, PushNeverFails, CycleBits, HwBehind,
                UseBound, Outstanding, Uses, NoUse
  <2>6. CASE Completed
    BY <2>6 DEF Completed, hwVars, TypeOK, PC, PushNeverFails, CycleBits, HwBehind,
                UseBound, Outstanding, Uses, NoUse
  <2>7. CASE HwTake
    <3>1. /\ trb[hwIndex].cycle = hwCycle /\ hwIndex # Last /\ hwIndex' = hwIndex + 1
          /\ UNCHANGED <<trb, index, ours, pc, use, left, hwCycle, running>>
      BY <2>7, Zenon DEF HwTake, driverVars
    <3>2. hwIndex \in 0..Last /\ index \in 0..Last /\ ours \in Bit /\ hwCycle \in Bit
      BY DEF TypeOK
    <3>3. \/ hwCycle = 1 - ours /\ hwIndex < index
          \/ hwCycle = ours /\ index < hwIndex
      BY <3>1, <3>2 DEF CycleBits, HwBehind
    <3>4. TypeOK'
      BY <3>1, <3>2 DEF TypeOK
    <3>5. HwBehind' /\ Outstanding' = Outstanding - 1 /\ Outstanding' >= 0
      BY <3>1, <3>2, <3>3 DEF HwBehind, Outstanding
    <3>6. Outstanding \in Int /\ left \in Int /\ use.trbs \in Int
      BY <3>2 DEF Outstanding, TypeOK, Uses, NoUse
    <3>7. UseBound'
      BY <3>1, <3>5, <3>6 DEF UseBound
    <3>8. QED
      BY <3>1, <3>4, <3>5, <3>7 DEF PushNeverFails, CycleBits
  <2>8. CASE HwLink
    <3>1. /\ trb[hwIndex].cycle = hwCycle /\ hwIndex = Last /\ hwIndex' = 0 /\ hwCycle' = 1 - hwCycle
          /\ UNCHANGED <<trb, index, ours, pc, use, left, running>>
      BY <2>8, Zenon DEF HwLink, driverVars
    <3>2. hwIndex \in 0..Last /\ index \in 0..Last /\ ours \in Bit /\ hwCycle \in Bit
      BY DEF TypeOK
    <3>3. hwCycle = ours /\ index < Last
      BY <3>1, <3>2 DEF CycleBits, HwBehind
    <3>4. TypeOK'
      BY <3>1, <3>2 DEF TypeOK
    <3>5. HwBehind' /\ Outstanding' = Outstanding
      BY <3>1, <3>2, <3>3 DEF HwBehind, Outstanding
    <3>6. UseBound'
      BY <3>1, <3>5 DEF UseBound
    <3>7. QED
      BY <3>1, <3>4, <3>5, <3>6 DEF PushNeverFails, CycleBits
  <2>9. CASE HwStop
    <3>1. /\ UNCHANGED <<trb, index, ours, pc, use, left, hwIndex, hwCycle>>
          /\ running' = FALSE
      BY <2>9, Zenon DEF HwStop, driverVars
    <3>2. Outstanding' = Outstanding
      BY <3>1 DEF Outstanding
    <3>3. TypeOK'
      BY <3>1 DEF TypeOK
    <3>4. HwBehind' /\ UseBound'
      BY <3>1, <3>2 DEF HwBehind, UseBound
    <3>5. QED
      BY <3>1, <3>2, <3>3, <3>4 DEF PushNeverFails, CycleBits
  <2>10. CASE UNCHANGED vars
    <3>1. UNCHANGED <<trb, index, ours, pc, use, left, hwIndex, hwCycle, running>>
      BY <2>10, Zenon DEF vars, driverVars, hwVars
    <3>2. Outstanding' = Outstanding
      BY <3>1 DEF Outstanding
    <3>3. TypeOK'
      BY <3>1 DEF TypeOK
    <3>4. HwBehind' /\ UseBound'
      BY <3>1, <3>2 DEF HwBehind, UseBound
    <3>5. QED
      BY <3>1, <3>2, <3>3, <3>4 DEF PushNeverFails, CycleBits
  <2>11. QED
    BY <2>1, <2>2, <2>3, <2>4, <2>5, <2>6, <2>7, <2>8, <2>9, <2>10 DEF Next
<1>3. QED
  BY <1>1, <1>2, PTL DEF Spec

-----------------------------------------------------------------------------
(* What the invariant gives the runs' properties.                          *)

\* The bound on the outstanding TRBs that each point of a use respects.
LEMMA OutstandingBound == RingInv => Outstanding \in 0..4 /\ AtMostFour
<1> SUFFICES ASSUME RingInv PROVE Outstanding \in 0..4
  BY DEF AtMostFour
<1>1. Outstanding \in Int
  BY RingSizeAssumption DEF RingInv, TypeOK, Outstanding, Slots, Last
<1>2. left \in 0..3 /\ use.trbs \in 0..3 /\ pc \in PC /\ Outstanding >= 0
  BY DEF RingInv, TypeOK, Uses, NoUse
<1>3. pc \in {"idle", "write", "publish", "link", "notify", "wait"}
  BY <1>2 DEF RingInv, PushNeverFails, PC
<1>4. Outstanding <= 4
  <2>1. CASE pc = "idle"
    BY <1>1, <2>1 DEF RingInv, UseBound
  <2>2. CASE pc \in {"write", "publish", "link"}
    <3>1. Outstanding + left <= 1 + use.trbs
      BY <2>2 DEF RingInv, UseBound
    <3>2. QED
      BY <1>1, <1>2, <3>1
  <2>3. CASE pc \in {"notify", "wait"}
    <3>1. Outstanding <= 1 + use.trbs
      BY <2>3 DEF RingInv, UseBound
    <3>2. QED
      BY <1>1, <1>2, <3>1
  <2>4. QED
    BY <1>3, <2>1, <2>2, <2>3
<1>5. QED
  BY <1>1, <1>2, <1>4

\* Where the controller stands in front of an entry of its own.
LEMMA OwnedIsPublished == RingInv => ControllerSeesPublished
<1> SUFFICES ASSUME RingInv PROVE ControllerSeesPublished
  OBVIOUS
<1>1. hwIndex \in 0..Last /\ index \in 0..Last /\ ours \in {0, 1} /\ hwCycle \in {0, 1} /\ Last \in Nat
  BY RingSizeAssumption DEF RingInv, TypeOK, Slots, Bit, Last
<1>2. trb[hwIndex].cycle = IF hwIndex < index THEN 1 - ours ELSE ours
  BY <1>1 DEF RingInv, CycleBits, Slots
<1>3. QED
  BY <1>1, <1>2 DEF RingInv, HwBehind, Outstanding, ControllerSeesPublished

\* push never takes an error return: the TRBs of a request are all pushed
\* before its doorbell.
THEOREM PushSucceeds == Spec => []PushNeverFails
BY RingSafety, PTL DEF RingInv

\* The ring never holds more than four TRBs the controller has not taken.
THEOREM RingNeverOverflows == Spec => []AtMostFour
BY RingSafety, OutstandingBound, PTL

\* The controller's view of the cycle bits agrees with what was published, at
\* every point of push.
THEOREM OwnershipAgrees == Spec => []ControllerSeesPublished
BY RingSafety, OwnedIsPublished, PTL

-----------------------------------------------------------------------------
(* The ring implements the channel.                                        *)

\* The entry behind the last outstanding one is the one the driver writes
\* next, and no outstanding one is.
LEMMA DriverSlot ==
  ASSUME RingInv, index # Last
  PROVE  /\ SlotAhead(Outstanding) = index
         /\ \A k \in 0..(Outstanding - 1) : SlotAhead(k) # index
<1>1. hwIndex \in 0..Last /\ index \in 0..Last /\ ours \in {0, 1} /\ hwCycle \in {0, 1} /\ Last \in Nat
      /\ Last >= 5
  BY RingSizeAssumption DEF RingInv, TypeOK, Slots, Bit, Last
<1>2. Outstanding \in 0..4
  BY OutstandingBound
<1>3. QED
  BY <1>1, <1>2 DEF RingInv, HwBehind, Outstanding, SlotAhead

\* The outstanding TRBs are in entries of the ring before the Link.
LEMMA SlotsAhead ==
  ASSUME RingInv, NEW k \in 0..4
  PROVE  SlotAhead(k) \in 0..(Last - 1)
BY RingSizeAssumption DEF RingInv, TypeOK, Slots, Last, SlotAhead

\* Pending is a sequence of bodies.
LEMMA PendingSeq == RingInv => Pending \in Seq(Body) /\ Len(Pending) = Outstanding
<1> SUFFICES ASSUME RingInv PROVE Pending \in Seq(Body) /\ Len(Pending) = Outstanding
  OBVIOUS
<1>1. Outstanding \in 0..4 /\ Last \in Nat
  BY OutstandingBound, RingSizeAssumption DEF Last
<1>2. \A k \in 1..Outstanding : trb[SlotAhead(k - 1)].body \in Body
  <2> SUFFICES ASSUME NEW k \in 1..Outstanding PROVE trb[SlotAhead(k - 1)].body \in Body
    OBVIOUS
  <2>1. SlotAhead(k - 1) \in 0..(Last - 1)
    <3>1. k - 1 \in 0..4
      BY <1>1
    <3>2. QED
      BY <3>1, SlotsAhead
  <2>2. SlotAhead(k - 1) \in Slots
    BY <1>1, <2>1 DEF Slots
  <2>3. QED
    BY <2>2 DEF RingInv, TypeOK
<1>3. QED
  BY <1>1, <1>2 DEF Pending

\* Every step of the ring is a step of the channel or leaves it alone.
LEMMA ChannelStep == RingInv /\ RingInv' /\ [Next]_vars => [Channel!Next]_Pending
<1>a. RingInv' => (Outstanding \in 0..4 /\ Pending \in Seq(Body) /\ Len(Pending) = Outstanding)'
  <2>1. RingInv => Outstanding \in 0..4 /\ Pending \in Seq(Body) /\ Len(Pending) = Outstanding
    BY OutstandingBound, PendingSeq
  <2>2. QED
    BY <2>1, PTL
<1> SUFFICES ASSUME RingInv, RingInv', [Next]_vars PROVE [Channel!Next]_Pending
  OBVIOUS
<1> USE RingSizeAssumption
<1>0. /\ Outstanding \in 0..4 /\ Outstanding' \in 0..4 /\ Last \in Nat /\ Last >= 5
      /\ Pending \in Seq(Body) /\ Len(Pending) = Outstanding
      /\ Pending' \in Seq(Body) /\ Len(Pending') = Outstanding'
      /\ hwIndex \in 0..Last /\ index \in 0..Last /\ ours \in {0, 1} /\ hwCycle \in {0, 1}
      /\ trb \in [Slots -> [cycle : Bit, body : Body]]
  <2>1. Outstanding \in 0..4 /\ Pending \in Seq(Body) /\ Len(Pending) = Outstanding
    BY OutstandingBound, PendingSeq
  <2>2. Outstanding' \in 0..4 /\ Pending' \in Seq(Body) /\ Len(Pending') = Outstanding'
    BY <1>a
  <2>3. QED
    BY <2>1, <2>2 DEF RingInv, TypeOK, Slots, Bit, Last
<1>1. ASSUME NEW b \in Body, PushWrite(b) PROVE UNCHANGED Pending
  <2>1. /\ index # Last
        /\ UNCHANGED <<index, ours, hwIndex, hwCycle>>
        /\ \A j \in Slots : j # index => trb'[j].body = trb[j].body
    BY <1>0, <1>1 DEF PushWrite, hwVars, RingInv
  <2>2. Outstanding' = Outstanding /\ \A k \in 0..4 : SlotAhead(k)' = SlotAhead(k)
    BY <2>1 DEF Outstanding, SlotAhead
  <2>3. \A k \in 1..Outstanding : trb'[SlotAhead(k - 1)'].body = trb[SlotAhead(k - 1)].body
    <3> SUFFICES ASSUME NEW k \in 1..Outstanding
                 PROVE trb'[SlotAhead(k - 1)'].body = trb[SlotAhead(k - 1)].body
      OBVIOUS
    <3>1. k - 1 \in 0..4 /\ k - 1 \in 0..(Outstanding - 1)
      BY <1>0
    <3>2. SlotAhead(k - 1) \in Slots
      BY <1>0, <3>1, SlotsAhead DEF Slots
    <3>3. SlotAhead(k - 1) # index
      BY <3>1, <2>1, DriverSlot
    <3>4. QED
      BY <2>1, <2>2, <3>1, <3>2, <3>3
  <2>4. QED
    BY <2>2, <2>3, Zenon DEF Pending
<1>2. ASSUME PushPublish PROVE Channel!Put
  <2>1. /\ index # Last
        /\ UNCHANGED <<ours, hwIndex, hwCycle>>
        /\ \A j \in Slots : trb'[j].body = trb[j].body
        /\ index' = index + 1
    <3>1. pc = "publish" /\ pc' # "cycle error"
      BY <1>2 DEF PushPublish, RingInv, PushNeverFails
    <3>2. index # Last
      BY <3>1 DEF RingInv
    <3>3. AdvanceIndex /\ UNCHANGED <<ours, hwIndex, hwCycle>>
      BY <1>2, <3>1, Zenon DEF PushPublish, hwVars
    <3>4. (index + 1) % NUM_TRB = index + 1
      <4>1. index + 1 \in 0..(NUM_TRB - 1)
        BY <1>0, <3>2 DEF Last
      <4>2. QED
        BY <4>1
    <3>5. QED
      BY <1>0, <3>2, <3>3, <3>4 DEF AdvanceIndex
  <2>2. Outstanding' = Outstanding + 1
    BY <1>0, <2>1 DEF Outstanding
  <2>3. \A k \in 0..4 : SlotAhead(k)' = SlotAhead(k)
    BY <2>1 DEF SlotAhead
  <2>4. trb[index].body \in Body
    BY <1>0 DEF Slots
  <2>5. \A k \in 1..Outstanding' : trb'[SlotAhead(k - 1)'].body = trb[SlotAhead(k - 1)].body
    <3> SUFFICES ASSUME NEW k \in 1..Outstanding'
                 PROVE trb'[SlotAhead(k - 1)'].body = trb[SlotAhead(k - 1)].body
      OBVIOUS
    <3>1. k - 1 \in 0..4
      BY <1>0
    <3>2. SlotAhead(k - 1) \in Slots
      BY <1>0, <3>1, SlotsAhead DEF Slots
    <3>3. QED
      BY <2>1, <2>3, <3>1, <3>2
  <2>6. trb[SlotAhead(Outstanding)].body = trb[index].body
    BY <2>1, DriverSlot
  <2>7. \A k \in 1..Outstanding : Pending'[k] = Pending[k]
    BY <1>0, <2>2, <2>5 DEF Pending
  <2>8. Pending'[Outstanding + 1] = trb[index].body
    <3>1. ASSUME NEW k \in 1..Outstanding', k = Outstanding + 1
          PROVE Pending'[k] = trb[index].body
      <4>1. Pending'[k] = trb'[SlotAhead(k - 1)'].body
        BY DEF Pending
      <4>2. k - 1 = Outstanding
        BY <1>0, <3>1
      <4>3. QED
        BY <2>5, <2>6, <4>1, <4>2
    <3>2. Outstanding + 1 \in 1..Outstanding'
      BY <1>0, <2>2
    <3>3. QED
      BY <3>1, <3>2
  <2>9. Pending' = Append(Pending, trb[index].body)
    BY <1>0, <2>2, <2>4, <2>7, <2>8
  <2>10. QED
    BY <2>4, <2>9 DEF Channel!Put
<1>3. ASSUME PushLink PROVE UNCHANGED Pending
  <2>1. /\ index = Last
        /\ UNCHANGED <<hwIndex, hwCycle>>
        /\ \A j \in Slots : trb'[j].body = trb[j].body
        /\ index' = 0
        /\ ours' = 1 - ours
    <3>1. pc = "link" /\ pc' # "cycle error"
      BY <1>3 DEF PushLink, RingInv, PushNeverFails
    <3>2. index = Last
      BY <3>1 DEF RingInv
    <3>3. AdvanceIndex /\ UNCHANGED <<hwIndex, hwCycle>> /\ ours' = 1 - ours
      BY <1>3, <3>1, Zenon DEF PushLink, hwVars
    <3>4. (index + 1) % NUM_TRB = 0
      BY <1>0, <3>2 DEF Last
    <3>5. QED
      BY <1>0, <3>2, <3>3, <3>4 DEF AdvanceIndex
  <2>2. Outstanding' = Outstanding
    BY <1>0, <2>1 DEF Outstanding, RingInv, HwBehind
  <2>3. \A k \in 0..4 : SlotAhead(k)' = SlotAhead(k)
    BY <2>1 DEF SlotAhead
  <2>4. \A k \in 1..Outstanding : trb'[SlotAhead(k - 1)'].body = trb[SlotAhead(k - 1)].body
    <3> SUFFICES ASSUME NEW k \in 1..Outstanding
                 PROVE trb'[SlotAhead(k - 1)'].body = trb[SlotAhead(k - 1)].body
      OBVIOUS
    <3>1. k - 1 \in 0..4
      BY <1>0
    <3>2. SlotAhead(k - 1) \in Slots
      BY <1>0, <3>1, SlotsAhead DEF Slots
    <3>3. QED
      BY <2>1, <2>3, <3>1, <3>2
  <2>5. QED
    BY <2>2, <2>4, Zenon DEF Pending
<1>4. ASSUME HwTake PROVE Channel!Take
  <2>1. /\ hwIndex # Last /\ hwIndex' = hwIndex + 1
        /\ UNCHANGED <<trb, index, ours, hwCycle>>
        /\ trb[hwIndex].cycle = hwCycle
    BY <1>4, Zenon DEF HwTake, driverVars
  <2>2. Outstanding > 0
    BY <2>1, OwnedIsPublished DEF ControllerSeesPublished
  <2>3. Outstanding' = Outstanding - 1
    BY <1>0, <2>1 DEF Outstanding
  <2>4. \A k \in 0..4 : SlotAhead(k)' = SlotAhead(k + 1)
    BY <1>0, <2>1 DEF SlotAhead
  <2>5. \A k \in 1..Outstanding' : Pending'[k] = Pending[k + 1]
    <3> SUFFICES ASSUME NEW k \in 1..Outstanding' PROVE Pending'[k] = Pending[k + 1]
      OBVIOUS
    <3>1. k \in 1..4 /\ k + 1 \in 1..Outstanding /\ (k + 1) - 1 = (k - 1) + 1 /\ k - 1 \in 0..4
      BY <1>0, <2>3
    <3>2. Pending'[k] = trb'[SlotAhead(k - 1)'].body
      BY DEF Pending
    <3>3. Pending[k + 1] = trb[SlotAhead((k + 1) - 1)].body
      BY <3>1 DEF Pending
    <3>4. QED
      BY <2>1, <2>4, <3>1, <3>2, <3>3
  <2>6. Pending' = Tail(Pending) /\ Pending # <<>>
    BY <1>0, <2>2, <2>3, <2>5
  <2>7. QED
    BY <2>6 DEF Channel!Take
<1>5. ASSUME HwLink PROVE UNCHANGED Pending
  <2>1. /\ hwIndex = Last /\ hwIndex' = 0 /\ hwCycle' = 1 - hwCycle
        /\ UNCHANGED <<trb, index, ours>>
        /\ trb[hwIndex].cycle = hwCycle
    BY <1>5, Zenon DEF HwLink, driverVars
  <2>2. Outstanding' = Outstanding
    BY <1>0, <2>1 DEF Outstanding, RingInv, HwBehind
  <2>3. \A k \in 0..4 : SlotAhead(k)' = SlotAhead(k)
    BY <1>0, <2>1 DEF SlotAhead
  <2>4. \A k \in 1..Outstanding : SlotAhead(k - 1)' = SlotAhead(k - 1)
    BY <1>0, <2>3
  <2>5. \A k \in 1..Outstanding : trb'[SlotAhead(k - 1)'].body = trb[SlotAhead(k - 1)].body
    BY <2>1, <2>4
  <2>6. QED
    BY <2>2, <2>5, Zenon DEF Pending
<1>6. ASSUME UNCHANGED <<trb, index, ours, hwIndex, hwCycle>> PROVE UNCHANGED Pending
  BY <1>6, Zenon DEF Pending, Outstanding, SlotAhead
<1>7. ASSUME \/ \E u \in Uses : StartUse(u)
             \/ Notify \/ Completed \/ HwStop \/ UNCHANGED vars
      PROVE UNCHANGED <<trb, index, ours, hwIndex, hwCycle>>
  BY <1>7, Zenon DEF StartUse, Notify, Completed, HwStop, vars, driverVars, hwVars
<1>8. QED
  BY <1>1, <1>2, <1>3, <1>4, <1>5, <1>6, <1>7, Zenon DEF Next, Channel!Next

\* The ring is a FIFO channel between driver and controller for every ring
\* size: no TRB is lost, repeated, altered or seen before it is complete.
THEOREM RingIsChannel == Spec => ImplementsChannel
<1>1. Init => Channel!Init
  <2> SUFFICES ASSUME Init PROVE Pending = <<>>
    BY DEF Channel!Init
  <2>1. Outstanding = 0
    BY DEF Init, Outstanding
  <2>2. QED
    BY <2>1 DEF Pending
<1>2. QED
  BY <1>1, RingSafety, ChannelStep, PTL DEF Spec, ImplementsChannel, Channel!Spec
=============================================================================
