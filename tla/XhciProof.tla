----------------------------- MODULE XhciProof ------------------------------
(***************************************************************************)
(* The driver, the polling task and the controller agree on what is under  *)
(* way, for rings and event rings of any size and any order in which       *)
(* TRBs are taken, fail, complete and are reported.                        *)
(***************************************************************************)
EXTENDS Xhci, FiniteSetTheorems, FunctionTheorems, TLAPS

-----------------------------------------------------------------------------
(* The inductive invariant                                                 *)

PC == {"init_port", "push", "notify", "register", "await", "ready", "ended", "panic"}
Commands == {"EnableSlot", "AddressDevice"}
Trb == [addr : Addr, ioc : BOOLEAN]

TypeInv ==
  /\ pc \in PC /\ kind \in Kind /\ pushed \in 0..3 /\ slot \in 0..MAX_SLOTS
  /\ place \in [Ring -> 0..(PLACES - 1)]
  /\ ring \in [Ring -> Seq(Trb)]
  /\ halted \in BOOLEAN
  /\ events \in Seq(Event)
  /\ wait_list \subseteq Waiter /\ future \subseteq Waiter
  /\ trbs \in [Waiter -> Seq(Event)]
  /\ DOMAIN cond = Waiter

\* The address of the TRB that was pushed d pushes ago.
Back(r, d) == <<r, IF place[r] >= d THEN place[r] - d ELSE (place[r] - d) + PLACES>>

\* The driver is busy with a request; it has pushed the awaited TRB, Gap pushes
\* ago.
Active == {"push", "notify", "register", "await"}
Issued == pc \in Active /\ pushed >= AwaitedStage(kind)
Gap == (pushed - AwaitedStage(kind)) + 1

Current == ring[RingOf(kind)]
InRing == Len(Current) >= Gap
Named(a) == {i \in 1..Len(events) : events[i].addr = a}

\* The rings hold the TRBs pushed last; of the request under way the awaited
\* one has the interrupt bit.
QueueInv ==
  /\ \A r \in Ring : Len(ring[r]) <= 4
  /\ \A r \in Ring : \A i \in 1..Len(ring[r]) :
       ring[r][i].addr = Back(r, (Len(ring[r]) - i) + 1)
  /\ \A i \in 1..Len(Current) :
       Current[i].ioc <=> Len(Current) - i = pushed - AwaitedStage(kind)
  /\ kind \in Commands => ring["endpoint"] = <<>> /\ ~halted
  /\ kind \notin Commands => ring["command"] = <<>>

\* At most the Status stage of the transfer before is left on the ring.
Left(k) == IF k \in Commands THEN 0 ELSE 1

ProgressInv ==
  /\ pc = "init_port" => kind = "EnableSlot" /\ pushed = 0 /\ Current = <<>>
  /\ pc = "push" => pushed < Stages(kind)
  /\ pc \in {"notify", "register", "await", "ready"} => pushed = Stages(kind)
  /\ pc \in Active => Len(Current) <= pushed + Left(kind)
  /\ pc = "ready" => kind # "EnableSlot" /\ Len(Current) <= pushed - AwaitedStage(kind)
  /\ Issued => ptr = Back(RingOf(kind), Gap)

\* An event names a TRB that has left its ring, and whose place was not used
\* again.
Gone(e) ==
  \/ e.addr = NoAddr
  \/ \E r \in Ring : \E d \in (Len(ring[r]) + 1)..PLACES : e.addr = Back(r, d)

\* The error of a stage nobody awaits: the endpoint has stopped.  If the stage
\* came before the awaited one, that is still on the ring.
Unawaited(e) ==
  /\ halted
  /\ \E d \in 1..(pushed + 1) :
       /\ e.addr = Back("endpoint", d)
       /\ pc = "ready" => d <= pushed - AwaitedStage(kind)
       /\ Issued => d # Gap /\ (d > Gap => InRing)

EventInv ==
  /\ \A i \in 1..Len(events) : Gone(events[i])
  /\ pc \in Active \union {"init_port", "ready"} =>
       \A i \in 1..Len(events) :
         \/ events[i].addr = NoAddr
         \/ Issued /\ events[i].addr = ptr
         \/ Unawaited(events[i])

\* The awaited TRB is on the ring, or its event in the event ring, or with the
\* waiter.
Waiting(w) ==
  /\ future = {w} /\ cond[w] = ptr /\ w \in wait_list
  /\ \/ InRing /\ Named(ptr) = {} /\ trbs[w] = <<>>
     \/ ~InRing /\ (\E i \in 1..Len(events) : Named(ptr) = {i}) /\ trbs[w] = <<>>
     \/ ~InRing /\ Named(ptr) = {} /\ Len(trbs[w]) = 1 /\ wait_list = {w}
  /\ \E v \in Waiter : wait_list \subseteq {v, w}

OnceInv ==
  /\ Issued /\ pc # "await" =>
       \/ InRing /\ Named(ptr) = {}
       \/ ~InRing /\ \E i \in 1..Len(events) : Named(ptr) = {i}
  /\ pc = "await" => \E w \in Waiter : Waiting(w)
  /\ pc # "await" => future = {} /\ \A v, w \in wait_list : v = w
  /\ \A w \in Waiter : w \notin future => trbs[w] = <<>>

XhciInv == TypeInv /\ QueueInv /\ ProgressInv /\ EventInv /\ OnceInv

-----------------------------------------------------------------------------
(* Requests and addresses                                                  *)

LEMMA Sizes ==
  /\ PLACES \in Nat /\ PLACES >= 5
  /\ "command" \in Ring /\ "endpoint" \in Ring /\ \A r \in Ring : r \in {"command", "endpoint"}
BY SizesAssumption DEF Ring

LEMMA CommandRequest ==
  ASSUME NEW k \in Commands
  PROVE  Stages(k) = 1 /\ AwaitedStage(k) = 1 /\ RingOf(k) = "command" /\ Left(k) = 0
BY DEF Stages, AwaitedStage, RingOf, Left, Commands

LEMMA TransferRequest ==
  ASSUME NEW k \in Kind, k \notin Commands
  PROVE  Stages(k) \in {2, 3} /\ AwaitedStage(k) = 2 /\ RingOf(k) = "endpoint" /\ Left(k) = 1
BY DEF Kind, Stages, AwaitedStage, RingOf, Left, Commands

LEMMA AnyRequest ==
  ASSUME NEW k \in Kind
  PROVE  /\ Stages(k) \in 1..3 /\ AwaitedStage(k) \in 1..2 /\ RingOf(k) \in Ring /\ Left(k) \in 0..1
         /\ AwaitedStage(k) <= Stages(k) /\ Stages(k) <= AwaitedStage(k) + 1
         /\ AwaitedStage(k) = Left(k) + 1
BY CommandRequest, TransferRequest, Sizes

\* The last PLACES pushes have different addresses.
LEMMA BackIsAddress ==
  ASSUME place \in [Ring -> 0..(PLACES - 1)], NEW r \in Ring, NEW d \in 1..PLACES
  PROVE  /\ Back(r, d) \in Addr /\ Back(r, d) # NoAddr
         /\ \A s \in Ring, e \in 1..PLACES : Back(r, d) = Back(s, e) => r = s /\ d = e
<1>1. PLACES \in Nat /\ place[r] \in 0..(PLACES - 1)
  BY Sizes
<1> DEFINE k == IF place[r] >= d THEN place[r] - d ELSE (place[r] - d) + PLACES
<1>2. k \in 0..(PLACES - 1) /\ Back(r, d) = <<r, k>>
  BY <1>1 DEF Back
<1> HIDE DEF k
<1>3. Back(r, d) \in Addr
  BY <1>2 DEF Addr
<1>4. Back(r, d) # NoAddr
  <2>1. r # "port"
    BY DEF Ring
  <2>2. QED
    BY <1>2, <2>1 DEF NoAddr
<1>5. ASSUME NEW s \in Ring, NEW e \in 1..PLACES, Back(r, d) = Back(s, e)
      PROVE  r = s /\ d = e
  <2>1. r = s
    BY <1>5 DEF Back
  <2>2. (IF place[r] >= d THEN place[r] - d ELSE (place[r] - d) + PLACES)
          = (IF place[r] >= e THEN place[r] - e ELSE (place[r] - e) + PLACES)
    BY <1>5, <2>1 DEF Back
  <2>3. d = e
    BY <1>1, <2>2
  <2>4. QED
    BY <2>1, <2>3
<1>6. QED
  BY <1>3, <1>4, <1>5

LEMMA NextPlace ==
  ASSUME NEW n \in 0..(PLACES - 1)
  PROVE  (n + 1) % PLACES = IF n + 1 = PLACES THEN 0 ELSE n + 1
BY Sizes

\* A push makes every address one older; the new one is the youngest.
LEMMA BackAfterPush ==
  ASSUME place \in [Ring -> 0..(PLACES - 1)], NEW r \in Ring,
         place' = [place EXCEPT ![r] = (@ + 1) % PLACES]
  PROVE  /\ place' \in [Ring -> 0..(PLACES - 1)]
         /\ Back(r, 1)' = <<r, place[r]>>
         /\ \A d \in 1..(PLACES - 1) : Back(r, d + 1)' = Back(r, d)
         /\ \A s \in Ring : s # r => \A d \in 1..PLACES : Back(s, d)' = Back(s, d)
<1>1. PLACES \in Nat /\ PLACES >= 5 /\ place[r] \in 0..(PLACES - 1)
  BY Sizes
<1> DEFINE m == IF place[r] + 1 = PLACES THEN 0 ELSE place[r] + 1
<1>2. place' = [place EXCEPT ![r] = m] /\ m \in 0..(PLACES - 1)
  <2>1. (place[r] + 1) % PLACES = m
    BY <1>1, NextPlace
  <2>2. m \in 0..(PLACES - 1)
    BY <1>1
  <2> HIDE DEF m
  <2>3. QED
    BY <2>1, <2>2
<1>3. place'[r] = m /\ \A s \in Ring : s # r => place'[s] = place[s]
  BY <1>2
<1>4. place' \in [Ring -> 0..(PLACES - 1)]
  BY <1>2
<1>5. Back(r, 1)' = <<r, place[r]>>
  BY <1>1, <1>3 DEF Back
<1>6. ASSUME NEW d \in 1..(PLACES - 1) PROVE Back(r, d + 1)' = Back(r, d)
  BY <1>1, <1>3 DEF Back
<1>7. ASSUME NEW s \in Ring, s # r, NEW d \in 1..PLACES PROVE Back(s, d)' = Back(s, d)
  BY <1>3, <1>7 DEF Back
<1>8. QED
  BY <1>4, <1>5, <1>6, <1>7

-----------------------------------------------------------------------------
(* The driver                                                              *)

\* What a state predicate says depends on the variables it names.
LEMMA RingsFrame ==
  ASSUME UNCHANGED <<kind, pushed, place, ring, halted>>
  PROVE  QueueInv => QueueInv'
BY DEF QueueInv, Current, Back

LEMMA InitHolds == Init => XhciInv
<1> SUFFICES ASSUME Init PROVE XhciInv
  OBVIOUS
<1>1. ring["command"] = <<>> /\ ring["endpoint"] = <<>> /\ RingOf(kind) = "command"
  BY DEF Init, Ring, RingOf
<1>2. TypeInv
  <2>1. pc \in PC /\ kind \in Kind /\ halted \in BOOLEAN
    BY DEF Init, PC, Kind
  <2>5. pushed \in 0..3 /\ slot \in 0..MAX_SLOTS
    BY SizesAssumption DEF Init
  <2>2. place \in [Ring -> 0..(PLACES - 1)] /\ ring \in [Ring -> Seq(Trb)] /\ events \in Seq(Event)
    BY SizesAssumption DEF Init
  <2>3. /\ wait_list \subseteq Waiter /\ future \subseteq Waiter
        /\ trbs \in [Waiter -> Seq(Event)] /\ DOMAIN cond = Waiter
    BY DEF Init
  <2>4. QED
    BY <2>1, <2>2, <2>3, <2>5 DEF TypeInv
<1>3. QueueInv
  BY <1>1, Sizes DEF Init, QueueInv, Current
<1>4. ProgressInv
  BY <1>1 DEF Init, ProgressInv, Current, Active, Issued
<1>5. EventInv
  BY DEF Init, EventInv
<1>6. OnceInv
  BY DEF Init, OnceInv, Issued, Active
<1>7. QED
  BY <1>2, <1>3, <1>4, <1>5, <1>6 DEF XhciInv

\* Steps between two requests: the rings, the event ring and the waiters stay
\* as they are.
LEMMA BetweenRequests ==
  ASSUME XhciInv, InitPort \/ StartTransfer \/ EndRun
  PROVE  XhciInv'
<1>1. /\ UNCHANGED <<slot, place, ring, halted, events, wait_list, future, cond, trbs, ptr>>
      /\ pc \in {"init_port", "ready"} /\ pc' \in {"push", "ended"}
  BY DEF InitPort, StartTransfer, EndRun, hwVars, waiterVars
<1>2. TypeInv /\ QueueInv /\ ProgressInv /\ EventInv /\ OnceInv
  BY DEF XhciInv
<1>3. \/ kind' = kind /\ pushed' = pushed /\ pc' = "ended"
      \/ pc' = "push" /\ pushed' = 0 /\ kind' \in Kind /\ kind' = kind /\ pc = "init_port"
      \/ pc' = "push" /\ pushed' = 0 /\ kind' \in Kind \ Commands /\ pc = "ready"
  BY <1>2 DEF InitPort, StartTransfer, EndRun, ProgressInv, TypeInv, Kind, Commands
<1>4. TypeInv' /\ kind \in Kind /\ kind' \in Kind
  BY <1>1, <1>2, <1>3 DEF TypeInv, PC
<1>5. \A i \in 1..Len(events) : Gone(events[i])'
  BY <1>1, <1>2 DEF EventInv, Gone, Back
<1>6. ~Issued'
  <2>1. AwaitedStage(kind') \in 1..2
    BY <1>4, AnyRequest
  <2>2. pc' \notin Active \/ pushed' = 0
    BY <1>3 DEF Active
  <2>3. QED
    BY <2>1, <2>2 DEF Issued
<1>7. OnceInv'
  BY <1>1, <1>2, <1>6 DEF OnceInv
<1>8. CASE kind' = kind /\ pushed' = pushed /\ pc' = "ended"
  <2>1. QueueInv'
    BY <1>1, <1>2, <1>8, RingsFrame
  <2>2. ProgressInv'
    BY <1>6, <1>8 DEF ProgressInv, Active
  <2>3. EventInv'
    BY <1>1, <1>5, <1>8 DEF EventInv, Active
  <2>4. QED
    BY <1>4, <1>7, <2>1, <2>2, <2>3 DEF XhciInv
<1>9. CASE pc' = "push" /\ pushed' = 0 /\ kind' = kind /\ pc = "init_port"
  <2>1. kind = "EnableSlot" /\ pushed = 0 /\ Current = <<>> /\ ~halted
    BY <1>2, <1>9 DEF ProgressInv, QueueInv, Commands
  <2>2. QueueInv'
    BY <1>1, <1>2, <1>9, <2>1, RingsFrame
  <2>3. ProgressInv'
    BY <1>1, <1>6, <1>9, <2>1 DEF ProgressInv, Active, Current, Stages, Left, Commands
  <2>4. \A i \in 1..Len(events) : events[i].addr = NoAddr
    BY <1>2, <1>9, <2>1 DEF EventInv, Unawaited, Issued, Active
  <2>5. EventInv'
    BY <1>1, <1>5, <2>4 DEF EventInv
  <2>6. QED
    BY <1>4, <1>7, <2>2, <2>3, <2>5 DEF XhciInv
<1>10. CASE pc' = "push" /\ pushed' = 0 /\ kind' \in Kind \ Commands /\ pc = "ready"
  <2>1. /\ kind \in Kind /\ kind' \in Kind /\ kind' \notin Commands
        /\ AwaitedStage(kind') = 2 /\ RingOf(kind') = "endpoint" /\ Left(kind') = 1
        /\ Stages(kind') \in {2, 3}
    BY <1>4, <1>10, TransferRequest
  <2>2. /\ pushed = Stages(kind) /\ Stages(kind) <= AwaitedStage(kind) + 1
        /\ Len(Current) <= pushed - AwaitedStage(kind)
        /\ AwaitedStage(kind) \in 1..2 /\ Stages(kind) \in 1..3
    BY <1>2, <1>4, <1>10, AnyRequest DEF ProgressInv
  <2>3. ring["endpoint"] \in Seq(Trb) /\ ring["command"] \in Seq(Trb) /\ place \in [Ring -> 0..(PLACES - 1)]
    BY <1>2, Sizes DEF TypeInv
  <2>4. ring["command"] = <<>> /\ Len(ring["endpoint"]) <= 1
    <3>1. CASE kind \in Commands
      <4>1. /\ RingOf(kind) = "command" /\ Stages(kind) = 1 /\ AwaitedStage(kind) = 1
            /\ ring["endpoint"] = <<>>
        BY <1>2, <3>1, CommandRequest DEF QueueInv
      <4>2. Len(ring["command"]) = 0
        BY <2>2, <2>3, <4>1 DEF Current
      <4>3. QED
        BY <2>3, <4>1, <4>2
    <3>2. CASE kind \notin Commands
      <4>1. RingOf(kind) = "endpoint" /\ ring["command"] = <<>>
        BY <1>2, <1>4, <3>2, TransferRequest DEF QueueInv
      <4>2. QED
        BY <2>2, <2>3, <4>1 DEF Current
    <3>3. QED
      BY <3>1, <3>2
  <2>5. \A i \in 1..Len(ring["endpoint"]) : ring["endpoint"][i].ioc = FALSE
    <3>1. CASE kind \in Commands
      BY <1>2, <3>1 DEF QueueInv
    <3>2. CASE kind \notin Commands
      <4>1. /\ Current = ring["endpoint"] /\ AwaitedStage(kind) = 2
        BY <1>4, <3>2, TransferRequest DEF Current
      <4> SUFFICES ASSUME NEW i \in 1..Len(Current) PROVE Current[i].ioc = FALSE
        BY <4>1, Zenon
      <4>2. Current[i].ioc \in BOOLEAN
        <5>1. Current \in Seq(Trb)
          BY <2>3, <4>1
        <5>2. Current[i] \in Trb
          BY <5>1
        <5>3. QED
          BY <5>2 DEF Trb
      <4>3. Current[i].ioc <=> Len(Current) - i = pushed - AwaitedStage(kind)
        BY <1>2 DEF QueueInv
      <4>4. Len(Current) - i # pushed - AwaitedStage(kind)
        BY <2>2, <2>3, <4>1
      <4>5. QED
        BY <4>2, <4>3, <4>4
    <3>3. QED
      BY <3>1, <3>2
  <2>6. QueueInv'
    <3>1. \A r \in Ring : Len(ring'[r]) <= 4
      BY <1>1, <1>2 DEF QueueInv
    <3>2. \A r \in Ring : \A i \in 1..Len(ring'[r]) : ring'[r][i].addr = Back(r, (Len(ring[r]) - i) + 1)'
      BY <1>1, <1>2 DEF QueueInv, Back
    <3>3. Current' = ring["endpoint"]
      BY <1>1, <2>1 DEF Current
    <3>4. \A i \in 1..Len(Current') : Current'[i].ioc <=> Len(Current') - i = pushed' - AwaitedStage(kind')
      <4> TAKE i \in 1..Len(Current')
      <4>1. Current'[i].ioc = FALSE
        BY <2>5, <3>3
      <4>2. Len(Current') - i # pushed' - AwaitedStage(kind')
        BY <1>10, <2>1, <2>3, <2>4, <3>3
      <4>3. QED
        BY <4>1, <4>2
    <3>5. QED
      BY <1>1, <2>1, <2>4, <3>1, <3>2, <3>4 DEF QueueInv
  <2>7. ProgressInv'
    <3>1. Len(Current') <= pushed' + Left(kind')
      BY <1>1, <1>10, <2>1, <2>4 DEF Current
    <3>2. pushed' < Stages(kind')
      BY <1>10, <2>1
    <3>3. QED
      BY <1>6, <1>10, <3>1, <3>2 DEF ProgressInv
  <2>8. EventInv'
    <3> SUFFICES ASSUME NEW i \in 1..Len(events')
                 PROVE  events'[i].addr = NoAddr \/ Unawaited(events[i])'
      BY <1>1, <1>5 DEF EventInv
    <3>1. events[i].addr = NoAddr \/ Unawaited(events[i])
      BY <1>1, <1>2, <1>10 DEF EventInv, Issued, Active
    <3>2. ASSUME Unawaited(events[i]) PROVE Unawaited(events[i])'
      <4>1. PICK d \in 1..(pushed + 1) : events[i].addr = Back("endpoint", d) /\ d <= pushed - AwaitedStage(kind)
        BY <1>10, <3>2 DEF Unawaited
      <4>2. d = 1
        BY <2>2, <4>1
      <4>3. d \in 1..(pushed' + 1)
        BY <1>10, <4>2
      <4>4. events'[i].addr = Back("endpoint", d)' /\ halted'
        BY <1>1, <3>2, <4>1 DEF Back, Unawaited
      <4>5. QED
        BY <1>6, <1>10, <4>3, <4>4 DEF Unawaited
    <3>3. QED
      BY <1>1, <3>1, <3>2
  <2>9. QED
    BY <1>4, <1>7, <2>6, <2>7, <2>8 DEF XhciInv
<1>11. QED
  BY <1>3, <1>8, <1>9, <1>10

\* What was pushed before is one push older now.
LEMMA PushKeeps == XhciInv /\ Push => XhciInv'
<1> SUFFICES ASSUME XhciInv, Push PROVE XhciInv'
  OBVIOUS
<1>1. TypeInv /\ QueueInv /\ ProgressInv /\ EventInv /\ OnceInv
  BY DEF XhciInv
<1>2. PICK r : r = RingOf(kind)
  OBVIOUS
<1>3. PICK A : A = AwaitedStage(kind)
  OBVIOUS
<1>4. PICK n : n = Len(ring[r])
  OBVIOUS
<1>5. PICK t : t = [addr |-> <<r, place[r]>>, ioc |-> pushed + 1 = A]
  OBVIOUS
<1>55. t.addr = <<r, place[r]>> /\ t.ioc = (pushed + 1 = A)
  BY <1>5
<1>6. /\ pc = "push" /\ pc' = (IF pushed + 1 = Stages(kind) THEN "notify" ELSE "push")
      /\ ring' = [ring EXCEPT ![r] = Append(ring[r], t)]
      /\ place' = [place EXCEPT ![r] = (@ + 1) % PLACES]
      /\ ptr' = (IF pushed + 1 = A THEN <<r, place[r]>> ELSE ptr)
      /\ pushed' = pushed + 1
      /\ UNCHANGED <<kind, slot, halted, events, wait_list, future, cond, trbs>>
  BY <1>2, <1>3, <1>5 DEF Push, hwVars, waiterVars
<1>7. /\ kind \in Kind /\ pushed \in 0..3 /\ halted \in BOOLEAN
      /\ place \in [Ring -> 0..(PLACES - 1)] /\ ring \in [Ring -> Seq(Trb)]
  BY <1>1 DEF TypeInv
<1>8. /\ r \in Ring /\ A \in 1..2 /\ Stages(kind) \in 1..3 /\ Left(kind) \in 0..1 /\ A = Left(kind) + 1
      /\ A <= Stages(kind) /\ Stages(kind) <= A + 1
  BY <1>2, <1>3, <1>7, AnyRequest
<1>9. ring[r] \in Seq(Trb) /\ n \in Nat /\ place[r] \in 0..(PLACES - 1)
  BY <1>4, <1>7, <1>8, Sizes
<1>10. n <= pushed + Left(kind) /\ pushed < Stages(kind) /\ pushed \in 0..2
  <2>1. n <= pushed + Left(kind) /\ pushed < Stages(kind)
    BY <1>1, <1>2, <1>4, <1>6 DEF ProgressInv, Active, Current
  <2>2. QED
    BY <1>7, <1>8, <2>1
<1>11. /\ place' \in [Ring -> 0..(PLACES - 1)]
       /\ Back(r, 1)' = <<r, place[r]>>
       /\ \A d \in 1..(PLACES - 1) : Back(r, d + 1)' = Back(r, d)
       /\ \A s \in Ring : s # r => \A d \in 1..PLACES : Back(s, d)' = Back(s, d)
  BY <1>6, <1>7, <1>8, BackAfterPush
<1>12. t \in Trb
  BY <1>5, <1>8, <1>9 DEF Trb, Addr
<1>13. /\ ring' \in [Ring -> Seq(Trb)] /\ ring'[r] = Append(ring[r], t) /\ Len(ring'[r]) = n + 1
       /\ \A s \in Ring : s # r => ring'[s] = ring[s]
       /\ ring'[r][n + 1] = t /\ \A j \in 1..n : ring'[r][j] = ring[r][j]
  <2>1. /\ ring'[r] = Append(ring[r], t) /\ Append(ring[r], t) \in Seq(Trb)
        /\ \A s \in Ring : s # r => ring'[s] = ring[s]
    BY <1>6, <1>7, <1>8, <1>9, <1>12
  <2>2. ring' \in [Ring -> Seq(Trb)]
    BY <1>6, <1>7, <2>1
  <2>3. /\ Len(Append(ring[r], t)) = n + 1 /\ Append(ring[r], t)[n + 1] = t
        /\ \A j \in 1..n : Append(ring[r], t)[j] = ring[r][j]
    BY <1>4, <1>9, <1>12
  <2>4. QED
    BY <2>1, <2>2, <2>3
<1>14. TypeInv'
  <2>1. pc' \in PC /\ pushed' \in 0..3
    BY <1>6, <1>10 DEF PC
  <2>2. QED
    BY <1>1, <1>6, <1>11, <1>13, <2>1 DEF TypeInv
<1>15. Current = ring[r] /\ Current' = ring'[r] /\ AwaitedStage(kind') = A /\ RingOf(kind') = r
  BY <1>2, <1>3, <1>6 DEF Current
<1>16. (kind \in Commands => r = "command") /\ (kind \notin Commands => r = "endpoint")
  BY <1>2, <1>7, CommandRequest, TransferRequest
<1>17. QueueInv'
  <2>1. ASSUME NEW s \in Ring PROVE Len(ring'[s]) <= 4
    <3>1. CASE s = r
      BY <1>8, <1>9, <1>10, <1>13, <3>1
    <3>2. CASE s # r
      BY <1>1, <1>13, <3>2 DEF QueueInv
    <3>3. QED
      BY <3>1, <3>2
  <2>2. ASSUME NEW s \in Ring, NEW j \in 1..Len(ring'[s])
        PROVE  ring'[s][j].addr = Back(s, (Len(ring[s]) - j) + 1)'
    <3>1. CASE s # r
      <4>1. ring'[s] = ring[s] /\ ring[s] \in Seq(Trb) /\ Len(ring[s]) \in Nat /\ Len(ring[s]) <= 4
        BY <1>1, <1>7, <1>13, <3>1 DEF QueueInv
      <4>2. (Len(ring[s]) - j) + 1 \in 1..PLACES
        BY <4>1, Sizes
      <4>3. ring[s][j].addr = Back(s, (Len(ring[s]) - j) + 1)
        BY <1>1, <4>1 DEF QueueInv
      <4>4. PICK d \in 1..PLACES : d = (Len(ring[s]) - j) + 1
        BY <4>2
      <4>5. ring'[s][j].addr = Back(s, d)' /\ d = (Len(ring'[s]) - j) + 1
        BY <1>11, <3>1, <4>1, <4>3, <4>4
      <4>6. QED
        BY <4>5 DEF Back
    <3>2. CASE s = r /\ j = n + 1
      <4>1. ring'[s][j].addr = Back(r, 1)'
        BY <1>11, <1>13, <1>55, <3>2
      <4>3. (Len(ring'[s]) - j) + 1 = 1
        BY <1>9, <1>13, <3>2
      <4>2. QED
        BY <3>2, <4>1, <4>3 DEF Back
    <3>3. CASE s = r /\ j # n + 1
      <4>1. j \in 1..n /\ ring'[s][j] = ring[r][j]
        BY <1>9, <1>13, <3>3
      <4>2. PICK d \in 1..(PLACES - 1) : d = (n - j) + 1
        BY <1>8, <1>9, <1>10, <4>1, Sizes
      <4>3. ring[r][j].addr = Back(r, d)
        BY <1>1, <1>4, <1>8, <4>1, <4>2 DEF QueueInv
      <4>4. ring'[s][j].addr = Back(r, d + 1)'
        BY <1>11, <4>1, <4>3
      <4>5. d + 1 = (Len(ring'[s]) - j) + 1
        BY <1>9, <1>13, <3>3, <4>1, <4>2
      <4>6. QED
        BY <3>3, <4>4, <4>5 DEF Back
    <3>4. QED
      BY <3>1, <3>2, <3>3
  <2>3. ASSUME NEW j \in 1..Len(ring'[r])
        PROVE  ring'[r][j].ioc <=> Len(ring'[r]) - j = pushed' - A
    <3>1. CASE j = n + 1
      <4>1. ring'[r][j].ioc <=> pushed + 1 = A
        BY <1>13, <1>55, <3>1, Zenon
      <4>2. (pushed + 1 = A) <=> Len(ring'[r]) - j = pushed' - A
        BY <1>6, <1>7, <1>8, <1>9, <1>13, <3>1
      <4>3. QED
        BY <4>1, <4>2
    <3>2. CASE j # n + 1
      <4>1. j \in 1..n /\ ring'[r][j] = ring[r][j]
        BY <1>9, <1>13, <3>2
      <4>2. ring[r][j].ioc <=> n - j = pushed - A
        BY <1>1, <1>3, <1>4, <1>15, <4>1 DEF QueueInv
      <4>3. (n - j = pushed - A) <=> Len(ring'[r]) - j = pushed' - A
        <5>1. Len(ring'[r]) = n + 1 /\ pushed' = pushed + 1 /\ pushed \in Int /\ A \in Int /\ n \in Int /\ j \in Int
          BY <1>6, <1>7, <1>8, <1>9, <1>13, <4>1
        <5>2. QED
          BY <5>1
      <4>4. QED
        BY <4>1, <4>2, <4>3
    <3>3. QED
      BY <3>1, <3>2
  <2>4. /\ kind' \in Commands => ring'["endpoint"] = <<>> /\ ~halted'
        /\ kind' \notin Commands => ring'["command"] = <<>>
    BY <1>1, <1>6, <1>13, <1>16, Sizes DEF QueueInv
  <2>5. QED
    BY <1>15, <2>1, <2>2, <2>3, <2>4 DEF QueueInv
<1>18. ASSUME Issued' PROVE Gap' \in 1..2 /\ (pushed + 1 = A => Gap' = 1)
                            /\ (pushed + 1 # A => Issued /\ Gap \in 1..2 /\ Gap' = Gap + 1)
  BY <1>3, <1>6, <1>7, <1>8, <1>10, <1>15, <1>18 DEF Issued, Gap, Active
<1>19. ASSUME Issued' PROVE ptr' = Back(r, Gap)'
  <2>1. CASE pushed + 1 = A
    BY <1>6, <1>11, <1>18, <1>19, <2>1 DEF Back
  <2>2. CASE pushed + 1 # A
    <3>1. PICK g \in 1..2 : g = Gap
      BY <1>18, <1>19, <2>2
    <3>2. ptr = Back(r, g) /\ Gap' = g + 1
      BY <1>1, <1>2, <1>18, <1>19, <2>2, <3>1 DEF ProgressInv
    <3>3. ptr' = Back(r, g + 1)'
      BY <1>6, <1>11, <2>2, <3>2, Sizes
    <3>4. QED
      BY <3>2, <3>3 DEF Back
  <2>3. QED
    BY <2>1, <2>2
<1>20. ProgressInv'
  <2>1. pc' \in {"push", "notify"} /\ (pc' = "push" => pushed' < Stages(kind')) /\ (pc' = "notify" => pushed' = Stages(kind'))
    BY <1>6, <1>8, <1>10
  <2>2. Len(Current') <= pushed' + Left(kind')
    BY <1>6, <1>8, <1>9, <1>10, <1>13, <1>15
  <2>3. Issued' => ptr' = Back(RingOf(kind), Gap)'
    BY <1>15, <1>19 DEF Back
  <2>4. QED
    BY <2>1, <2>2, <2>3 DEF ProgressInv
\* Events of this ring are at most three pushes old.
<1>21. ASSUME NEW j \in 1..Len(events), events[j].addr # NoAddr
       PROVE  \E d \in 1..3 :
                /\ events[j].addr = Back(r, d) /\ events[j].addr = Back(r, d + 1)'
                /\ n < d
                /\ \/ Issued /\ events[j].addr = ptr
                   \/ /\ halted /\ r = "endpoint" /\ d <= pushed + 1
                      /\ Issued => d # Gap /\ (d > Gap => InRing)
  <2>1. \/ Issued /\ events[j].addr = ptr
        \/ Unawaited(events[j])
    BY <1>1, <1>6, <1>21 DEF EventInv, Active
  <2>2. PICK d \in 1..3 :
          /\ events[j].addr = Back(r, d)
          /\ \/ Issued /\ events[j].addr = ptr
             \/ /\ halted /\ r = "endpoint" /\ d <= pushed + 1
                /\ Issued => d # Gap /\ (d > Gap => InRing)
    <3>1. CASE Issued /\ events[j].addr = ptr
      <4>1. PICK g : g = Gap
        OBVIOUS
      <4>2. g \in 1..3 /\ ptr = Back(r, g)
        <5>1. Gap \in 1..3
          BY <1>3, <1>8, <1>10, <3>1 DEF Issued, Gap
        <5>2. QED
          BY <1>1, <1>2, <3>1, <4>1, <5>1 DEF ProgressInv
      <4>3. QED
        BY <3>1, <4>2
    <3>2. CASE Unawaited(events[j])
      <4>1. r = "endpoint" /\ halted
        BY <1>1, <1>16, <3>2 DEF Unawaited, QueueInv
      <4>2. PICK d \in 1..(pushed + 1) :
              /\ events[j].addr = Back("endpoint", d)
              /\ Issued => d # Gap /\ (d > Gap => InRing)
        BY <3>2 DEF Unawaited
      <4>3. d \in 1..3 /\ d <= pushed + 1
        BY <1>10
      <4>4. QED
        BY <4>1, <4>2, <4>3
    <3>3. QED
      BY <2>1, <3>1, <3>2
  <2>3. n < d
    <3>1. PICK s \in Ring : \E e \in (Len(ring[s]) + 1)..PLACES : events[j].addr = Back(s, e)
      BY <1>1, <1>21 DEF EventInv, Gone
    <3>2. PICK e \in (Len(ring[s]) + 1)..PLACES : events[j].addr = Back(s, e)
      BY <3>1
    <3>3. Len(ring[s]) \in Nat
      BY <1>7
    <3>4. e \in 1..PLACES /\ d \in 1..PLACES /\ e > Len(ring[s])
      BY <3>3, Sizes
    <3>5. s = r /\ e = d
      <4>1. Back(r, d) = Back(s, e)
        BY <2>2, <3>2
      <4>2. QED
        BY <1>7, <1>8, <3>4, <4>1, BackIsAddress
    <3>6. QED
      BY <1>4, <3>4, <3>5
  <2>4. Back(r, d + 1)' = Back(r, d)
    BY <1>11, Sizes
  <2>5. QED
    BY <2>2, <2>3, <2>4
<1>22. EventInv'
  <2>1. ASSUME NEW j \in 1..Len(events), events[j].addr # NoAddr PROVE Gone(events[j])'
    <3>1. PICK d \in 1..3 : events[j].addr = Back(r, d + 1)' /\ n < d
      BY <1>21, <2>1
    <3>2. PICK e : e = d + 1
      OBVIOUS
    <3>3. e \in (Len(ring'[r]) + 1)..PLACES
      BY <1>9, <1>13, <3>1, <3>2, Sizes
    <3>4. events'[j].addr = Back(r, e)'
      BY <1>6, <3>1, <3>2
    <3>5. QED
      BY <1>8, <3>3, <3>4 DEF Gone
  <2>2. ASSUME NEW j \in 1..Len(events), events[j].addr # NoAddr
        PROVE  (Issued' /\ events[j].addr = ptr') \/ Unawaited(events[j])'
    <3>1. PICK d \in 1..3 :
             /\ events[j].addr = Back(r, d + 1)'
             /\ \/ Issued /\ events[j].addr = ptr
                \/ /\ halted /\ r = "endpoint" /\ d <= pushed + 1
                   /\ Issued => d # Gap /\ (d > Gap => InRing)
      BY <1>21, <2>2
    <3>2. CASE Issued /\ events[j].addr = ptr
      <4>1. Issued' /\ pushed + 1 # A
        BY <1>3, <1>6, <1>7, <1>8, <1>15, <3>2 DEF Issued, Active
      <4>2. QED
        BY <1>6, <3>2, <4>1
    <3>3. CASE /\ halted /\ r = "endpoint" /\ d <= pushed + 1
               /\ Issued => d # Gap /\ (d > Gap => InRing)
      <4>1. PICK e : e = d + 1
        OBVIOUS
      <4>2. e \in 1..(pushed' + 1) /\ events'[j].addr = Back("endpoint", e)' /\ halted' /\ pc' # "ready"
        BY <1>6, <1>7, <3>1, <3>3, <4>1
      <4>3. ASSUME Issued' PROVE e # Gap' /\ (e > Gap' => InRing')
        <5>1. Len(Current') = n + 1
          BY <1>13, <1>15
        <5>2. CASE pushed + 1 = A
          BY <1>9, <1>18, <4>1, <4>3, <5>1, <5>2 DEF InRing
        <5>3. CASE pushed + 1 # A
          <6>1. Issued /\ Gap \in 1..2 /\ Gap' = Gap + 1
            BY <1>18, <4>3, <5>3
          <6>2. d # Gap /\ (d > Gap => n >= Gap)
            BY <1>4, <1>15, <3>3, <6>1 DEF InRing
          <6>3. QED
            BY <1>9, <4>1, <5>1, <6>1, <6>2 DEF InRing
        <5>4. QED
          BY <5>2, <5>3
      <4>4. QED
        BY <4>2, <4>3 DEF Unawaited
    <3>4. QED
      BY <3>1, <3>2, <3>3
  <2>3. \A j \in 1..Len(events) : events[j].addr = NoAddr => Gone(events[j])'
    BY <1>6 DEF Gone
  <2>4. QED
    BY <1>6, <2>1, <2>2, <2>3 DEF EventInv
<1>23. OnceInv'
  <2>1. pc' # "await" /\ pc # "await"
    BY <1>6
  <2>2. ASSUME Issued'
        PROVE  \/ InRing' /\ Named(ptr)' = {}
               \/ ~InRing' /\ \E j \in 1..Len(events') : Named(ptr)' = {j}
    <3>1. Len(Current') = n + 1 /\ Len(Current) = n
      BY <1>4, <1>13, <1>15
    <3>2. CASE pushed + 1 = A
      <4>1. InRing'
        BY <1>9, <1>18, <2>2, <3>1, <3>2 DEF InRing
      <4>2. ASSUME NEW j \in 1..Len(events') PROVE events'[j].addr # ptr'
        <5>1. ptr' = Back(r, 1)'
          BY <1>6, <1>11, <3>2
        <5>2. PICK a : a = events[j].addr
          OBVIOUS
        <5>3. a = NoAddr \/ \E d \in 1..3 : a = Back(r, d + 1)'
          BY <1>6, <1>21, <5>2
        <5>4. \A d \in 1..3 : Back(r, 1)' # Back(r, d + 1)'
          <6> TAKE d \in 1..3
          <6>2. d \in 1..PLACES /\ d # PLACES /\ PLACES \in 1..PLACES /\ d \in 1..(PLACES - 1)
            BY Sizes
          <6>3. Back(r, PLACES) = <<r, place[r]>>
            BY <1>9, Sizes DEF Back
          <6>4. Back(r, d) # Back(r, PLACES)
            BY <1>7, <1>8, <6>2, BackIsAddress
          <6>5. QED
            BY <1>11, <6>2, <6>3, <6>4
        <5>5. Back(r, 1)' # NoAddr
          <6>1. r # "port"
            BY <1>8 DEF Ring
          <6>2. QED
            BY <1>11, <6>1 DEF NoAddr
        <5>6. QED
          BY <1>6, <5>1, <5>2, <5>3, <5>4, <5>5
      <4>3. Named(ptr)' = {}
        BY <4>2 DEF Named
      <4>4. QED
        BY <4>1, <4>3
    <3>3. CASE pushed + 1 # A
      <4>1. Issued /\ Gap \in 1..2 /\ Gap' = Gap + 1 /\ ptr' = ptr /\ events' = events
        BY <1>6, <1>18, <2>2, <3>3
      <4>2. InRing' <=> InRing
        BY <1>9, <3>1, <4>1 DEF InRing
      <4>3. Named(ptr)' = Named(ptr)
        BY <4>1 DEF Named
      <4>4. \/ InRing /\ Named(ptr) = {}
            \/ ~InRing /\ \E j \in 1..Len(events) : Named(ptr) = {j}
        BY <1>1, <2>1, <4>1 DEF OnceInv
      <4>5. QED
        BY <4>1, <4>2, <4>3, <4>4
    <3>4. QED
      BY <3>2, <3>3
  <2>3. QED
    BY <1>1, <1>6, <2>1, <2>2 DEF OnceInv
<1>24. QED
  BY <1>14, <1>17, <1>20, <1>22, <1>23 DEF XhciInv

\* From the doorbell to the waiter: the rings and the events stay as they are.
LEMMA WhileIssued ==
  ASSUME XhciInv, UNCHANGED <<kind, pushed, ptr, place, ring, halted, events>>,
         pc \in {"notify", "register"}, pc' \in {"register", "await", "ended"}
  PROVE  QueueInv' /\ ProgressInv' /\ EventInv'
<1>1. TypeInv /\ QueueInv /\ ProgressInv /\ EventInv
  BY DEF XhciInv
<1>2. QueueInv'
  BY <1>1, RingsFrame
<1>3. Gap' = Gap /\ (Issued' => Issued) /\ (pc' # "ended" => pc' \in Active /\ (Issued' <=> Issued))
  BY DEF Gap, Issued, Active
<1>4. Current' = Current /\ (InRing' <=> InRing)
  BY DEF Current, InRing, Gap
<1>5. ProgressInv'
  <2>1. pc' \notin {"init_port", "push", "ready"} /\ pc \in {"notify", "register", "await", "ready"} /\ pc \in Active
    BY DEF Active
  <2>2. pushed' = Stages(kind') /\ Len(Current') <= pushed' + Left(kind')
    BY <1>1, <1>4, <2>1 DEF ProgressInv
  <2>3. Issued' => ptr' = Back(RingOf(kind), Gap)'
    BY <1>1, <1>3 DEF ProgressInv, Back
  <2>4. QED
    BY <2>1, <2>2, <2>3 DEF ProgressInv
<1>6. \A i \in 1..Len(events') : Gone(events[i])'
  BY <1>1 DEF EventInv, Gone, Back
<1>7. ASSUME pc' # "ended", NEW i \in 1..Len(events')
      PROVE  events'[i].addr = NoAddr \/ (Issued' /\ events'[i].addr = ptr') \/ Unawaited(events[i])'
  <2>1. events[i].addr = NoAddr \/ (Issued /\ events[i].addr = ptr) \/ Unawaited(events[i])
    BY <1>1 DEF EventInv, Active
  <2>2. ASSUME Unawaited(events[i]) PROVE Unawaited(events[i])'
    <3>1. PICK d \in 1..(pushed + 1) : events[i].addr = Back("endpoint", d) /\ (Issued => d # Gap /\ (d > Gap => InRing))
      BY <2>2 DEF Unawaited
    <3>2. d \in 1..(pushed' + 1) /\ events'[i].addr = Back("endpoint", d)' /\ halted'
      BY <2>2, <3>1 DEF Back, Unawaited
    <3>3. Issued' => d # Gap' /\ (d > Gap' => InRing')
      BY <1>3, <1>4, <3>1
    <3>4. QED
      BY <3>2, <3>3 DEF Unawaited
  <2>3. QED
    BY <1>3, <1>7, <2>1, <2>2
<1>8. EventInv'
  BY <1>6, <1>7 DEF EventInv, Active
<1>9. QED
  BY <1>2, <1>5, <1>8

\* The doorbell changes nothing that is under way.
LEMMA NotifyKeeps == XhciInv /\ Notify => XhciInv'
<1> SUFFICES ASSUME XhciInv, Notify PROVE XhciInv'
  OBVIOUS
<1>1. /\ pc = "notify" /\ pc' \in {"register", "ended"}
      /\ UNCHANGED <<kind, pushed, ptr, slot, place, ring, halted, events, wait_list, future, cond, trbs>>
  BY DEF Notify, waiterVars
<1>2. QueueInv' /\ ProgressInv' /\ EventInv'
  BY <1>1, WhileIssued
<1>3. TypeInv'
  BY <1>1 DEF XhciInv, TypeInv, PC
<1>4. OnceInv'
  <2>1. OnceInv /\ (Issued' => Issued) /\ (InRing' <=> InRing) /\ Named(ptr)' = Named(ptr)
    BY <1>1 DEF XhciInv, Issued, Active, InRing, Current, Gap, Named
  <2>2. pc # "await" /\ pc' # "await"
    BY <1>1
  <2>3. QED
    BY <1>1, <2>1, <2>2 DEF OnceInv
<1>5. QED
  BY <1>2, <1>3, <1>4 DEF XhciInv

\* A new waiter waits for the TRB that is under way; at most one stale one is
\* still in the list.
LEMMA RegisterKeeps == XhciInv /\ Register => XhciInv'
<1> SUFFICES ASSUME XhciInv, Register PROVE XhciInv'
  OBVIOUS
<1>1. PICK w : w = CHOOSE u \in Unused : TRUE
  OBVIOUS
<1>2. /\ pc = "register" /\ pc' = "await" /\ Unused # {}
      /\ cond' = [cond EXCEPT ![w] = ptr] /\ future' = {w} /\ wait_list' = wait_list \union {w}
      /\ UNCHANGED <<kind, pushed, ptr, slot, place, ring, halted, events, trbs>>
  BY <1>1 DEF Register, hwVars
<1>3. w \in Unused
  BY <1>1, <1>2
<1>4. w \in Waiter /\ w \notin future
  BY <1>3 DEF Unused
<1>5. QueueInv' /\ ProgressInv' /\ EventInv'
  BY <1>2, WhileIssued
<1>6. TypeInv'
  <2>1. DOMAIN cond' = DOMAIN cond
    BY <1>2
  <2>2. QED
    BY <1>2, <1>4, <2>1 DEF XhciInv, TypeInv, PC
<1>7. TypeInv /\ ProgressInv /\ OnceInv
  BY DEF XhciInv
<1>8. future = {} /\ (\A u, v \in wait_list : u = v) /\ \A v \in Waiter : trbs[v] = <<>>
  BY <1>2, <1>7 DEF OnceInv
<1>9. Issued
  <2>1. pushed = Stages(kind) /\ kind \in Kind
    BY <1>2, <1>7 DEF ProgressInv, TypeInv
  <2>2. QED
    BY <1>2, <2>1, AnyRequest DEF Issued, Active
<1>10. \/ InRing' /\ Named(ptr)' = {}
       \/ ~InRing' /\ \E i \in 1..Len(events') : Named(ptr)' = {i}
  <2>1. (InRing' <=> InRing) /\ Named(ptr)' = Named(ptr)
    BY <1>2 DEF InRing, Current, Gap, Named
  <2>2. QED
    BY <1>2, <1>7, <1>9, <2>1 DEF OnceInv
<1>11. cond'[w] = ptr'
  BY <1>2, <1>4, <1>7 DEF TypeInv
<1>12. \E v \in Waiter : wait_list' \subseteq {v, w}
  <2>1. CASE wait_list = {}
    BY <1>2, <1>4, <2>1
  <2>2. CASE wait_list # {}
    <3>1. PICK v \in wait_list : TRUE
      BY <2>2
    <3>2. v \in Waiter /\ wait_list' \subseteq {v, w}
      BY <1>2, <1>7, <1>8, <3>1 DEF TypeInv
    <3>3. QED
      BY <3>2
  <2>3. QED
    BY <2>1, <2>2
<1>13. trbs'[w] = <<>>
  BY <1>2, <1>4, <1>8
<1>14. Waiting(w)'
  BY <1>2, <1>10, <1>11, <1>12, <1>13 DEF Waiting
<1>15. OnceInv'
  BY <1>2, <1>4, <1>8, <1>14 DEF OnceInv
<1>16. QED
  BY <1>5, <1>6, <1>15 DEF XhciInv

\* The driver goes on when its waiter holds the event: the TRB has left the
\* ring, no event names it any more, and only that waiter is in the list.
LEMMA ResumeKeeps == XhciInv /\ Resume => XhciInv'
<1> SUFFICES ASSUME XhciInv, Resume PROVE XhciInv'
  OBVIOUS
<1>1. TypeInv /\ QueueInv /\ ProgressInv /\ EventInv /\ OnceInv
  BY DEF XhciInv
<1>2. /\ pc = "await" /\ future' = {}
      /\ UNCHANGED <<ptr, place, ring, halted, events, wait_list>>
  BY DEF Resume, hwVars
<1>3. PICK w \in future :
        /\ trbs[w] # <<>>
        /\ LET e == Head(trbs[w])
           IN IF kind = "EnableSlot"
              THEN AfterEnableSlot(e) /\ slot' = e.slot
              ELSE /\ pc' = IF ResultOk(e) THEN "ready" ELSE "ended"
                   /\ UNCHANGED <<kind, pushed, slot>>
        /\ trbs' = [trbs EXCEPT ![w] = <<>>]
        /\ cond' = [cond EXCEPT ![w] = NoAddr]
  BY DEF Resume
<1>4. future = {w} /\ ~InRing /\ Named(ptr) = {} /\ Len(trbs[w]) = 1 /\ wait_list = {w} /\ w \in Waiter
  <2>1. PICK u \in Waiter : Waiting(u)
    BY <1>1, <1>2 DEF OnceInv
  <2>2. u = w /\ future = {w}
    BY <1>3, <2>1 DEF Waiting
  <2>3. QED
    BY <1>3, <2>1, <2>2 DEF Waiting
<1>5. PICK e : e = Head(trbs[w])
  OBVIOUS
<1>6. e.slot \in 0..MAX_SLOTS
  <2>1. trbs[w] \in Seq(Event)
    BY <1>1, <1>4 DEF TypeInv
  <2>2. e \in Event
    BY <1>4, <1>5, <2>1
  <2>3. QED
    BY <2>2 DEF Event
<1>7. \/ kind' = kind /\ pushed' = pushed /\ pc' \in {"ended", "panic"}
      \/ kind = "EnableSlot" /\ kind' = "AddressDevice" /\ pushed' = 0 /\ pc' = "push"
      \/ kind # "EnableSlot" /\ kind' = kind /\ pushed' = pushed /\ pc' = "ready"
  BY <1>3, <1>5 DEF AfterEnableSlot
<1>8. slot' \in 0..MAX_SLOTS
  BY <1>1, <1>3, <1>5, <1>6 DEF TypeInv
<1>9. \A v \in Waiter : trbs'[v] = <<>>
  BY <1>1, <1>3, <1>4 DEF OnceInv, TypeInv
<1>10. TypeInv'
  <2>1. DOMAIN cond' = Waiter /\ trbs' \in [Waiter -> Seq(Event)]
    <3>1. <<>> \in Seq(Event)
      OBVIOUS
    <3>2. QED
      BY <1>1, <1>3, <3>1 DEF TypeInv
  <2>2. pc' \in PC /\ kind' \in Kind /\ pushed' \in 0..3
    BY <1>1, <1>7 DEF TypeInv, PC, Kind
  <2>3. QED
    BY <1>1, <1>2, <1>8, <2>1, <2>2 DEF TypeInv
<1>11. kind \in Kind /\ kind' \in Kind /\ pushed = Stages(kind) /\ Issued
  <2>1. kind \in Kind /\ kind' \in Kind /\ pushed = Stages(kind)
    BY <1>1, <1>2, <1>10 DEF TypeInv, ProgressInv
  <2>2. QED
    BY <1>2, <2>1, AnyRequest DEF Issued, Active
<1>12. \A i \in 1..Len(events') : Gone(events[i])'
  BY <1>1, <1>2 DEF EventInv, Gone, Back
<1>13. ~Issued'
  <2>1. AwaitedStage(kind') \in 1..2
    BY <1>11, AnyRequest
  <2>2. pc' \notin Active \/ pushed' = 0
    BY <1>7 DEF Active
  <2>3. QED
    BY <2>1, <2>2 DEF Issued
<1>14. OnceInv'
  BY <1>2, <1>4, <1>7, <1>9, <1>13 DEF OnceInv
<1>15. \A i \in 1..Len(events) : events[i].addr = NoAddr \/ Unawaited(events[i])
  BY <1>1, <1>2, <1>4 DEF EventInv, Active, Named
<1>16. CASE kind' = kind /\ pushed' = pushed /\ pc' \in {"ended", "panic"}
  <2>1. QueueInv'
    BY <1>1, <1>2, <1>16, RingsFrame
  <2>2. ProgressInv'
    BY <1>13, <1>16 DEF ProgressInv, Active
  <2>3. EventInv'
    BY <1>12, <1>16 DEF EventInv, Active
  <2>4. QED
    BY <1>10, <1>14, <2>1, <2>2, <2>3 DEF XhciInv
<1>17. CASE kind = "EnableSlot" /\ kind' = "AddressDevice" /\ pushed' = 0 /\ pc' = "push"
  <2>1. kind \in Commands /\ kind' \in Commands
    BY <1>17 DEF Commands
  <2>2. /\ Stages(kind) = 1 /\ AwaitedStage(kind) = 1 /\ RingOf(kind) = "command"
        /\ Stages(kind') = 1 /\ RingOf(kind') = "command" /\ Left(kind') = 0
    BY <2>1, CommandRequest
  <2>3. ring["command"] \in Seq(Trb)
    BY <1>1, Sizes DEF TypeInv
  <2>4. Len(ring["command"]) = 0
    BY <1>4, <1>11, <2>2, <2>3 DEF InRing, Current, Gap
  <2>5. Current' = <<>> /\ Len(Current') = 0
    BY <1>2, <2>2, <2>3, <2>4 DEF Current
  <2>6. QueueInv'
    <3>1. /\ \A r \in Ring : Len(ring'[r]) <= 4
          /\ \A r \in Ring : \A i \in 1..Len(ring'[r]) : ring'[r][i].addr = Back(r, (Len(ring[r]) - i) + 1)'
      BY <1>1, <1>2 DEF QueueInv, Back
    <3>2. \A i \in 1..Len(Current') : Current'[i].ioc <=> Len(Current') - i = pushed' - AwaitedStage(kind')
      BY <2>5
    <3>3. ring'["endpoint"] = <<>> /\ ~halted'
      BY <1>1, <1>2, <2>1 DEF QueueInv
    <3>4. QED
      BY <2>1, <3>1, <3>2, <3>3 DEF QueueInv
  <2>7. ProgressInv'
    BY <1>13, <1>17, <2>2, <2>5 DEF ProgressInv
  <2>8. EventInv'
    <3>1. \A i \in 1..Len(events') : events'[i].addr = NoAddr
      BY <1>1, <1>2, <1>15, <2>1 DEF QueueInv, Unawaited
    <3>2. QED
      BY <1>12, <3>1 DEF EventInv
  <2>9. QED
    BY <1>10, <1>14, <2>6, <2>7, <2>8 DEF XhciInv
<1>18. CASE kind # "EnableSlot" /\ kind' = kind /\ pushed' = pushed /\ pc' = "ready"
  <2>1. QueueInv'
    BY <1>1, <1>2, <1>18, RingsFrame
  <2>2. RingOf(kind) \in Ring /\ AwaitedStage(kind) \in 1..2 /\ pushed \in 0..3
    BY <1>1, <1>11, AnyRequest DEF TypeInv
  <2>3. Len(Current) \in Nat
    BY <1>1, <2>2 DEF TypeInv, Current
  <2>4. Current' = Current /\ Len(Current) <= pushed - AwaitedStage(kind)
    <3>1. Current' = Current
      BY <1>2, <1>18 DEF Current
    <3>2. ~(Len(Current) >= (pushed - AwaitedStage(kind)) + 1)
      BY <1>4 DEF InRing, Gap
    <3>3. QED
      BY <2>2, <2>3, <3>1, <3>2
  <2>5. ProgressInv'
    BY <1>11, <1>13, <1>18, <2>4 DEF ProgressInv, Active
  <2>6. ASSUME NEW i \in 1..Len(events'), Unawaited(events[i]) PROVE Unawaited(events[i])'
    <3>1. PICK d \in 1..(pushed + 1) : events[i].addr = Back("endpoint", d) /\ d # Gap /\ ~(d > Gap)
      BY <1>4, <1>11, <2>6 DEF Unawaited
    <3>2. d <= pushed' - AwaitedStage(kind')
      BY <1>18, <2>2, <3>1 DEF Gap
    <3>3. d \in 1..(pushed' + 1) /\ events'[i].addr = Back("endpoint", d)' /\ halted'
      BY <1>2, <1>18, <2>6, <3>1 DEF Unawaited, Back
    <3>4. QED
      BY <1>13, <3>2, <3>3 DEF Unawaited
  <2>7. EventInv'
    BY <1>2, <1>12, <1>15, <2>6 DEF EventInv
  <2>8. QED
    BY <1>10, <1>14, <2>1, <2>5, <2>7 DEF XhciInv
<1>19. QED
  BY <1>7, <1>16, <1>17, <1>18

-----------------------------------------------------------------------------
(* The polling task                                                        *)

LEMMA FirstAndRest ==
  ASSUME NEW S, NEW s \in Seq(S), s # <<>>
  PROVE  /\ Len(s) \in Nat /\ Len(s) >= 1 /\ Head(s) = s[1] /\ Head(s) \in S
         /\ Tail(s) \in Seq(S) /\ Len(Tail(s)) = Len(s) - 1
         /\ \A i \in 1..(Len(s) - 1) : Tail(s)[i] = s[i + 1]
OBVIOUS

\* An event taken from the ring is the awaited one, and then the waiter has it,
\* or nobody's.
LEMMA PollKeeps == XhciInv /\ PollEvent => XhciInv'
<1> SUFFICES ASSUME XhciInv, PollEvent PROVE XhciInv'
  OBVIOUS
<1>1. TypeInv /\ QueueInv /\ ProgressInv /\ EventInv /\ OnceInv
  BY DEF XhciInv
<1>2. PICK h : h = Head(events)
  OBVIOUS
<1>3. /\ pc \in {"init_port", "await", "ready", "ended"}
      /\ events # <<>> /\ events' = Tail(events)
      /\ trbs' = [w \in Waiter |-> IF w \in wait_list /\ w \in future /\ cond[w] = h.addr
                                   THEN Append(trbs[w], h) ELSE trbs[w]]
      /\ wait_list' = wait_list \intersect future
      /\ UNCHANGED <<pc, kind, pushed, ptr, slot, place, ring, halted, future, cond>>
  BY <1>2 DEF PollEvent, DriverYields, Matches, CleanedUp, driverVars, hwVars
<1>4. events \in Seq(Event) /\ trbs \in [Waiter -> Seq(Event)] /\ wait_list \subseteq Waiter
  BY <1>1 DEF TypeInv
<1>5. /\ Len(events) \in Nat /\ Len(events) >= 1 /\ h = events[1] /\ h \in Event
      /\ events' \in Seq(Event) /\ Len(events') = Len(events) - 1
      /\ \A i \in 1..(Len(events) - 1) : events'[i] = events[i + 1]
  BY <1>2, <1>3, <1>4, FirstAndRest
<1>6. \A i \in 1..Len(events') : i + 1 \in 1..Len(events) /\ events'[i] = events[i + 1]
  BY <1>5
<1>7. TypeInv'
  <2>1. trbs' \in [Waiter -> Seq(Event)]
    <3>1. \A w \in Waiter : trbs[w] \in Seq(Event) /\ Append(trbs[w], h) \in Seq(Event)
      BY <1>4, <1>5
    <3>2. QED
      BY <1>3, <3>1
  <2>2. wait_list' \subseteq Waiter
    BY <1>3, <1>4
  <2>3. QED
    BY <1>1, <1>3, <1>5, <2>1, <2>2 DEF TypeInv
<1>8. QueueInv'
  BY <1>1, <1>3, RingsFrame
<1>9. (Issued' <=> Issued) /\ Gap' = Gap /\ Current' = Current /\ (InRing' <=> InRing)
  BY <1>3 DEF Issued, Gap, Current, InRing
<1>10. ProgressInv'
  BY <1>1, <1>3 DEF ProgressInv, Issued, Gap, Current, Back
<1>12. ASSUME NEW i \in 1..Len(events') PROVE Gone(events[i])'
  <2>1. Gone(events[i + 1])
    BY <1>1, <1>6 DEF EventInv
  <2>2. QED
    BY <1>3, <1>6, <2>1 DEF Gone, Back
<1>13. ASSUME NEW i \in 1..Len(events'), pc \in Active \union {"init_port", "ready"}
       PROVE  events'[i].addr = NoAddr \/ (Issued' /\ events'[i].addr = ptr') \/ Unawaited(events[i])'
  <2>1. events[i + 1].addr = NoAddr \/ (Issued /\ events[i + 1].addr = ptr) \/ Unawaited(events[i + 1])
    BY <1>1, <1>6, <1>13 DEF EventInv
  <2>2. Unawaited(events[i + 1]) => Unawaited(events[i])'
    BY <1>3, <1>6 DEF Unawaited, Issued, Gap, InRing, Current, Back
  <2>3. QED
    BY <1>3, <1>6, <1>9, <2>1, <2>2
<1>14. EventInv'
  BY <1>3, <1>12, <1>13 DEF EventInv
<1>15. CASE pc # "await"
  <2>1. ~Issued' /\ future = {} /\ pc' # "await"
    BY <1>1, <1>3, <1>15 DEF OnceInv, Issued, Active
  <2>2. \A w \in Waiter : trbs'[w] = <<>>
    BY <1>1, <1>3, <2>1 DEF OnceInv
  <2>3. wait_list' = {} /\ future' = {}
    BY <1>3, <2>1
  <2>4. OnceInv'
    BY <2>1, <2>2, <2>3 DEF OnceInv
  <2>5. QED
    BY <1>7, <1>8, <1>10, <1>14, <2>4 DEF XhciInv
<1>16. CASE pc = "await"
  <2>1. PICK w \in Waiter : Waiting(w)
    BY <1>1, <1>16 DEF OnceInv
  <2>2. future = {w} /\ cond[w] = ptr /\ w \in wait_list
    BY <2>1 DEF Waiting
  <2>3. /\ wait_list' = {w} /\ future' = {w} /\ cond'[w] = ptr'
        /\ trbs'[w] = (IF ptr = h.addr THEN Append(trbs[w], h) ELSE trbs[w])
        /\ \A v \in Waiter : v \notin future => trbs'[v] = <<>>
    BY <1>1, <1>3, <2>2 DEF OnceInv
  <2>4. \A i \in 1..Len(events') : i \in Named(ptr)' <=> i + 1 \in Named(ptr)
    BY <1>3, <1>6 DEF Named
  <2>5. Named(ptr)' \subseteq 1..Len(events') /\ (1 \in Named(ptr) <=> h.addr = ptr)
    BY <1>5 DEF Named
  <2>6. \/ InRing' /\ Named(ptr)' = {} /\ trbs'[w] = <<>>
        \/ ~InRing' /\ (\E i \in 1..Len(events') : Named(ptr)' = {i}) /\ trbs'[w] = <<>>
        \/ ~InRing' /\ Named(ptr)' = {} /\ Len(trbs'[w]) = 1 /\ wait_list' = {w}
    <3>1. CASE h.addr = ptr
      <4>1. ~InRing /\ Named(ptr) = {1} /\ trbs[w] = <<>>
        BY <2>1, <2>5, <3>1 DEF Waiting
      <4>2. Named(ptr)' = {}
        BY <1>5, <2>4, <2>5, <4>1
      <4>3. Len(trbs'[w]) = 1
        BY <1>5, <2>3, <3>1, <4>1
      <4>4. QED
        BY <1>9, <2>3, <4>1, <4>2, <4>3
    <3>2. CASE h.addr # ptr
      <4>1. trbs'[w] = trbs[w]
        BY <2>3, <3>2
      <4>2. Named(ptr) = {} => Named(ptr)' = {}
        BY <2>4, <2>5
      <4>3. ASSUME NEW i \in 1..Len(events), Named(ptr) = {i}
            PROVE  \E j \in 1..Len(events') : Named(ptr)' = {j}
        <5>1. i # 1
          BY <2>5, <3>2, <4>3
        <5>2. PICK j \in 1..Len(events') : j + 1 = i
          BY <1>5, <5>1
        <5>3. \A k \in 1..Len(events') : k \in Named(ptr)' <=> k = j
          BY <2>4, <4>3, <5>2
        <5>4. QED
          BY <2>5, <5>3
      <4>4. QED
        BY <1>9, <2>1, <2>3, <4>1, <4>2, <4>3 DEF Waiting
    <3>3. QED
      BY <3>1, <3>2
  <2>7. \E v \in Waiter : wait_list' \subseteq {v, w}
    BY <2>3
  <2>8. Waiting(w)'
    BY <2>3, <2>6, <2>7 DEF Waiting
  <2>9. OnceInv'
    BY <1>3, <1>16, <2>2, <2>3, <2>8 DEF OnceInv
  <2>10. QED
    BY <1>7, <1>8, <1>10, <1>14, <2>9 DEF XhciInv
<1>17. QED
  BY <1>15, <1>16

-----------------------------------------------------------------------------
(* The controller                                                          *)

LEMMA OneMore ==
  ASSUME NEW S, NEW s \in Seq(S), NEW e \in S
  PROVE  /\ Append(s, e) \in Seq(S) /\ Len(s) \in Nat /\ Len(Append(s, e)) = Len(s) + 1
         /\ Append(s, e)[Len(s) + 1] = e /\ \A i \in 1..Len(s) : Append(s, e)[i] = s[i]
OBVIOUS

\* The controller stops at an empty ring; a step that changes nothing.
LEMMA IdleKeeps ==
  ASSUME XhciInv,
         UNCHANGED <<pc, kind, pushed, ptr, slot, place, ring, halted, events, wait_list, future, cond, trbs>>
  PROVE  XhciInv'
<1>1. TypeInv' /\ QueueInv'
  BY RingsFrame DEF XhciInv, TypeInv
<1>2. ProgressInv'
  BY DEF XhciInv, ProgressInv, Issued, Gap, Current, Back
<1>3. EventInv'
  BY DEF XhciInv, EventInv, Gone, Unawaited, Issued, Gap, InRing, Current, Back
<1>4. OnceInv'
  BY DEF XhciInv, OnceInv, Waiting, Named, Issued, Gap, InRing, Current
<1>5. QED
  BY <1>1, <1>2, <1>3, <1>4 DEF XhciInv

\* A port status change event names no TRB.
LEMMA PortChangeKeeps == XhciInv /\ HwPortChange => XhciInv'
<1> SUFFICES ASSUME XhciInv, HwPortChange PROVE XhciInv'
  OBVIOUS
<1>1. TypeInv /\ QueueInv /\ ProgressInv /\ EventInv /\ OnceInv
  BY DEF XhciInv
<1>2. PICK e : e = [addr |-> NoAddr, code |-> "success", slot |-> 0]
  OBVIOUS
<1>3. /\ events' = Append(events, e)
      /\ UNCHANGED <<pc, kind, pushed, ptr, slot, place, ring, halted, wait_list, future, cond, trbs>>
  BY <1>2 DEF HwPortChange, driverVars, hwVars, waiterVars
<1>4. e \in Event /\ e.addr = NoAddr
  BY <1>2, SizesAssumption DEF Event, Code
<1>5. /\ events' \in Seq(Event) /\ Len(events) \in Nat /\ Len(events') = Len(events) + 1
      /\ events'[Len(events) + 1] = e /\ \A i \in 1..Len(events) : events'[i] = events[i]
  BY <1>1, <1>3, <1>4, OneMore DEF TypeInv
<1>6. \A i \in 1..Len(events') : (i \in 1..Len(events) /\ events'[i] = events[i]) \/ events'[i] = e
  BY <1>5
<1>7. TypeInv' /\ QueueInv' /\ ProgressInv'
  <2>1. TypeInv' /\ QueueInv'
    BY <1>1, <1>3, <1>5, RingsFrame DEF TypeInv
  <2>2. QED
    BY <1>1, <1>3, <2>1 DEF ProgressInv, Issued, Gap, Current, Back
<1>8. EventInv'
  <2>1. ASSUME NEW i \in 1..Len(events') PROVE Gone(events[i])'
    <3>1. \A j \in 1..Len(events) : events'[i] = events[j] => Gone(events[i])'
      BY <1>1, <1>3 DEF EventInv, Gone, Back
    <3>2. events'[i].addr = NoAddr => Gone(events[i])'
      BY DEF Gone
    <3>3. QED
      BY <1>4, <1>6, <3>1, <3>2
  <2>2. ASSUME NEW i \in 1..Len(events'), pc \in Active \union {"init_port", "ready"}
        PROVE  events'[i].addr = NoAddr \/ (Issued' /\ events'[i].addr = ptr') \/ Unawaited(events[i])'
    <3>1. CASE events'[i] = e
      BY <1>4, <3>1
    <3>2. CASE i \in 1..Len(events) /\ events'[i] = events[i]
      <4>1. events[i].addr = NoAddr \/ (Issued /\ events[i].addr = ptr) \/ Unawaited(events[i])
        BY <1>1, <2>2, <3>2 DEF EventInv
      <4>2. Unawaited(events[i]) => Unawaited(events[i])'
        BY <1>3, <3>2 DEF Unawaited, Issued, Gap, InRing, Current, Back
      <4>3. Issued => Issued'
        BY <1>3 DEF Issued
      <4>4. QED
        BY <1>3, <3>2, <4>1, <4>2, <4>3
    <3>3. QED
      BY <1>6, <3>1, <3>2
  <2>3. QED
    BY <1>3, <2>1, <2>2 DEF EventInv
<1>9. ASSUME Issued PROVE Named(ptr)' = Named(ptr)
  <2>1. ptr # NoAddr
    <3>1. kind \in Kind /\ pushed \in 0..3 /\ place \in [Ring -> 0..(PLACES - 1)]
      BY <1>1 DEF TypeInv
    <3>2. RingOf(kind) \in Ring /\ AwaitedStage(kind) \in 1..2 /\ pushed >= AwaitedStage(kind)
      BY <1>9, <3>1, AnyRequest DEF Issued
    <3>3. PICK g \in 1..PLACES : g = Gap
      BY <3>1, <3>2, Sizes DEF Gap
    <3>4. ptr = Back(RingOf(kind), g)
      BY <1>1, <1>9, <3>3 DEF ProgressInv
    <3>5. QED
      BY <3>1, <3>2, <3>4, BackIsAddress
  <2>2. QED
    BY <1>3, <1>4, <1>5, <1>6, <2>1 DEF Named
<1>10. (Issued' <=> Issued) /\ (InRing' <=> InRing)
  BY <1>3 DEF Issued, Gap, Current, InRing
<1>11. pc = "await" => Issued
  <2>1. kind \in Kind /\ (pc = "await" => pushed = Stages(kind))
    BY <1>1 DEF TypeInv, ProgressInv
  <2>2. QED
    BY <2>1, AnyRequest DEF Issued, Active
<1>12. \A i \in 1..Len(events) : i \in 1..Len(events')
  BY <1>5
<1>13. OnceInv'
  <2>1. ASSUME Issued', pc' # "await"
        PROVE  \/ InRing' /\ Named(ptr)' = {}
               \/ ~InRing' /\ \E i \in 1..Len(events') : Named(ptr)' = {i}
    BY <1>1, <1>3, <1>9, <1>10, <1>12, <2>1 DEF OnceInv
  <2>2. ASSUME pc' = "await" PROVE \E w \in Waiter : Waiting(w)'
    BY <1>1, <1>3, <1>9, <1>10, <1>11, <1>12, <2>2 DEF OnceInv, Waiting
  <2>3. QED
    BY <1>1, <1>3, <2>1, <2>2 DEF OnceInv
<1>14. QED
  BY <1>7, <1>8, <1>13 DEF XhciInv

\* The controller takes the oldest TRB of a ring.  It says nothing (the bit is
\* clear), or reports a success (the bit is set), or reports an error, and then
\* an endpoint stops.
LEMMA TakeKeeps ==
  ASSUME XhciInv, NEW r \in Ring, ring[r] # <<>>, ~(r = "endpoint" /\ halted),
         ring' = [ring EXCEPT ![r] = Tail(@)],
         UNCHANGED <<pc, kind, pushed, ptr, slot, place, wait_list, future, cond, trbs>>,
         NEW e \in Event, e.addr = Head(ring[r]).addr,
         \/ events' = events /\ ~Head(ring[r]).ioc /\ halted' = halted
         \/ events' = Append(events, e) /\ Head(ring[r]).ioc /\ halted' = halted
         \/ events' = Append(events, e) /\ halted' = (halted \/ r = "endpoint")
  PROVE  XhciInv'
<1>1. TypeInv /\ QueueInv /\ ProgressInv /\ EventInv /\ OnceInv
  BY DEF XhciInv
<1>2. PICK n : n = Len(ring[r])
  OBVIOUS
<1>3. PICK A : A = AwaitedStage(kind)
  OBVIOUS
<1>4. PICK t : t = ring[r][1]
  OBVIOUS
<1>5. /\ kind \in Kind /\ pushed \in 0..3 /\ halted \in BOOLEAN /\ events \in Seq(Event)
      /\ place \in [Ring -> 0..(PLACES - 1)] /\ ring \in [Ring -> Seq(Trb)] /\ ring[r] \in Seq(Trb)
  BY <1>1 DEF TypeInv
<1>6. /\ n \in Nat /\ n >= 1 /\ t = Head(ring[r]) /\ t \in Trb
      /\ Tail(ring[r]) \in Seq(Trb) /\ Len(Tail(ring[r])) = n - 1
      /\ \A i \in 1..(n - 1) : Tail(ring[r])[i] = ring[r][i + 1]
  BY <1>2, <1>4, <1>5, FirstAndRest
<1>7. ring'[r] = Tail(ring[r]) /\ ring' \in [Ring -> Seq(Trb)] /\ \A s \in Ring : s # r => ring'[s] = ring[s]
  <2>1. ring'[r] = Tail(ring[r]) /\ \A s \in Ring : s # r => ring'[s] = ring[s]
    BY <1>5
  <2>2. QED
    BY <1>5, <1>6, <2>1
<1>8. n <= 4 /\ n \in 1..PLACES
  BY <1>1, <1>2, <1>6, Sizes DEF QueueInv
\* The TRBs on a ring belong to the request under way or to the one before; the
\* endpoint has not stopped.
<1>9. r = RingOf(kind) /\ ~halted /\ (kind \in Commands <=> r = "command")
  <2>1. CASE kind \in Commands
    BY <1>1, <2>1, CommandRequest, Sizes DEF QueueInv
  <2>2. CASE kind \notin Commands
    <3>1. r = "endpoint" /\ RingOf(kind) = "endpoint"
      BY <1>1, <1>5, <2>2, TransferRequest, Sizes DEF QueueInv
    <3>2. QED
      BY <2>2, <3>1
  <2>3. QED
    BY <2>1, <2>2
<1>10. Current = ring[r] /\ Len(Current) = n /\ Current' = Tail(ring[r]) /\ Len(Current') = n - 1
  BY <1>2, <1>6, <1>7, <1>9 DEF Current
<1>11. /\ A \in 1..2 /\ Stages(kind) \in 1..3 /\ Left(kind) \in 0..1 /\ A = Left(kind) + 1
       /\ A <= Stages(kind) /\ Stages(kind) <= A + 1
  BY <1>3, <1>5, AnyRequest
<1>12. e.addr = Back(r, n)
  <2>1. ring[r][1].addr = Back(r, (n - 1) + 1)
    BY <1>1, <1>2, <1>6 DEF QueueInv
  <2>2. (n - 1) + 1 = n
    BY <1>6
  <2>3. QED
    BY <1>4, <1>6, <2>1, <2>2
<1>13. t.ioc <=> n - 1 = pushed - A
  <2>1. 1 \in 1..Len(Current) /\ Current[1] = t
    BY <1>4, <1>6, <1>10
  <2>2. QED
    BY <1>1, <1>3, <1>10, <2>1 DEF QueueInv
<1>14. Gap = (pushed - A) + 1 /\ Gap' = Gap /\ (Issued' <=> Issued) /\ (t.ioc <=> n = Gap)
  <2>1. Gap = (pushed - A) + 1 /\ Gap' = Gap /\ (Issued' <=> Issued)
    BY <1>3 DEF Gap, Issued
  <2>2. (n - 1 = pushed - A) <=> n = (pushed - A) + 1
    BY <1>5, <1>6, <1>11
  <2>3. QED
    BY <1>13, <2>1, <2>2
<1>15. /\ pc # "init_port"
       /\ pc \in Active => n <= pushed + Left(kind)
       /\ pc = "ready" => n <= pushed - A
  <2>1. pc # "init_port"
    BY <1>1, <1>10 DEF ProgressInv
  <2>2. QED
    BY <1>1, <1>3, <1>10, <2>1 DEF ProgressInv
<1>27. events' = events \/ events' = Append(events, e)
  OBVIOUS
<1>28. halted' = halted \/ halted' = (halted \/ r = "endpoint")
  OBVIOUS
<1>29. halted' \in BOOLEAN /\ (r # "endpoint" => ~halted')
  <2>1. (halted \/ r = "endpoint") \in BOOLEAN
    OBVIOUS
  <2>2. ASSUME r # "endpoint" PROVE ~halted'
    <3>1. ~(halted \/ r = "endpoint")
      BY <1>9, <2>2
    <3>2. CASE halted' = halted
      BY <1>9, <3>2
    <3>3. CASE halted' = (halted \/ r = "endpoint")
      BY <3>1, <3>3, Zenon
    <3>4. QED
      BY <1>28, <3>2, <3>3
  <2>3. halted' \in BOOLEAN
    BY <1>5, <1>28, <2>1, Zenon
  <2>4. QED
    BY <2>2, <2>3
<1>30. events' = events \/ t.ioc \/ halted' = (halted \/ r = "endpoint")
  BY <1>6
<1>31. events' = events \/ t.ioc \/ (r = "endpoint" => halted')
  BY <1>30, Zenon
<1>16. TypeInv'
  <2>1. events' \in Seq(Event)
    <3>1. Append(events, e) \in Seq(Event)
      BY <1>5, OneMore
    <3>2. QED
      BY <1>5, <1>27, <3>1
  <2>2. halted' \in BOOLEAN
    BY <1>29
  <2>3. QED
    BY <1>1, <1>7, <2>1, <2>2 DEF TypeInv
<1>17. QueueInv'
  <2>1. ASSUME NEW s \in Ring PROVE Len(ring'[s]) <= 4
    BY <1>1, <1>6, <1>7, <1>8 DEF QueueInv
  <2>2. ASSUME NEW s \in Ring, NEW j \in 1..Len(ring'[s])
        PROVE  ring'[s][j].addr = Back(s, (Len(ring[s]) - j) + 1)'
    <3>1. CASE s # r
      BY <1>1, <1>7, <3>1 DEF QueueInv, Back
    <3>2. CASE s = r
      <4>1. j + 1 \in 1..n /\ ring'[s][j] = ring[r][j + 1]
        BY <1>6, <1>7, <3>2
      <4>2. ring[r][j + 1].addr = Back(r, (n - (j + 1)) + 1)
        BY <1>1, <1>2, <4>1 DEF QueueInv
      <4>3. (n - (j + 1)) + 1 = (Len(ring'[s]) - j) + 1
        BY <1>6, <1>7, <3>2
      <4>4. QED
        BY <3>2, <4>1, <4>2, <4>3 DEF Back
    <3>3. QED
      BY <3>1, <3>2
  <2>3. ASSUME NEW j \in 1..Len(Current')
        PROVE  Current'[j].ioc <=> Len(Current') - j = pushed' - AwaitedStage(kind')
    <3>1. j + 1 \in 1..Len(Current) /\ Current'[j] = Current[j + 1]
      BY <1>6, <1>10
    <3>2. Current[j + 1].ioc <=> n - (j + 1) = pushed - A
      BY <1>1, <1>3, <1>10, <3>1 DEF QueueInv
    <3>3. n - (j + 1) = Len(Current') - j
      BY <1>6, <1>10
    <3>4. QED
      BY <1>3, <3>1, <3>2, <3>3
  <2>4. /\ kind' \in Commands => ring'["endpoint"] = <<>> /\ ~halted'
        /\ kind' \notin Commands => ring'["command"] = <<>>
    <3>1. kind \in Commands => r = "command" /\ ring["endpoint"] = <<>>
      BY <1>1, <1>9 DEF QueueInv
    <3>2. kind \notin Commands => r = "endpoint" /\ ring["command"] = <<>>
      BY <1>1, <1>9, Sizes DEF QueueInv
    <3>3. QED
      BY <1>7, <1>29, <3>1, <3>2, Sizes
  <2>5. QED
    BY <2>1, <2>2, <2>3, <2>4 DEF QueueInv
<1>18. ProgressInv'
  <2>1. pc' \in Active => Len(Current') <= pushed' + Left(kind')
    BY <1>5, <1>6, <1>10, <1>11, <1>15
  <2>2. pc' = "ready" => Len(Current') <= pushed' - AwaitedStage(kind')
    BY <1>3, <1>5, <1>6, <1>10, <1>11, <1>15
  <2>3. Issued' => ptr' = Back(RingOf(kind), Gap)'
    BY <1>1, <1>14 DEF ProgressInv, Back
  <2>4. QED
    BY <1>1, <1>15, <2>1, <2>2, <2>3 DEF ProgressInv
\* What the event says of the request.
<1>19. ASSUME pc \in Active \union {"ready"}
       PROVE  \/ Issued /\ n = Gap
              \/ /\ events' = events
              \/ /\ r = "endpoint" /\ halted' /\ n \in 1..(pushed + 1)
                 /\ Issued => n # Gap
  <2>1. ASSUME n = Gap PROVE Issued
    <3>1. pc # "ready"
      BY <1>5, <1>6, <1>11, <1>14, <1>15, <2>1
    <3>2. pushed >= A
      BY <1>5, <1>6, <1>11, <1>14, <2>1
    <3>3. QED
      BY <1>3, <1>19, <3>1, <3>2 DEF Issued
  <2>2. ASSUME r = "command" PROVE n = Gap
    <3>1. Stages(kind) = 1 /\ A = 1 /\ Left(kind) = 0
      BY <1>3, <1>9, <2>2, CommandRequest
    <3>2. n <= pushed
      BY <1>5, <1>6, <1>15, <1>19, <3>1
    <3>3. pushed <= 1 /\ (pc = "ready" => pushed = 1)
      <4>1. pc = "push" => pushed < Stages(kind)
        BY <1>1 DEF ProgressInv
      <4>2. pc \in {"notify", "register", "await", "ready"} => pushed = Stages(kind)
        BY <1>1 DEF ProgressInv
      <4>3. QED
        BY <1>5, <1>19, <3>1, <4>1, <4>2 DEF Active
    <3>4. QED
      BY <1>5, <1>6, <1>14, <3>1, <3>2, <3>3
  <2>3. n <= pushed + 1
    BY <1>5, <1>6, <1>11, <1>15, <1>19
  <2>4. CASE n = Gap
    BY <2>1, <2>4
  <2>5. CASE n # Gap
    <3>1. r = "endpoint" /\ n \in 1..(pushed + 1)
      BY <1>5, <1>6, <2>2, <2>3, <2>5, Sizes
    <3>2. events' = events \/ halted'
      BY <1>14, <1>31, <2>5, <3>1
    <3>3. QED
      BY <2>5, <3>1, <3>2
  <2>6. QED
    BY <2>4, <2>5
<1>20. \A i \in 1..Len(events') : (i \in 1..Len(events) /\ events'[i] = events[i]) \/ (events'[i] = e /\ events' # events)
  <2>1. CASE events' = events
    BY <2>1
  <2>2. CASE events' = Append(events, e)
    <3>1. Len(events) \in Nat /\ Len(events') = Len(events) + 1 /\ events'[Len(events) + 1] = e
          /\ \A i \in 1..Len(events) : events'[i] = events[i]
      BY <1>5, <2>2, OneMore
    <3>2. QED
      BY <3>1
  <2>3. QED
    BY <2>1, <2>2
<1>21. EventInv'
  <2>1. ASSUME NEW i \in 1..Len(events') PROVE Gone(events[i])'
    <3>1. CASE i \in 1..Len(events) /\ events'[i] = events[i]
      <4>1. CASE events[i].addr = NoAddr
        BY <3>1, <4>1 DEF Gone
      <4>2. CASE events[i].addr # NoAddr
        <5>1. PICK s \in Ring : \E d \in (Len(ring[s]) + 1)..PLACES : events[i].addr = Back(s, d)
          BY <1>1, <3>1, <4>2 DEF EventInv, Gone
        <5>2. PICK d \in (Len(ring[s]) + 1)..PLACES : events[i].addr = Back(s, d)
          BY <5>1
        <5>3. Len(ring[s]) \in Nat /\ Len(ring'[s]) \in Nat /\ Len(ring'[s]) <= Len(ring[s])
          BY <1>2, <1>5, <1>6, <1>7
        <5>4. d \in (Len(ring'[s]) + 1)..PLACES
          BY <5>3, Sizes
        <5>5. events'[i].addr = Back(s, d)'
          BY <3>1, <5>2 DEF Back
        <5>6. QED
          BY <5>4, <5>5 DEF Gone
      <4>3. QED
        BY <4>1, <4>2
    <3>2. CASE events'[i] = e
      <4>1. n \in (Len(ring'[r]) + 1)..PLACES
        BY <1>6, <1>7, <1>8
      <4>2. events'[i].addr = Back(r, n)'
        BY <1>12, <3>2 DEF Back
      <4>3. QED
        BY <4>1, <4>2 DEF Gone
    <3>3. QED
      BY <1>20, <3>1, <3>2
  <2>2. ASSUME NEW i \in 1..Len(events'), pc \in Active \union {"ready"}
        PROVE  events'[i].addr = NoAddr \/ (Issued' /\ events'[i].addr = ptr') \/ Unawaited(events[i])'
    <3>1. CASE i \in 1..Len(events) /\ events'[i] = events[i]
      <4>1. events[i].addr = NoAddr \/ (Issued /\ events[i].addr = ptr) \/ Unawaited(events[i])
        BY <1>1, <2>2, <3>1 DEF EventInv
      <4>2. ~Unawaited(events[i])
        BY <1>9 DEF Unawaited
      <4>3. QED
        BY <1>14, <3>1, <4>1, <4>2
    <3>2. CASE events'[i] = e /\ events' # events
      <4>1. CASE Issued /\ n = Gap
        <5>1. ptr = Back(r, n)
          BY <1>1, <1>9, <4>1 DEF ProgressInv
        <5>2. QED
          BY <1>12, <1>14, <3>2, <4>1, <5>1
      <4>2. CASE r = "endpoint" /\ halted' /\ n \in 1..(pushed + 1) /\ (Issued => n # Gap)
        <5>1. n \in 1..(pushed' + 1) /\ events'[i].addr = Back("endpoint", n)' /\ halted'
          BY <1>12, <3>2, <4>2 DEF Back
        <5>2. pc' = "ready" => n <= pushed' - AwaitedStage(kind')
          BY <1>3, <1>15
        <5>3. Issued' => n # Gap' /\ (n > Gap' => InRing')
          BY <1>5, <1>6, <1>10, <1>11, <1>14, <4>2 DEF InRing
        <5>4. QED
          BY <5>1, <5>2, <5>3 DEF Unawaited
      <4>3. QED
        BY <1>19, <2>2, <3>2, <4>1, <4>2
    <3>3. QED
      BY <1>20, <3>1, <3>2
  <2>3. QED
    BY <1>15, <2>1, <2>2 DEF EventInv
\* The awaited TRB moves from the ring to the event ring, and no other step
\* touches it.
<1>22. ASSUME Issued
       PROVE  \/ InRing /\ ~InRing' /\ (Named(ptr) = {} => \E i \in 1..Len(events') : Named(ptr)' = {i})
              \/ (InRing' <=> InRing) /\ Named(ptr)' = Named(ptr)
  <2>1. ptr = Back(r, Gap) /\ Gap \in 1..PLACES
    <3>1. Gap \in 1..3
      <4>1. pushed >= A
        BY <1>3, <1>22 DEF Issued
      <4>2. pushed \in 0..3 /\ A \in 1..2 /\ Gap = (pushed - A) + 1
        BY <1>5, <1>11, <1>14
      <4>3. QED
        BY <4>1, <4>2
    <3>2. QED
      BY <1>1, <1>9, <1>22, <3>1, Sizes DEF ProgressInv
  <2>2. (InRing <=> n >= Gap) /\ (InRing' <=> n - 1 >= Gap)
    BY <1>10, <1>14 DEF InRing
  <2>3. Named(ptr) \subseteq 1..Len(events)
    BY DEF Named
  <2>4. CASE n = Gap
    <3>1. InRing /\ ~InRing'
      BY <1>6, <2>1, <2>2, <2>4
    <3>2. events' = Append(events, e)
      BY <1>6, <1>14, <2>4
    <3>3. /\ Len(events) \in Nat /\ Len(events') = Len(events) + 1 /\ events'[Len(events) + 1] = e
          /\ \A i \in 1..Len(events) : events'[i] = events[i]
      BY <1>5, <3>2, OneMore
    <3>4. Named(ptr) = {} => Named(ptr)' = {Len(events) + 1}
      <4>1. e.addr = ptr
        BY <1>12, <2>1, <2>4
      <4>2. QED
        BY <3>3, <4>1 DEF Named
    <3>5. Len(events) + 1 \in 1..Len(events')
      BY <3>3
    <3>6. QED
      BY <3>1, <3>4, <3>5
  <2>5. CASE n # Gap
    <3>1. InRing' <=> InRing
      BY <1>6, <2>1, <2>2, <2>5
    <3>2. e.addr # ptr
      <4>1. PICK g \in 1..PLACES : g = Gap
        BY <2>1
      <4>2. Back(r, n) # Back(r, g)
        BY <1>5, <1>8, <2>5, <4>1, BackIsAddress
      <4>3. QED
        BY <1>12, <2>1, <4>1, <4>2
    <3>3. Named(ptr)' = Named(ptr)
      <4>1. \A i \in 1..Len(events) : i \in 1..Len(events') /\ events'[i] = events[i]
        BY <1>5, OneMore
      <4>2. QED
        BY <1>20, <3>2, <4>1 DEF Named
    <3>4. QED
      BY <3>1, <3>3
  <2>6. QED
    BY <2>4, <2>5
<1>23. pc = "await" => Issued
  <2>1. pc = "await" => pushed = Stages(kind)
    BY <1>1 DEF ProgressInv
  <2>2. QED
    BY <1>3, <1>5, <1>11, <2>1 DEF Issued, Active
<1>24. \A i \in 1..Len(events) : i \in 1..Len(events')
  BY <1>5, OneMore
<1>25. OnceInv'
  <2>1. ASSUME Issued', pc' # "await"
        PROVE  \/ InRing' /\ Named(ptr)' = {}
               \/ ~InRing' /\ \E i \in 1..Len(events') : Named(ptr)' = {i}
    BY <1>1, <1>14, <1>22, <1>24, <2>1 DEF OnceInv
  <2>2. ASSUME pc' = "await" PROVE \E w \in Waiter : Waiting(w)'
    <3>1. PICK w \in Waiter : Waiting(w)
      BY <1>1, <2>2 DEF OnceInv
    <3>2. \/ InRing' /\ Named(ptr)' = {} /\ trbs'[w] = <<>>
          \/ ~InRing' /\ (\E i \in 1..Len(events') : Named(ptr)' = {i}) /\ trbs'[w] = <<>>
          \/ ~InRing' /\ Named(ptr)' = {} /\ Len(trbs'[w]) = 1 /\ wait_list' = {w}
      BY <1>22, <1>23, <1>24, <2>2, <3>1 DEF Waiting
    <3>3. QED
      BY <3>1, <3>2 DEF Waiting
  <2>3. QED
    BY <1>1, <2>1, <2>2 DEF OnceInv
<1>26. QED
  BY <1>16, <1>17, <1>18, <1>21, <1>25 DEF XhciInv

LEMMA SucceedKeeps ==
  ASSUME XhciInv, NEW r \in Ring, HwSucceed(r)
  PROVE  XhciInv'
<1>1. /\ ring[r] # <<>> /\ ~(r = "endpoint" /\ halted) /\ ring' = [ring EXCEPT ![r] = Tail(@)]
      /\ UNCHANGED <<pc, kind, pushed, ptr, slot, place, halted, wait_list, future, cond, trbs>>
  BY DEF HwSucceed, driverVars, hwVars, waiterVars
<1>2. PICK t : t = Head(ring[r])
  OBVIOUS
<1>3. t.addr \in Addr /\ slot \in 0..MAX_SLOTS /\ MAX_SLOTS \in Nat
  <2>1. ring[r] \in Seq(Trb) /\ slot \in 0..MAX_SLOTS
    BY DEF XhciInv, TypeInv
  <2>2. t \in Trb
    BY <1>1, <1>2, <2>1, FirstAndRest
  <2>3. QED
    BY <2>1, <2>2, SizesAssumption DEF Trb
<1>4. CASE t.ioc
  <2>1. PICK c \in {"success", "short_packet"}, s \in 1..MAX_SLOTS :
          events' = Append(events, [addr |-> t.addr, code |-> c, slot |-> IF slot = 0 THEN s ELSE slot])
    BY <1>2, <1>4 DEF HwSucceed
  <2>7. PICK q : q = IF slot = 0 THEN s ELSE slot
    OBVIOUS
  <2>2. PICK e : e = [addr |-> t.addr, code |-> c, slot |-> q]
    OBVIOUS
  <2>3. c \in Code /\ q \in 0..MAX_SLOTS
    <3>1. slot \in 0..MAX_SLOTS /\ MAX_SLOTS \in Nat /\ s \in 0..MAX_SLOTS
      BY <1>3, SizesAssumption
    <3>2. q \in 0..MAX_SLOTS
      BY <2>7, <3>1
    <3>3. c \in Code
      BY DEF Code
    <3>4. QED
      BY <3>2, <3>3
  <2>4. e \in Event /\ e.addr = t.addr
    BY <1>3, <2>2, <2>3 DEF Event
  <2>5. events' = Append(events, e)
    BY <2>1, <2>2, <2>7
  <2>6. QED
    BY <1>1, <1>2, <1>4, <2>4, <2>5, TakeKeeps
<1>5. CASE ~t.ioc
  <2>1. events' = events
    BY <1>2, <1>5 DEF HwSucceed
  <2>2. PICK e : e = [addr |-> t.addr, code |-> "success", slot |-> 0]
    OBVIOUS
  <2>3. e \in Event /\ e.addr = t.addr
    BY <1>3, <2>2 DEF Event, Code
  <2>4. QED
    BY <1>1, <1>2, <1>5, <2>1, <2>3, TakeKeeps
<1>6. QED
  BY <1>4, <1>5

LEMMA FailKeeps ==
  ASSUME XhciInv, NEW r \in Ring, HwFail(r)
  PROVE  XhciInv'
<1>1. PICK e : e = [addr |-> Head(ring[r]).addr, code |-> "error", slot |-> slot]
  OBVIOUS
<1>2. /\ ring[r] # <<>> /\ ~(r = "endpoint" /\ halted) /\ ring' = [ring EXCEPT ![r] = Tail(@)]
      /\ events' = Append(events, e) /\ halted' = (halted \/ r = "endpoint")
      /\ UNCHANGED <<pc, kind, pushed, ptr, slot, place, wait_list, future, cond, trbs>>
  BY <1>1 DEF HwFail, driverVars, waiterVars
<1>3. ring[r] \in Seq(Trb) /\ slot \in 0..MAX_SLOTS
  BY DEF XhciInv, TypeInv
<1>4. Head(ring[r]) \in Trb
  BY <1>2, <1>3, FirstAndRest
<1>5. e \in Event /\ e.addr = Head(ring[r]).addr
  <2>1. Head(ring[r]).addr \in Addr
    BY <1>4 DEF Trb
  <2>2. QED
    BY <1>1, <1>3, <2>1 DEF Event, Code
<1>6. QED
  BY <1>2, <1>5, TakeKeeps

-----------------------------------------------------------------------------
(* The theorems                                                            *)

LEMMA StepHolds == XhciInv /\ [Next]_vars => XhciInv'
<1> SUFFICES ASSUME XhciInv, [Next]_vars PROVE XhciInv'
  OBVIOUS
<1>1. CASE Driver
  BY <1>1, BetweenRequests, PushKeeps, NotifyKeeps, RegisterKeeps, ResumeKeeps DEF Driver
<1>2. CASE PollEvent
  BY <1>2, PollKeeps
<1>3. CASE \E r \in Ring : HwSucceed(r) \/ HwFail(r) \/ HwIdle(r)
  <2>1. PICK r \in Ring : HwSucceed(r) \/ HwFail(r) \/ HwIdle(r)
    BY <1>3
  <2>2. CASE HwSucceed(r)
    BY <2>2, SucceedKeeps
  <2>3. CASE HwFail(r)
    BY <2>3, FailKeeps
  <2>4. CASE HwIdle(r)
    BY <2>4, IdleKeeps DEF HwIdle, driverVars, waiterVars
  <2>5. QED
    BY <2>1, <2>2, <2>3, <2>4
<1>4. CASE HwPortChange
  BY <1>4, PortChangeKeeps
<1>5. CASE UNCHANGED vars
  BY <1>5, IdleKeeps DEF vars, driverVars, hwVars, waiterVars
<1>6. QED
  BY <1>1, <1>2, <1>3, <1>4, <1>5 DEF Next

\* However the controller, the driver and the polling task interleave, what is
\* on the rings, in the event ring and with the waiter is what the driver has
\* under way (send_command, the request_* functions, EventRing::poll).
THEOREM XhciSafety == Spec => []XhciInv
<1>1. Init => XhciInv
  BY InitHolds
<1>2. XhciInv /\ [Next]_vars => XhciInv'
  BY StepHolds
<1>3. QED
  BY <1>1, <1>2, PTL DEF Spec

LEMMA OncePart == XhciInv => AwaitedExactlyOnce
<1> SUFFICES ASSUME XhciInv, pc = "await"
             PROVE  \E w \in future :
                      Count(ring[RingOf(kind)], ptr) + Count(events, ptr) + Len(trbs[w]) = 1
  BY DEF AwaitedExactlyOnce
<1>1. TypeInv /\ QueueInv /\ ProgressInv /\ EventInv /\ OnceInv
  BY DEF XhciInv
<1>2. PICK w \in Waiter : Waiting(w)
  BY <1>1 DEF OnceInv
<1>3. w \in future /\ trbs[w] \in Seq(Event)
  BY <1>1, <1>2 DEF Waiting, TypeInv
<1>4. Count(events, ptr) = Cardinality(Named(ptr))
  BY DEF Count, Named
<1>5. PICK n : n = Len(Current)
  OBVIOUS
<1>6. PICK g : g = Gap
  OBVIOUS
<1>7. /\ kind \in Kind /\ RingOf(kind) \in Ring /\ pushed = Stages(kind)
      /\ place \in [Ring -> 0..(PLACES - 1)] /\ ring \in [Ring -> Seq(Trb)]
  BY <1>1, AnyRequest DEF TypeInv, ProgressInv
<1>8. Issued /\ g \in 1..2
  BY <1>6, <1>7, AnyRequest DEF Issued, Active, Gap
<1>9. Current \in Seq(Trb) /\ n \in Nat /\ n <= 4 /\ ptr = Back(RingOf(kind), g)
  <2>1. Current \in Seq(Trb) /\ Current = ring[RingOf(kind)]
    BY <1>7 DEF Current
  <2>2. QED
    BY <1>1, <1>5, <1>6, <1>7, <1>8, <2>1 DEF QueueInv, ProgressInv
<1>10. ASSUME NEW i \in 1..n PROVE Current[i].addr = ptr <=> i = (n - g) + 1
  <2>1. PICK d \in 1..PLACES : d = (n - i) + 1
    BY <1>9, Sizes
  <2>2. Current[i].addr = Back(RingOf(kind), d)
    BY <1>1, <1>5, <1>7, <2>1 DEF QueueInv, Current
  <2>3. g \in 1..PLACES
    BY <1>8, Sizes
  <2>4. Back(RingOf(kind), d) = Back(RingOf(kind), g) <=> d = g
    BY <1>7, <2>3, BackIsAddress
  <2>5. d = g <=> i = (n - g) + 1
    BY <1>8, <1>9, <2>1
  <2>6. QED
    BY <1>9, <2>2, <2>4, <2>5
<1>11. PICK I : I = {i \in 1..n : Current[i].addr = ptr}
  OBVIOUS
<1>12. Count(ring[RingOf(kind)], ptr) = Cardinality(I)
  BY <1>5, <1>11 DEF Count, Current
<1>13. (InRing => I = {(n - g) + 1}) /\ (~InRing => I = {})
  <2>1. InRing <=> n >= g
    BY <1>5, <1>6 DEF InRing
  <2>2. n >= g <=> (n - g) + 1 \in 1..n
    BY <1>8, <1>9
  <2>3. QED
    BY <1>10, <1>11, <2>1, <2>2
<1>14. Cardinality(I) = IF InRing THEN 1 ELSE 0
  BY <1>13, FS_EmptySet, FS_Singleton
<1>15. \/ InRing /\ Cardinality(Named(ptr)) = 0 /\ Len(trbs[w]) = 0
       \/ ~InRing /\ Cardinality(Named(ptr)) = 1 /\ Len(trbs[w]) = 0
       \/ ~InRing /\ Cardinality(Named(ptr)) = 0 /\ Len(trbs[w]) = 1
  <2>1. Len(<<>>) = 0
    OBVIOUS
  <2>2. QED
    BY <1>2, <2>1, FS_EmptySet, FS_Singleton DEF Waiting
<1>16. PICK a, b, c : a = Cardinality(I) /\ b = Cardinality(Named(ptr)) /\ c = Len(trbs[w])
  OBVIOUS
<1>17. a + b + c = 1
  <2>1. a \in 0..1 /\ b \in 0..1 /\ c \in 0..1
    BY <1>14, <1>15, <1>16
  <2>2. (a = 1 /\ b = 0 /\ c = 0) \/ (a = 0 /\ b = 1 /\ c = 0) \/ (a = 0 /\ b = 0 /\ c = 1)
    BY <1>14, <1>15, <1>16
  <2>3. QED
    BY <2>1, <2>2
<1>18. QED
  BY <1>3, <1>4, <1>12, <1>16, <1>17

\* send_command and the control transfers: the completion of the awaited TRB is
\* neither lost before its waiter is registered nor delivered twice, for every
\* size of the rings and every number of requests.
THEOREM CompletionsOnce == Spec => []AwaitedExactlyOnce
<1>1. XhciInv => AwaitedExactlyOnce
  BY OncePart
<1>2. QED
  BY <1>1, XhciSafety, PTL

LEMMA DifferentPlaces ==
  ASSUME NEW n \in Nat, NEW T, NEW f \in [1..n -> T],
         \A i, j \in 1..n : f[i] = f[j] => i = j, \A y \in T : \E i \in 1..n : f[i] = y
  PROVE  Cardinality(T) = n
<1>1. f \in Bijection(1..n, T)
  BY Fun_IsBij
<1>2. ExistsBijection(1..n, T)
  BY <1>1 DEF ExistsBijection
<1>3. IsFiniteSet(1..n) /\ Cardinality(1..n) = n
  BY FS_Interval
<1>4. QED
  BY <1>2, <1>3, FS_Bijection

LEMMA AddressPart == XhciInv => NoAddressInUseTwice
<1> SUFFICES ASSUME XhciInv, NEW r \in Ring
             PROVE  /\ Addresses(events) \intersect Addresses(ring[r]) = {}
                    /\ Cardinality(Addresses(ring[r])) = Len(ring[r])
  BY DEF NoAddressInUseTwice
<1>1. TypeInv /\ QueueInv /\ EventInv
  BY DEF XhciInv
<1>2. PICK n : n = Len(ring[r])
  OBVIOUS
<1>3. /\ place \in [Ring -> 0..(PLACES - 1)] /\ ring \in [Ring -> Seq(Trb)] /\ ring[r] \in Seq(Trb)
      /\ n \in Nat /\ n <= 4
  <2>1. place \in [Ring -> 0..(PLACES - 1)] /\ ring \in [Ring -> Seq(Trb)] /\ ring[r] \in Seq(Trb)
    BY <1>1 DEF TypeInv
  <2>2. QED
    BY <1>1, <1>2, <2>1 DEF QueueInv
<1>4. \A i \in 1..n : (n - i) + 1 \in 1..PLACES /\ (n - i) + 1 <= n
  BY <1>3, Sizes
<1>5. \A i \in 1..n : ring[r][i].addr = Back(r, (n - i) + 1)
  BY <1>1, <1>2 DEF QueueInv
<1>6. ASSUME NEW a \in Addresses(events), a \in Addresses(ring[r]) PROVE FALSE
  <2>1. PICK i \in 1..n : a = Back(r, (n - i) + 1)
    BY <1>2, <1>5, <1>6 DEF Addresses
  <2>2. PICK d \in 1..PLACES : d = (n - i) + 1 /\ d <= n
    BY <1>4
  <2>3. a = Back(r, d) /\ a # NoAddr
    BY <1>3, <2>1, <2>2, BackIsAddress
  <2>4. PICK j \in 1..Len(events) : a = events[j].addr
    BY DEF Addresses
  <2>5. PICK s \in Ring : \E e \in (Len(ring[s]) + 1)..PLACES : a = Back(s, e)
    BY <1>1, <2>3, <2>4 DEF EventInv, Gone
  <2>6. PICK e \in (Len(ring[s]) + 1)..PLACES : a = Back(s, e)
    BY <2>5
  <2>7. Len(ring[s]) \in Nat
    BY <1>3
  <2>8. e \in 1..PLACES /\ e > Len(ring[s])
    BY <2>7, Sizes
  <2>9. r = s /\ d = e
    <3>1. place \in [Ring -> 0..(PLACES - 1)] /\ Back(r, d) = Back(s, e) /\ e \in 1..PLACES
      BY <1>3, <2>3, <2>6, <2>8, Zenon
    <3>2. \A q \in Ring, k \in 1..PLACES : Back(r, d) = Back(q, k) => r = q /\ d = k
      BY <3>1, BackIsAddress
    <3>3. QED
      BY <3>1, <3>2, Zenon
  <2>10. QED
    BY <1>2, <1>3, <2>2, <2>8, <2>9
<1>7. PICK f : f = [i \in 1..n |-> ring[r][i].addr]
  OBVIOUS
<1>8. PICK T : T = Addresses(ring[r])
  OBVIOUS
<1>9. ASSUME NEW i \in 1..n, NEW j \in 1..n, f[i] = f[j] PROVE i = j
  <2>1. PICK d \in 1..PLACES : d = (n - i) + 1
    BY <1>4
  <2>2. PICK e \in 1..PLACES : e = (n - j) + 1
    BY <1>4
  <2>3. Back(r, d) = Back(r, e)
    BY <1>5, <1>7, <1>9, <2>1, <2>2
  <2>4. d = e
    BY <1>3, <2>3, BackIsAddress
  <2>5. QED
    BY <1>3, <2>1, <2>2, <2>4
<1>10. f \in [1..n -> T] /\ \A y \in T : \E i \in 1..n : f[i] = y
  BY <1>2, <1>7, <1>8 DEF Addresses
<1>11. \A i, j \in 1..n : f[i] = f[j] => i = j
  BY <1>9
<1>12. n \in Nat
  BY <1>3
<1>13. Cardinality(T) = n
  BY <1>10, <1>11, <1>12, DifferentPlaces
<1>14. QED
  BY <1>2, <1>6, <1>8, <1>13

\* CommandRing::push reuses addresses: never one that is still on the ring or
\* that an event not yet polled names.
THEOREM AddressesUsedOnce == Spec => []NoAddressInUseTwice
<1>1. XhciInv => NoAddressInUseTwice
  BY AddressPart
<1>2. QED
  BY <1>1, XhciSafety, PTL

LEMMA ListPart == XhciInv => WaitListBounded
<1> SUFFICES ASSUME XhciInv PROVE Cardinality(wait_list) <= 2
  BY DEF WaitListBounded
<1>1. \E v, w : wait_list \subseteq {v, w}
  <2>1. CASE pc = "await"
    BY <2>1 DEF XhciInv, OnceInv, Waiting
  <2>2. CASE pc # "await"
    <3>1. \A v, w \in wait_list : v = w
      BY <2>2 DEF XhciInv, OnceInv
    <3>2. CASE wait_list = {}
      BY <3>2
    <3>3. CASE wait_list # {}
      <4>1. PICK v \in wait_list : TRUE
        BY <3>3
      <4>2. wait_list \subseteq {v, v}
        BY <3>1, <4>1
      <4>3. QED
        BY <4>2
    <3>4. QED
      BY <3>2, <3>3
  <2>3. QED
    BY <2>1, <2>2
<1>2. PICK v, w : wait_list \subseteq {v, w}
  BY <1>1
<1>3. IsFiniteSet({v}) /\ Cardinality({v}) = 1
  BY FS_Singleton
<1>4. IsFiniteSet({v} \union {w}) /\ Cardinality({v} \union {w}) \in 1..2
  BY <1>3, FS_AddElement
<1>5. wait_list \in SUBSET ({v} \union {w})
  BY <1>2
<1>6. IsFiniteSet(wait_list) /\ Cardinality(wait_list) <= Cardinality({v} \union {w})
  BY <1>4, <1>5, FS_Subset
<1>7. Cardinality(wait_list) \in Nat
  BY <1>6, FS_CardinalityType
<1>8. QED
  BY <1>4, <1>6, <1>7

\* EventRing::poll drops the waiters nobody holds before a second one can come:
\* the list does not grow with the number of requests.
THEOREM StaleWaitersGo == Spec => []WaitListBounded
<1>1. XhciInv => WaitListBounded
  BY ListPart
<1>2. QED
  BY <1>1, XhciSafety, PTL
=============================================================================
