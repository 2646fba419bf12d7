---------------------------- MODULE DriverProof -----------------------------
(***************************************************************************)
(* The USB drivers (UsbDrivers), for every list of descriptors a device    *)
(* can send, and below them the decoding of reports: the bits of a buffer  *)
(* (Bits), the scaling of a coordinate (Range) and the parser of report    *)
(* descriptors (HidReport), for every stream of items.                     *)
(***************************************************************************)
EXTENDS UsbDrivers, HidReport, SequenceTheorems, WellFoundedInduction, TLAPS

(***************************************************************************)
(* Induction and recursion.  The library states them with operators as     *)
(* parameters; here they are stated for sets and functions, which is what  *)
(* the provers can instantiate.                                            *)
(***************************************************************************)

\* A set of naturals with 0 and the successor of each of its members is Nat.
LEMMA SetInduction ==
  ASSUME NEW T, 0 \in T, \A n \in Nat : n \in T => n + 1 \in T
  PROVE  \A n \in Nat : n \in T
<1> DEFINE Bad == {n \in Nat : n \notin T}
<1> SUFFICES ASSUME Bad # {} PROVE FALSE
  OBVIOUS
<1>1. IsWellFoundedOn(OpToRel(<, Nat), Nat)
  BY NatLessThanWellFounded
<1>2. PICK m \in Bad : \A k \in Bad : <<k, m>> \notin OpToRel(<, Nat)
  BY <1>1, WFMin
<1>3. m \in Nat /\ m # 0 /\ m - 1 \in Nat /\ m - 1 < m
  OBVIOUS
<1>4. <<m - 1, m>> \in OpToRel(<, Nat)
  BY <1>3 DEF OpToRel
<1>5. m - 1 \in T
  BY <1>2, <1>3, <1>4
<1>6. (m - 1) + 1 \in T /\ (m - 1) + 1 = m
  BY <1>3, <1>5
<1>7. QED
  BY <1>6

\* f starts with c and goes on by Step.
Iterates(S, c, Step, f) ==
  f \in [Nat -> S] /\ f[0] = c /\ \A n \in Nat : f[n + 1] = Step[n][f[n]]

\* For every start and every step there is the sequence that they make.
LEMMA RecursionExists ==
  ASSUME NEW S, NEW c \in S, NEW Step \in [Nat -> [S -> S]]
  PROVE  \E f : Iterates(S, c, Step, f)
<1> DEFINE Run(m, f) == f \in [0..m -> S] /\ f[0] = c /\ \A n \in 0..(m - 1) : f[n + 1] = Step[n][f[n]]
           T == {m \in Nat : \E f : Run(m, f)}
<1>1. 0 \in T
  <2>1. Run(0, [n \in 0..0 |-> c])
    OBVIOUS
  <2>2. QED
    BY <2>1
<1>2. ASSUME NEW m \in Nat, m \in T PROVE m + 1 \in T
  <2>1. PICK f : Run(m, f)
    BY <1>2
  <2> DEFINE g == [n \in 0..(m + 1) |-> IF n <= m THEN f[n] ELSE Step[m][f[m]]]
  <2>2. f[m] \in S /\ Step[m][f[m]] \in S
    BY <2>1
  <2>3. g \in [0..(m + 1) -> S]
    BY <2>1, <2>2
  <2>4. g[0] = c
    BY <2>1
  <2>5. ASSUME NEW n \in 0..((m + 1) - 1) PROVE g[n + 1] = Step[n][g[n]]
    <3>1. n \in 0..m /\ g[n] = f[n]
      OBVIOUS
    <3>2. CASE n = m
      BY <3>1, <3>2
    <3>3. CASE n < m
      <4>1. n \in 0..(m - 1) /\ n + 1 <= m /\ n + 1 \in 0..(m + 1)
        BY <3>3
      <4>2. g[n + 1] = f[n + 1] /\ f[n + 1] = Step[n][f[n]]
        BY <4>1, <2>1
      <4>3. QED
        BY <3>1, <4>2
    <3>4. QED
      BY <3>1, <3>2, <3>3
  <2>6. Run(m + 1, g)
    BY <2>3, <2>4, <2>5
  <2> HIDE DEF g
  <2>7. QED
    BY <2>6
<1>3. \A m \in Nat : m \in T
  <2> HIDE DEF T
  <2>1. QED
    BY <1>1, <1>2, SetInduction
\* Two runs agree as far as the shorter one goes.
<1>4. ASSUME NEW m \in Nat, NEW k \in Nat, NEW f, NEW g, Run(m, f), Run(k, g), m <= k
      PROVE  \A n \in 0..m : f[n] = g[n]
  <2> DEFINE Same == {n \in Nat : n <= m => f[n] = g[n]}
  <2>1. 0 \in Same
    BY <1>4
  <2>2. ASSUME NEW n \in Nat, n \in Same PROVE n + 1 \in Same
    <3>1. CASE n + 1 <= m
      <4>1. n \in 0..(m - 1) /\ n \in 0..(k - 1) /\ f[n] = g[n]
        BY <1>4, <2>2, <3>1
      <4>2. f[n + 1] = Step[n][f[n]] /\ g[n + 1] = Step[n][g[n]]
        BY <1>4, <4>1
      <4>3. QED
        BY <4>1, <4>2
    <3>2. CASE ~(n + 1 <= m)
      BY <3>2
    <3>3. QED
      BY <3>1, <3>2
  <2>3. \A n \in Nat : n \in Same
    <3> HIDE DEF Same
    <3>1. QED
      BY <2>1, <2>2, SetInduction
  <2>4. QED
    BY <2>3
<1> DEFINE r == [m \in Nat |-> CHOOSE f : Run(m, f)]
           h == [m \in Nat |-> r[m][m]]
<1>5. \A m \in Nat : Run(m, r[m])
  BY <1>3
<1> HIDE DEF r
<1>6. h \in [Nat -> S]
  BY <1>5
<1>7. h[0] = c
  BY <1>5
<1>8. ASSUME NEW n \in Nat PROVE h[n + 1] = Step[n][h[n]]
  <2>1. Run(n, r[n]) /\ Run(n + 1, r[n + 1]) /\ n <= n + 1
    BY <1>5
  <2>2. r[n][n] = r[n + 1][n]
    <3> HIDE DEF Run
    <3>1. n + 1 \in Nat /\ n \in 0..n
      OBVIOUS
    <3>2. QED
      BY <1>4, <2>1, <3>1
  <2>3. n \in 0..((n + 1) - 1)
    OBVIOUS
  <2>4. r[n + 1][n + 1] = Step[n][r[n + 1][n]]
    BY <2>1, <2>3
  <2>5. QED
    BY <2>2, <2>4
<1>9. Iterates(S, c, Step, h)
  BY <1>6, <1>7, <1>8 DEF Iterates
<1>10. QED
  BY <1>9

(***************************************************************************)
(* pick_interface_with_triple                                              *)
(***************************************************************************)

\* What the loop of pick_interface_with_triple keeps.
PickState ==
  [config : Descriptor \union {None}, interface : Descriptor \union {None},
   desc_list : Seq(Descriptor), done : BOOLEAN]

\* The loop keeps to its types.
LEMMA PickTypes ==
  /\ Picking \in PickState
  /\ \A triple : \A p \in PickState, d \in Descriptor : PickStep(p, d, triple) \in PickState
<1> HIDE DEF Descriptor
<1>1. <<>> \in Seq(Descriptor) /\ \A s \in Seq(Descriptor), d \in Descriptor : Append(s, d) \in Seq(Descriptor)
  OBVIOUS
<1>2. Picking \in PickState
  BY <1>1 DEF Picking, PickState
<1>3. ASSUME NEW p \in PickState, NEW d \in Descriptor, NEW triple PROVE PickStep(p, d, triple) \in PickState
  <2>1. p.desc_list \in Seq(Descriptor) /\ Append(p.desc_list, d) \in Seq(Descriptor)
    BY <1>1 DEF PickState
  <2>2. QED
    BY <1>1, <2>1 DEF PickState, PickStep
<1>4. QED
  BY <1>2, <1>3

\* The loop is what its body makes of the list, descriptor by descriptor.
LEMMA PickLoopDef ==
  ASSUME NEW list \in Seq(Descriptor), NEW triple
  PROVE  /\ PickLoop(list, triple)[0] = Picking
         /\ \A n \in 1..Len(list) :
              PickLoop(list, triple)[n] = PickStep(PickLoop(list, triple)[n - 1], list[n], triple)
         /\ \A n \in 0..Len(list) : PickLoop(list, triple)[n] \in PickState
<1> DEFINE N == Len(list)
           Eq(f) == f = [n \in 0..N |-> IF n = 0 THEN Picking ELSE PickStep(f[n - 1], list[n], triple)]
           Step == [n \in Nat |-> [p \in PickState |->
                      IF n + 1 <= N THEN PickStep(p, list[n + 1], triple) ELSE p]]
<1>1. N \in Nat /\ \A n \in 1..N : list[n] \in Descriptor
  OBVIOUS
<1>2. Step \in [Nat -> [PickState -> PickState]]
  BY <1>1, PickTypes
<1>3. PICK f : Iterates(PickState, Picking, Step, f)
  <2> HIDE DEF Step
  <2>1. Picking \in PickState
    BY PickTypes
  <2>2. QED
    BY <1>2, <2>1, RecursionExists
<1> DEFINE g == [n \in 0..N |-> f[n]]
<1>4. ASSUME NEW n \in 1..N PROVE f[n] = PickStep(f[n - 1], list[n], triple)
  <2>1. n - 1 \in Nat /\ (n - 1) + 1 = n /\ n <= N /\ f[n - 1] \in PickState
    BY <1>1, <1>3 DEF Iterates
  <2>2. f[n] = Step[n - 1][f[n - 1]]
    BY <1>3, <2>1 DEF Iterates
  <2>3. QED
    BY <2>1, <2>2
<1>5. Eq(g)
  <2>1. ASSUME NEW n \in 0..N
        PROVE  g[n] = IF n = 0 THEN Picking ELSE PickStep(g[n - 1], list[n], triple)
    <3>1. CASE n = 0
      BY <1>1, <1>3, <3>1 DEF Iterates
    <3>2. CASE n # 0
      <4>1. n \in 1..N /\ n - 1 \in 0..N
        BY <1>1, <3>2
      <4>2. QED
        BY <1>4, <3>2, <4>1
    <3>3. QED
      BY <3>1, <3>2
  <2>2. QED
    BY <2>1
<1> HIDE DEF g
<1>6. PickLoop(list, triple) = CHOOSE h : Eq(h)
  BY DEF PickLoop
<1>7. Eq(PickLoop(list, triple))
  BY <1>5, <1>6
<1> DEFINE L == PickLoop(list, triple)
<1>8. L[0] = Picking /\ \A n \in 1..N : L[n] = PickStep(L[n - 1], list[n], triple)
  BY <1>1, <1>7
<1> DEFINE T == {n \in Nat : n <= N => L[n] \in PickState}
<1>9. \A n \in Nat : n \in T
  <2>1. 0 \in T
    BY <1>8, PickTypes
  <2>2. ASSUME NEW n \in Nat, n \in T PROVE n + 1 \in T
    <3>1. CASE n + 1 <= N
      <4>1. n + 1 \in 1..N /\ (n + 1) - 1 = n /\ L[n] \in PickState
        BY <1>1, <2>2, <3>1
      <4>2. L[n + 1] = PickStep(L[n], list[n + 1], triple) /\ list[n + 1] \in Descriptor
        BY <1>1, <1>8, <4>1
      <4>3. QED
        BY <4>1, <4>2, PickTypes
    <3>2. CASE ~(n + 1 <= N)
      BY <3>2
    <3>3. QED
      BY <3>1, <3>2
  <2>3. QED
    <3> HIDE DEF T
    <3>1. QED
      BY <2>1, <2>2, SetInduction
<1>10. QED
  BY <1>1, <1>8, <1>9

\* The interface d[j] stands in the part of the list that configuration d[i] opens.
StandsIn(list, i, j) ==
  /\ list[i].type = "Config" /\ list[j].type = "Interface"
  /\ \A k \in (i + 1)..j : list[k].type # "Config"

\* What the loop knows after n descriptors: the last configuration it has passed
\* and, if it has found an interface, that it stands in this configuration.
LoopInv(list, triple, n, p) ==
  p.config # None =>
    \E i \in 1..n :
      /\ list[i] = p.config /\ list[i].type = "Config"
      /\ ~p.done => \A k \in (i + 1)..n : list[k].type # "Config"
      /\ p.interface # None =>
           \E j \in (i + 1)..n : /\ list[j] = p.interface /\ list[j].triple = triple
                                 /\ StandsIn(list, i, j)

\* One round of the loop keeps it.
LEMMA LoopInvStep ==
  ASSUME NEW list \in Seq(Descriptor), NEW triple, NEW n \in Nat, n + 1 <= Len(list),
         NEW p \in PickState, LoopInv(list, triple, n, p)
  PROVE  LoopInv(list, triple, n + 1, PickStep(p, list[n + 1], triple))
<1> DEFINE d == list[n + 1]
           q == PickStep(p, d, triple)
<1>1. d \in Descriptor /\ d # None
  BY UsbAssumption
<1>2. n + 1 \in 1..(n + 1) /\ \A i \in 1..n : i \in 1..(n + 1)
  OBVIOUS
<1> HIDE DEF d
<1>3. ASSUME p.done \/ (d.type = "Config" /\ p.interface # None)
      PROVE  LoopInv(list, triple, n + 1, q)
  <2>1. q.config = p.config /\ q.interface = p.interface /\ q.done
    BY <1>3 DEF PickStep, PickState
  <2> HIDE DEF q
  <2> SUFFICES ASSUME p.config # None PROVE LoopInv(list, triple, n + 1, q)
    BY <2>1 DEF LoopInv
  <2>2. PICK i \in 1..n :
          /\ list[i] = p.config /\ list[i].type = "Config"
          /\ p.interface # None =>
               \E j \in (i + 1)..n : /\ list[j] = p.interface /\ list[j].triple = triple
                                     /\ StandsIn(list, i, j)
    BY DEF LoopInv
  <2>3. \A j \in (i + 1)..n : j \in (i + 1)..(n + 1)
    OBVIOUS
  <2>4. QED
    BY <1>2, <2>1, <2>2, <2>3 DEF LoopInv
<1>4. ASSUME ~p.done, d.type = "Config", p.interface = None
      PROVE  LoopInv(list, triple, n + 1, q)
  <2>1. q.config = d /\ q.interface = None /\ ~q.done
    BY <1>4 DEF PickStep, PickState
  <2> HIDE DEF q
  <2>2. \A k \in ((n + 1) + 1)..(n + 1) : FALSE
    OBVIOUS
  <2>3. QED
    BY <1>2, <1>4, <2>1, <2>2 DEF LoopInv, d
<1>5. ASSUME ~p.done, d.type # "Config"
      PROVE  LoopInv(list, triple, n + 1, q)
  <2>1. q.config = p.config /\ ~q.done
    BY <1>5 DEF PickStep, PickState
  <2>2. q.interface = p.interface \/ (q.interface = d /\ d.type = "Interface" /\ d.triple = triple)
    BY <1>5 DEF PickStep, PickState
  <2> HIDE DEF q
  <2> SUFFICES ASSUME p.config # None PROVE LoopInv(list, triple, n + 1, q)
    BY <2>1 DEF LoopInv
  <2>3. PICK i \in 1..n :
          /\ list[i] = p.config /\ list[i].type = "Config"
          /\ \A k \in (i + 1)..n : list[k].type # "Config"
          /\ p.interface # None =>
               \E j \in (i + 1)..n : /\ list[j] = p.interface /\ list[j].triple = triple
                                     /\ StandsIn(list, i, j)
    BY <1>5 DEF LoopInv
  <2>4. \A k \in (i + 1)..(n + 1) : list[k].type # "Config"
    <3>1. ASSUME NEW k \in (i + 1)..(n + 1) PROVE k \in (i + 1)..n \/ k = n + 1
      OBVIOUS
    <3>2. QED
      BY <1>5, <2>3, <3>1 DEF d
  <2>5. ASSUME q.interface # None
        PROVE  \E j \in (i + 1)..(n + 1) : /\ list[j] = q.interface /\ list[j].triple = triple
                                           /\ StandsIn(list, i, j)
    <3>1. CASE q.interface = p.interface
      <4>1. \A j \in (i + 1)..n : j \in (i + 1)..(n + 1)
        OBVIOUS
      <4>2. QED
        BY <2>3, <2>5, <3>1, <4>1
    <3>2. CASE q.interface = d /\ d.type = "Interface" /\ d.triple = triple
      <4>1. n + 1 \in (i + 1)..(n + 1)
        OBVIOUS
      <4>2. StandsIn(list, i, n + 1)
        BY <2>3, <2>4, <3>2 DEF StandsIn, d
      <4>3. QED
        BY <3>2, <4>1, <4>2 DEF d
    <3>3. QED
      BY <2>2, <3>1, <3>2
  <2>6. QED
    BY <1>2, <2>1, <2>3, <2>4, <2>5 DEF LoopInv
<1>6. QED
  BY <1>3, <1>4, <1>5 DEF d

\* The interface that pick_interface_with_triple returns has the triple that was
\* asked for, and the configuration it returns is the one that opens the part of
\* the list the interface stands in: whatever the device has sent.
THEOREM PicksInItsConfiguration ==
  ASSUME NEW list \in Seq(Descriptor), NEW triple,
         pick_interface_with_triple(list, triple) # None
  PROVE  \E i, j \in 1..Len(list) :
           /\ i < j /\ StandsIn(list, i, j) /\ list[j].triple = triple
           /\ list[i] = pick_interface_with_triple(list, triple).config
           /\ list[j] = pick_interface_with_triple(list, triple).interface
<1> DEFINE L == PickLoop(list, triple)
           T == {n \in Nat : n <= Len(list) => LoopInv(list, triple, n, L[n])}
<1>1. Len(list) \in Nat
  OBVIOUS
<1>2. 0 \in T
  BY <1>1, PickLoopDef DEF LoopInv, Picking
<1>3. ASSUME NEW n \in Nat, n \in T PROVE n + 1 \in T
  <2>1. CASE n + 1 <= Len(list)
    <3>1. LoopInv(list, triple, n, L[n])
      BY <1>1, <1>3, <2>1
    <3>2. n + 1 \in 1..Len(list) /\ (n + 1) - 1 = n /\ n \in 0..Len(list)
      BY <1>1, <2>1
    <3>3. L[n + 1] = PickStep(L[n], list[n + 1], triple) /\ L[n] \in PickState
      BY <3>2, PickLoopDef
    <3> HIDE DEF L
    <3>4. LoopInv(list, triple, n + 1, PickStep(L[n], list[n + 1], triple))
      BY <2>1, <3>1, <3>3, LoopInvStep
    <3>5. QED
      BY <3>3, <3>4
  <2>2. CASE ~(n + 1 <= Len(list))
    BY <2>2
  <2>3. QED
    BY <2>1, <2>2
<1>4. \A n \in Nat : n \in T
  <2> HIDE DEF T
  <2>1. QED
    BY <1>2, <1>3, SetInduction
<1> DEFINE p == L[Len(list)]
<1>5. LoopInv(list, triple, Len(list), p)
  BY <1>1, <1>4
<1>6. p.config # None /\ p.interface # None /\ pick_interface_with_triple(list, triple) = p
  BY DEF pick_interface_with_triple
<1> HIDE DEF p
<1>7. PICK i \in 1..Len(list) :
        /\ list[i] = p.config
        /\ \E j \in (i + 1)..Len(list) : /\ list[j] = p.interface /\ list[j].triple = triple
                                         /\ StandsIn(list, i, j)
  BY <1>5, <1>6 DEF LoopInv
<1>8. PICK j \in (i + 1)..Len(list) : /\ list[j] = p.interface /\ list[j].triple = triple
                                      /\ StandsIn(list, i, j)
  BY <1>7
<1>9. j \in 1..Len(list) /\ i < j
  BY <1>1
<1>10. QED
  BY <1>6, <1>7, <1>8, <1>9

(***************************************************************************)
(* The drivers' invariant.                                                 *)
(***************************************************************************)

UsbTypes ==
  /\ device \in [list : DescriptorLists, qemu_tablet : BOOLEAN]
  /\ descriptors \in Seq(Descriptor)
  /\ state \in [config : Byte, alt : [InterfaceNumber -> Byte],
                boot : [InterfaceNumber -> BOOLEAN]]

\* The keyboard driver has chosen descriptors[i] and descriptors[j].
Chosen(i, j) ==
  /\ i < j /\ StandsIn(descriptors, i, j) /\ descriptors[j].triple = KEYBOARD
  /\ descriptors[i] = picked.config /\ descriptors[j] = picked.interface

KeyboardSteps == {"set_config", "set_interface", "set_protocol", "keyboard_report", "keyboard_decode"}

\* What the keyboard driver knows of the device grows with each request.  Its
\* request 11 for the protocol is a second SET_INTERFACE, to setting 0.
SetUp ==
  /\ pc \in KeyboardSteps => \E i, j \in 1..Len(descriptors) : Chosen(i, j)
  /\ pc \in KeyboardSteps \ {"set_config"} => state.config = picked.config.config_value
  /\ pc = "set_protocol" =>
       state.alt[picked.interface.interface_number] = picked.interface.alt_setting
  /\ InKeyboardLoop => state.alt[picked.interface.interface_number] = 0

\* What the printed lines add up to is the report the driver keeps.  A tablet's
\* first report may be equal to the one the driver starts with, and is not
\* printed then.
ShownIsKept ==
  /\ InKeyboardLoop => shown = prev
  /\ InTabletLoop => shown = {prev} \/ shown = {}
  /\ ~InKeyboardLoop /\ ~InTabletLoop /\ pc # "ended" => shown = {}

UsbInv == UsbTypes /\ SetUp /\ ShownIsKept

\* A chosen interface is one of the interface descriptors.
LEMMA ChosenTypes ==
  ASSUME descriptors \in Seq(Descriptor), NEW i \in 1..Len(descriptors), NEW j \in 1..Len(descriptors),
         Chosen(i, j)
  PROVE  /\ picked.config.config_value \in Byte
         /\ picked.interface.interface_number \in InterfaceNumber
         /\ picked.interface.alt_setting \in Byte
<1>1. descriptors[i] \in Descriptor /\ descriptors[j] \in Descriptor
  OBVIOUS
<1>2. descriptors[i].type = "Config" /\ descriptors[j].type = "Interface"
  BY DEF Chosen, StandsIn
<1>3. ASSUME NEW d \in Descriptor
      PROVE  /\ d.type = "Config" => d.config_value \in Byte
             /\ d.type = "Interface" => d.interface_number \in InterfaceNumber /\ d.alt_setting \in Byte
  BY DEF Descriptor
<1>4. QED
  BY <1>1, <1>2, <1>3 DEF Chosen

\* The drivers keep their invariant.
THEOREM UsbSafety == Spec => []UsbInv
<1>0. DescriptorLists \subseteq Seq(Descriptor) /\ 0 \in InterfaceNumber
  BY UsbAssumption
<1>1. Init => UsbInv
  <2> SUFFICES ASSUME Init PROVE UsbInv
    OBVIOUS
  <2>1. 0 \in Byte /\ <<>> \in Seq(Descriptor)
    BY DEF Byte
  <2>2. state \in [config : Byte, alt : [InterfaceNumber -> Byte], boot : [InterfaceNumber -> BOOLEAN]]
    BY <2>1 DEF Init
  <2>3. UsbTypes
    BY <2>1, <2>2 DEF Init, UsbTypes
  <2>4. QED
    BY <2>3 DEF Init, UsbInv, SetUp, ShownIsKept, KeyboardSteps, InKeyboardLoop, InTabletLoop
<1>2. UsbInv /\ [Next]_vars => UsbInv'
  <2> SUFFICES ASSUME UsbInv, [Next]_vars PROVE UsbInv'
    OBVIOUS
  <2> USE DEF UsbInv, KeyboardSteps, InKeyboardLoop, InTabletLoop
  <2>1. UsbTypes /\ SetUp /\ ShownIsKept
    OBVIOUS
  \* The steps that leave the chosen descriptors and the device alone.
  <2>2. ASSUME UNCHANGED <<device, descriptors, picked, state, shown>>,
               pc' \in KeyboardSteps => pc' = pc,
               pc' \notin {"tablet_report", "tablet_decode"},
               pc' # pc => pc' = "ended" \/ shown = {}, prev' = prev
        PROVE  UsbInv'
    <3>1. UsbTypes'
      BY <2>2 DEF UsbTypes
    <3>2. SetUp'
      BY <2>2 DEF SetUp, Chosen
    <3>3. ShownIsKept'
      BY <2>2 DEF ShownIsKept
    <3>4. QED
      BY <3>1, <3>2, <3>3
  <2>3. CASE GetDeviceDescriptor \/ GetStringZero \/ FindHid
    BY <2>1, <2>2, <2>3 DEF GetDeviceDescriptor, GetStringZero, FindHid, driver, ShownIsKept
  <2>4. CASE GetString
    BY <2>1, <2>2, <2>4 DEF GetString, ShownIsKept
  <2>5. CASE GetConfig
    <3>1. device.list \in Seq(Descriptor)
      BY <1>0 DEF UsbTypes
    <3>2. descriptors' \in Seq(Descriptor)
      <4>0. CASE UNCHANGED descriptors
        BY <4>0 DEF UsbTypes
      <4>1. CASE \E whole \in 0..Len(device.list), cut \in BOOLEAN : descriptors' = Iterated(device.list, whole, cut)
        <5>1. PICK whole \in 0..Len(device.list) : descriptors' = SubSeq(device.list, 1, whole)
          BY <3>1, <4>1 DEF Iterated
        <5>2. \A k \in 1..whole : device.list[k] \in Descriptor
          BY <3>1
        <5>3. QED
          BY <3>1, <5>1, <5>2
      <4>2. QED
        BY <2>5, <4>0, <4>1 DEF GetConfig
    <3>3. UsbTypes'
      BY <2>5, <3>2 DEF GetConfig, UsbTypes
    <3>4. SetUp' /\ ShownIsKept'
      BY <2>5 DEF GetConfig, SetUp, ShownIsKept
    <3>5. QED
      BY <3>3, <3>4
  <2>6. CASE StartDeviceDriver
    <3>1. UNCHANGED <<descriptors, device, state, prev, shown>> /\ shown = {}
          /\ pc' \in {"set_config", "hid_descriptor", "ended"}
      BY <2>6 DEF StartDeviceDriver, ShownIsKept
    <3>2. UsbTypes' /\ ShownIsKept'
      BY <3>1 DEF UsbTypes, ShownIsKept
    <3>3. ASSUME pc' = "set_config" PROVE \E i, j \in 1..Len(descriptors) : Chosen(i, j)'
      <4>1. KeyboardCompatible /\ picked' = pick_interface_with_triple(descriptors, KEYBOARD)
        BY <2>6, <3>3 DEF StartDeviceDriver
      <4>2. picked' # None
        BY <4>1 DEF KeyboardCompatible
      <4>3. descriptors \in Seq(Descriptor) /\ pick_interface_with_triple(descriptors, KEYBOARD) # None
        BY <4>1, <4>2 DEF UsbTypes
      <4>4. PICK i \in 1..Len(descriptors), j \in 1..Len(descriptors) :
              /\ i < j /\ StandsIn(descriptors, i, j) /\ descriptors[j].triple = KEYBOARD
              /\ descriptors[i] = pick_interface_with_triple(descriptors, KEYBOARD).config
              /\ descriptors[j] = pick_interface_with_triple(descriptors, KEYBOARD).interface
        BY <4>3, PicksInItsConfiguration
      <4>5. Chosen(i, j)'
        BY <3>1, <4>1, <4>4 DEF Chosen
      <4>6. QED
        BY <4>5
    <3>4. SetUp'
      BY <3>1, <3>3 DEF SetUp
    <3>5. QED
      BY <3>2, <3>4
  \* The three requests of the keyboard driver.
  <2>7. ASSUME pc \in {"set_config", "set_interface", "set_protocol"}
        PROVE  /\ picked.config.config_value \in Byte
               /\ picked.interface.interface_number \in InterfaceNumber
               /\ picked.interface.alt_setting \in Byte
    <3>1. PICK i \in 1..Len(descriptors), j \in 1..Len(descriptors) : Chosen(i, j)
      BY <2>1, <2>7 DEF SetUp
    <3>2. descriptors \in Seq(Descriptor)
      BY DEF UsbTypes
    <3>3. QED
      BY <3>1, <3>2, ChosenTypes
  <2>8. CASE SetConfig
    <3>1. UNCHANGED <<descriptors, picked, shown, device>> /\ pc = "set_config" /\ pc' = "set_interface"
      BY <2>8 DEF SetConfig, Request
    <3>2. state' = [config |-> picked.config.config_value, alt |-> [n \in InterfaceNumber |-> 0],
                    boot |-> [n \in InterfaceNumber |-> FALSE]]
      BY <2>8 DEF SetConfig, Request, After, Packet
    <3>3. UsbTypes'
      BY <2>7, <3>1, <3>2 DEF UsbTypes, Byte
    <3>4. SetUp'
      BY <3>1, <3>2 DEF SetUp, Chosen
    <3>5. ShownIsKept'
      BY <3>1 DEF ShownIsKept
    <3>6. QED
      BY <3>3, <3>4, <3>5
  <2>9. CASE SetInterface
    <3>1. UNCHANGED <<descriptors, picked, shown, device>> /\ pc = "set_interface" /\ pc' = "set_protocol"
      BY <2>9 DEF SetInterface, Request
    <3>2. state' = [state EXCEPT !.alt = [@ EXCEPT ![picked.interface.interface_number]
                                            = picked.interface.alt_setting]]
      BY <2>9 DEF SetInterface, Request, After, Packet, REQ_SET_CONFIGURATION, REQ_SET_INTERFACE
    <3>3. /\ picked.interface.interface_number \in InterfaceNumber
          /\ picked.interface.alt_setting \in Byte
      BY <2>7, <3>1
    <3>4. UsbTypes'
      BY <3>1, <3>2, <3>3 DEF UsbTypes
    <3>5. state'.config = state.config
          /\ state'.alt[picked.interface.interface_number] = picked.interface.alt_setting
      BY <3>2, <3>3 DEF UsbTypes
    <3>6. SetUp'
      BY <3>1, <3>5 DEF SetUp, Chosen
    <3>7. ShownIsKept'
      BY <3>1 DEF ShownIsKept
    <3>8. QED
      BY <3>4, <3>6, <3>7
  <2>10. CASE SetProtocol
    <3>1. UNCHANGED <<descriptors, picked, shown, device>> /\ pc = "set_protocol" /\ pc' = "keyboard_report"
          /\ prev' = {}
      BY <2>10 DEF SetProtocol, Request
    <3>2. state' = [state EXCEPT !.alt = [@ EXCEPT ![picked.interface.interface_number] = 0]]
      BY <2>10 DEF SetProtocol, Request, After, Packet, REQ_SET_CONFIGURATION, REQ_SET_INTERFACE,
                   REQ_SET_PROTOCOL
    <3>3. picked.interface.interface_number \in InterfaceNumber /\ 0 \in Byte
      BY <2>7, <3>1 DEF Byte
    <3>4. UsbTypes'
      BY <3>1, <3>2, <3>3 DEF UsbTypes
    <3>5. state'.config = state.config /\ state'.alt[picked.interface.interface_number] = 0
      BY <3>2, <3>3 DEF UsbTypes
    <3>6. SetUp'
      BY <3>1, <3>5 DEF SetUp, Chosen
    <3>7. ShownIsKept'
      BY <3>1 DEF ShownIsKept
    <3>8. QED
      BY <3>4, <3>6, <3>7
  \* The loops: the device and what was chosen stay.
  <2>11. ASSUME UNCHANGED <<descriptors, picked, device, state>>,
                \/ pc \in {"keyboard_report", "keyboard_decode"} /\ pc' \in {"keyboard_report", "keyboard_decode"}
                \/ pc' \notin KeyboardSteps
         PROVE  UsbTypes' /\ SetUp'
    BY <2>11 DEF UsbTypes, SetUp, Chosen
  <2>12. CASE KeyboardReport
    <3>1. UNCHANGED <<descriptors, picked, device, state, prev, shown>>
          /\ pc = "keyboard_report" /\ pc' = "keyboard_decode"
      BY <2>12 DEF KeyboardReport
    <3>2. QED
      BY <2>11, <3>1 DEF ShownIsKept
  <2>13. CASE KeyboardDecode
    <3>1. UNCHANGED <<descriptors, picked, device, state>> /\ prev' = report
          /\ pc = "keyboard_decode" /\ pc' = "keyboard_report"
      BY <2>13 DEF KeyboardDecode
    <3>2. shown = prev
      BY <3>1 DEF ShownIsKept
    <3>3. shown' = report
      BY <2>13, <3>2 DEF KeyboardDecode
    <3>4. QED
      BY <2>11, <3>1, <3>3 DEF ShownIsKept
  <2>14. CASE TabletStart
    <3>1. UNCHANGED <<descriptors, picked, device, state, shown>> /\ shown = {}
          /\ pc' \in {"ended", "tablet_report"}
      BY <2>14 DEF TabletStart, ShownIsKept
    <3>2. QED
      BY <2>11, <3>1 DEF ShownIsKept
  <2>15. CASE TabletReport
    <3>1. UNCHANGED <<descriptors, picked, device, state, prev, shown>>
          /\ pc = "tablet_report" /\ pc' = "tablet_decode"
      BY <2>15 DEF TabletReport
    <3>2. QED
      BY <2>11, <3>1 DEF ShownIsKept
  <2>16. CASE TabletDecode
    <3>1. UNCHANGED <<descriptors, picked, device, state>> /\ prev' = report
          /\ pc = "tablet_decode" /\ pc' = "tablet_report"
          /\ shown' = IF report = prev THEN shown ELSE {report}
      BY <2>16 DEF TabletDecode
    <3>2. shown = {prev} \/ shown = {}
      BY <3>1 DEF ShownIsKept
    <3>3. shown' = {prev'} \/ shown' = {}
      BY <3>1, <3>2
    <3>4. QED
      BY <2>11, <3>1, <3>3 DEF ShownIsKept
  <2>17. CASE Fail
    BY <2>2, <2>17 DEF Fail, driver
  <2>18. CASE User \/ UNCHANGED vars
    <3>1. UNCHANGED <<pc, descriptors, picked, device, state, prev, shown>>
      BY <2>18 DEF User, Press, Release, Move, driver, vars
    <3>2. QED
      BY <3>1 DEF UsbTypes, SetUp, Chosen, ShownIsKept
  <2>19. QED
    BY <2>3, <2>4, <2>5, <2>6, <2>8, <2>9, <2>10, <2>12, <2>13, <2>14, <2>15, <2>16, <2>17, <2>18
       DEF Next, Driver
<1>3. QED
  BY <1>1, <1>2, PTL DEF Spec

\* For every device, whatever the order of its descriptors and wherever the
\* iterator stops: the keyboard driver has picked a boot keyboard and has set
\* the device to the configuration that interface stands in.
THEOREM KeyboardConfigured == Spec => []ConfiguredForInterface
<1>1. UsbInv => ConfiguredForInterface
  <2> SUFFICES ASSUME UsbInv, InKeyboardLoop PROVE ConfiguredForInterface
    BY DEF ConfiguredForInterface
  <2>1. PICK i \in 1..Len(descriptors), j \in 1..Len(descriptors) : Chosen(i, j)
    BY DEF UsbInv, SetUp, KeyboardSteps, InKeyboardLoop
  <2>2. state.config = descriptors[i].config_value
    BY <2>1 DEF UsbInv, SetUp, KeyboardSteps, InKeyboardLoop, Chosen
  <2>3. QED
    BY <2>1, <2>2 DEF ConfiguredForInterface, Chosen, StandsIn
<1>2. QED
  BY <1>1, UsbSafety, PTL

\* The request for the boot protocol undoes the one for the interface's setting:
\* before it the device has the setting the driver has picked, and while
\* reports are read it has setting 0.
THEOREM ProtocolRequestResetsSetting ==
  Spec => [](/\ pc = "set_protocol" =>
                  state.alt[picked.interface.interface_number] = picked.interface.alt_setting
             /\ InKeyboardLoop => state.alt[picked.interface.interface_number] = 0)
<1>1. UsbInv => /\ pc = "set_protocol" =>
                     state.alt[picked.interface.interface_number] = picked.interface.alt_setting
                /\ InKeyboardLoop => state.alt[picked.interface.interface_number] = 0
  BY DEF UsbInv, SetUp
<1>2. QED
  BY <1>1, UsbSafety, PTL

\* What a driver has printed is what the report it has last decoded says.
THEOREM PrintedIsLastReport ==
  Spec => []((InKeyboardLoop => shown = prev) /\ (InTabletLoop => shown = {prev} \/ shown = {}))
<1>1. UsbInv => (InKeyboardLoop => shown = prev) /\ (InTabletLoop => shown = {prev} \/ shown = {})
  BY DEF UsbInv, ShownIsKept
<1>2. QED
  BY <1>1, UsbSafety, PTL

(***************************************************************************)
(* bits.rs: the powers of two, and what is taken out of the bytes of a     *)
(* number.                                                                 *)
(***************************************************************************)

\* Multiplication keeps an order.
LEMMA Monotone ==
  ASSUME NEW a \in Int, NEW b \in Int, NEW d \in Nat, a <= b
  PROVE  a * d <= b * d
OBVIOUS

\* Quotient and remainder are the only ones.
LEMMA DivUnique ==
  ASSUME NEW q \in Int, NEW d \in Nat \ {0}, NEW r \in 0..(d - 1), NEW a \in Int, a = q * d + r
  PROVE  a \div d = q /\ a % d = r
<1>1. a \div d \in Int /\ a % d \in 0..(d - 1) /\ a = (a \div d) * d + (a % d)
  OBVIOUS
<1> DEFINE p == a \div d
           s == a % d
<1>2. p \in Int /\ s \in 0..(d - 1) /\ a = p * d + s
  BY <1>1
<1> HIDE DEF p, s
<1>3. CASE p < q
  <2>1. (p + 1) * d <= q * d
    BY <1>2, <1>3, Monotone
  <2>2. (p + 1) * d = p * d + d
    BY <1>2
  <2>3. p * d \in Int /\ q * d \in Int
    BY <1>2
  <2>4. QED
    BY <1>2, <2>1, <2>2, <2>3
<1>4. CASE q < p
  <2>1. (q + 1) * d <= p * d
    BY <1>2, <1>4, Monotone
  <2>2. (q + 1) * d = q * d + d
    BY <1>2
  <2>3. p * d \in Int /\ q * d \in Int
    BY <1>2
  <2>4. QED
    BY <1>2, <2>1, <2>2, <2>3
<1>5. QED
  BY <1>2, <1>3, <1>4 DEF p, s

\* What quotient and remainder are.
LEMMA DivMod ==
  ASSUME NEW a \in Nat, NEW d \in Nat \ {0}
  PROVE  /\ a \div d \in Nat /\ a % d \in 0..(d - 1)
         /\ a = (a \div d) * d + (a % d)
<1>1. a \div d \in Int /\ a % d \in 0..(d - 1) /\ a = (a \div d) * d + (a % d)
  OBVIOUS
<1>2. a \div d >= 0
  OBVIOUS
<1>3. QED
  BY <1>1, <1>2

\* The powers of two follow their recursion.
LEMMA Pow2Def ==
  /\ pow2 \in [Nat -> Nat \ {0}]
  /\ pow2[0] = 1
  /\ \A n \in Nat : pow2[n + 1] = 2 * pow2[n]
<1> DEFINE P == Nat \ {0}
           Step == [n \in Nat |-> [p \in P |-> 2 * p]]
           Eq(f) == f = [n \in Nat |-> IF n = 0 THEN 1 ELSE 2 * f[n - 1]]
<1>1. Step \in [Nat -> [P -> P]] /\ 1 \in P
  OBVIOUS
<1>2. PICK f : Iterates(P, 1, Step, f)
  <2> HIDE DEF Step, P
  <2>1. QED
    BY <1>1, RecursionExists
<1>3. f \in [Nat -> P] /\ f[0] = 1 /\ \A n \in Nat : f[n + 1] = 2 * f[n]
  BY <1>2 DEF Iterates
<1>4. Eq(f)
  <2>1. ASSUME NEW n \in Nat PROVE f[n] = IF n = 0 THEN 1 ELSE 2 * f[n - 1]
    <3>1. CASE n = 0
      BY <1>3, <3>1
    <3>2. CASE n # 0
      <4>1. n - 1 \in Nat /\ (n - 1) + 1 = n
        BY <3>2
      <4>2. QED
        BY <1>3, <3>2, <4>1
    <3>3. QED
      BY <3>1, <3>2
  <2>2. QED
    BY <1>3, <2>1
<1>5. Eq(pow2)
  <2>1. pow2 = CHOOSE g : Eq(g)
    BY DEF pow2
  <2>2. QED
    BY <1>4, <2>1
<1>6. pow2[0] = 1 /\ \A n \in Nat : pow2[n + 1] = 2 * pow2[n]
  <2>1. pow2[0] = 1
    BY <1>5
  <2>2. ASSUME NEW n \in Nat PROVE pow2[n + 1] = 2 * pow2[n]
    <3>1. n + 1 \in Nat /\ n + 1 # 0 /\ (n + 1) - 1 = n
      OBVIOUS
    <3>2. QED
      BY <1>5, <3>1
  <2>3. QED
    BY <2>1, <2>2
<1> DEFINE T == {n \in Nat : pow2[n] \in P}
<1>7. \A n \in Nat : n \in T
  <2>1. 0 \in T
    BY <1>6
  <2>2. ASSUME NEW n \in Nat, n \in T PROVE n + 1 \in T
    BY <1>6, <2>2
  <2> HIDE DEF T
  <2>3. QED
    BY <2>1, <2>2, SetInduction
<1>8. pow2 = [n \in Nat |-> pow2[n]]
  BY <1>5
<1>9. QED
  BY <1>6, <1>7, <1>8

\* A power of two is a positive natural.
LEMMA Pow2Type ==
  ASSUME NEW n \in Nat
  PROVE  pow2[n] \in Nat /\ pow2[n] > 0
<1>1. pow2[n] \in Nat \ {0}
  BY Pow2Def
<1>2. QED
  BY <1>1

\* 2^(a + b) = 2^a * 2^b
LEMMA Pow2Add ==
  ASSUME NEW a \in Nat, NEW b \in Nat, NEW c, c = a + b
  PROVE  pow2[c] = pow2[a] * pow2[b]
<1> DEFINE T == {n \in Nat : pow2[a + n] = pow2[a] * pow2[n]}
<1>0. \A n \in Nat : pow2[n] \in Nat
  BY Pow2Def
<1>1. 0 \in T
  BY <1>0, Pow2Def
<1>2. ASSUME NEW n \in Nat, n \in T PROVE n + 1 \in T
  <2>1. a + n \in Nat /\ (a + n) + 1 = a + (n + 1)
    OBVIOUS
  <2>2. pow2[a + (n + 1)] = 2 * pow2[a + n] /\ pow2[n + 1] = 2 * pow2[n]
    BY <2>1, Pow2Def
  <2>3. pow2[a + n] = pow2[a] * pow2[n]
    BY <1>2
  <2>4. ASSUME NEW x \in Nat, NEW y \in Nat PROVE 2 * (x * y) = x * (2 * y)
    OBVIOUS
  <2>5. 2 * (pow2[a] * pow2[n]) = pow2[a] * (2 * pow2[n])
    BY <1>0, <2>4
  <2>6. QED
    BY <2>2, <2>3, <2>5
<1>3. \A n \in Nat : n \in T
  <2> HIDE DEF T
  <2>1. QED
    BY <1>1, <1>2, SetInduction
<1>4. QED
  BY <1>3

\* A byte has 256 values.
LEMMA Pow2Byte == pow2[1] = 2 /\ pow2[8] = 256
<1>1. /\ pow2[1] = 2 * pow2[0] /\ pow2[2] = 2 * pow2[1] /\ pow2[3] = 2 * pow2[2]
      /\ pow2[4] = 2 * pow2[3] /\ pow2[5] = 2 * pow2[4] /\ pow2[6] = 2 * pow2[5]
      /\ pow2[7] = 2 * pow2[6] /\ pow2[8] = 2 * pow2[7]
  <2>1. ASSUME NEW n \in Nat PROVE pow2[n + 1] = 2 * pow2[n]
    BY Pow2Def
  <2>2. /\ 0 + 1 = 1 /\ 1 + 1 = 2 /\ 2 + 1 = 3 /\ 3 + 1 = 4
        /\ 4 + 1 = 5 /\ 5 + 1 = 6 /\ 6 + 1 = 7 /\ 7 + 1 = 8
    OBVIOUS
  <2>3. QED
    BY <2>1, <2>2
<1>2. pow2[0] = 1
  BY Pow2Def
<1>3. QED
  BY <1>1, <1>2

\* Dividing by a product is dividing twice.
LEMMA DivDiv ==
  ASSUME NEW a \in Nat, NEW s \in Nat \ {0}, NEW n \in Nat \ {0}
  PROVE  a \div (s * n) = (a \div s) \div n
<1>1. PICK q \in Nat, r \in 0..(s - 1) : q = a \div s /\ a = q * s + r
  BY DivMod
<1>2. PICK t \in Nat, b \in 0..(n - 1) : t = q \div n /\ q = t * n + b
  BY DivMod
<1>3. a = t * (s * n) + (b * s + r)
  <2>1. a = (t * n + b) * s + r
    BY <1>1, <1>2
  <2>2. (t * n + b) * s = t * (s * n) + b * s
    OBVIOUS
  <2>3. QED
    BY <2>1, <2>2
<1>4. b * s + r \in 0..(s * n - 1)
  <2>1. b * s <= (n - 1) * s /\ 0 * s <= b * s
    BY Monotone
  <2>2. (n - 1) * s = s * n - s /\ 0 * s = 0 /\ s * n \in Nat /\ b * s \in Int
    OBVIOUS
  <2>3. QED
    BY <2>1, <2>2
<1>5. s * n \in Nat \ {0}
  OBVIOUS
<1>6. a \div (s * n) = t
  <2> DEFINE d == s * n
             u == b * s + r
  <2> HIDE DEF d, u
  <2>1. d \in Nat \ {0} /\ u \in 0..(d - 1) /\ a = t * d + u
    BY <1>3, <1>4, <1>5 DEF d, u
  <2>2. a \div d = t
    BY <2>1, DivUnique
  <2>3. QED
    BY <2>2 DEF d
<1>7. QED
  BY <1>1, <1>2, <1>6

\* A number without its first k bytes is what follows byte k, and byte k.
LEMMA Digits ==
  ASSUME NEW wire \in Nat, NEW k \in Nat
  PROVE  /\ wire \div pow2[8 * k] \in Nat /\ wire \div pow2[8 * (k + 1)] \in Nat
         /\ ByteAt(wire, k) \in 0..255
         /\ wire \div pow2[8 * k] = (wire \div pow2[8 * (k + 1)]) * 256 + ByteAt(wire, k)
<1>1. 8 * k \in Nat /\ 8 * (k + 1) = 8 * k + 8 /\ 8 * (k + 1) \in Nat
  OBVIOUS
<1>2. pow2[8 * k] \in Nat \ {0} /\ pow2[8 * (k + 1)] = pow2[8 * k] * 256 /\ pow2[8 * (k + 1)] \in Nat \ {0}
  <2>1. pow2[8 * (k + 1)] = pow2[8 * k] * pow2[8]
    BY <1>1, Pow2Add
  <2>2. pow2[8 * k] \in Nat /\ pow2[8 * k] > 0
    BY <1>1, Pow2Type
  <2>3. pow2[8 * (k + 1)] \in Nat /\ pow2[8 * (k + 1)] > 0
    BY <1>1, Pow2Type
  <2>4. QED
    BY <2>1, <2>2, <2>3, Pow2Byte
<1>3. wire \div (pow2[8 * k] * 256) = (wire \div pow2[8 * k]) \div 256
  BY <1>2, DivDiv
<1>4. wire \div pow2[8 * k] \in Nat /\ wire \div pow2[8 * (k + 1)] \in Nat
  BY <1>2, DivMod
<1> DEFINE q == wire \div pow2[8 * k]
<1> HIDE DEF q
<1>5. q \in Nat
  BY <1>4 DEF q
<1>6. q % 256 \in 0..255 /\ q = (q \div 256) * 256 + (q % 256)
  BY <1>5
<1>7. QED
  BY <1>2, <1>3, <1>4, <1>6 DEF q, ByteAt

\* One round of the loop of extract_bits_from_le_bytes.
GatherRound(wire, first, bit_shift, k) ==
  /\ Gathered(wire, first, bit_shift)[0] = 0
  /\ Gathered(wire, first, bit_shift)[k] \in Nat
  /\ Gathered(wire, first, bit_shift)[k + 1]
       = Gathered(wire, first, bit_shift)[k]
           + (ByteAt(wire, first + k) * pow2[8 * k]) \div pow2[bit_shift]

\* The loop follows its recursion.
LEMMA GatheredDef ==
  ASSUME NEW wire \in Nat, NEW first \in Nat, NEW bit_shift \in Nat, NEW k \in Nat
  PROVE  GatherRound(wire, first, bit_shift, k)
<1> DEFINE Part(n) == (ByteAt(wire, first + n) * pow2[8 * n]) \div pow2[bit_shift]
           Step == [n \in Nat |-> [v \in Nat |-> v + Part(n)]]
           G == Gathered(wire, first, bit_shift)
           Eq(f) == f = [n \in Nat |-> IF n = 0 THEN 0 ELSE f[n - 1] + Part(n - 1)]
<1>1. ASSUME NEW n \in Nat PROVE Part(n) \in Nat
  <2>1. first + n \in Nat /\ 8 * n \in Nat
    OBVIOUS
  <2>2. ByteAt(wire, first + n) \in Nat /\ pow2[8 * n] \in Nat /\ pow2[bit_shift] \in Nat \ {0}
    <3>1. ByteAt(wire, first + n) \in 0..255
      BY <2>1, Digits
    <3>2. pow2[8 * n] \in Nat
      BY <2>1, Pow2Type
    <3>3. pow2[bit_shift] \in Nat /\ pow2[bit_shift] > 0
      BY Pow2Type
    <3>4. QED
      BY <3>1, <3>2, <3>3
  <2>3. ByteAt(wire, first + n) * pow2[8 * n] \in Nat
    BY <2>2
  <2>4. QED
    BY <2>2, <2>3, DivMod
<1>2. G = CHOOSE f : Eq(f)
  BY DEF Gathered
<1> HIDE DEF Part, G
<1>3. Step \in [Nat -> [Nat -> Nat]] /\ 0 \in Nat
  BY <1>1
<1>4. PICK f : Iterates(Nat, 0, Step, f)
  <2> HIDE DEF Step
  <2>1. QED
    BY <1>3, RecursionExists
<1>5. f \in [Nat -> Nat] /\ f[0] = 0 /\ \A n \in Nat : f[n + 1] = f[n] + Part(n)
  BY <1>4 DEF Iterates
<1>6. Eq(f)
  <2>1. ASSUME NEW n \in Nat PROVE f[n] = IF n = 0 THEN 0 ELSE f[n - 1] + Part(n - 1)
    <3>1. CASE n = 0
      BY <1>5, <3>1
    <3>2. CASE n # 0
      <4>1. n - 1 \in Nat /\ (n - 1) + 1 = n
        BY <3>2
      <4>2. QED
        BY <1>5, <3>2, <4>1
    <3>3. QED
      BY <3>1, <3>2
  <2>2. QED
    BY <1>5, <2>1
<1>7. Eq(G)
  BY <1>2, <1>6
<1>8. G[0] = 0 /\ \A n \in Nat : G[n + 1] = G[n] + Part(n)
  <2>1. G[0] = 0
    BY <1>7
  <2>2. ASSUME NEW n \in Nat PROVE G[n + 1] = G[n] + Part(n)
    <3>1. n + 1 \in Nat /\ n + 1 # 0 /\ (n + 1) - 1 = n
      OBVIOUS
    <3>2. QED
      BY <1>7, <3>1
  <2>3. QED
    BY <2>1, <2>2
<1> DEFINE T == {n \in Nat : G[n] \in Nat}
<1>9. \A n \in Nat : n \in T
  <2>1. 0 \in T
    BY <1>8
  <2>2. ASSUME NEW n \in Nat, n \in T PROVE n + 1 \in T
    BY <1>1, <1>8, <2>2
  <2> HIDE DEF T
  <2>3. QED
    BY <2>1, <2>2, SetInduction
<1>10. QED
  BY <1>8, <1>9 DEF Part, G, GatherRound

\* Shifting out bits of the lowest digit.
LEMMA ShiftFirst ==
  ASSUME NEW q0 \in Nat, NEW q1 \in Nat, NEW b \in Nat, NEW e \in Nat, NEW d \in Nat \ {0},
         e * d = 256, q0 = q1 * 256 + b
  PROVE  q0 \div d = (b \div d) + q1 * e
<1>1. PICK q \in Nat, r \in 0..(d - 1) : q = b \div d /\ b = q * d + r
  <2>1. b \div d \in Nat /\ b % d \in 0..(d - 1) /\ b = (b \div d) * d + (b % d)
    BY DivMod
  <2>2. QED
    BY <2>1
<1>2. PICK u \in Nat : u = q1 * e
  OBVIOUS
<1>3. (u + q) * d = q1 * (e * d) + q * d
  BY <1>2
<1>4. q0 = (u + q) * d + r
  <2>1. q1 * (e * d) = q1 * 256
    OBVIOUS
  <2>2. QED
    BY <1>1, <1>3, <2>1
<1>5. q0 \div d = u + q
  BY <1>4, DivUnique
<1>6. QED
  BY <1>1, <1>2, <1>5

\* Shifting a digit that lies behind the first.
LEMMA ShiftLater ==
  ASSUME NEW b \in Nat, NEW e \in Nat, NEW d \in Nat \ {0}, NEW p, p = e * d
  PROVE  (b * p) \div d = b * e
<1>1. PICK u \in Nat : u = b * e
  OBVIOUS
<1>2. b * p = u * d + 0 /\ u * d + 0 \in Int
  BY <1>1
<1>3. (u * d + 0) \div d = u
  BY <1>2, DivUnique
<1>4. QED
  BY <1>1, <1>2, <1>3

\* After m + 1 bytes the loop has what is in front of byte first + m + 1, shifted.
GatherSplit(wire, first, bit_shift, m) ==
  (wire \div pow2[8 * first]) \div pow2[bit_shift]
    = Gathered(wire, first, bit_shift)[m + 1]
        + (wire \div pow2[8 * (first + (m + 1))]) * pow2[8 * (m + 1) - bit_shift]

\* That is so after every byte.
LEMMA GatheredSum ==
  ASSUME NEW wire \in Nat, NEW first \in Nat, NEW bit_shift \in 0..7, NEW m \in Nat
  PROVE  GatherSplit(wire, first, bit_shift, m)
<1> DEFINE Q(k) == wire \div pow2[8 * k]
           B(k) == ByteAt(wire, k)
           G == Gathered(wire, first, bit_shift)
           d == pow2[bit_shift]
           Sum(n) == G[n + 1] + Q(first + (n + 1)) * pow2[8 * (n + 1) - bit_shift]
           T == {n \in Nat : Q(first) \div d = Sum(n)}
<1>0. bit_shift \in Nat
  OBVIOUS
<1>1. ASSUME NEW k \in Nat PROVE Q(k) \in Nat /\ B(k) \in Nat /\ Q(k) = Q(k + 1) * 256 + B(k)
  <2>1. ByteAt(wire, k) \in 0..255
    BY Digits, Zenon
  <2>2. wire \div pow2[8 * k] \in Nat
    BY Digits, Zenon
  <2>3. wire \div pow2[8 * k] = (wire \div pow2[8 * (k + 1)]) * 256 + ByteAt(wire, k)
    BY Digits, ZenonT(60)
  <2>4. B(k) \in Nat
    BY <2>1
  <2>5. QED
    BY <2>2, <2>3, <2>4, Zenon
<1>2. G[0] = 0
  BY <1>0, GatheredDef DEF GatherRound
<1>3. ASSUME NEW n \in Nat PROVE G[n] \in Nat /\ G[n + 1] = G[n] + (B(first + n) * pow2[8 * n]) \div d
  <2>1. GatherRound(wire, first, bit_shift, n)
    BY <1>0, GatheredDef
  <2>2. QED
    BY <2>1 DEF GatherRound
<1>4. d \in Nat \ {0}
  <2>1. pow2[bit_shift] \in Nat /\ pow2[bit_shift] > 0
    BY Pow2Type
  <2>2. QED
    BY <2>1
\* What lies behind the first byte is a multiple of 2^bit_shift.
<1>5. ASSUME NEW n \in Nat
      PROVE  \E e \in Nat : /\ e = pow2[8 * (n + 1) - bit_shift] /\ pow2[8 * (n + 1)] = e * d
                            /\ pow2[8 * ((n + 1) + 1) - bit_shift] = e * 256
  <2>1. /\ 8 * (n + 1) - bit_shift \in Nat /\ bit_shift \in Nat
        /\ 8 * (n + 1) = (8 * (n + 1) - bit_shift) + bit_shift
        /\ 8 * ((n + 1) + 1) - bit_shift = (8 * (n + 1) - bit_shift) + 8
    OBVIOUS
  <2>2. pow2[8 * (n + 1)] = pow2[8 * (n + 1) - bit_shift] * pow2[bit_shift]
    BY <2>1, Pow2Add
  <2>3. pow2[8 * ((n + 1) + 1) - bit_shift] = pow2[8 * (n + 1) - bit_shift] * pow2[8]
    BY <2>1, Pow2Add
  <2>4. pow2[8 * (n + 1) - bit_shift] \in Nat
    BY <2>1, Pow2Type
  <2>5. QED
    BY <2>2, <2>3, <2>4, Pow2Byte
<1> HIDE DEF Q, B, G, d
<1>6. 0 \in T
  <2>1. Q(first) = Q(first + 1) * 256 + B(first) /\ Q(first) \in Nat /\ B(first) \in Nat
    BY <1>1
  <2>2. Q(first + 1) \in Nat
    BY <1>1
  <2>3. PICK e \in Nat : e = pow2[8 * (0 + 1) - bit_shift] /\ pow2[8 * (0 + 1)] = e * d
    BY <1>5
  <2>4. e * d = 256
    <3>1. 8 * (0 + 1) = 8
      OBVIOUS
    <3>2. QED
      BY <2>3, <3>1, Pow2Byte
  <2>5. Q(first) \div d = (B(first) \div d) + Q(first + 1) * e
    BY <1>4, <2>1, <2>2, <2>4, ShiftFirst
  <2>6. G[0 + 1] = B(first) \div d
    <3>1. G[0 + 1] = G[0] + (B(first + 0) * pow2[8 * 0]) \div d
      BY <1>3
    <3>2. first + 0 = first /\ 8 * 0 = 0
      OBVIOUS
    <3>3. B(first) * pow2[0] = B(first)
      BY <2>1, Pow2Def
    <3>4. B(first) \div d \in Nat
      BY <1>4, <2>1, DivMod
    <3>5. QED
      BY <1>2, <3>1, <3>2, <3>3, <3>4
  <2>7. Sum(0) = G[0 + 1] + Q(first + 1) * e
    <3>1. first + (0 + 1) = first + 1
      OBVIOUS
    <3>2. QED
      BY <2>3, <3>1
  <2> HIDE DEF Sum
  <2>8. QED
    BY <2>5, <2>6, <2>7
<1>7. ASSUME NEW n \in Nat, n \in T PROVE n + 1 \in T
  <2>0. PICK k \in Nat : k = first + (n + 1)
    OBVIOUS
  <2>1. k + 1 = first + ((n + 1) + 1) /\ k + 1 \in Nat /\ n + 1 \in Nat
    BY <2>0
  <2>2. Q(k) = Q(k + 1) * 256 + B(k) /\ B(k) \in Nat /\ Q(k) \in Nat
    BY <1>1
  <2>3. Q(k + 1) \in Nat
    BY <1>1, <2>1
  <2>4. PICK e \in Nat : /\ e = pow2[8 * (n + 1) - bit_shift] /\ pow2[8 * (n + 1)] = e * d
                         /\ pow2[8 * ((n + 1) + 1) - bit_shift] = e * 256
    BY <1>5
  <2>5. (B(k) * pow2[8 * (n + 1)]) \div d = B(k) * e
    BY <1>4, <2>2, <2>4, ShiftLater
  <2>6. G[(n + 1) + 1] = G[n + 1] + B(k) * e /\ G[n + 1] \in Nat
    <3>1. G[n + 1] \in Nat /\ G[(n + 1) + 1] = G[n + 1] + (B(first + (n + 1)) * pow2[8 * (n + 1)]) \div d
      BY <1>3, <2>1
    <3>2. QED
      BY <2>0, <2>5, <3>1
  <2>7. Q(first) \div d = G[n + 1] + Q(k) * e
    <3>1. Q(first) \div d = Sum(n)
      BY <1>7
    <3>2. QED
      BY <2>0, <2>4, <3>1
  <2>8. Sum(n + 1) = G[(n + 1) + 1] + Q(k + 1) * (e * 256)
    BY <2>1, <2>4
  <2>9. Q(k) * e = Q(k + 1) * (e * 256) + B(k) * e
    <3>1. (Q(k + 1) * 256 + B(k)) * e = Q(k + 1) * (e * 256) + B(k) * e
      BY <2>2, <2>3
    <3>2. QED
      BY <2>2, <3>1
  <2>10. B(k) * e \in Nat /\ Q(k + 1) * (e * 256) \in Nat
    BY <2>2, <2>3
  <2>11. Q(first) \div d = Sum(n + 1)
    <3> HIDE DEF Sum
    <3>1. QED
      BY <2>6, <2>7, <2>8, <2>9, <2>10
  <2>12. QED
    BY <2>1, <2>11
<1>8. \A n \in Nat : n \in T
  <2> HIDE DEF T
  <2>1. QED
    BY <1>6, <1>7, SetInduction
<1>9. Q(first) \div d = Sum(m)
  BY <1>8
<1>10. QED
  BY <1>9 DEF Q, d, G, GatherSplit

\* The bits shift to shift + width - 1 of wire are value, and a buffer of length
\* bytes has them.
Lies(wire, length, shift, width, value) ==
  /\ shift + width <= 8 * length
  /\ value \in Nat /\ value < pow2[width]
  /\ \E low \in Nat, high \in Nat :
       low < pow2[shift] /\ wire = (high * pow2[width] + value) * pow2[shift] + low

\* extract_bits_from_le_bytes takes out of a buffer the number that lies in its
\* bits shift to shift + width - 1, wherever in the bytes they are, and nothing
\* of what lies in front of them or behind.
THEOREM ExtractsField ==
  ASSUME NEW length \in Nat, NEW shift \in Nat, NEW width \in Nat \ {0},
         NEW wire, NEW value, Lies(wire, length, shift, width, value)
  PROVE  extract_bits_from_le_bytes(wire, length, shift, width) = value
<1> DEFINE start == shift \div 8
           end == (shift + (width + 7)) \div 8
           bs == shift - start * 8
<1>a. shift + width <= 8 * length /\ value \in Nat /\ value < pow2[width]
  BY DEF Lies
<1>b. PICK low \in Nat, high \in Nat :
        low < pow2[shift] /\ wire = (high * pow2[width] + value) * pow2[shift] + low
  BY DEF Lies
<1>1. /\ start \in Nat /\ end \in Nat /\ bs \in 0..7 /\ shift = 8 * start + bs
      /\ 8 * end >= shift + width /\ end <= length /\ end > start
  BY <1>a
<1> HIDE DEF start, end, bs
<1>2. PICK ps \in Nat \ {0} : ps = pow2[shift]
  <2>1. pow2[shift] \in Nat /\ pow2[shift] > 0
    BY Pow2Type
  <2>2. QED
    BY <2>1
<1>3. PICK pw \in Nat \ {0} : pw = pow2[width]
  <2>1. pow2[width] \in Nat /\ pow2[width] > 0
    BY Pow2Type
  <2>2. QED
    BY <2>1
<1>4. PICK top \in Nat : top = high * pw + value
  BY <1>a, <1>3
<1>5. wire = top * ps + low /\ wire \in Nat
  <2>1. top * ps \in Nat
    BY <1>2
  <2>2. QED
    BY <1>b, <1>2, <1>3, <1>4, <2>1
\* Without the bits in front, the number is the field and what is behind it.
<1>6. wire \div ps = top
  <2>1. low \in 0..(ps - 1)
    BY <1>b, <1>2
  <2>2. top \in Int /\ wire \in Int /\ wire = top * ps + low
    BY <1>5
  <2>3. QED
    BY <2>1, <2>2, DivUnique, Zenon
<1>7. (wire \div pow2[8 * start]) \div pow2[bs] = top
  <2>1. 8 * start \in Nat /\ bs \in Nat
    BY <1>1
  <2>2. pow2[shift] = pow2[8 * start] * pow2[bs]
    BY <1>1, <2>1, Pow2Add
  <2>3. pow2[8 * start] \in Nat \ {0} /\ pow2[bs] \in Nat \ {0}
    <3>1. pow2[8 * start] \in Nat /\ pow2[8 * start] > 0
      BY <2>1, Pow2Type
    <3>2. pow2[bs] \in Nat /\ pow2[bs] > 0
      BY <2>1, Pow2Type
    <3>3. QED
      BY <3>1, <3>2
  <2>4. wire \div (pow2[8 * start] * pow2[bs]) = (wire \div pow2[8 * start]) \div pow2[bs]
    BY <1>5, <2>3, DivDiv
  <2>5. QED
    BY <1>2, <1>6, <2>2, <2>4
\* The loop has gathered it, and perhaps bits behind the field.
<1>8. PICK m \in Nat : m + 1 = end - start
  <2>1. (end - start) - 1 \in Nat /\ ((end - start) - 1) + 1 = end - start
    BY <1>1
  <2>2. QED
    BY <2>1
<1>9. PICK g \in Nat : g = Gathered(wire, start, bs)[m + 1]
  <2>1. GatherRound(wire, start, bs, m + 1)
    BY <1>1, <1>5, GatheredDef
  <2>2. QED
    BY <2>1 DEF GatherRound
<1>10. PICK q \in Nat : q = wire \div pow2[8 * (start + (m + 1))]
  <2>1. start + (m + 1) \in Nat
    BY <1>1
  <2>2. QED
    BY <1>5, <2>1, Digits
<1>11. top = g + q * pow2[8 * (m + 1) - bs]
  <2>1. (wire \div pow2[8 * start]) \div pow2[bs]
          = Gathered(wire, start, bs)[m + 1]
              + (wire \div pow2[8 * (start + (m + 1))]) * pow2[8 * (m + 1) - bs]
    <3>1. GatherSplit(wire, start, bs, m)
      BY <1>1, <1>5, GatheredSum
    <3>2. QED
      BY <3>1 DEF GatherSplit
  <2>2. QED
    BY <1>7, <1>9, <1>10, <2>1, Zenon
<1>12. PICK rest \in Nat : pow2[8 * (m + 1) - bs] = pw * rest
  <2>1. (8 * (m + 1) - bs) - width \in Nat /\ 8 * (m + 1) - bs = width + ((8 * (m + 1) - bs) - width)
    BY <1>1, <1>8
  <2>2. pow2[8 * (m + 1) - bs] = pow2[width] * pow2[(8 * (m + 1) - bs) - width]
    BY <2>1, Pow2Add
  <2>3. pow2[(8 * (m + 1) - bs) - width] \in Nat
    BY <2>1, Pow2Type
  <2>4. QED
    BY <1>3, <2>2, <2>3
<1>13. g = (high - q * rest) * pw + value
  <2>1. high * pw + value = g + q * (pw * rest)
    BY <1>4, <1>11, <1>12
  <2>2. q * (pw * rest) = (q * rest) * pw
    BY <1>3
  <2>3. (high - q * rest) * pw = high * pw - (q * rest) * pw
    BY <1>3
  <2>4. high * pw \in Int /\ (q * rest) * pw \in Int
    BY <1>3
  <2>5. QED
    BY <1>a, <2>1, <2>2, <2>3, <2>4
<1>14. g % pw = value
  <2>1. PICK h \in Int : h = high - q * rest
    OBVIOUS
  <2>2. value \in 0..(pw - 1) /\ g = h * pw + value
    BY <1>a, <1>3, <1>13, <2>1
  <2>3. g \in Int
    OBVIOUS
  <2>4. g \div pw = h
    BY <2>2, <2>3, DivUnique, Zenon
  <2>5. PICK u \in Int : u = g % pw /\ g = (g \div pw) * pw + u
    <3>1. g % pw \in 0..(pw - 1) /\ g = (g \div pw) * pw + (g % pw)
      BY DivMod
    <3>2. QED
      BY <3>1
  <2>6. g = h * pw + u /\ h * pw \in Int
    BY <2>4, <2>5
  <2>7. QED
    BY <2>2, <2>5, <2>6
<1>15. g \div pow2[0] = g
  <2>1. g \div 1 = g
    OBVIOUS
  <2>2. QED
    BY <2>1, Pow2Def
<1>16. extract_bits(g, 0, width) = value
  BY <1>3, <1>14, <1>15 DEF extract_bits
<1>17. ~(width = 0 \/ end > length)
  BY <1>1
<1>18. extract_bits_from_le_bytes(wire, length, shift, width)
         = extract_bits(Gathered(wire, start, bs)[end - start], 0, width)
  BY <1>17 DEF extract_bits_from_le_bytes, start, end, bs
<1>19. QED
  BY <1>8, <1>9, <1>16, <1>18

(***************************************************************************)
(* range.rs: map_value_in_range_inclusive.                                 *)
(***************************************************************************)

\* What the quotient is, for numbers that are not negative.
LEMMA Quotient ==
  ASSUME NEW n \in Nat, NEW d \in Nat, d > 0
  PROVE  /\ n \div d \in Nat
         /\ d * (n \div d) <= n
         /\ n < d * ((n \div d) + 1)
OBVIOUS

\* The product of two numbers that are not negative.
LEMMA ProductNat == ASSUME NEW a \in Nat, NEW b \in Nat PROVE a * b \in Nat
OBVIOUS

\* Division keeps the order.
LEMMA QuotientOrder ==
  ASSUME NEW m \in Nat, NEW n \in Nat, NEW d \in Nat, d > 0, m <= n
  PROVE  m \div d <= n \div d
<1> DEFINE p == m \div d
           q == n \div d
<1>1. p \in Nat /\ q \in Nat /\ d * p <= m /\ n < d * (q + 1)
  BY Quotient
<1> HIDE DEF p, q
<1>2. SUFFICES ASSUME q + 1 <= p PROVE FALSE
  BY <1>1 DEF p, q
<1>3. (q + 1) * d <= p * d
  BY <1>1, <1>2, Monotone
<1>4. (q + 1) * d = d * (q + 1) /\ p * d = d * p
  BY <1>1
<1>5. d * (q + 1) \in Nat /\ d * p \in Nat
  BY <1>1, ProductNat
<1> QED
  BY <1>1, <1>3, <1>4, <1>5

\* A part of a width, scaled, is a part of the other width; all of it is all.
LEMMA Scaled ==
  ASSUME NEW l \in Nat, NEW w \in Nat, NEW t \in Nat, w > 0, l <= w
  PROVE  (l * t) \div w \in 0..t /\ (w * t) \div w = t
<1>1. l * t \in Nat /\ w * t \in Nat /\ l * t <= w * t
  BY ProductNat, Monotone
<1>2. (w * t) \div w = t
  <2> DEFINE q == (w * t) \div w
  <2>1. q \in Nat /\ w * q <= w * t /\ w * t < w * (q + 1)
    BY <1>1, Quotient
  <2> HIDE DEF q
  <2>2. ~(q + 1 <= t)
    <3> SUFFICES ASSUME q + 1 <= t PROVE FALSE
      OBVIOUS
    <3>1. (q + 1) * w <= t * w
      BY <2>1, Monotone
    <3>2. (q + 1) * w = w * (q + 1) /\ t * w = w * t /\ w * (q + 1) \in Nat
      BY <2>1, ProductNat
    <3> QED
      BY <1>1, <2>1, <3>1, <3>2
  <2>3. ~(t + 1 <= q)
    <3> SUFFICES ASSUME t + 1 <= q PROVE FALSE
      OBVIOUS
    <3>1. (t + 1) * w <= q * w
      BY <2>1, Monotone
    <3>2. (t + 1) * w = w * t + w /\ q * w = w * q /\ w * q \in Nat
      BY <2>1, ProductNat
    <3> QED
      BY <1>1, <2>1, <3>1, <3>2
  <2>4. q = t
    BY <2>1, <2>2, <2>3
  <2> QED
    BY <2>4 DEF q
<1>3. (l * t) \div w \in Nat
  BY <1>1, Quotient
<1>4. (l * t) \div w <= (w * t) \div w
  BY <1>1, QuotientOrder
<1> QED
  BY <1>2, <1>3, <1>4

Ranges == [start : Int, end : Int]

(***************************************************************************)
(* map_value_in_range_inclusive: a value of the first range is mapped into *)
(* the second, its ends to the ends (the start, if it has one value), and  *)
(* any other value is an error; no rounding leads past the last pixel.     *)
(***************************************************************************)
THEOREM MapsIntoRange ==
  ASSUME NEW from \in Ranges, NEW to \in Ranges, NEW v \in Int,
         from.start <= v, v <= from.end, to.start <= to.end
  PROVE  /\ map_value_in_range_inclusive(from, to, v) \in to.start..to.end
         /\ v = from.start => map_value_in_range_inclusive(from, to, v) = to.start
         /\ v = from.end /\ from.start < from.end
              => map_value_in_range_inclusive(from, to, v) = to.end
<1> DEFINE l == v - from.start
           w == from.end - from.start
           t == to.end - to.start
<1>0. l \in Nat /\ w \in Nat /\ t \in Nat /\ l <= w
      /\ from.start \in Int /\ from.end \in Int /\ to.start \in Int /\ to.end \in Int
  BY DEF Ranges
<1>1. CASE w = 0
  BY <1>0, <1>1 DEF map_value_in_range_inclusive
<1>2. CASE w > 0
  <2>1. (l * t) \div w \in 0..t /\ (w * t) \div w = t
    BY <1>0, <1>2, Scaled
  <2>2. map_value_in_range_inclusive(from, to, v) = to.start + (l * t) \div w
    BY <1>0, <1>2 DEF map_value_in_range_inclusive, Scale
  <2>3. v = from.start => (l * t) \div w = 0
    <3> SUFFICES ASSUME v = from.start PROVE (l * t) \div w = 0
      OBVIOUS
    <3>1. l = 0
      BY <1>0
    <3>2. l * t = 0
      BY <1>0, <3>1
    <3>3. 0 \div w = 0
      BY <1>0, <1>2
    <3> QED
      BY <3>2, <3>3
  <2>4. v = from.end => l = w
    OBVIOUS
  <2> HIDE DEF l, w, t
  <2>5. to.start + (l * t) \div w \in to.start..(to.start + t)
    BY <1>0, <2>1
  <2>6. to.start + t = to.end
    BY <1>0 DEF t
  <2> QED
    BY <1>0, <2>1, <2>2, <2>3, <2>4, <2>5, <2>6
<1> QED
  BY <1>0, <1>1, <1>2

(***************************************************************************)
(* The mapping is monotone: a pointer that moves right on the tablet never *)
(* moves left on the screen.                                               *)
(***************************************************************************)
THEOREM MapIsMonotone ==
  ASSUME NEW from \in Ranges, NEW to \in Ranges, NEW u \in Int, NEW v \in Int,
         from.start <= u, u <= v, v <= from.end, to.start <= to.end
  PROVE  map_value_in_range_inclusive(from, to, u) <= map_value_in_range_inclusive(from, to, v)
<1> DEFINE k == u - from.start
           l == v - from.start
           w == from.end - from.start
           t == to.end - to.start
<1>0. k \in Nat /\ l \in Nat /\ w \in Nat /\ t \in Nat /\ k <= l
      /\ from.start \in Int /\ from.end \in Int /\ to.start \in Int /\ to.end \in Int
  BY DEF Ranges
<1>1. CASE w = 0
  BY <1>0, <1>1 DEF map_value_in_range_inclusive
<1>2. CASE w > 0
  <2>1. k * t \in Nat /\ l * t \in Nat /\ k * t <= l * t
    BY <1>0, ProductNat, Monotone
  <2>2. (k * t) \div w <= (l * t) \div w /\ (k * t) \div w \in Nat /\ (l * t) \div w \in Nat
    BY <1>0, <1>2, <2>1, QuotientOrder, Quotient
  <2>3. /\ map_value_in_range_inclusive(from, to, u) = to.start + (k * t) \div w
        /\ map_value_in_range_inclusive(from, to, v) = to.start + (l * t) \div w
    BY <1>0, <1>2 DEF map_value_in_range_inclusive, Scale
  <2> HIDE DEF k, l, w, t
  <2> QED
    BY <1>0, <2>2, <2>3
<1> QED
  BY <1>0, <1>1, <1>2

(***************************************************************************)
(* The report as the device sends it.                                      *)
(***************************************************************************)

\* Fields that have bits, with values that fit them.
Fits(fs) ==
  /\ Len(fs) \in Nat
  /\ \A n \in 1..Len(fs) : /\ fs[n].size \in Nat \ {0} /\ fs[n].value \in Nat
                           /\ fs[n].value < pow2[fs[n].size]

\* f has the sums of the first n of N numbers.
Sums(N, a, f) == f = [n \in 0..N |-> IF n = 0 THEN 0 ELSE f[n - 1] + a[n]]

\* There are such sums.
LEMMA SumsExist ==
  ASSUME NEW N \in Nat, NEW a \in [1..N -> Nat]
  PROVE  \E f : Sums(N, a, f)
<1> DEFINE Step == [n \in Nat |-> [v \in Nat |-> IF n + 1 <= N THEN v + a[n + 1] ELSE v]]
<1>1. Step \in [Nat -> [Nat -> Nat]] /\ 0 \in Nat
  OBVIOUS
<1>2. PICK f : Iterates(Nat, 0, Step, f)
  <2> HIDE DEF Step
  <2>1. QED
    BY <1>1, RecursionExists
<1>3. f \in [Nat -> Nat] /\ f[0] = 0
  BY <1>2 DEF Iterates
<1>4. ASSUME NEW n \in 1..N PROVE f[n] = f[n - 1] + a[n]
  <2>0. n - 1 \in Nat /\ (n - 1) + 1 = n /\ n <= N
    OBVIOUS
  <2>1. f[n - 1] \in Nat
    BY <1>3, <2>0
  <2>2. f[n] = Step[n - 1][f[n - 1]]
    BY <1>2, <2>0 DEF Iterates
  <2>3. QED
    BY <2>0, <2>1, <2>2
<1> DEFINE g == [n \in 0..N |-> f[n]]
<1>5. ASSUME NEW n \in 0..N PROVE g[n] = IF n = 0 THEN 0 ELSE g[n - 1] + a[n]
  <2>1. CASE n = 0
    BY <1>3, <2>1
  <2>2. CASE n # 0
    <3>1. n \in 1..N /\ n - 1 \in 0..N
      BY <2>2
    <3>2. QED
      BY <1>4, <2>2, <3>1
  <2>3. QED
    BY <2>1, <2>2
<1>6. Sums(N, a, g)
  BY <1>5 DEF Sums
<1>7. QED
  BY <1>6

\* The sums follow their recursion and are naturals.
LEMMA SumsAre ==
  ASSUME NEW N \in Nat, NEW a \in [1..N -> Nat], NEW f, Sums(N, a, f)
  PROVE  /\ f[0] = 0
         /\ \A n \in 1..N : f[n] = f[n - 1] + a[n]
         /\ \A n \in 0..N : f[n] \in Nat
<1> DEFINE T == {n \in Nat : n <= N => f[n] \in Nat}
<1>1. f[0] = 0 /\ \A n \in 1..N : f[n] = f[n - 1] + a[n]
  BY DEF Sums
<1>2. 0 \in T
  BY <1>1
<1>3. ASSUME NEW n \in Nat, n \in T PROVE n + 1 \in T
  <2>1. CASE n + 1 <= N
    <3>1. n + 1 \in 1..N /\ (n + 1) - 1 = n /\ f[n] \in Nat
      BY <1>3, <2>1
    <3>2. f[n + 1] = f[n] + a[n + 1] /\ a[n + 1] \in Nat
      BY <1>1, <3>1
    <3>3. QED
      BY <3>1, <3>2
  <2>2. CASE ~(n + 1 <= N)
    BY <2>2
  <2>3. QED
    BY <2>1, <2>2
<1>4. \A n \in Nat : n \in T
  <2> HIDE DEF T
  <2>1. QED
    BY <1>2, <1>3, SetInduction
<1>5. QED
  BY <1>1, <1>4

\* The bits of the first n fields are a sum,
LEMMA SizeDef ==
  ASSUME NEW fs, Fits(fs)
  PROVE  /\ Size(fs)[0] = 0
         /\ \A n \in 1..Len(fs) : Size(fs)[n] = Size(fs)[n - 1] + fs[n].size
         /\ \A n \in 0..Len(fs) : Size(fs)[n] \in Nat
<1> DEFINE N == Len(fs)
           a == [n \in 1..N |-> fs[n].size]
           Eq(f) == f = [n \in 0..N |-> IF n = 0 THEN 0 ELSE f[n - 1] + fs[n].size]
<1>1. N \in Nat /\ a \in [1..N -> Nat]
  BY DEF Fits
<1>2. ASSUME NEW f PROVE Eq(f) <=> Sums(N, a, f)
  <2>1. [n \in 0..N |-> IF n = 0 THEN 0 ELSE f[n - 1] + fs[n].size]
          = [n \in 0..N |-> IF n = 0 THEN 0 ELSE f[n - 1] + a[n]]
    <3>1. ASSUME NEW n \in 0..N, n # 0 PROVE a[n] = fs[n].size
      BY <1>1, <3>1
    <3>2. QED
      BY <3>1
  <2>2. QED
    BY <2>1 DEF Sums
<1>3. Size(fs) = CHOOSE f : Eq(f)
  BY DEF Size
<1>4. \E f : Sums(N, a, f)
  <2> HIDE DEF N, a
  <2>1. QED
    BY <1>1, SumsExist
<1>5. Eq(Size(fs))
  <2> HIDE DEF Eq
  <2>1. \E f : Eq(f)
    BY <1>2, <1>4
  <2>2. QED
    BY <1>3, <2>1
<1>6. Sums(N, a, Size(fs))
  BY <1>2, <1>5
<1>7. \A n \in 1..N : a[n] = fs[n].size
  OBVIOUS
<1>8. PICK f : f = Size(fs)
  OBVIOUS
<1>9. f[0] = 0 /\ (\A n \in 1..N : f[n] = f[n - 1] + a[n]) /\ (\A n \in 0..N : f[n] \in Nat)
  <2> HIDE DEF a, N
  <2>1. QED
    BY <1>1, <1>6, <1>8, SumsAre
<1> HIDE DEF a
<1>10. QED
  BY <1>7, <1>8, <1>9

\* and so is the number they make.
LEMMA SentDef ==
  ASSUME NEW fs, Fits(fs)
  PROVE  /\ Sent(fs)[0] = 0
         /\ \A n \in 1..Len(fs) :
              Sent(fs)[n] = Sent(fs)[n - 1] + fs[n].value * pow2[Size(fs)[n - 1]]
         /\ \A n \in 0..Len(fs) : Sent(fs)[n] \in Nat
<1> DEFINE N == Len(fs)
           part(n) == fs[n].value * pow2[Size(fs)[n - 1]]
           a == [n \in 1..N |-> part(n)]
           Eq(f) == f = [n \in 0..N |-> IF n = 0 THEN 0 ELSE f[n - 1] + part(n)]
<1>1. N \in Nat /\ a \in [1..N -> Nat]
  <2>1. N \in Nat
    BY DEF Fits
  <2>2. ASSUME NEW n \in 1..N PROVE part(n) \in Nat
    <3>1. fs[n].value \in Nat /\ n - 1 \in 0..N
      BY <2>1 DEF Fits
    <3>2. Size(fs)[n - 1] \in Nat
      BY <3>1, SizeDef
    <3>3. pow2[Size(fs)[n - 1]] \in Nat
      BY <3>2, Pow2Type
    <3>4. QED
      BY <3>1, <3>3
  <2>3. QED
    BY <2>1, <2>2
<1>2. Sent(fs) = CHOOSE f : Eq(f)
  BY DEF Sent
<1> HIDE DEF part
<1>3. ASSUME NEW f PROVE Eq(f) <=> Sums(N, a, f)
  <2>1. [n \in 0..N |-> IF n = 0 THEN 0 ELSE f[n - 1] + part(n)]
          = [n \in 0..N |-> IF n = 0 THEN 0 ELSE f[n - 1] + a[n]]
    <3>1. ASSUME NEW n \in 0..N, n # 0 PROVE a[n] = part(n)
      BY <1>1, <3>1
    <3>2. QED
      BY <3>1
  <2>2. QED
    BY <2>1 DEF Sums
<1>4. \E f : Sums(N, a, f)
  <2> HIDE DEF N, a
  <2>1. QED
    BY <1>1, SumsExist
<1>5. Eq(Sent(fs))
  <2> HIDE DEF Eq
  <2>1. \E f : Eq(f)
    BY <1>3, <1>4
  <2>2. QED
    BY <1>2, <2>1
<1>6. Sums(N, a, Sent(fs))
  BY <1>3, <1>5
<1>7. \A n \in 1..N : a[n] = part(n)
  OBVIOUS
<1>8. PICK f : f = Sent(fs)
  OBVIOUS
<1>9. f[0] = 0 /\ (\A n \in 1..N : f[n] = f[n - 1] + a[n]) /\ (\A n \in 0..N : f[n] \in Nat)
  <2> HIDE DEF a, N
  <2>1. QED
    BY <1>1, <1>6, <1>8, SumsAre
<1> HIDE DEF a
<1>10. QED
  BY <1>7, <1>8, <1>9 DEF part

\* The first n fields fill no more bits than they have.
LEMMA SentBelow ==
  ASSUME NEW fs, Fits(fs), NEW n \in 0..Len(fs)
  PROVE  Sent(fs)[n] < pow2[Size(fs)[n]]
<1> DEFINE N == Len(fs)
           S(k) == Size(fs)[k]
           W(k) == Sent(fs)[k]
           T == {k \in Nat : k <= N => W(k) < pow2[S(k)]}
<1>0. N \in Nat
  BY DEF Fits
<1>1. 0 \in T
  <2>1. W(0) = 0 /\ S(0) = 0
    BY SizeDef, SentDef
  <2>2. pow2[0] = 1
    BY Pow2Def
  <2>3. QED
    BY <2>1, <2>2
<1>2. ASSUME NEW k \in Nat, k \in T PROVE k + 1 \in T
  <2>1. CASE k + 1 <= N
    <3>1. k + 1 \in 1..N /\ k \in 0..N /\ (k + 1) - 1 = k /\ W(k) < pow2[S(k)]
      BY <1>0, <1>2, <2>1
    <3>2. /\ fs[k + 1].size \in Nat /\ fs[k + 1].value \in Nat
          /\ fs[k + 1].value < pow2[fs[k + 1].size]
      BY <3>1 DEF Fits
    <3>3. S(k) \in Nat /\ S(k + 1) = S(k) + fs[k + 1].size
      BY <3>1, SizeDef
    <3>4. W(k) \in Nat /\ W(k + 1) = W(k) + fs[k + 1].value * pow2[S(k)]
      BY <3>1, SentDef
    <3>5. PICK p \in Nat, q \in Nat : p = pow2[S(k)] /\ q = pow2[fs[k + 1].size]
      BY <3>2, <3>3, Pow2Type
    <3>6. pow2[S(k + 1)] = p * q
      BY <3>2, <3>3, <3>5, Pow2Add
    <3>7. PICK v \in Nat : v = fs[k + 1].value
      BY <3>2
    <3>8. (v + 1) * p <= q * p
      <4>1. v + 1 <= q /\ v + 1 \in Int /\ q \in Int
        BY <3>2, <3>5, <3>7
      <4>2. QED
        BY <4>1, Monotone
    <3>9. (v + 1) * p = v * p + p /\ q * p = p * q /\ v * p \in Nat /\ p * q \in Nat
      OBVIOUS
    <3>10. W(k) + v * p < p * q
      <4> HIDE DEF W
      <4>1. W(k) < p /\ W(k) \in Nat
        BY <3>1, <3>4, <3>5
      <4>2. PICK w \in Nat, a \in Nat, b \in Nat : w = W(k) /\ a = v * p /\ b = p * q
        BY <4>1, <3>9
      <4>3. a + p <= b
        BY <3>8, <3>9, <4>2
      <4>4. QED
        BY <4>1, <4>2, <4>3
    <3>11. W(k + 1) < pow2[S(k + 1)]
      BY <3>4, <3>5, <3>6, <3>7, <3>10
    <3>12. QED
      BY <3>11
  <2>2. CASE ~(k + 1 <= N)
    BY <2>2
  <2>3. QED
    BY <2>1, <2>2
<1>3. \A k \in Nat : k \in T
  <2> HIDE DEF T
  <2>1. QED
    BY <1>1, <1>2, SetInduction
<1>4. n \in Nat /\ n <= N
  BY <1>0
<1>5. QED
  BY <1>3, <1>4

\* What is sent behind the first i fields is above their bits.
Above(fs, i, n) ==
  /\ Size(fs)[i] <= Size(fs)[n]
  /\ \E high \in Nat : Sent(fs)[n] = high * pow2[Size(fs)[i]] + Sent(fs)[i]

\* The whole report is above the bits of its first i fields.
LEMMA SentAbove ==
  ASSUME NEW fs, Fits(fs), NEW i \in 0..Len(fs)
  PROVE  Above(fs, i, Len(fs))
<1> DEFINE N == Len(fs)
           S(k) == Size(fs)[k]
           W(k) == Sent(fs)[k]
           T == {m \in Nat : i + m <= N => Above(fs, i, i + m)}
<1>0. N \in Nat /\ i \in Nat
  BY DEF Fits
<1>a. S(i) \in Nat /\ W(i) \in Nat
  BY SizeDef, SentDef
<1>b. PICK p \in Nat : p = pow2[S(i)]
  BY <1>a, Pow2Type
<1>1. 0 \in T
  <2>1. W(i) = 0 * pow2[S(i)] + W(i) /\ S(i) <= S(i)
    BY <1>a, <1>b
  <2>2. Above(fs, i, i)
    BY <2>1 DEF Above
  <2>3. i + 0 = i
    BY <1>0
  <2>4. QED
    BY <2>2, <2>3
<1>2. ASSUME NEW m \in Nat, m \in T PROVE m + 1 \in T
  <2>1. CASE i + (m + 1) <= N
    <3> DEFINE k == i + m
    <3>1. k + 1 \in 1..N /\ k \in 0..N /\ (k + 1) - 1 = k /\ k + 1 = i + (m + 1) /\ k <= N
      BY <1>0, <2>1
    <3>a. Above(fs, i, k)
      BY <3>1, <1>2
    <3> HIDE DEF k
    <3>2. fs[k + 1].size \in Nat /\ fs[k + 1].value \in Nat
      BY <3>1 DEF Fits
    <3>3. S(k) \in Nat /\ S(k + 1) = S(k) + fs[k + 1].size /\ S(i) <= S(k)
      BY <3>1, <3>a, SizeDef DEF Above
    <3>4. W(k) \in Nat /\ W(k + 1) = W(k) + fs[k + 1].value * pow2[S(k)]
      BY <3>1, SentDef
    <3>5. PICK h \in Nat : W(k) = h * p + W(i)
      BY <3>a, <1>b DEF Above
    <3>6. PICK d \in Nat : S(k) = S(i) + d
      <4> HIDE DEF S
      <4>1. S(k) - S(i) \in Nat /\ S(k) = S(i) + (S(k) - S(i))
        BY <3>3, <1>a
      <4>2. QED
        BY <4>1
    <3>7. pow2[S(k)] = p * pow2[d]
      BY <3>6, <1>a, <1>b, Pow2Add
    <3>8. PICK e \in Nat, v \in Nat : e = pow2[d] /\ v = fs[k + 1].value
      BY <3>2, Pow2Type
    <3>9. W(k + 1) = (h + v * e) * p + W(i)
      <4>1. v * (p * e) = (v * e) * p
        OBVIOUS
      <4>2. PICK x \in Nat : x = v * e
        OBVIOUS
      <4>3. (h + x) * p = h * p + x * p
        OBVIOUS
      <4>4. W(k + 1) = (h * p + W(i)) + x * p
        BY <3>4, <3>5, <3>7, <3>8, <4>1, <4>2
      <4> HIDE DEF W
      <4>5. PICK y \in Nat, z \in Nat : y = h * p /\ z = x * p
        OBVIOUS
      <4>6. W(k + 1) = (y + z) + W(i)
        BY <4>4, <4>5, <1>a
      <4>7. QED
        BY <4>2, <4>3, <4>5, <4>6
    <3>10. h + v * e \in Nat
      OBVIOUS
    <3>11. S(i) <= S(k + 1)
      <4> HIDE DEF S
      <4>1. QED
        BY <1>a, <3>2, <3>3
    <3>12. Above(fs, i, k + 1)
      <4>1. \E high \in Nat : W(k + 1) = high * pow2[S(i)] + W(i)
        BY <3>9, <3>10, <1>b
      <4>2. QED
        BY <3>11, <4>1 DEF Above
    <3>13. QED
      BY <3>1, <3>12
  <2>2. CASE ~(i + (m + 1) <= N)
    BY <2>2
  <2>3. QED
    BY <2>1, <2>2
<1>3. \A m \in Nat : m \in T
  <2> HIDE DEF T
  <2>1. QED
    BY <1>1, <1>2, SetInduction
<1>4. N - i \in Nat /\ i + (N - i) = N /\ N <= N
  BY <1>0
<1>5. QED
  BY <1>3, <1>4

\* Every field that lies in the bytes is found again.
LEMMA FieldExtracted ==
  ASSUME NEW fs, Fits(fs), NEW i \in 1..Len(fs),
         NEW length \in Nat, Size(fs)[i] <= 8 * length,
         NEW shift, shift = Size(fs)[i - 1]
  PROVE  extract_bits_from_le_bytes(Sent(fs)[Len(fs)], length, shift, fs[i].size) = fs[i].value
<1> DEFINE N == Len(fs)
           S(k) == Size(fs)[k]
           W(k) == Sent(fs)[k]
<1>0. N \in Nat /\ i \in Nat /\ i - 1 \in 0..N /\ i \in 0..N /\ N \in 0..N
  BY DEF Fits
<1>1. PICK width \in Nat \ {0}, v \in Nat : width = fs[i].size /\ v = fs[i].value /\ v < pow2[width]
  BY DEF Fits
<1>2. shift \in Nat /\ S(i) = shift + width /\ S(i) \in Nat /\ S(N) \in Nat
  BY <1>0, <1>1, SizeDef
<1>3. PICK low \in Nat : low = W(i - 1) /\ low < pow2[shift]
  <2>1. W(i - 1) \in Nat
    BY <1>0, SentDef
  <2>2. W(i - 1) < pow2[S(i - 1)]
    BY <1>0, SentBelow
  <2>3. QED
    BY <2>1, <2>2
<1>4. PICK p \in Nat, q \in Nat : p = pow2[shift] /\ q = pow2[width]
  BY <1>1, <1>2, Pow2Type
<1>5. W(i) = low + v * p
  BY <1>1, <1>3, <1>4, SentDef
<1>6. Above(fs, i, N)
  BY <1>0, SentAbove
<1>7. PICK high \in Nat : W(N) = high * pow2[S(i)] + W(i)
  BY <1>6 DEF Above
<1>8. S(i) <= S(N)
  BY <1>6 DEF Above
<1>9. pow2[S(i)] = p * q
  <2>1. width \in Nat /\ S(i) = shift + width
    BY <1>2
  <2>2. PICK top : top = S(i)
    OBVIOUS
  <2>3. PICK a \in Nat : a = shift
    BY <1>2
  <2>4. top = a + width
    BY <2>1, <2>2, <2>3
  <2>5. pow2[top] = pow2[a] * pow2[width]
    BY <2>1, <2>4, Pow2Add
  <2>6. QED
    BY <1>4, <2>2, <2>3, <2>5
<1>10. W(N) = (high * q + v) * p + low
  <2>1. PICK x \in Nat : x = high * q
    OBVIOUS
  <2>2. high * (p * q) = x * p
    BY <2>1
  <2>3. (x + v) * p = x * p + v * p
    OBVIOUS
  <2>4. PICK y \in Nat, z \in Nat : y = x * p /\ z = v * p
    OBVIOUS
  <2>5. W(N) = y + (low + z)
    BY <1>5, <1>7, <1>9, <2>2, <2>4
  <2>6. QED
    BY <2>1, <2>3, <2>4, <2>5
<1>11. length \in Nat /\ shift + width <= 8 * length
  BY <1>2
<1>12. W(N) = (high * pow2[width] + v) * pow2[shift] + low
  BY <1>4, <1>10
<1>13. low < pow2[shift] /\ v < pow2[width]
  BY <1>1, <1>3
<1>14. Lies(W(N), length, shift, width, v)
  BY <1>11, <1>12, <1>13 DEF Lies
<1> HIDE DEF W
<1>15. extract_bits_from_le_bytes(W(N), length, shift, width) = v
  BY <1>2, <1>11, <1>14, ExtractsField
<1>16. QED
  BY <1>1, <1>15 DEF W

\* A value with its top bit clear is not taken for a negative one.
LEMMA TopBitClear ==
  ASSUME NEW size \in Nat, size >= 2, NEW v \in Nat, v < pow2[size - 1]
  PROVE  extract_bits(v, size - 1, 1) # 1
<1>1. PICK p \in Nat : p = pow2[size - 1] /\ p > 0
  <2>1. size - 1 \in Nat
    OBVIOUS
  <2>2. QED
    BY <2>1, Pow2Type
<1>2. v \div p = 0
  <2>1. v \in 0..(p - 1) /\ v = 0 * p + v /\ p \in Nat \ {0}
    BY <1>1
  <2>2. QED
    BY <2>1, DivUnique
<1>3. 0 % 2 = 0
  OBVIOUS
<1>4. extract_bits(v, size - 1, 1) = (v \div p) % 2
  <2>1. pow2[1] = 2
    BY Pow2Byte
  <2>2. extract_bits(v, size - 1, 1) = (v \div pow2[size - 1]) % pow2[1]
    BY DEF extract_bits
  <2>3. QED
    BY <1>1, <2>1, <2>2
<1>5. (v \div p) % 2 = 0
  BY <1>2, <1>3, Zenon
<1>6. 0 # 1
  OBVIOUS
<1>7. QED
  BY <1>4, <1>5, <1>6, Zenon

(***************************************************************************)
(* The parser of the report descriptor.                                    *)
(***************************************************************************)
UsageNames == {"X", "Y", "Button", "Unknown", "Constant"} \X Nat
Item == [usage : UsageNames, bit_size : SIZES, bit_offset : Nat, logical_min : {0, LOGICAL_MIN}, logical_max : {0, LOGICAL_MAX}]
Field == [usage : UsageNames, size : SIZES, value : Nat]

HidTypes ==
  /\ usage_page \in {"None", "GenericDesktop", "Button"}
  /\ report_size \in SIZES \cup {0} /\ report_count \in COUNTS \cup {0}
  /\ logical_min \in {0, LOGICAL_MIN} /\ logical_max \in {0, LOGICAL_MAX} /\ bit_offset \in Nat
  /\ declared \in Seq(UsageNames)
  /\ input_report_items \in Seq(Item) /\ fields \in Seq(Field)

BothEnds == usage_min # NoUsage /\ usage_max # NoUsage
Buttons ==
  IF usage_page = "Button" /\ BothEnds THEN [i \in 1..LAST_BUTTON |-> Button(i)] ELSE <<>>

\* The local items the parser has are the ones the device has declared, as a
\* list or as a range (of which one end may be missing), and not both.
LocalsAgree ==
  \/ usage_min = NoUsage /\ usage_max = NoUsage /\ usage_queue = declared
  \/ /\ usage_queue = <<>> /\ usage_min \in {NoUsage, 1} /\ usage_max \in {NoUsage, LAST_BUTTON}
     /\ declared = Buttons

FieldAgrees(e, f) ==
  /\ e.usage = f.usage \/ (e.usage = Constant /\ f.usage = Unknown)
  /\ e.bit_size = f.size /\ f.value \in ValuesOf(f.size)

End(items, k) == IF k = 0 THEN 0 ELSE items[k].bit_offset + items[k].bit_size

\* The fields lie one behind the other and end at off.
Placed(items, off) ==
  /\ \A i \in 1..Len(items) : items[i].bit_offset = End(items, i - 1)
  /\ off = End(items, Len(items))

\* The parser's fields are the device's.
Layout ==
  /\ Len(input_report_items) = Len(fields)
  /\ \A i \in 1..Len(fields) : FieldAgrees(input_report_items[i], fields[i])
  /\ Placed(input_report_items, bit_offset)

HidInv == HidTypes /\ LocalsAgree /\ Layout

\* A sequence behind another.
Joint(S, s, t, all) ==
  /\ all \in Seq(S) /\ Len(all) = Len(s) + Len(t)
  /\ \A i \in 1..Len(s) : all[i] = s[i]
  /\ \A k \in 1..Len(t) : all[Len(s) + k] = t[k]

\* It holds for s \o t.
LEMMA Joined ==
  ASSUME NEW S, NEW s \in Seq(S), NEW t \in Seq(S), NEW all, all = s \o t
  PROVE  Joint(S, s, t, all)
BY DEF Joint

\* c fields of one size, from off on.
Block(block, c, off, size) ==
  /\ Len(block) = c
  /\ \A k \in 1..c : block[k].bit_size = size /\ block[k].bit_offset = off + (k - 1) * size

\* Appending a block of fields of one size keeps them contiguous.
LEMMA BlockPlaced ==
  ASSUME NEW items \in Seq(Item), NEW off \in Nat, Placed(items, off),
         NEW size \in Nat, NEW c \in Nat, NEW block \in Seq(Item), Block(block, c, off, size),
         NEW all, all = items \o block
  PROVE  Placed(all, off + c * size)
<1> DEFINE n == Len(items)
<1>0. /\ \A k \in 1..c : block[k].bit_size = size /\ block[k].bit_offset = off + (k - 1) * size
      /\ Len(block) = c
  BY DEF Block
<1>a. Joint(Item, items, block, all)
  BY Joined
<1>1. n \in Nat /\ Len(all) = n + c
  BY <1>0, <1>a DEF Joint
<1>2. ASSUME NEW i \in 1..n PROVE all[i] = items[i]
  BY <1>a DEF Joint
<1>3. ASSUME NEW k \in 1..c PROVE all[n + k] = block[k]
  BY <1>0, <1>a DEF Joint
<1>b. off = End(items, n)
  BY DEF Placed
<1> HIDE DEF n
<1>4. ASSUME NEW k \in 0..c PROVE End(all, n + k) = off + k * size
  <2>1. CASE k = 0
    <3>1. CASE n = 0
      BY <2>1, <3>1, <1>1, <1>b DEF End
    <3>2. CASE n # 0
      <4>1. n \in 1..n
        BY <1>1, <3>2
      <4>2. all[n] = items[n]
        BY <4>1, <1>2
      <4>3. n + k = n /\ k * size = 0 /\ off + 0 = off
        BY <2>1, <1>1
      <4>4. End(all, n) = End(items, n)
        BY <4>2 DEF End
      <4>5. QED
        BY <4>3, <4>4, <1>b
    <3>3. QED
      BY <3>1, <3>2
  <2>2. CASE k # 0
    <3>1. k \in 1..c /\ n + k # 0
      BY <2>2, <1>1
    <3>2. all[n + k] = block[k]
      BY <3>1, <1>3
    <3>3. block[k].bit_size = size /\ block[k].bit_offset = off + (k - 1) * size
      BY <3>1, <1>0
    <3>4. (k - 1) * size = k * size - size /\ k * size \in Nat
      BY <3>1
    <3>5. QED
      BY <3>1, <3>2, <3>3, <3>4 DEF End
  <2>3. QED
    BY <2>1, <2>2
<1>5. ASSUME NEW i \in 1..(n + c) PROVE all[i].bit_offset = End(all, i - 1)
  <2>1. CASE i <= n
    <3>1. i \in 1..n
      BY <2>1
    <3>2. all[i] = items[i] /\ items[i].bit_offset = End(items, i - 1)
      BY <3>1, <1>2 DEF Placed, n
    <3>3. End(all, i - 1) = End(items, i - 1)
      <4>1. CASE i = 1
        BY <4>1 DEF End
      <4>2. CASE i # 1
        <5>1. i - 1 \in 1..n
          BY <3>1, <4>2, <1>1
        <5>2. QED
          BY <5>1, <1>2 DEF End
      <4>3. QED
        BY <4>1, <4>2
    <3>4. QED
      BY <3>2, <3>3
  <2>2. CASE ~(i <= n)
    <3>1. PICK k \in 1..c : i = n + k
      <4>1. i - n \in 1..c /\ i = n + (i - n)
        BY <2>2, <1>1
      <4>2. QED
        BY <4>1
    <3>2. k - 1 \in 0..c /\ i - 1 = n + (k - 1)
      BY <3>1, <1>1
    <3>3. End(all, i - 1) = off + (k - 1) * size
      BY <3>2, <1>4
    <3>4. all[i].bit_offset = off + (k - 1) * size
      BY <3>1, <1>0, <1>3
    <3>5. QED
      BY <3>3, <3>4
  <2>3. QED
    BY <2>1, <2>2
<1>6. c \in 0..c
  OBVIOUS
<1>7. QED
  BY <1>1, <1>4, <1>5, <1>6 DEF Placed

\* The usage the parser gives the k-th field of an Input is the one the device
\* has declared for it.
LEMMA UsageAgrees ==
  ASSUME HidTypes, LocalsAgree, NEW k \in Nat \ {0}, NEW c \in BOOLEAN,
         NEW e, e = FieldUsage(k - 1, c),
         NEW u, u = IF k <= Len(declared) THEN declared[k] ELSE Unknown
  PROVE  e \in UsageNames /\ u \in UsageNames /\ (e = u \/ (e = Constant /\ u = Unknown))
<1> USE DEF Button, Unknown, Constant, UsageNames
<1>0. Len(declared) \in Nat /\ LAST_BUTTON \in Nat
  BY HidAssumption DEF HidTypes
<1>1. u \in UsageNames
  <2>1. CASE k <= Len(declared)
    <3>1. k \in 1..Len(declared)
      BY <2>1, <1>0
    <3>2. declared[k] \in UsageNames
      BY <3>1 DEF HidTypes
    <3>3. QED
      BY <2>1, <3>2
  <2>2. CASE ~(k <= Len(declared))
    <3>1. Unknown \in UsageNames
      OBVIOUS
    <3>2. QED
      BY <2>2, <3>1
  <2>3. QED
    BY <2>1, <2>2
<1>2. CASE usage_min = NoUsage /\ usage_max = NoUsage /\ usage_queue = declared
  <2>1. k - 1 < Len(declared) <=> k <= Len(declared)
    BY <1>0
  <2>2. (k - 1) + 1 = k
    OBVIOUS
  <2>3. CASE k <= Len(declared)
    BY <1>1, <1>2, <2>1, <2>2, <2>3 DEF FieldUsage
  <2>4. CASE ~(k <= Len(declared))
    <3>1. e \in {Constant, Unknown} /\ u = Unknown
      BY <1>2, <2>1, <2>4 DEF FieldUsage
    <3>2. QED
      BY <1>1, <3>1
  <2>5. QED
    BY <2>3, <2>4
<1>3. CASE /\ usage_queue = <<>> /\ usage_min \in {NoUsage, 1} /\ usage_max \in {NoUsage, LAST_BUTTON}
           /\ declared = Buttons
  <2>1. ~(k - 1 < Len(usage_queue))
    BY <1>0, <1>3
  <2>2. CASE usage_page = "Button" /\ BothEnds
    <3>0. usage_min = 1 /\ usage_max = LAST_BUTTON
      BY <1>3, <2>2 DEF BothEnds
    <3>1. declared = [i \in 1..LAST_BUTTON |-> Button(i)] /\ Len(declared) = LAST_BUTTON
      BY <1>0, <1>3, <2>2 DEF Buttons
    <3>2. usage_min + (k - 1) = k
      BY <3>0
    <3>3. e = IF k <= LAST_BUTTON THEN Button(k) ELSE Unknown
      BY <2>1, <2>2, <3>0, <3>2 DEF FieldUsage, BothEnds
    <3>4. CASE k <= LAST_BUTTON
      <4>1. k \in 1..LAST_BUTTON
        BY <3>4, <1>0
      <4>2. QED
        BY <1>1, <3>1, <3>3, <3>4, <4>1
    <3>5. CASE ~(k <= LAST_BUTTON)
      BY <1>1, <3>1, <3>3, <3>5
    <3>6. QED
      BY <3>4, <3>5
  <2>3. CASE ~(usage_page = "Button" /\ BothEnds)
    <3>1. declared = <<>> /\ Len(declared) = 0
      BY <1>3, <2>3 DEF Buttons
    <3>2. u = Unknown
      BY <3>1
    <3>3. e \in {Constant, Unknown}
      BY <2>1, <2>3 DEF FieldUsage, BothEnds
    <3>4. QED
      BY <1>1, <3>2, <3>3
  <2>4. QED
    BY <2>2, <2>3
<1>4. QED
  BY <1>2, <1>3 DEF LocalsAgree

\* A field's value fits its bits.
LEMMA ValueFits ==
  ASSUME NEW size \in 1..63, NEW v \in ValuesOf(size), VALUES \subseteq Nat
  PROVE  v \in Nat /\ v < pow2[size]
<1>1. v \in Nat /\ v < IF size = 1 THEN 2 ELSE pow2[size - 1]
  BY DEF ValuesOf
<1>2. CASE size = 1
  BY <1>1, <1>2, Pow2Byte
<1>3. CASE size # 1
  <2>1. size - 1 \in Nat /\ (size - 1) + 1 = size
    OBVIOUS
  <2>2. pow2[size] = 2 * pow2[size - 1]
    BY <2>1, Pow2Def
  <2>3. pow2[size - 1] \in Nat
    BY <2>1, Pow2Type
  <2>4. QED
    BY <1>1, <1>3, <2>2, <2>3
<1>4. QED
  BY <1>2, <1>3

\* The items and the fields an Input appends.
LEMMA InputBlock ==
  ASSUME HidTypes, LocalsAgree, report_size > 0,
         NEW c \in BOOLEAN, NEW vs \in [1..report_count -> ValuesOf(report_size)],
         NEW items, items = NewItems(c),
         NEW fs, fs = [k \in 1..report_count |->
                         [usage |-> IF k <= Len(declared) THEN declared[k] ELSE Unknown,
                          size |-> report_size, value |-> vs[k]]]
  PROVE  /\ items \in Seq(Item) /\ fs \in Seq(Field)
         /\ Block(items, report_count, bit_offset, report_size) /\ Len(fs) = report_count
         /\ \A k \in 1..report_count :
              FieldAgrees(items[k], fs[k])
<1>1. /\ report_count \in Nat /\ report_size \in SIZES /\ report_size \in 1..63 /\ bit_offset \in Nat
      /\ logical_min \in {0, LOGICAL_MIN} /\ logical_max \in {0, LOGICAL_MAX} /\ VALUES \subseteq Nat
  BY HidAssumption DEF HidTypes
<1>2. ASSUME NEW k \in 1..report_count
      PROVE  /\ items[k].usage \in UsageNames /\ fs[k].usage \in UsageNames
             /\ \/ items[k].usage = fs[k].usage
                \/ items[k].usage = Constant /\ fs[k].usage = Unknown
  <2>1. k \in Nat \ {0}
    BY <1>1
  <2>2. /\ items[k].usage = FieldUsage(k - 1, c)
        /\ fs[k].usage = IF k <= Len(declared) THEN declared[k] ELSE Unknown
    BY DEF NewItems
  <2>3. QED
    BY <2>1, <2>2, UsageAgrees
<1>3. ASSUME NEW k \in 1..report_count
      PROVE  /\ items[k].bit_size = report_size /\ fs[k].size = report_size /\ fs[k].value = vs[k]
             /\ items[k].bit_offset = bit_offset + (k - 1) * report_size
             /\ items[k].logical_min = logical_min /\ items[k].logical_max = logical_max
  BY DEF NewItems
<1>4. ASSUME NEW k \in 1..report_count
      PROVE  vs[k] \in ValuesOf(report_size) /\ vs[k] \in Nat /\ items[k].bit_offset \in Nat
  <2>1. vs[k] \in ValuesOf(report_size)
    OBVIOUS
  <2>2. vs[k] \in Nat
    BY <1>1, <2>1, ValueFits
  <2>3. PICK d \in Nat : d = k - 1
    BY <1>1
  <2>4. d * report_size \in Nat
    BY <1>1
  <2>5. QED
    BY <1>1, <1>3, <2>1, <2>2, <2>3, <2>4
<1>5. ASSUME NEW k \in 1..report_count PROVE items[k] \in Item /\ fs[k] \in Field
  <2>1. /\ items[k] = [usage |-> items[k].usage, bit_size |-> items[k].bit_size,
                       bit_offset |-> items[k].bit_offset,
                       logical_min |-> items[k].logical_min, logical_max |-> items[k].logical_max]
        /\ fs[k] = [usage |-> fs[k].usage, size |-> fs[k].size, value |-> fs[k].value]
    BY DEF NewItems
  <2>2. /\ items[k].bit_size \in SIZES /\ items[k].bit_offset \in Nat
        /\ items[k].logical_min \in {0, LOGICAL_MIN} /\ items[k].logical_max \in {0, LOGICAL_MAX}
        /\ fs[k].size \in SIZES /\ fs[k].value \in Nat
    BY <1>1, <1>3, <1>4
  <2>3. QED
    BY <1>2, <2>1, <2>2 DEF Item, Field
<1>6. items \in [1..report_count -> Item] /\ fs \in [1..report_count -> Field]
  BY <1>5 DEF NewItems
<1>7. /\ items \in Seq(Item) /\ fs \in Seq(Field)
      /\ Len(items) = report_count /\ Len(fs) = report_count
  BY <1>1, <1>6
<1>8. QED
  BY <1>2, <1>3, <1>4, <1>7 DEF FieldAgrees, Block

\* A main item that declares fields keeps both sides alike.
LEMMA InputKeepsLayout ==
  ASSUME HidInv, report_size > 0,
         NEW c \in BOOLEAN, NEW vs \in [1..report_count -> ValuesOf(report_size)],
         Input(c, vs)
  PROVE  HidInv'
<1> DEFINE new == NewItems(c)
           more == [k \in 1..report_count |->
                      [usage |-> IF k <= Len(declared) THEN declared[k] ELSE Unknown,
                       size |-> report_size, value |-> vs[k]]]
           n == Len(fields)
<1>1. HidTypes /\ LocalsAgree /\ Layout
  BY DEF HidInv
<1>2. /\ new \in Seq(Item) /\ more \in Seq(Field)
      /\ Block(new, report_count, bit_offset, report_size) /\ Len(more) = report_count
      /\ \A k \in 1..report_count : FieldAgrees(new[k], more[k])
  BY <1>1, InputBlock
<1>3. /\ input_report_items' = input_report_items \o new /\ fields' = fields \o more
      /\ bit_offset' = bit_offset + report_count * report_size
      /\ usage_queue' = <<>> /\ usage_min' = NoUsage /\ usage_max' = NoUsage /\ declared' = <<>>
      /\ UNCHANGED <<usage_page, report_size, report_count, logical_min, logical_max>>
  BY DEF Input, ForgetLocals, global
<1>4. /\ report_count \in Nat /\ report_size \in Nat /\ bit_offset \in Nat
      /\ input_report_items \in Seq(Item) /\ fields \in Seq(Field)
      /\ Len(input_report_items) = n /\ n \in Nat
  BY <1>1, HidAssumption DEF HidTypes, Layout
<1> HIDE DEF new, more, n
<1>5. /\ input_report_items' \in Seq(Item) /\ Len(input_report_items') = n + report_count
      /\ \A i \in 1..n : input_report_items'[i] = input_report_items[i]
      /\ \A k \in 1..report_count : input_report_items'[n + k] = new[k]
  <2>1. Joint(Item, input_report_items, new, input_report_items')
    BY <1>2, <1>3, <1>4, Joined
  <2>2. Len(new) = report_count
    BY <1>2 DEF Block
  <2>3. QED
    BY <1>4, <2>1, <2>2 DEF Joint
<1>6. /\ fields' \in Seq(Field) /\ Len(fields') = n + report_count
      /\ \A i \in 1..n : fields'[i] = fields[i]
      /\ \A k \in 1..report_count : fields'[n + k] = more[k]
  <2>1. Joint(Field, fields, more, fields')
    BY <1>2, <1>3, <1>4, Joined
  <2>2. QED
    BY <1>2, <2>1 DEF Joint, n
<1>7. Placed(input_report_items', bit_offset')
  <2>1. Placed(input_report_items, bit_offset)
    BY <1>1 DEF Layout
  <2>2. Placed(input_report_items', bit_offset + report_count * report_size)
    BY <1>2, <1>3, <1>4, <2>1, BlockPlaced
  <2>3. QED
    BY <1>3, <2>2
<1>8. ASSUME NEW i \in 1..(n + report_count)
      PROVE  FieldAgrees(input_report_items'[i], fields'[i])
  <2>1. CASE i <= n
    <3>1. i \in 1..n
      BY <2>1
    <3>2. FieldAgrees(input_report_items[i], fields[i])
      BY <1>1, <3>1 DEF Layout, n
    <3>3. QED
      BY <1>5, <1>6, <3>1, <3>2
  <2>2. CASE ~(i <= n)
    <3>1. i - n \in 1..report_count /\ i = n + (i - n)
      BY <1>4, <2>2
    <3>2. QED
      BY <1>2, <1>5, <1>6, <3>1
  <2>3. QED
    BY <2>1, <2>2
<1>9. bit_offset' \in Nat
  <2>1. PICK d \in Nat : d = report_count * report_size
    BY <1>4
  <2>2. bit_offset' = bit_offset + d
    BY <1>3, <2>1
  <2>3. QED
    BY <1>4, <2>2
<1>10. HidTypes'
  <2>1. declared' \in Seq(UsageNames)
    BY <1>3
  <2>2. QED
    BY <1>1, <1>3, <1>5, <1>6, <1>9, <2>1 DEF HidTypes
<1>11. LocalsAgree'
  BY <1>3 DEF LocalsAgree, NoUsage
<1>12. Layout'
  <2>1. \A i \in 1..Len(fields') : FieldAgrees(input_report_items'[i], fields'[i])
    BY <1>6, <1>8
  <2>2. QED
    BY <1>5, <1>6, <1>7, <2>1 DEF Layout, Placed, End, FieldAgrees, ValuesOf, Constant, Unknown
<1>13. QED
  BY <1>10, <1>11, <1>12 DEF HidInv

\* The parser and the device agree on the fields of the report and on where they
\* lie after every stream of items, also where an Input without a usage page was
\* passed over: the offsets follow the sizes without a gap, and every field has
\* the usage that was declared for it since the last main item.
THEOREM HidSafety == HidSpec => []HidInv
<1> USE DEF global, local, parsed, deviceSide
<1>1. HidInit => HidInv
  <2> SUFFICES ASSUME HidInit PROVE HidInv
    OBVIOUS
  <2>1. HidTypes
    BY DEF HidInit, HidTypes
  <2>2. LocalsAgree
    BY DEF HidInit, LocalsAgree
  <2>3. Layout
    BY DEF HidInit, Layout, Placed, End
  <2>4. QED
    BY <2>1, <2>2, <2>3 DEF HidInv
<1>2. HidInv /\ [HidNext]_hidVars => HidInv'
  <2> SUFFICES ASSUME HidInv, [HidNext]_hidVars PROVE HidInv'
    OBVIOUS
  <2>0. HidTypes /\ LocalsAgree /\ Layout
    BY DEF HidInv
  <2> DEFINE Rest == <<bit_offset, input_report_items, fields>>
  <2>a. ASSUME UNCHANGED Rest PROVE Layout'
    BY <2>0, <2>a DEF Layout, FieldAgrees, Placed, End, ValuesOf, Constant, Unknown
  <2>1. ASSUME NEW p \in {"GenericDesktop", "Button"}, UsagePage(p) PROVE HidInv'
    <3>1. HidTypes'
      BY <2>0, <2>1 DEF UsagePage, HidTypes
    <3>2. LocalsAgree'
      <4>1. usage_queue = <<>> /\ usage_min = NoUsage /\ usage_max = NoUsage /\ UNCHANGED <<local, declared>>
        BY <2>1 DEF UsagePage
      <4>2. declared = <<>>
        BY <2>0, <4>1 DEF LocalsAgree, Buttons, BothEnds
      <4>3. QED
        BY <4>1, <4>2 DEF LocalsAgree
    <3>3. QED
      BY <3>1, <3>2, <2>a, <2>1 DEF UsagePage, HidInv
  <2>2. ASSUME NEW m \in SIZES, ReportSize(m) PROVE HidInv'
    BY <2>0, <2>a, <2>2 DEF ReportSize, HidInv, HidTypes, LocalsAgree, Buttons, BothEnds, NoUsage, Button
  <2>3. ASSUME NEW m \in COUNTS, ReportCount(m) PROVE HidInv'
    BY <2>0, <2>a, <2>3 DEF ReportCount, HidInv, HidTypes, LocalsAgree, Buttons, BothEnds, NoUsage, Button
  <2>4. ASSUME LogicalMin(LOGICAL_MIN) \/ LogicalMax(LOGICAL_MAX) PROVE HidInv'
    BY <2>0, <2>a, <2>4 DEF LogicalMin, LogicalMax, HidInv, HidTypes, LocalsAgree, Buttons, BothEnds, NoUsage, Button
  <2>5. ASSUME NEW u \in Usage, LocalUsage(u) PROVE HidInv'
    <3>1. UsageName(u) \in UsageNames
      BY DEF Usage, UsageName, Unknown, UsageNames
    <3>2. declared' \in Seq(UsageNames)
      BY <2>0, <2>5, <3>1 DEF LocalUsage, HidTypes
    <3>3. HidTypes'
      BY <2>0, <2>5, <3>2 DEF LocalUsage, HidTypes
    <3>4. LocalsAgree'
      <4>1. /\ usage_min = NoUsage /\ usage_max = NoUsage /\ UNCHANGED <<usage_min, usage_max>>
            /\ usage_queue' = Append(usage_queue, UsageName(u)) /\ declared' = Append(declared, UsageName(u))
        BY <2>5 DEF LocalUsage
      <4>2. usage_queue = declared
        BY <2>0, <4>1 DEF LocalsAgree, Buttons, BothEnds
      <4>3. QED
        BY <4>1, <4>2 DEF LocalsAgree
    <3>5. QED
      BY <3>3, <3>4, <2>a, <2>5 DEF LocalUsage, HidInv
  <2>6. ASSUME UsageMin(1) \/ UsageMax(LAST_BUTTON) PROVE HidInv'
    <3>0. /\ usage_queue = <<>> /\ usage_queue' = <<>> /\ usage_page' = usage_page
          /\ usage_min \in {NoUsage, 1} /\ usage_max \in {NoUsage, LAST_BUTTON}
          /\ usage_min' \in {NoUsage, 1} /\ usage_max' \in {NoUsage, LAST_BUTTON}
          /\ declared' = RangeOf(usage_min', usage_max')
      BY <2>0, <2>6 DEF UsageMin, UsageMax, LocalsAgree
    <3>1. LAST_BUTTON \in Nat
      BY HidAssumption
    <3>2. [i \in 1..((LAST_BUTTON - 1) + 1) |-> Button(1 + (i - 1))]
            = [i \in 1..LAST_BUTTON |-> Button(i)]
      <4>1. (LAST_BUTTON - 1) + 1 = LAST_BUTTON
        BY <3>1
      <4>2. ASSUME NEW i \in 1..LAST_BUTTON PROVE 1 + (i - 1) = i
        OBVIOUS
      <4>3. QED
        BY <4>1, <4>2
    <3>3. declared' = Buttons'
      <4>1. CASE usage_page = "Button" /\ BothEnds'
        <5>1. usage_min' = 1 /\ usage_max' = LAST_BUTTON
          BY <3>0, <4>1 DEF BothEnds
        <5>2. declared' = [i \in 1..((LAST_BUTTON - 1) + 1) |-> Button(1 + (i - 1))]
          BY <3>0, <3>1, <4>1, <5>1 DEF RangeOf, BothEnds, Button
        <5>3. QED
          BY <3>0, <3>2, <4>1, <5>2 DEF Buttons
      <4>2. CASE ~(usage_page = "Button" /\ BothEnds')
        BY <3>0, <4>2 DEF RangeOf, BothEnds, Buttons
      <4>3. QED
        BY <4>1, <4>2
    <3>4. Buttons' \in Seq(UsageNames)
      <4>1. ASSUME NEW i \in 1..LAST_BUTTON PROVE Button(i) \in UsageNames
        BY <3>1 DEF Button, UsageNames
      <4>2. [i \in 1..LAST_BUTTON |-> Button(i)] \in Seq(UsageNames)
        BY <3>1, <4>1
      <4>3. QED
        BY <4>2 DEF Buttons
    <3>5. HidTypes'
      BY <2>0, <2>6, <3>3, <3>4 DEF UsageMin, UsageMax, HidTypes
    <3>6. LocalsAgree'
      BY <3>0, <3>3 DEF LocalsAgree
    <3>7. QED
      BY <3>5, <3>6, <2>a, <2>6 DEF UsageMin, UsageMax, HidInv
  <2>7. ASSUME OtherMain PROVE HidInv'
    BY <2>0, <2>a, <2>7
       DEF OtherMain, ForgetLocals, HidInv, HidTypes, LocalsAgree, NoUsage
  <2>8. ASSUME report_size > 0, NEW c \in BOOLEAN,
               NEW vs \in [1..report_count -> ValuesOf(report_size)], Input(c, vs)
        PROVE  HidInv'
    BY <2>8, InputKeepsLayout
  <2>9. ASSUME InputSkipped PROVE HidInv'
    BY <2>0, <2>a, <2>9
       DEF InputSkipped, ForgetLocals, HidInv, HidTypes, LocalsAgree, NoUsage
  <2>10. ASSUME UNCHANGED hidVars PROVE HidInv'
    BY <2>0, <2>a, <2>10 DEF hidVars, HidInv, HidTypes, LocalsAgree, Buttons, BothEnds, NoUsage, Button
  <2>11. QED
    BY <2>1, <2>2, <2>3, <2>4, <2>5, <2>6, <2>7, <2>8, <2>9, <2>10 DEF HidNext, NextItem
<1>3. QED
  BY <1>1, <1>2, PTL DEF HidSpec

(***************************************************************************)
(* What is decoded.                                                        *)
(***************************************************************************)

\* A field lies where the sizes of the fields in front of it put it.
LEMMA OffsetsAreSizes ==
  ASSUME HidInv
  PROVE  /\ Fits(fields)
         /\ \A i \in 1..Len(fields) : input_report_items[i].bit_offset = Size(fields)[i - 1]
<1> DEFINE N == Len(fields)
           E(k) == End(input_report_items, k)
           T == {k \in Nat : k <= N => E(k) = Size(fields)[k]}
<1>1. /\ fields \in Seq(Field) /\ input_report_items \in Seq(Item) /\ N \in Nat
      /\ Len(input_report_items) = N
      /\ \A i \in 1..N : FieldAgrees(input_report_items[i], fields[i])
      /\ Placed(input_report_items, bit_offset)
  BY DEF HidInv, HidTypes, Layout
<1>2. ASSUME NEW i \in 1..N
      PROVE  /\ fields[i].size \in 1..63 /\ fields[i].value \in ValuesOf(fields[i].size)
             /\ input_report_items[i].bit_size = fields[i].size
             /\ input_report_items[i].bit_offset = E(i - 1)
  <2>1. fields[i] \in Field
    BY <1>1
  <2>2. fields[i].size \in 1..63
    BY <2>1, HidAssumption DEF Field
  <2>3. QED
    BY <1>1, <2>2 DEF FieldAgrees, Placed
<1>3. Fits(fields)
  <2>1. ASSUME NEW i \in 1..N
        PROVE  /\ fields[i].size \in Nat \ {0} /\ fields[i].value \in Nat
               /\ fields[i].value < pow2[fields[i].size]
    <3>1. VALUES \subseteq Nat
      BY HidAssumption
    <3>2. fields[i].value \in Nat /\ fields[i].value < pow2[fields[i].size]
      BY <1>2, <3>1, ValueFits
    <3>3. \A n \in 1..63 : n \in Nat \ {0}
      OBVIOUS
    <3>4. fields[i].size \in Nat \ {0}
      BY <1>2, <3>3
    <3>5. QED
      BY <3>2, <3>4
  <2>2. QED
    BY <1>1, <2>1 DEF Fits
<1> HIDE DEF E
<1>4. 0 \in T
  <2>1. E(0) = 0
    BY DEF E, End
  <2>2. QED
    BY <1>3, <2>1, SizeDef
<1>5. ASSUME NEW k \in Nat, k \in T PROVE k + 1 \in T
  <2>1. CASE k + 1 <= N
    <3>1. k + 1 \in 1..N /\ (k + 1) - 1 = k /\ k + 1 # 0 /\ E(k) = Size(fields)[k]
      BY <1>1, <1>5, <2>1
    <3>2. E(k + 1) = E(k) + fields[k + 1].size
      BY <1>2, <3>1 DEF E, End
    <3>3. Size(fields)[k + 1] = Size(fields)[k] + fields[k + 1].size
      BY <1>3, <3>1, SizeDef
    <3>4. QED
      BY <3>1, <3>2, <3>3
  <2>2. CASE ~(k + 1 <= N)
    BY <2>2
  <2>3. QED
    BY <2>1, <2>2
<1>6. \A k \in Nat : k \in T
  <2> HIDE DEF T
  <2>1. QED
    BY <1>4, <1>5, SetInduction
<1>7. ASSUME NEW i \in 1..N PROVE input_report_items[i].bit_offset = Size(fields)[i - 1]
  <2>1. i - 1 \in Nat /\ i - 1 <= N
    BY <1>1
  <2>2. QED
    BY <1>2, <1>6, <2>1
<1>8. QED
  BY <1>3, <1>7

\* value_from_report takes out of every field what the device has put in,
LEMMA ValueRead ==
  ASSUME HidInv, NEW i \in 1..Len(fields), Arrives(i)
  PROVE  value_from_report(input_report_items[i]) = fields[i].value
<1> DEFINE e == input_report_items[i]
           size == fields[i].size
           v == fields[i].value
           x == extract_bits_from_le_bytes(Wire, REPORT_LEN, e.bit_offset, e.bit_size)
<1>1. Fits(fields) /\ e.bit_offset = Size(fields)[i - 1]
  BY OffsetsAreSizes
<1>2. e.bit_size = size /\ v \in ValuesOf(size)
  BY DEF HidInv, Layout, FieldAgrees
<1>3. x = v
  <2>1. extract_bits_from_le_bytes(Sent(fields)[Len(fields)], REPORT_LEN, e.bit_offset, size) = v
    <3>1. REPORT_LEN \in Nat /\ Size(fields)[i] <= 8 * REPORT_LEN
      BY HidAssumption DEF Arrives
    <3>2. QED
      BY <1>1, <3>1, FieldExtracted
  <2>2. x = extract_bits_from_le_bytes(Wire, REPORT_LEN, e.bit_offset, size)
    BY <1>2
  <2>3. QED
    BY <2>1, <2>2 DEF Wire
<1>4. size \in Nat \ {0} /\ v \in Nat
  BY <1>1 DEF Fits
<1>5. size >= 2 => extract_bits(v, size - 1, 1) # 1
  <2> SUFFICES ASSUME size >= 2 PROVE extract_bits(v, size - 1, 1) # 1
    OBVIOUS
  <2>1. size # 1 /\ size \in Nat
    BY <1>4
  <2>2. v < pow2[size - 1]
    BY <1>2, <2>1 DEF ValuesOf
  <2> HIDE DEF size, v
  <2>3. QED
    BY <1>4, <2>1, <2>2, TopBitClear
<1> HIDE DEF x
<1>6. value_from_report(e) = IF x # NoBits /\ e.bit_size >= 2 /\ extract_bits(x, e.bit_size - 1, 1) = 1
                             THEN extract_bits(x, 0, e.bit_size - 1) ELSE x
  BY DEF value_from_report, x
<1>7. QED
  BY <1>2, <1>3, <1>5, <1>6

\* and nothing out of one that does not end in the bytes that were read.
LEMMA NothingRead ==
  ASSUME HidInv, NEW i \in 1..Len(fields), ~Arrives(i)
  PROVE  value_from_report(input_report_items[i]) = NoBits
<1> DEFINE e == input_report_items[i]
<1>1. Fits(fields) /\ e.bit_offset = Size(fields)[i - 1]
  BY OffsetsAreSizes
<1>2. e.bit_size = fields[i].size
  BY DEF HidInv, Layout, FieldAgrees
<1>3. PICK offset \in Nat, size \in Nat :
        offset = e.bit_offset /\ size = e.bit_size /\ Size(fields)[i] = offset + size
  <2>1. i - 1 \in 0..Len(fields) /\ fields[i].size \in Nat
    BY <1>1 DEF Fits
  <2>2. Size(fields)[i - 1] \in Nat /\ Size(fields)[i] = Size(fields)[i - 1] + fields[i].size
    BY <1>1, <2>1, SizeDef
  <2>3. QED
    BY <1>1, <1>2, <2>1, <2>2
<1>4. REPORT_LEN \in Nat /\ offset + size > 8 * REPORT_LEN
  BY <1>3, HidAssumption DEF Arrives
<1>5. (offset + (size + 7)) \div 8 > REPORT_LEN
  <2>1. PICK len \in Nat : len = REPORT_LEN
    BY <1>4
  <2>2. offset + (size + 7) >= 8 * (len + 1)
    BY <1>4, <2>1
  <2>3. QED
    BY <2>1, <2>2
<1>6. extract_bits_from_le_bytes(Wire, REPORT_LEN, offset, size) = NoBits
  BY <1>5 DEF extract_bits_from_le_bytes
<1>7. QED
  BY <1>3, <1>6 DEF value_from_report

\* The driver reads what the device sent, under the usage it was declared with:
\* for descriptors of any length, fields of up to 63 bits at any offset, reports
\* of any length, and values whose top bit is not set (a set one is dropped by
\* the code).
THEOREM ReportsDecoded == HidSpec => []DecodesWhatWasSent
<1>1. HidInv => DecodesWhatWasSent
  <2> SUFFICES ASSUME HidInv PROVE DecodesWhatWasSent
    OBVIOUS
  <2>1. /\ Len(input_report_items) = Len(fields)
        /\ \A i \in 1..Len(fields) : FieldAgrees(input_report_items[i], fields[i])
    BY DEF HidInv, Layout
  <2>2. ASSUME NEW i \in 1..Len(fields)
        PROVE  value_from_report(input_report_items[i]) = IF Arrives(i) THEN fields[i].value ELSE NoBits
    BY ValueRead, NothingRead
  <2>3. QED
    BY <2>1, <2>2 DEF DecodesWhatWasSent, FieldAgrees
<1>2. QED
  BY <1>1, HidSafety, PTL

\* A pointer lands on the screen, the ends of its range on the screen's edges, on
\* screens of any width and whatever range the descriptor sets.
THEOREM PointerLandsOnScreen == HidSpec => []PointerOnScreen
<1>1. HidInv => PointerOnScreen
  <2> SUFFICES ASSUME HidInv, NEW i \in 1..Len(fields)
               PROVE  LET e == input_report_items[i]
                          x == mapped_range_from_report(e)
                          v == fields[i].value
                      IN IF Arrives(i) /\ e.logical_min <= v /\ v <= e.logical_max
                         THEN /\ x \in 0..(WIDTH - 1)
                              /\ v = e.logical_min => x = 0
                              /\ v = e.logical_max /\ e.logical_min < e.logical_max => x = WIDTH - 1
                         ELSE x = Err
    BY DEF PointerOnScreen
  <2> DEFINE e == input_report_items[i]
             x == mapped_range_from_report(e)
             from == [start |-> e.logical_min, end |-> e.logical_max]
             to == [start |-> 0, end |-> WIDTH - 1]
  <2>1. PICK v \in Nat : v = fields[i].value
    BY OffsetsAreSizes DEF Fits
  <2>2. CASE ~Arrives(i)
    <3>1. value_from_report(e) = NoBits
      BY <2>2, NothingRead
    <3>2. x = Err
      BY <3>1 DEF mapped_range_from_report
    <3>3. QED
      BY <2>2, <3>2
  <2>3. CASE Arrives(i)
    <3>1. value_from_report(e) = v
      BY <2>1, <2>3, ValueRead
    <3>2. e.logical_min \in Nat /\ e.logical_max \in Nat /\ WIDTH \in Nat /\ WIDTH > 0
      <4>1. e \in Item
        BY DEF HidInv, HidTypes, Layout
      <4>2. QED
        BY <4>1, HidAssumption DEF Item
    <3>3. x = map_value_in_range_inclusive(from, to, v)
      <4>1. v # NoBits
        BY <2>1 DEF NoBits
      <4>2. QED
        BY <3>1, <4>1 DEF mapped_range_from_report
    <3>4. from \in Ranges /\ to \in Ranges /\ to.start <= to.end /\ to.start = 0
          /\ from.start = e.logical_min /\ from.end = e.logical_max /\ to.end = WIDTH - 1
      BY <3>2 DEF Ranges
    <3> HIDE DEF from, to, x, e
    <3>5. CASE ~(e.logical_min <= v /\ v <= e.logical_max)
      <4>1. x = Err
        BY <3>3, <3>4, <3>5 DEF map_value_in_range_inclusive
      <4>2. QED
        BY <2>1, <3>5, <4>1 DEF x, e
    <3>6. CASE e.logical_min <= v /\ v <= e.logical_max
      <4>1. from.start <= v /\ v <= from.end /\ v \in Int
        BY <3>4, <3>6
      <4>2. /\ x \in to.start..to.end
            /\ v = from.start => x = to.start
            /\ v = from.end /\ from.start < from.end => x = to.end
        BY <3>3, <3>4, <4>1, MapsIntoRange
      <4>3. /\ x \in 0..(WIDTH - 1)
            /\ v = e.logical_min => x = 0
            /\ v = e.logical_max /\ e.logical_min < e.logical_max => x = WIDTH - 1
        BY <3>4, <4>2
      <4>4. QED
        BY <2>1, <2>3, <3>6, <4>3 DEF x, e
    <3>7. QED
      BY <3>5, <3>6
  <2>4. QED
    BY <2>2, <2>3
<1>2. QED
  BY <1>1, HidSafety, PTL
=============================================================================
