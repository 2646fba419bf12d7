---------------------------- MODULE PagingProof -----------------------------
(***************************************************************************)
(* create_mapping maps what it is asked to map and touches nothing else,   *)
(* for tables of any size, and what follows for the kernel's memory.  The  *)
(* index of a level is a digit of the page number, so the proofs rest on   *)
(* facts about division.                                                   *)
(***************************************************************************)
EXTENDS Paging, WellFoundedInduction, TLAPS

-----------------------------------------------------------------------------
(* The inductive invariant                                                 *)

Attr == {"NotPresent", "ReadWriteKernel", "ReadWriteIo"}
Entry == [to : Nat, attr : Attr]

TypeInv ==
  /\ pc \in {"unmap", "load", "idle"} /\ level \in 0..4 /\ cr3 \in {"uefi", "kernel"}
  /\ table \in [TableId -> [Index -> Entry]] /\ used \in TableId
  /\ call \in [start : Nat, end : Nat, attr : Attr] /\ addr \in Nat
  /\ at \in [LEVELS -> TableId] /\ idx \in [LEVELS -> Index]

\* A page number without the digits of the levels below l.
High(l, a) == IF l = 5 THEN a \div Pages ELSE a \div Span(l)

\* The table of the next level on the walk for page p in the tables tb; 0 when
\* there is none.
Below(tb, t, l, p) ==
  IF t = 0 THEN 0
  ELSE IF is_present(tb[t][calc_index(l, p)]) THEN tb[t][calc_index(l, p)].to ELSE 0

\* The table of level l on that walk.
Walk(tb, l, p) ==
  IF l = 4 THEN 1
  ELSE IF l = 3 THEN Below(tb, 1, 4, p)
  ELSE IF l = 2 THEN Below(tb, Below(tb, 1, 4, p), 3, p)
  ELSE Below(tb, Below(tb, Below(tb, 1, 4, p), 3, p), 2, p)
At(l, p) == Walk(table, l, p)

\* An entry that is present points to a table, in all levels but the last.
Leads(tb, p) ==
  \A l \in 2..4 :
     Walk(tb, l, p) # 0 /\ is_present(tb[Walk(tb, l, p)][calc_index(l, p)]) => Walk(tb, l - 1, p) # 0

\* The tables form a tree: a table is on walks at one level only, and only on
\* those of the pages that agree in the digits above.
TreeInv ==
  /\ \A t \in TableId : t > used => table[t] = Zeroed
  /\ \A l \in LEVELS, p \in Page : At(l, p) \in 0..used
  /\ \A p \in Page : Leads(table, p)
  /\ \A k, l \in LEVELS, p, q \in Page :
       At(k, p) = At(l, q) /\ At(k, p) # 0 => k = l /\ High(l + 1, p) = High(l + 1, q)

\* The loops are in the tables of the walk for addr; they end with the range.
LoopInv ==
  /\ at[4] = 1
  /\ call.start <= addr /\ addr <= call.end /\ call.end <= Pages
  /\ level = 0 <=> addr = call.end
  /\ level # 0 =>
       /\ \A k \in LEVELS : k >= level => at[k] = At(k, addr)
       /\ \A k \in LEVELS : k > level => idx[k] = calc_index(k, addr)

MapInv ==
  \A p \in Page : Translate(p) = IF p \in call.start..(addr - 1)
                                 THEN [to |-> p, attr |-> call.attr] ELSE prior[p]

PhaseInv ==
  /\ pc = "idle" => level = 0 /\ cr3 = "kernel"
  /\ pc = "unmap" => cr3 = "uefi" /\ call = [start |-> 0, end |-> end_of_mem, attr |-> "ReadWriteKernel"]
  /\ pc = "load" /\ cr3 = "uefi" =>
       /\ call = [start |-> 0, end |-> 1, attr |-> "NotPresent"]
       /\ \A p \in 0..(end_of_mem - 1) : prior[p] = [to |-> p, attr |-> "ReadWriteKernel"]
  /\ pc = "load" /\ cr3 = "kernel" => call.attr = "ReadWriteIo" /\ call.start >= 1

PagingInv == TypeInv /\ TreeInv /\ LoopInv /\ MapInv /\ PhaseInv /\ KernelMap /\ NoStaleTlb

-----------------------------------------------------------------------------
(* Division and digits                                                     *)

\* The quotient the code computes, by its defining inequalities.
LEMMA Quotient ==
  ASSUME NEW n \in Nat, NEW d \in Nat, d > 0
  PROVE  /\ n \div d \in Nat
         /\ d * (n \div d) <= n
         /\ n < d * ((n \div d) + 1)
OBVIOUS

\* The product of two numbers that are not negative.
LEMMA ProductNat == ASSUME NEW a \in Nat, NEW b \in Nat PROVE a * b \in Nat
OBVIOUS

\* Multiplication keeps the order.
LEMMA ProductOrder ==
  ASSUME NEW a \in Nat, NEW b \in Nat, NEW c \in Nat, a <= b
  PROVE  a * c <= b * c
<1>1. b * c = a * c + (b - a) * c
  OBVIOUS
<1>2. (b - a) * c \in Nat
  BY ProductNat
<1> QED
  BY <1>1, <1>2, ProductNat

\* There is one quotient only.
LEMMA QuotientUnique ==
  ASSUME NEW n \in Nat, NEW d \in Nat, d > 0, NEW q \in Nat, d * q <= n, n < d * (q + 1)
  PROVE  n \div d = q
<1>1. PICK r : r = n \div d
  OBVIOUS
<1>2. r \in Nat /\ d * r <= n /\ n < d * (r + 1)
  BY <1>1, Quotient
<1>3. ASSUME NEW x \in Nat, NEW y \in Nat, x + 1 <= y, d * y <= n, n < d * (x + 1) PROVE FALSE
  <2>1. (x + 1) * d <= y * d
    BY <1>3, ProductOrder
  <2>2. (x + 1) * d = d * (x + 1) /\ y * d = d * y /\ d * (x + 1) \in Nat /\ d * y \in Nat
    BY ProductNat
  <2>3. QED
    BY <1>3, <2>1, <2>2
<1>4. ~(q + 1 <= r) /\ ~(r + 1 <= q)
  BY <1>2, <1>3
<1>5. QED
  BY <1>1, <1>2, <1>4

\* Dividing twice is dividing by the product.
LEMMA QuotientTwice ==
  ASSUME NEW a \in Nat, NEW s \in Nat, s > 0, NEW n \in Nat, n > 0
  PROVE  a \div (n * s) = (a \div s) \div n
<1>1. PICK q : q = a \div s
  OBVIOUS
<1>2. PICK r : r = q \div n
  OBVIOUS
<1>3. q \in Nat /\ s * q <= a /\ a < s * (q + 1)
  BY <1>1, Quotient
<1>4. r \in Nat /\ n * r <= q /\ q < n * (r + 1)
  BY <1>2, <1>3, Quotient
<1>5. n * r \in Nat /\ n * (r + 1) \in Nat /\ n * s \in Nat /\ q + 1 <= n * (r + 1)
  BY <1>3, <1>4, ProductNat
<1>6. (n * r) * s <= q * s /\ (q + 1) * s <= (n * (r + 1)) * s
  BY <1>3, <1>4, <1>5, ProductOrder
<1>7. /\ (n * r) * s = (n * s) * r /\ q * s = s * q
      /\ (q + 1) * s = s * (q + 1) /\ (n * (r + 1)) * s = (n * s) * (r + 1)
  BY <1>3, <1>4
<1>8. (n * s) * r <= a /\ a < (n * s) * (r + 1) /\ n * s > 0
  <2>1. (n * s) * r \in Nat /\ (n * s) * (r + 1) \in Nat /\ s * q \in Nat /\ s * (q + 1) \in Nat
    BY <1>3, <1>4, <1>5, ProductNat
  <2>2. n * s > 0
    BY <1>5
  <2>3. QED
    BY <1>3, <1>6, <1>7, <2>1, <2>2
<1>9. QED
  BY <1>1, <1>2, <1>4, <1>5, <1>8, QuotientUnique

LEMMA DigitOf ==
  ASSUME NEW n \in Nat, NEW d \in Nat, d > 0
  PROVE  n % d \in 0..(d - 1) /\ n = d * (n \div d) + (n % d)
OBVIOUS

\* Counting on carries when the digit was the last.
LEMMA NextQuotient ==
  ASSUME NEW n \in Nat, NEW d \in Nat, d > 0
  PROVE  /\ (n % d) + 1 < d => (n + 1) \div d = n \div d
         /\ (n % d) + 1 = d => (n + 1) \div d = n \div d + 1
<1>1. PICK q : q = n \div d
  OBVIOUS
<1>2. PICK r : r = n % d
  OBVIOUS
<1>3. q \in Nat /\ r \in 0..(d - 1) /\ n = d * q + r /\ d * q \in Nat
  BY <1>1, <1>2, Quotient, DigitOf, ProductNat
<1>4. d * (q + 1) = d * q + d /\ d * ((q + 1) + 1) = (d * q + d) + d
  BY <1>3
<1>5. ASSUME r + 1 < d PROVE (n + 1) \div d = q
  BY <1>3, <1>4, <1>5, QuotientUnique
<1>6. ASSUME r + 1 = d PROVE (n + 1) \div d = q + 1
  BY <1>3, <1>4, <1>6, QuotientUnique
<1>7. QED
  BY <1>1, <1>2, <1>5, <1>6

LEMMA Sizes ==
  /\ ENTRIES \in Nat /\ ENTRIES >= 2 /\ Pages \in Nat /\ Pages > 0
  /\ \A l \in LEVELS : Span(l) \in Nat /\ Span(l) > 0
  /\ Span(1) = 1 /\ \A l \in 1..3 : Span(l + 1) = ENTRIES * Span(l)
  /\ Pages = ENTRIES * Span(4)
  /\ LEVELS = {1, 2, 3, 4}
<1>1. ENTRIES \in Nat /\ ENTRIES >= 2
  BY PagingAssumption
<1>2. PICK m : m = ENTRIES * ENTRIES
  OBVIOUS
<1>3. m \in Nat /\ m > 0
  BY <1>1, <1>2
<1>4. PICK c : c = m * ENTRIES
  OBVIOUS
<1>5. c \in Nat /\ c > 0 /\ c = ENTRIES * m
  BY <1>1, <1>3, <1>4
<1>6. Span(1) = 1 /\ Span(2) = ENTRIES /\ Span(3) = m /\ Span(4) = c
  BY <1>2, <1>4 DEF Span
<1>7. LEVELS = {1, 2, 3, 4}
  BY DEF LEVELS
<1>8. Pages = ENTRIES * c /\ ENTRIES * c \in Nat /\ ENTRIES * c > 0
  BY <1>1, <1>5, <1>6 DEF Pages
<1>9. \A l \in 1..3 : Span(l + 1) = ENTRIES * Span(l)
  <2>1. Span(1 + 1) = ENTRIES * Span(1) /\ Span(2 + 1) = ENTRIES * Span(2) /\ Span(3 + 1) = ENTRIES * Span(3)
    BY <1>1, <1>2, <1>5, <1>6
  <2>2. \A l \in 1..3 : l = 1 \/ l = 2 \/ l = 3
    OBVIOUS
  <2>3. QED
    BY <2>1, <2>2
<1>10. QED
  BY <1>1, <1>3, <1>5, <1>6, <1>7, <1>8, <1>9

\* The index of a level is a digit of what is left of the page number; taking
\* it away leaves what the next level sees.
LEMMA Digits ==
  ASSUME NEW l \in LEVELS, NEW a \in Nat
  PROVE  /\ High(l, a) \in Nat /\ High(l + 1, a) \in Nat
         /\ calc_index(l, a) = High(l, a) % ENTRIES
         /\ High(l + 1, a) = High(l, a) \div ENTRIES
         /\ calc_index(l, a) \in Index
         /\ High(l, a) = ENTRIES * High(l + 1, a) + calc_index(l, a)
<1>1. l # 5 /\ Span(l) \in Nat /\ Span(l) > 0 /\ ENTRIES \in Nat /\ ENTRIES > 0
  BY Sizes
<1>2. High(l, a) = a \div Span(l) /\ calc_index(l, a) = High(l, a) % ENTRIES
  BY <1>1 DEF High, calc_index
<1>3. High(l + 1, a) = a \div (ENTRIES * Span(l))
  <2>1. CASE l = 4
    BY <2>1, Sizes DEF High
  <2>2. CASE l # 4
    <3>1. l \in 1..3 /\ l + 1 # 5
      BY <2>2, Sizes
    <3>2. QED
      BY <3>1, Sizes DEF High
  <2>3. QED
    BY <2>1, <2>2
<1>4. High(l + 1, a) = High(l, a) \div ENTRIES
  BY <1>1, <1>2, <1>3, QuotientTwice
<1>5. High(l, a) \in Nat
  BY <1>1, <1>2, Quotient
<1>6. High(l + 1, a) \in Nat
  BY <1>1, <1>4, <1>5, Quotient
<1>7. calc_index(l, a) \in Index /\ High(l, a) = ENTRIES * High(l + 1, a) + calc_index(l, a)
  <2>1. PICK h \in Nat : h = High(l, a)
    BY <1>5
  <2>2. h % ENTRIES \in 0..(ENTRIES - 1) /\ h = ENTRIES * (h \div ENTRIES) + (h % ENTRIES)
    BY <1>1, DigitOf
  <2>3. QED
    BY <1>2, <1>4, <2>1, <2>2 DEF Index
<1>8. QED
  BY <1>2, <1>4, <1>5, <1>6, <1>7

LEMMA PageNumbers == ASSUME NEW a \in Nat
               PROVE  High(1, a) = a /\ (a < Pages => High(5, a) = 0) /\ (High(5, a) = 0 => a < Pages)
<1>1. High(1, a) = a
  BY Sizes DEF High
<1>2. PICK q : q = a \div Pages
  OBVIOUS
<1>3. q \in Nat /\ Pages * q <= a /\ a < Pages * (q + 1)
  BY <1>2, Sizes, Quotient
<1>4. High(5, a) = q
  BY <1>2 DEF High
<1>5. q = 0 => a < Pages
  BY <1>3, Sizes
<1>6. ASSUME a < Pages PROVE q = 0
  BY <1>2, <1>6, Sizes, QuotientUnique
<1>7. QED
  BY <1>1, <1>4, <1>5, <1>6

\* Pages that agree above a level agree in all that level sees from there on.
LEMMA SameDigits ==
  ASSUME NEW l \in LEVELS, NEW a \in Nat, NEW b \in Nat
  PROVE  /\ High(l, a) = High(l, b) => calc_index(l, a) = calc_index(l, b) /\ High(l + 1, a) = High(l + 1, b)
         /\ calc_index(l, a) = calc_index(l, b) /\ High(l + 1, a) = High(l + 1, b) => High(l, a) = High(l, b)
<1>1. /\ calc_index(l, a) = High(l, a) % ENTRIES /\ calc_index(l, b) = High(l, b) % ENTRIES
      /\ High(l + 1, a) = High(l, a) \div ENTRIES /\ High(l + 1, b) = High(l, b) \div ENTRIES
      /\ High(l, a) = ENTRIES * High(l + 1, a) + calc_index(l, a)
      /\ High(l, b) = ENTRIES * High(l + 1, b) + calc_index(l, b)
  BY Digits
<1>2. QED
  BY <1>1

\* The next page: levels whose index was the last carry to the one above.
LEMMA Carry ==
  ASSUME NEW l \in LEVELS, NEW a \in Nat, High(l, a + 1) = High(l, a) + 1
  PROVE  /\ calc_index(l, a) + 1 < ENTRIES => High(l + 1, a + 1) = High(l + 1, a)
         /\ calc_index(l, a) + 1 = ENTRIES => High(l + 1, a + 1) = High(l + 1, a) + 1
<1>1. a + 1 \in Nat
  OBVIOUS
<1>2. /\ High(l, a) \in Nat /\ calc_index(l, a) = High(l, a) % ENTRIES
      /\ High(l + 1, a) = High(l, a) \div ENTRIES /\ High(l + 1, a + 1) = High(l, a + 1) \div ENTRIES
  BY <1>1, Digits
<1>3. ENTRIES \in Nat /\ ENTRIES > 0
  BY Sizes
<1>4. PICK n \in Nat : n = High(l, a)
  BY <1>2
<1>5. /\ (n % ENTRIES) + 1 < ENTRIES => (n + 1) \div ENTRIES = n \div ENTRIES
      /\ (n % ENTRIES) + 1 = ENTRIES => (n + 1) \div ENTRIES = n \div ENTRIES + 1
  BY <1>3, NextQuotient
<1>6. QED
  BY <1>2, <1>4, <1>5

-----------------------------------------------------------------------------
(* Walks                                                                   *)

LEMMA WalkDown ==
  ASSUME NEW tb, NEW p
  PROVE  Walk(tb, 4, p) = 1 /\ \A l \in 2..4 : Walk(tb, l - 1, p) = Below(tb, Walk(tb, l, p), l, p)
<1>1. Walk(tb, 4, p) = 1
  BY DEF Walk
<1>2. Walk(tb, 3, p) = Below(tb, Walk(tb, 4, p), 4, p)
  BY DEF Walk
<1>3. Walk(tb, 2, p) = Below(tb, Walk(tb, 3, p), 3, p)
  BY DEF Walk
<1>4. Walk(tb, 1, p) = Below(tb, Walk(tb, 2, p), 2, p)
  BY DEF Walk
<1>5. ASSUME NEW l \in 2..4 PROVE Walk(tb, l - 1, p) = Below(tb, Walk(tb, l, p), l, p)
  <2>1. (l = 2 /\ l - 1 = 1) \/ (l = 3 /\ l - 1 = 2) \/ (l = 4 /\ l - 1 = 3)
    OBVIOUS
  <2>2. QED
    BY <1>2, <1>3, <1>4, <2>1
<1>6. QED
  BY <1>1, <1>5

\* Pages that agree above a level have the same table there.
LEMMA SameWalk ==
  ASSUME NEW tb, NEW p \in Nat, NEW q \in Nat, NEW l \in LEVELS, High(l + 1, p) = High(l + 1, q)
  PROVE  Walk(tb, l, p) = Walk(tb, l, q)
<1>1. ASSUME NEW k \in 2..4,
             High(k + 1, p) = High(k + 1, q) => Walk(tb, k, p) = Walk(tb, k, q)
      PROVE  High(k, p) = High(k, q) => Walk(tb, k - 1, p) = Walk(tb, k - 1, q)
  <2> SUFFICES ASSUME High(k, p) = High(k, q) PROVE Walk(tb, k - 1, p) = Walk(tb, k - 1, q)
    OBVIOUS
  <2>1. k \in LEVELS
    BY DEF LEVELS
  <2>2. calc_index(k, p) = calc_index(k, q) /\ High(k + 1, p) = High(k + 1, q)
    BY <2>1, SameDigits
  <2>3. Walk(tb, k, p) = Walk(tb, k, q)
    BY <1>1, <2>2
  <2>4. QED
    BY <2>2, <2>3, WalkDown DEF Below
<1>2. High(5, p) = High(5, q) => Walk(tb, 4, p) = Walk(tb, 4, q)
  BY WalkDown
<1>3. High(4, p) = High(4, q) => Walk(tb, 3, p) = Walk(tb, 3, q)
  BY <1>1, <1>2
<1>4. High(3, p) = High(3, q) => Walk(tb, 2, p) = Walk(tb, 2, q)
  BY <1>1, <1>3
<1>5. High(2, p) = High(2, q) => Walk(tb, 1, p) = Walk(tb, 1, q)
  BY <1>1, <1>4
<1>6. (l = 1 /\ l + 1 = 2) \/ (l = 2 /\ l + 1 = 3) \/ (l = 3 /\ l + 1 = 4) \/ (l = 4 /\ l + 1 = 5)
  BY DEF LEVELS
<1>7. QED
  BY <1>2, <1>3, <1>4, <1>5, <1>6

\* What the MMU finds.
Leaf(tb, p) == IF Walk(tb, 1, p) = 0 THEN NoPage ELSE tb[Walk(tb, 1, p)][calc_index(1, p)]

LeafFound == \A p \in Page : Leads(table, p) => Translate(p) = Leaf(table, p)

LEMMA LeafIsTranslation == LeafFound
<1> SUFFICES ASSUME NEW p \in Page, Leads(table, p) PROVE Translate(p) = Leaf(table, p)
  BY DEF LeafFound
<1>1. /\ Walk(table, 4, p) = 1
      /\ Walk(table, 3, p) = Below(table, 1, 4, p)
      /\ Walk(table, 2, p) = Below(table, Walk(table, 3, p), 3, p)
      /\ Walk(table, 1, p) = Below(table, Walk(table, 2, p), 2, p)
  BY DEF Walk
<1>2. /\ is_present(table[1][calc_index(4, p)]) => Walk(table, 3, p) # 0
      /\ Walk(table, 3, p) # 0 /\ is_present(table[Walk(table, 3, p)][calc_index(3, p)]) => Walk(table, 2, p) # 0
      /\ Walk(table, 2, p) # 0 /\ is_present(table[Walk(table, 2, p)][calc_index(2, p)]) => Walk(table, 1, p) # 0
  <2>1. 4 \in 2..4 /\ 3 \in 2..4 /\ 2 \in 2..4 /\ 4 - 1 = 3 /\ 3 - 1 = 2 /\ 2 - 1 = 1
    OBVIOUS
  <2>2. QED
    BY <1>1, <2>1 DEF Leads
<1>3. Translate(p) = IF Walk(table, 3, p) = 0 THEN NoPage ELSE WalkFrom3(Walk(table, 3, p), p)
  BY <1>1, <1>2 DEF Translate, Below
<1>4. Walk(table, 3, p) # 0 =>
        WalkFrom3(Walk(table, 3, p), p) = IF Walk(table, 2, p) = 0 THEN NoPage ELSE WalkFrom2(Walk(table, 2, p), p)
  BY <1>1, <1>2 DEF WalkFrom3, Below
<1>5. Walk(table, 2, p) # 0 =>
        WalkFrom2(Walk(table, 2, p), p) = IF Walk(table, 1, p) = 0 THEN NoPage ELSE WalkFrom1(Walk(table, 1, p), p)
  BY <1>1, <1>2 DEF WalkFrom2, Below
<1>6. (Walk(table, 3, p) = 0 => Walk(table, 2, p) = 0) /\ (Walk(table, 2, p) = 0 => Walk(table, 1, p) = 0)
  BY <1>1 DEF Below
<1>7. WalkFrom1(Walk(table, 1, p), p) = table[Walk(table, 1, p)][calc_index(1, p)]
  BY DEF WalkFrom1
<1>8. QED
  BY <1>3, <1>4, <1>5, <1>6, <1>7 DEF Leaf

LEMMA LeafIsTranslationNext == LeafFound'
BY LeafIsTranslation, PTL

-----------------------------------------------------------------------------
(* Stores to the tables                                                    *)

LEMMA StoreEntry ==
  ASSUME table \in [TableId -> [Index -> Entry]], NEW t \in TableId, NEW i \in Index, NEW e \in Entry,
         table' = [table EXCEPT ![t] = [@ EXCEPT ![i] = e]]
  PROVE  /\ table' \in [TableId -> [Index -> Entry]]
         /\ \A u \in TableId, j \in Index :
              table'[u][j] = IF u = t /\ j = i THEN e ELSE table[u][j]
         /\ \A u \in TableId : u # t => table'[u] = table[u]
<1>1. table[t] \in [Index -> Entry]
  OBVIOUS
<1>2. [table[t] EXCEPT ![i] = e] \in [Index -> Entry]
  BY <1>1
<1>3. table'[t] = [table[t] EXCEPT ![i] = e] /\ \A u \in TableId : u # t => table'[u] = table[u]
  OBVIOUS
<1>4. \A u \in TableId, j \in Index : table'[u][j] = IF u = t /\ j = i THEN e ELSE table[u][j]
  BY <1>1, <1>3
<1>5. table' \in [TableId -> [Index -> Entry]]
  BY <1>2
<1>6. QED
  BY <1>3, <1>4, <1>5

LEMMA WalkTypes ==
  ASSUME TypeInv, TreeInv, NEW k \in LEVELS, NEW p \in Page
  PROVE  /\ p \in Nat /\ calc_index(k, p) \in Index
         /\ At(k, p) = 0 \/ (At(k, p) \in TableId /\ At(k, p) <= used)
<1>1. p \in Nat
  BY Sizes DEF Page
<1>2. At(k, p) \in 0..used /\ used \in TableId
  BY DEF TreeInv, TypeInv
<1>3. QED
  <2>1. calc_index(k, p) \in Index
    BY <1>1, Digits
  <2>2. MAX_TABLES \in Nat
    BY PagingAssumption
  <2>3. At(k, p) = 0 \/ (At(k, p) \in TableId /\ At(k, p) <= used)
    BY <1>2, <2>2 DEF TableId
  <2>4. QED
    BY <1>1, <2>1, <2>3

\* Entry i of table t, the one of level l for page a, gets the new table n.
Populates(l, a, t, i, n, e) ==
  /\ l \in 2..4 /\ a \in Page
  /\ t \in TableId /\ t = At(l, a)
  /\ i = calc_index(l, a) /\ ~is_present(table[t][i])
  /\ n \in TableId /\ n = used + 1
  /\ e \in Entry /\ e.to = n /\ is_present(e)
  /\ table' = [table EXCEPT ![t] = [@ EXCEPT ![i] = e]]

\* populate: the new table is the one of the level below, for the pages that
\* agree with a down to there; no other walk changes.
LEMMA PopulateWalk ==
  ASSUME TypeInv, TreeInv, NEW l, NEW a, NEW t, NEW i, NEW n, NEW e, Populates(l, a, t, i, n, e)
  PROVE  \A k \in LEVELS, p \in Page :
           Walk(table', k, p) = IF k = l - 1 /\ High(l, p) = High(l, a) THEN n ELSE At(k, p)
<1>0. /\ l \in 2..4 /\ a \in Page /\ t \in TableId /\ t = At(l, a)
      /\ i = calc_index(l, a) /\ ~is_present(table[t][i]) /\ n \in TableId /\ n = used + 1
      /\ e \in Entry /\ e.to = n /\ is_present(e)
      /\ table' = [table EXCEPT ![t] = [@ EXCEPT ![i] = e]]
  BY DEF Populates
<1> USE <1>0
<1>1. /\ l \in LEVELS /\ a \in Nat /\ i \in Index /\ used \in Nat
      /\ table \in [TableId -> [Index -> Entry]] /\ t <= used /\ t # 0 /\ n # 0
  <2>1. l \in LEVELS
    BY DEF LEVELS
  <2>2. t # 0 /\ n # 0 /\ used \in Nat
    BY DEF TableId, TypeInv
  <2>3. QED
    BY <2>1, <2>2, WalkTypes DEF TypeInv
<1>2. \A u \in TableId, j \in Index : table'[u][j] = IF u = t /\ j = i THEN e ELSE table[u][j]
  BY <1>1, StoreEntry
<1>3. table'[n] = Zeroed
  <2>1. n # t /\ n > used
    BY <1>1
  <2>2. table'[n] = table[n]
    BY <1>1, <2>1, StoreEntry
  <2>3. QED
    BY <2>1, <2>2 DEF TreeInv
<1>4. \A j \in Index : ~is_present(table'[n][j])
  BY <1>3 DEF Zeroed, is_present
<1>5. At(l - 1, a) = 0
  BY <1>1, WalkDown DEF At, Below
<1>6. ASSUME NEW p \in Page, NEW k \in 2..4,
             Walk(table', k, p) = IF k = l - 1 /\ High(l, p) = High(l, a) THEN n ELSE At(k, p)
      PROVE  Walk(table', k - 1, p) = IF k - 1 = l - 1 /\ High(l, p) = High(l, a) THEN n ELSE At(k - 1, p)
  <2>1. /\ k \in LEVELS /\ k - 1 \in LEVELS /\ p \in Nat /\ calc_index(k, p) \in Index
        /\ (At(k, p) = 0 \/ At(k, p) \in TableId)
    <3>1. k \in LEVELS /\ k - 1 \in LEVELS
      BY DEF LEVELS
    <3>2. QED
      BY <3>1, WalkTypes
  <2>2. /\ Walk(table', k - 1, p) = Below(table', Walk(table', k, p), k, p)
        /\ At(k - 1, p) = Below(table, At(k, p), k, p)
    BY WalkDown DEF At
  <2>3. ASSUME At(k, p) = t PROVE k = l /\ High(l + 1, p) = High(l + 1, a)
    BY <1>1, <2>1, <2>3 DEF TreeInv
  <2>4. CASE k = l - 1 /\ High(l, p) = High(l, a)
    <3>1. Walk(table', k - 1, p) = 0
      BY <1>1, <1>4, <1>6, <2>1, <2>2, <2>4 DEF Below
    <3>2. l = k + 1
      BY <2>4
    <3>3. At(k, p) = 0
      <4>1. At(k, p) = At(k, a)
        BY <1>1, <2>1, <2>4, <3>2, SameWalk DEF At
      <4>2. QED
        BY <1>5, <2>4, <4>1
    <3>4. At(k - 1, p) = 0 /\ k - 1 # l - 1
      BY <2>2, <2>4, <3>3 DEF Below
    <3>5. QED
      BY <3>1, <3>4
  <2>5. CASE ~(k = l - 1 /\ High(l, p) = High(l, a)) /\ k # l
    <3>1. Walk(table', k, p) = At(k, p) /\ At(k, p) # t /\ k - 1 # l - 1
      BY <1>6, <2>3, <2>5
    <3>2. Below(table', At(k, p), k, p) = Below(table, At(k, p), k, p)
      BY <1>2, <2>1, <3>1 DEF Below
    <3>3. QED
      BY <2>2, <3>1, <3>2
  <2>6. CASE k = l
    <3>1. Walk(table', k, p) = At(k, p)
      BY <1>6, <2>6
    <3>2. CASE High(l, p) = High(l, a)
      <4>1. calc_index(l, p) = i /\ High(l + 1, p) = High(l + 1, a)
        BY <1>1, <2>1, <3>2, SameDigits
      <4>2. At(k, p) = t
        BY <1>1, <2>1, <2>6, <4>1, SameWalk DEF At
      <4>3. Walk(table', k - 1, p) = n
        BY <1>1, <1>2, <2>2, <2>6, <3>1, <4>1, <4>2 DEF Below
      <4>4. QED
        BY <2>6, <3>2, <4>3
    <3>3. CASE High(l, p) # High(l, a)
      <4>1. ~(At(k, p) = t /\ calc_index(k, p) = i)
        BY <1>1, <2>1, <2>3, <2>6, <3>3, SameDigits
      <4>2. Below(table', At(k, p), k, p) = Below(table, At(k, p), k, p)
        BY <1>2, <2>1, <4>1 DEF Below
      <4>3. QED
        BY <2>2, <3>1, <3>3, <4>2
    <3>4. QED
      BY <3>2, <3>3
  <2>7. QED
    BY <2>4, <2>5, <2>6
<1>7. ASSUME NEW p \in Page, NEW k \in LEVELS
      PROVE  Walk(table', k, p) = IF k = l - 1 /\ High(l, p) = High(l, a) THEN n ELSE At(k, p)
  <2> DEFINE W(j) == Walk(table', j, p) = IF j = l - 1 /\ High(l, p) = High(l, a) THEN n ELSE At(j, p)
  <2>1. W(4)
    BY WalkDown DEF At
  <2>2. \A j \in 2..4 : W(j) => W(j - 1)
    BY <1>6
  <2> HIDE DEF W
  <2>3. W(3) /\ W(2) /\ W(1)
    <3>1. W(4 - 1)
      BY <2>1, <2>2
    <3>2. W(3)
      BY <3>1
    <3>3. W(3 - 1)
      BY <2>2, <3>2
    <3>4. W(2)
      BY <3>3
    <3>5. W(2 - 1)
      BY <2>2, <3>4
    <3>6. QED
      BY <3>2, <3>4, <3>5
  <2>4. W(k)
    BY <2>1, <2>3, Sizes
  <2>5. QED
    BY <2>4 DEF W
<1>8. QED
  BY <1>7

\* The tree has one more table, and the MMU finds what it found before.
LEMMA PopulateKeeps ==
  ASSUME TypeInv, TreeInv, NEW l, NEW a, NEW t, NEW i, NEW n, NEW e, Populates(l, a, t, i, n, e), used' = n
  PROVE  /\ table' \in [TableId -> [Index -> Entry]] /\ TreeInv'
         /\ \A p \in Page : Translate(p)' = Translate(p)
         /\ Walk(table', l - 1, a) = n
         /\ \A k \in LEVELS : k >= l => Walk(table', k, a) = At(k, a)
<1>3. \A k \in LEVELS, p \in Page :
        Walk(table', k, p) = IF k = l - 1 /\ High(l, p) = High(l, a) THEN n ELSE At(k, p)
  BY PopulateWalk
<1>0. /\ l \in 2..4 /\ a \in Page /\ t \in TableId /\ t = At(l, a)
      /\ i = calc_index(l, a) /\ ~is_present(table[t][i]) /\ n \in TableId /\ n = used + 1
      /\ e \in Entry /\ e.to = n /\ is_present(e)
      /\ table' = [table EXCEPT ![t] = [@ EXCEPT ![i] = e]]
  BY DEF Populates
<1> USE <1>0
<1>1. /\ l \in LEVELS /\ l - 1 \in LEVELS /\ a \in Nat /\ i \in Index /\ used \in Nat
      /\ table \in [TableId -> [Index -> Entry]] /\ t <= used /\ t # 0 /\ n # 0
  <2>1. l \in LEVELS /\ l - 1 \in LEVELS
    BY DEF LEVELS
  <2>2. t # 0 /\ n # 0 /\ used \in Nat
    BY DEF TableId, TypeInv
  <2>3. QED
    BY <2>1, <2>2, WalkTypes DEF TypeInv
<1>2. /\ table' \in [TableId -> [Index -> Entry]]
      /\ \A u \in TableId, j \in Index : table'[u][j] = IF u = t /\ j = i THEN e ELSE table[u][j]
      /\ \A u \in TableId : u # t => table'[u] = table[u]
  BY <1>1, StoreEntry
<1>4. ASSUME NEW u \in TableId, u > used PROVE table'[u] = Zeroed /\ u # t
  BY <1>1, <1>2, <1>4 DEF TreeInv
<1>5. \A k \in LEVELS, p \in Page : At(k, p) \in 0..used /\ At(k, p) # n
  BY <1>1 DEF TreeInv
<1>6. \A k, m \in LEVELS, p, q \in Page :
        At(k, p) = At(m, q) /\ At(k, p) # 0 => k = m /\ High(m + 1, p) = High(m + 1, q)
  BY DEF TreeInv
<1>7. n > used /\ table'[n] = Zeroed /\ \A j \in Index : ~is_present(table'[n][j])
  <2>1. n > used /\ table'[n] = Zeroed
    BY <1>1, <1>4
  <2>2. QED
    BY <2>1 DEF Zeroed, is_present
\* The entry the store changes is on the walks to the new table only.
<1>8. ASSUME NEW k \in LEVELS, NEW p \in Page, Walk(table', k, p) = t, calc_index(k, p) = i
      PROVE  k = l /\ High(l, p) = High(l, a)
  <2>1. At(k, p) = t
    BY <1>1, <1>3, <1>8
  <2>2. k = l /\ High(l + 1, p) = High(l + 1, a)
    BY <1>1, <1>6, <2>1
  <2>3. p \in Nat
    BY WalkTypes
  <2>4. QED
    BY <1>1, <1>8, <2>2, <2>3, SameDigits
<1>9. ASSUME NEW p \in Page PROVE Leads(table', p)
  <2> SUFFICES ASSUME NEW k \in 2..4, Walk(table', k, p) # 0,
                      is_present(table'[Walk(table', k, p)][calc_index(k, p)])
               PROVE  Walk(table', k - 1, p) # 0
    BY DEF Leads
  <2>1. k \in LEVELS /\ k - 1 \in LEVELS
    BY DEF LEVELS
  <2>2. calc_index(k, p) \in Index /\ (At(k, p) = 0 \/ At(k, p) \in TableId)
    BY <2>1, WalkTypes
  <2>3. Walk(table', k, p) # n
    BY <1>7, <2>2
  <2>4. Walk(table', k, p) = At(k, p) /\ At(k, p) # 0 /\ At(k, p) \in TableId
    BY <1>3, <2>1, <2>2, <2>3
  <2>5. CASE At(k, p) = t /\ calc_index(k, p) = i
    <3>1. k = l /\ High(l, p) = High(l, a)
      BY <1>8, <2>1, <2>4, <2>5
    <3>2. QED
      BY <1>1, <1>3, <2>1, <3>1
  <2>6. CASE ~(At(k, p) = t /\ calc_index(k, p) = i)
    <3>1. is_present(table[At(k, p)][calc_index(k, p)])
      BY <1>2, <2>2, <2>4, <2>6
    <3>2. At(k - 1, p) # 0
      BY <2>4, <3>1 DEF TreeInv, Leads, At
    <3>3. QED
      BY <1>1, <1>3, <2>1, <3>2
  <2>7. QED
    BY <2>5, <2>6
<1>10. TreeInv'
  <2>1. \A u \in TableId : u > used' => table'[u] = Zeroed
    BY <1>1, <1>4 DEF TableId
  <2>2. ASSUME NEW k \in LEVELS, NEW p \in Page PROVE Walk(table', k, p) \in 0..used'
    <3>1. Walk(table', k, p) = n \/ Walk(table', k, p) \in 0..used
      BY <1>3, <1>5
    <3>2. QED
      BY <1>1, <3>1
  <2>3. \A k, m \in LEVELS, p, q \in Page :
          Walk(table', k, p) = Walk(table', m, q) /\ Walk(table', k, p) # 0
            => k = m /\ High(m + 1, p) = High(m + 1, q)
    <3> TAKE k, m \in LEVELS, p, q \in Page
    <3> HAVE Walk(table', k, p) = Walk(table', m, q) /\ Walk(table', k, p) # 0
    <3>1. CASE Walk(table', k, p) = n
      <4>1. /\ k = l - 1 /\ High(l, p) = High(l, a)
            /\ m = l - 1 /\ High(l, q) = High(l, a)
        <5>1. /\ ~(k = l - 1 /\ High(l, p) = High(l, a)) => Walk(table', k, p) = At(k, p)
              /\ ~(m = l - 1 /\ High(l, q) = High(l, a)) => Walk(table', m, q) = At(m, q)
          BY <1>3
        <5>2. At(k, p) # n /\ At(m, q) # n
          BY <1>5
        <5>3. QED
          BY <3>1, <5>1, <5>2
      <4>2. QED
        BY <4>1
    <3>2. CASE Walk(table', k, p) # n
      <4>1. Walk(table', k, p) = At(k, p) /\ Walk(table', m, q) = At(m, q)
        BY <1>3, <3>2
      <4>2. At(k, p) = At(m, q) /\ At(k, p) # 0
        BY <4>1
      <4>3. QED
        BY <1>6, <4>2
    <3>3. QED
      BY <3>1, <3>2
  <2>4. \A p \in Page : Leads(table', p)
    BY <1>9, Zenon
  <2>5. \A k \in LEVELS, p \in Page : Walk(table', k, p) \in 0..used'
    BY <2>2, Zenon
  <2>6. QED
    BY <2>1, <2>3, <2>4, <2>5 DEF TreeInv, At
<1>11. ASSUME NEW p \in Page PROVE Translate(p)' = Translate(p)
  <2>1. Translate(p)' = Leaf(table', p) /\ Translate(p) = Leaf(table, p)
    BY <1>9, LeafIsTranslation, LeafIsTranslationNext DEF LeafFound, TreeInv
  <2>2. 1 \in LEVELS /\ calc_index(1, p) \in Index /\ p \in Nat /\ (At(1, p) = 0 \/ At(1, p) \in TableId)
    BY WalkTypes, Sizes
  <2>3. CASE 1 = l - 1 /\ High(l, p) = High(l, a)
    <3>1. Walk(table', 1, p) = n
      BY <1>3, <2>2, <2>3
    <3>2. Leaf(table', p) = NoPage
      BY <1>1, <1>7, <2>2, <3>1 DEF Leaf, Zeroed, NoPage
    <3>3. At(1, p) = At(1, a)
      <4>1. l = 1 + 1
        BY <2>3
      <4>2. QED
        BY <1>1, <2>2, <2>3, <4>1, SameWalk DEF At
    <3>4. At(1, a) = 0
      <4>1. At(l - 1, a) = 0
        BY <1>1, WalkDown DEF At, Below
      <4>2. QED
        BY <2>3, <4>1
    <3>5. QED
      BY <2>1, <3>2, <3>3, <3>4 DEF Leaf, At
  <2>4. CASE ~(1 = l - 1 /\ High(l, p) = High(l, a))
    <3>1. Walk(table', 1, p) = At(1, p)
      BY <1>3, <2>2, <2>4
    <3>2. ~(At(1, p) = t)
      <4>1. l # 1
        OBVIOUS
      <4>2. QED
        BY <1>1, <1>6, <2>2, <4>1
    <3>3. QED
      BY <1>2, <2>1, <2>2, <3>1, <3>2 DEF Leaf, At
  <2>5. QED
    BY <2>3, <2>4
<1>12. Walk(table', l - 1, a) = n /\ \A k \in LEVELS : k >= l => Walk(table', k, a) = At(k, a)
  <2>1. \A k \in LEVELS : k >= l => k # l - 1
    BY Sizes
  <2>2. QED
    BY <1>1, <1>3, <2>1
<1>13. QED
  BY <1>2, <1>10, <1>11, <1>12

\* Page a is entered in table t, its page table.
Sets(a, t, e) ==
  /\ a \in Page /\ t \in TableId /\ t = At(1, a) /\ e \in Entry
  /\ table' = [table EXCEPT ![t] = [@ EXCEPT ![calc_index(1, a)] = e]]

\* set_page: no walk changes, and no page but a is translated differently.
LEMMA SetPageWalk ==
  ASSUME TypeInv, TreeInv, NEW a, NEW t, NEW e, Sets(a, t, e), used' = used
  PROVE  /\ table' \in [TableId -> [Index -> Entry]] /\ TreeInv'
         /\ \A k \in LEVELS, p \in Page : Walk(table', k, p) = At(k, p)
         /\ \A p \in Page : Translate(p)' = IF p = a THEN e ELSE Translate(p)
<1>1. /\ a \in Page /\ t \in TableId /\ t = At(1, a) /\ e \in Entry
      /\ table' = [table EXCEPT ![t] = [@ EXCEPT ![calc_index(1, a)] = e]]
  BY DEF Sets
<1>2. 1 \in LEVELS /\ a \in Nat /\ calc_index(1, a) \in Index /\ t # 0 /\ t <= used /\ used \in Nat
  <2>1. 1 \in LEVELS /\ t # 0 /\ used \in Nat
    BY <1>1, Sizes DEF TableId, TypeInv
  <2>2. QED
    BY <1>1, <2>1, WalkTypes
<1>3. PICK i : i = calc_index(1, a)
  OBVIOUS
<1>4. /\ table' \in [TableId -> [Index -> Entry]]
      /\ \A u \in TableId, j \in Index : table'[u][j] = IF u = t /\ j = i THEN e ELSE table[u][j]
      /\ \A u \in TableId : u # t => table'[u] = table[u]
  <2>1. table \in [TableId -> [Index -> Entry]] /\ i \in Index /\ table' = [table EXCEPT ![t] = [@ EXCEPT ![i] = e]]
    BY <1>1, <1>2, <1>3 DEF TypeInv
  <2>2. t \in TableId /\ e \in Entry
    BY <1>1
  <2>3. QED
    BY <2>1, <2>2, StoreEntry
<1>5. \A k, m \in LEVELS, p, q \in Page :
        At(k, p) = At(m, q) /\ At(k, p) # 0 => k = m /\ High(m + 1, p) = High(m + 1, q)
  BY DEF TreeInv
<1>6. ASSUME NEW k \in 2..4, NEW p \in Page PROVE At(k, p) # t
  <2>1. k \in LEVELS /\ k # 1
    BY DEF LEVELS
  <2>2. QED
    BY <1>1, <1>2, <1>5, <2>1
<1>7. ASSUME NEW k \in 2..4, NEW p \in Page
      PROVE  /\ Walk(table', k, p) = At(k, p) => Walk(table', k - 1, p) = At(k - 1, p)
             /\ At(k, p) # 0 => table'[At(k, p)] = table[At(k, p)]
  <2>1. k \in LEVELS
    BY DEF LEVELS
  <2>2. At(k, p) = 0 \/ At(k, p) \in TableId
    BY <2>1, WalkTypes
  <2>3. At(k, p) # 0 => table'[At(k, p)] = table[At(k, p)]
    BY <1>4, <1>6, <2>2
  <2>4. Below(table', At(k, p), k, p) = Below(table, At(k, p), k, p)
    BY <2>3 DEF Below
  <2>5. QED
    BY <2>3, <2>4, WalkDown DEF At
<1>8. ASSUME NEW k \in LEVELS, NEW p \in Page PROVE Walk(table', k, p) = At(k, p)
  <2>1. Walk(table', 4, p) = At(4, p)
    BY WalkDown DEF At
  <2>2. Walk(table', 4 - 1, p) = At(4 - 1, p)
    BY <1>7, <2>1
  <2>3. Walk(table', 3, p) = At(3, p)
    BY <2>2
  <2>4. Walk(table', 3 - 1, p) = At(3 - 1, p)
    BY <1>7, <2>3
  <2>5. Walk(table', 2, p) = At(2, p)
    BY <2>4
  <2>6. Walk(table', 2 - 1, p) = At(2 - 1, p)
    BY <1>7, <2>5
  <2>7. QED
    BY <2>1, <2>3, <2>5, <2>6, Sizes
<1>9. ASSUME NEW p \in Page PROVE Leads(table', p)
  <2> SUFFICES ASSUME NEW k \in 2..4, Walk(table', k, p) # 0,
                      is_present(table'[Walk(table', k, p)][calc_index(k, p)])
               PROVE  Walk(table', k - 1, p) # 0
    BY DEF Leads
  <2>1. k \in LEVELS /\ k - 1 \in LEVELS
    BY DEF LEVELS
  <2>2. Walk(table', k, p) = At(k, p) /\ Walk(table', k - 1, p) = At(k - 1, p)
    BY <1>8, <2>1
  <2>3. is_present(table[At(k, p)][calc_index(k, p)])
    BY <1>7, <2>2
  <2>4. QED
    BY <2>2, <2>3 DEF TreeInv, Leads, At
<1>10. TreeInv'
  <2>1. \A u \in TableId : u > used' => table'[u] = Zeroed
    BY <1>2, <1>4 DEF TreeInv, TableId
  <2>2. \A k \in LEVELS, p \in Page : At(k, p)' = At(k, p)
    BY <1>8 DEF At
  <2>3. \A p \in Page : Leads(table', p)
    BY <1>9, Zenon
  <2>4. QED
    BY <2>1, <2>2, <2>3 DEF TreeInv
<1>11. ASSUME NEW p \in Page PROVE Translate(p)' = IF p = a THEN e ELSE Translate(p)
  <2>1. Translate(p)' = Leaf(table', p) /\ Translate(p) = Leaf(table, p)
    BY <1>9, LeafIsTranslation, LeafIsTranslationNext DEF LeafFound, TreeInv
  <2>2. calc_index(1, p) \in Index /\ p \in Nat /\ (At(1, p) = 0 \/ At(1, p) \in TableId)
    BY <1>2, WalkTypes
  <2>3. Walk(table', 1, p) = At(1, p)
    BY <1>2, <1>8
  <2>4. CASE p = a
    <3>1. Leaf(table', p) = table'[t][i]
      BY <1>1, <1>2, <1>3, <2>3, <2>4 DEF Leaf
    <3>2. table'[t][i] = e
      BY <1>1, <1>2, <1>3, <1>4
    <3>3. QED
      BY <2>1, <2>4, <3>1, <3>2
  <2>5. CASE p # a
    <3>1. ~(At(1, p) = t /\ calc_index(1, p) = i)
      <4> SUFFICES ASSUME At(1, p) = t, calc_index(1, p) = i PROVE FALSE
        OBVIOUS
      <4>1. High(1 + 1, p) = High(1 + 1, a)
        BY <1>1, <1>2, <1>5
      <4>2. High(1, p) = High(1, a)
        BY <1>2, <1>3, <2>2, <4>1, SameDigits
      <4>3. QED
        BY <1>2, <2>2, <2>5, <4>2, PageNumbers
    <3>2. At(1, p) # 0 => table'[At(1, p)][calc_index(1, p)] = table[At(1, p)][calc_index(1, p)]
      BY <1>4, <2>2, <3>1
    <3>3. Leaf(table', p) = Leaf(table, p)
      BY <2>3, <3>2 DEF Leaf, At
    <3>4. QED
      BY <2>1, <2>5, <3>3
  <2>6. QED
    BY <2>4, <2>5
<1>12. QED
  BY <1>4, <1>8, <1>10, <1>11

-----------------------------------------------------------------------------
(* The loops                                                               *)

\* From the page a to the next: the levels above the loop that goes on stay in
\* their tables; a loop goes on unless the range is done.
LEMMA NextLoop ==
  ASSUME NEW a \in Nat, NEW i, \A k \in LEVELS : i[k] = calc_index(k, a),
         a < call.end, call.end <= Pages, call.end \in Nat, NEW b, b = a + 1
  PROVE  /\ b = call.end => AfterPage(i, b) = 0
         /\ b # call.end => /\ AfterPage(i, b) \in LEVELS
                            /\ \A k \in LEVELS : k >= AfterPage(i, b) => High(k + 1, b) = High(k + 1, a)
<1>1. b \in Nat /\ LEVELS = {1, 2, 3, 4} /\ ENTRIES \in Nat /\ Pages \in Nat
  BY Sizes
<1>2. CASE b = call.end
  <2>1. \A k \in LEVELS : ~GoesOn(k, i, b)
    BY <1>1, <1>2 DEF GoesOn
  <2>2. QED
    BY <1>2, <2>1 DEF AfterPage
<1>3. CASE b # call.end
  <2>1. b < call.end /\ b < Pages /\ a < Pages
    BY <1>1, <1>3
  <2>2. ASSUME NEW k \in LEVELS
        PROVE  /\ GoesOn(k, i, b) <=> calc_index(k, a) + 1 < ENTRIES
               /\ ~GoesOn(k, i, b) => calc_index(k, a) + 1 = ENTRIES
    <3>1. calc_index(k, a) \in 0..(ENTRIES - 1) /\ i[k] = calc_index(k, a)
      BY Digits DEF Index
    <3>2. QED
      BY <1>1, <2>1, <3>1 DEF GoesOn
  <2>3. ASSUME NEW k \in LEVELS
        PROVE  /\ High(k, b) = High(k, a) + 1 /\ ~GoesOn(k, i, b) => High(k + 1, b) = High(k + 1, a) + 1
               /\ High(k, b) = High(k, a) + 1 /\ GoesOn(k, i, b) => High(k + 1, b) = High(k + 1, a)
               /\ High(k, b) = High(k, a) => High(k + 1, b) = High(k + 1, a)
    <3>1. High(k, b) = High(k, a) + 1 /\ ~GoesOn(k, i, b) => High(k + 1, b) = High(k + 1, a) + 1
      BY <2>2, Carry
    <3>2. High(k, b) = High(k, a) + 1 /\ GoesOn(k, i, b) => High(k + 1, b) = High(k + 1, a)
      BY <2>2, Carry
    <3>3. High(k, b) = High(k, a) => High(k + 1, b) = High(k + 1, a)
      BY <1>1, SameDigits
    <3>4. QED
      BY <3>1, <3>2, <3>3
  <2>4. High(1, b) = High(1, a) + 1 /\ High(5, b) = 0 /\ High(5, a) = 0
    BY <1>1, <2>1, PageNumbers
  <2>5. /\ ~GoesOn(1, i, b) => High(2, b) = High(2, a) + 1
        /\ GoesOn(1, i, b) => High(2, b) = High(2, a)
    <3>1. 1 \in LEVELS /\ 1 + 1 = 2
      BY <1>1
    <3>2. QED
      BY <2>3, <2>4, <3>1
  <2>6. /\ High(2, b) = High(2, a) + 1 /\ ~GoesOn(2, i, b) => High(3, b) = High(3, a) + 1
        /\ High(2, b) = High(2, a) + 1 /\ GoesOn(2, i, b) => High(3, b) = High(3, a)
        /\ High(2, b) = High(2, a) => High(3, b) = High(3, a)
    <3>1. 2 \in LEVELS /\ 2 + 1 = 3
      BY <1>1
    <3>2. QED
      BY <2>3, <3>1
  <2>7. /\ High(3, b) = High(3, a) + 1 /\ ~GoesOn(3, i, b) => High(4, b) = High(4, a) + 1
        /\ High(3, b) = High(3, a) + 1 /\ GoesOn(3, i, b) => High(4, b) = High(4, a)
        /\ High(3, b) = High(3, a) => High(4, b) = High(4, a)
    <3>1. 3 \in LEVELS /\ 3 + 1 = 4
      BY <1>1
    <3>2. QED
      BY <2>3, <3>1
  <2>8. High(4, b) = High(4, a) + 1 => GoesOn(4, i, b)
    <3>1. 4 \in LEVELS /\ 4 + 1 = 5
      BY <1>1
    <3>2. QED
      BY <2>3, <2>4, <3>1
  <2>9. \E l \in LEVELS : GoesOn(l, i, b) /\ \A k \in 1..(l - 1) : ~GoesOn(k, i, b)
    <3>1. CASE GoesOn(1, i, b)
      <4>1. 1 \in LEVELS /\ \A k \in 1..(1 - 1) : FALSE
        BY <1>1
      <4>2. QED
        BY <3>1, <4>1
    <3>2. CASE ~GoesOn(1, i, b) /\ GoesOn(2, i, b)
      <4>1. 2 \in LEVELS /\ \A k \in 1..(2 - 1) : k = 1
        BY <1>1
      <4>2. QED
        BY <3>2, <4>1
    <3>3. CASE ~GoesOn(1, i, b) /\ ~GoesOn(2, i, b) /\ GoesOn(3, i, b)
      <4>1. 3 \in LEVELS /\ \A k \in 1..(3 - 1) : k = 1 \/ k = 2
        BY <1>1
      <4>2. QED
        BY <3>3, <4>1
    <3>4. CASE ~GoesOn(1, i, b) /\ ~GoesOn(2, i, b) /\ ~GoesOn(3, i, b)
      <4>1. 4 \in LEVELS /\ \A k \in 1..(4 - 1) : k = 1 \/ k = 2 \/ k = 3
        BY <1>1
      <4>2. GoesOn(4, i, b)
        BY <2>5, <2>6, <2>7, <2>8, <3>4
      <4>3. QED
        BY <3>4, <4>1, <4>2
    <3>5. QED
      BY <3>1, <3>2, <3>3, <3>4
  <2>10. PICK l : l = AfterPage(i, b)
    OBVIOUS
  <2>11. l \in LEVELS /\ GoesOn(l, i, b) /\ \A k \in 1..(l - 1) : ~GoesOn(k, i, b)
    <3>1. l = CHOOSE m \in LEVELS : GoesOn(m, i, b) /\ \A k \in 1..(m - 1) : ~GoesOn(k, i, b)
      BY <2>9, <2>10 DEF AfterPage
    <3>2. QED
      BY <2>9, <3>1
  <2>12. High(5, b) = High(5, a)
    BY <2>4
  <2>13. ASSUME NEW k \in LEVELS, k >= l PROVE High(k + 1, b) = High(k + 1, a)
    <3>1. /\ k = 1 \/ k = 2 \/ k = 3 \/ k = 4
          /\ l = 1 \/ l = 2 \/ l = 3 \/ l = 4
      BY <1>1, <2>11
    <3>2. (l = 1 => GoesOn(1, i, b)) /\ (l = 2 => GoesOn(2, i, b)) /\ (l = 3 => GoesOn(3, i, b))
      BY <2>11
    <3>3. /\ l > 1 => ~GoesOn(1, i, b)
          /\ l > 2 => ~GoesOn(2, i, b)
          /\ l > 3 => ~GoesOn(3, i, b)
      BY <1>1, <2>11, <3>1
    <3>4. CASE k = 1
      <4>1. l = 1 /\ k + 1 = 2
        BY <2>13, <3>1, <3>4
      <4>2. QED
        BY <2>5, <3>2, <4>1
    <3>5. CASE k = 2
      <4>1. (l = 1 \/ l = 2) /\ k + 1 = 3
        BY <2>13, <3>1, <3>5
      <4>2. QED
        BY <2>5, <2>6, <3>2, <3>3, <4>1
    <3>6. CASE k = 3
      <4>1. (l = 1 \/ l = 2 \/ l = 3) /\ k + 1 = 4
        BY <2>13, <3>1, <3>6
      <4>2. QED
        BY <2>5, <2>6, <2>7, <3>2, <3>3, <4>1
    <3>7. CASE k = 4
      <4>1. k + 1 = 5
        BY <3>7
      <4>2. QED
        BY <2>12, <4>1
    <3>8. QED
      BY <3>1, <3>4, <3>5, <3>6, <3>7
  <2>14. QED
    BY <1>3, <2>10, <2>11, <2>13
<1>4. QED
  BY <1>2, <1>3

-----------------------------------------------------------------------------
(* The memory map                                                          *)

\* A set of numbers with a bound has a largest one.
LEMMA LargestOne ==
  ASSUME NEW m \in Nat, NEW S \in SUBSET (0..m), S # {}
  PROVE  \E e \in S : \A f \in S : f <= e
<1> DEFINE T == {n \in Nat : \E e \in S : n = m - e}
<1>1. T \subseteq Nat /\ T # {}
  <2>1. PICK e \in S : TRUE
    OBVIOUS
  <2>2. m - e \in Nat
    OBVIOUS
  <2>3. m - e \in T
    BY <2>2
  <2>4. QED
    BY <2>3
<1>2. IsWellFoundedOn(OpToRel(<, Nat), Nat)
  BY NatLessThanWellFounded
<1>3. PICK n \in T : \A k \in T : ~(<<k, n>> \in OpToRel(<, Nat))
  BY <1>1, <1>2, WFMin
<1>4. \A k \in T : ~(k < n)
  BY <1>1, <1>3 DEF OpToRel
<1>5. PICK e \in S : n = m - e
  OBVIOUS
<1>6. ASSUME NEW f \in S PROVE f <= e
  <2>1. m - f \in T
    OBVIOUS
  <2>2. QED
    BY <1>4, <1>5, <2>1
<1>7. QED
  BY <1>6

LEMMA ElementType == ASSUME NEW T, NEW s \in Seq(T), NEW i \in 1..Len(s) PROVE s[i] \in T
OBVIOUS

\* init_paging maps at least one page, none that the table cannot describe, and
\* all of the heap's memory.
LEMMA MemoryEnd ==
  /\ end_of_mem \in 1..Pages
  /\ \A p \in Conventional : p \in Page /\ p < end_of_mem
<1> DEFINE Descriptor == [start : Page, pages : Nat, type : STRING]
<1>0. Pages \in Nat
  BY Sizes
<1>1. ASSUME NEW i \in 1..Len(MemoryMap)
      PROVE  \E s \in Page, n \in Nat :
                MemoryMap[i].start = s /\ MemoryMap[i].pages = n /\ s + n \in 0..Pages
  <2>1. MemoryMap \in Seq(Descriptor)
    BY PagingAssumption, Zenon
  <2>2. MemoryMap[i] \in Descriptor
    <3> HIDE DEF Descriptor
    <3> QED
      BY <2>1, ElementType
  <2>3. PICK s \in Page, n \in Nat : MemoryMap[i].start = s /\ MemoryMap[i].pages = n
    BY <2>2, Zenon
  <2>4. MemoryMap[i].start + MemoryMap[i].pages <= Pages
    BY PagingAssumption, Zenon
  <2>5. s + n <= Pages
    BY <2>3, <2>4
  <2>6. s + n \in 0..Pages
    BY <1>0, <2>5 DEF Page
  <2>7. QED
    BY <2>3, <2>6
<1>2. LOW_MEMORY \in 1..Pages /\ LOW_MEMORY \in Ends
  <2>1. LOW_MEMORY \in 1..Pages
    BY PagingAssumption, Zenon
  <2>2. QED
    BY <2>1 DEF Ends
<1>3. Ends \subseteq 0..Pages
  <2> SUFFICES ASSUME NEW e \in Ends PROVE e \in 0..Pages
    OBVIOUS
  <2>1. CASE e = LOW_MEMORY
    BY <1>0, <1>2, <2>1
  <2>2. CASE e # LOW_MEMORY
    <3>1. PICK i \in 1..Len(MemoryMap) : e = MemoryMap[i].start + MemoryMap[i].pages
      BY <2>2, Zenon DEF Ends
    <3>2. QED
      BY <1>1, <3>1
  <2>3. QED
    BY <2>1, <2>2
<1>4. \E e \in Ends : \A f \in Ends : f <= e
  BY <1>0, <1>2, <1>3, LargestOne
<1>5. end_of_mem \in Ends /\ \A f \in Ends : f <= end_of_mem
  BY <1>4 DEF end_of_mem
<1>6. end_of_mem \in 1..Pages
  BY <1>0, <1>2, <1>3, <1>5
<1>7. ASSUME NEW p \in Conventional PROVE p \in Page /\ p < end_of_mem
  <2>1. p \in Page
    BY DEF Conventional
  <2>2. PICK i \in 1..Len(MemoryMap) :
          /\ MemoryMap[i].type = "CONVENTIONAL_MEMORY"
          /\ p \in MemoryMap[i].start..(MemoryMap[i].start + MemoryMap[i].pages - 1)
    BY DEF Conventional
  <2>3. MemoryMap[i].start + MemoryMap[i].pages \in Ends
    BY <2>2 DEF Ends, Usable
  <2>4. PICK s \in Page, n \in Nat : MemoryMap[i].start = s /\ MemoryMap[i].pages = n
    BY <1>1
  <2>5. p \in s..(s + n - 1) /\ s + n \in Ends
    BY <2>2, <2>3, <2>4
  <2>6. p < s + n /\ s \in Nat /\ p \in Nat
    BY <1>0, <2>4, <2>5 DEF Page
  <2>7. s + n <= end_of_mem
    BY <1>5, <2>5, Zenon
  <2>8. p < end_of_mem
    <3>1. end_of_mem \in Nat
      BY <1>0, <1>6
    <3>2. QED
      BY <2>4, <2>6, <2>7, <3>1
  <2>9. QED
    BY <2>1, <2>8
<1>8. QED
  BY <1>6, <1>7

-----------------------------------------------------------------------------
(* The steps                                                               *)

LEMMA SameTables ==
  ASSUME UNCHANGED table
  PROVE  /\ UNCHANGED used /\ TreeInv => TreeInv'
         /\ \A p : Translate(p)' = Translate(p)
         /\ \A k, p : At(k, p)' = At(k, p)
<1>1. \A p : Translate(p)' = Translate(p)
  BY DEF Translate, WalkFrom3, WalkFrom2, WalkFrom1
<1>2. \A k, p : At(k, p)' = At(k, p)
  BY DEF At
<1>3. UNCHANGED used /\ TreeInv => TreeInv'
  BY <1>2 DEF TreeInv
<1>4. QED
  BY <1>1, <1>2, <1>3

LEMMA InitHolds == Init => PagingInv
<1> SUFFICES ASSUME Init PROVE PagingInv
  OBVIOUS
<1>1. /\ pc = "unmap" /\ level = 4 /\ used = 1 /\ cr3 = "uefi" /\ addr = 0
      /\ table = [t \in TableId |-> Zeroed]
      /\ call = [start |-> 0, end |-> end_of_mem, attr |-> "ReadWriteKernel"]
      /\ at = [l \in LEVELS |-> 1] /\ idx = [l \in LEVELS |-> 0]
      /\ prior = [p \in Page |-> NoPage]
  BY DEF Init
<1>2. MAX_TABLES \in Nat /\ 1 \in TableId /\ ENTRIES \in Nat /\ 0 \in Index
  BY PagingAssumption DEF TableId, Index
<1>3. end_of_mem \in 1..Pages /\ Pages \in Nat
  BY MemoryEnd, Sizes
<1>4. call.start = 0 /\ call.end = end_of_mem /\ call.attr = "ReadWriteKernel"
  BY <1>1
<1>5. \A t \in TableId, j \in Index : table[t][j] = NoPage
  BY <1>1 DEF Zeroed, NoPage
<1>6. TypeInv
  <2>1. table \in [TableId -> [Index -> Entry]]
    <3>1. Zeroed \in [Index -> Entry]
      BY DEF Zeroed, Entry, Attr
    <3>2. QED
      BY <1>1, <3>1
  <2>2. call \in [start : Nat, end : Nat, attr : Attr]
    BY <1>1, <1>3 DEF Attr
  <2>3. at \in [LEVELS -> TableId] /\ idx \in [LEVELS -> Index]
    BY <1>1, <1>2
  <2>4. level \in 0..4 /\ used \in TableId /\ addr \in Nat
    BY <1>1, <1>2
  <2>5. QED
    BY <1>1, <2>1, <2>2, <2>3, <2>4 DEF TypeInv
<1>7. ASSUME NEW p \in Page
      PROVE  /\ Walk(table, 4, p) = 1 /\ Walk(table, 3, p) = 0 /\ Walk(table, 2, p) = 0 /\ Walk(table, 1, p) = 0
             /\ ~is_present(table[1][calc_index(4, p)]) /\ Leads(table, p) /\ Translate(p) = NoPage
             /\ p \in Nat /\ High(5, p) = 0
  <2>1. p \in Nat /\ High(5, p) = 0
    <3>1. p \in Nat /\ p < Pages
      BY <1>3 DEF Page
    <3>2. QED
      BY <3>1, PageNumbers
  <2>2. calc_index(4, p) \in Index
    BY <2>1, Digits, Sizes
  <2>3. ~is_present(table[1][calc_index(4, p)])
    BY <1>2, <1>5, <2>2 DEF is_present, NoPage
  <2>4. Walk(table, 4, p) = 1 /\ Walk(table, 3, p) = 0 /\ Walk(table, 2, p) = 0 /\ Walk(table, 1, p) = 0
    BY <2>3 DEF Walk, Below
  <2>5. Leads(table, p)
    <3>1. ASSUME NEW l \in 2..4 PROVE l = 4 \/ Walk(table, l, p) = 0
      <4>1. l = 2 \/ l = 3 \/ l = 4
        OBVIOUS
      <4>2. QED
        BY <2>4, <4>1
    <3>2. QED
      BY <2>3, <2>4, <3>1 DEF Leads
  <2>6. Translate(p) = NoPage
    BY <2>3 DEF Translate
  <2>7. QED
    BY <2>1, <2>3, <2>4, <2>5, <2>6
<1>8. ASSUME NEW k \in LEVELS, NEW p \in Page PROVE At(k, p) = IF k = 4 THEN 1 ELSE 0
  <2>1. k = 1 \/ k = 2 \/ k = 3 \/ k = 4
    BY Sizes
  <2>2. QED
    BY <1>7, <2>1 DEF At
<1>9. TreeInv
  <2>1. \A t \in TableId : t > used => table[t] = Zeroed
    BY <1>1
  <2>2. \A l \in LEVELS, p \in Page : At(l, p) \in 0..used
    BY <1>1, <1>8
  <2>3. \A p \in Page : Leads(table, p)
    BY <1>7
  <2>4. \A k, l \in LEVELS, p, q \in Page :
          At(k, p) = At(l, q) /\ At(k, p) # 0 => k = l /\ High(l + 1, p) = High(l + 1, q)
    <3> TAKE k, l \in LEVELS, p, q \in Page
    <3> HAVE At(k, p) = At(l, q) /\ At(k, p) # 0
    <3>1. k = 4 /\ l = 4
      BY <1>8
    <3>2. l + 1 = 5 /\ High(5, p) = 0 /\ High(5, q) = 0
      BY <1>7, <3>1
    <3>3. QED
      BY <3>1, <3>2
  <2>5. QED
    BY <2>1, <2>2, <2>3, <2>4 DEF TreeInv
<1>10. LoopInv
  <2>1. at[4] = 1 /\ 4 \in LEVELS
    BY <1>1, Sizes
  <2>2. \A k \in LEVELS : k >= level => k = 4
    BY <1>1, Sizes
  <2>3. At(4, addr) = 1
    BY DEF At, Walk
  <2>4. \A k \in LEVELS : ~(k > level)
    BY <1>1, Sizes
  <2>5. QED
    BY <1>1, <1>3, <1>4, <2>1, <2>2, <2>3, <2>4 DEF LoopInv
<1>11. MapInv
  <2>1. \A p \in Page : p \notin call.start..(addr - 1)
    BY <1>1, <1>4
  <2>2. QED
    BY <1>1, <1>7, <2>1 DEF MapInv
<1>12. PhaseInv /\ KernelMap /\ NoStaleTlb
  BY <1>1 DEF PhaseInv, KernelMap, NoStaleTlb
<1>13. QED
  BY <1>6, <1>9, <1>10, <1>11, <1>12 DEF PagingInv

\* A store that changes no translation, in the middle of a call.
LEMMA QuietStore ==
  ASSUME PagingInv, level # 0, level' # 0, UNCHANGED <<pc, cr3, tlb, call, addr, prior>>,
         \A p \in Page : Translate(p)' = Translate(p)
  PROVE  MapInv' /\ PhaseInv' /\ KernelMap' /\ NoStaleTlb'
<1>1. pc # "idle"
  BY DEF PagingInv, PhaseInv
<1>2. NoStaleTlb'
  BY <1>1 DEF NoStaleTlb
<1>3. PhaseInv'
  BY <1>1 DEF PagingInv, PhaseInv
<1>4. MapInv'
  BY DEF PagingInv, MapInv
<1>5. KernelMap'
  <2>1. 0 \in Page /\ \A p \in Conventional : p \in Page
    BY MemoryEnd, Sizes DEF Page
  <2>2. QED
    BY <2>1 DEF PagingInv, KernelMap
<1>6. QED
  BY <1>2, <1>3, <1>4, <1>5

\* What a loop of create_mapping knows at its head.
LEMMA InTheLoop ==
  ASSUME PagingInv, level # 0
  PROVE  /\ addr \in Page /\ addr \in Nat /\ addr < call.end /\ call.end \in Nat /\ call.end <= Pages
         /\ at[level] \in TableId /\ at[level] = At(level, addr) /\ level \in LEVELS
<1>1. /\ level \in 0..4 /\ addr \in Nat /\ call.end \in Nat /\ at \in [LEVELS -> TableId]
  BY DEF PagingInv, TypeInv
<1>2. /\ addr <= call.end /\ call.end <= Pages /\ addr # call.end
      /\ \A k \in LEVELS : k >= level => at[k] = At(k, addr)
  BY DEF PagingInv, LoopInv
<1>3. level \in LEVELS
  BY <1>1 DEF LEVELS
<1>4. addr < call.end /\ addr \in Page
  BY <1>1, <1>2, Sizes DEF Page
<1>5. at[level] \in TableId
  BY <1>1, <1>3
<1>6. at[level] = At(level, addr)
  BY <1>1, <1>2, <1>3
<1>7. QED
  BY <1>1, <1>2, <1>3, <1>4, <1>5, <1>6

LEMMA DescendKeeps ==
  ASSUME PagingInv, NEW l \in LEVELS, Descend(l)
  PROVE  PagingInv'
<1> DEFINE i == calc_index(l, addr)
           e == table[at[l]][i]
           n == [to |-> used + 1, attr |-> "ReadWriteKernel"]
<1>1. /\ level = l /\ l \in 2..4 /\ level' = l - 1 /\ level' \in 1..3 /\ level # 0 /\ level' # 0
      /\ UNCHANGED <<pc, cr3, tlb, call, addr, prior>>
  BY Sizes DEF Descend
<1>2. /\ addr \in Page /\ addr \in Nat /\ addr < call.end /\ call.end \in Nat
      /\ at[l] \in TableId /\ at[l] = At(l, addr)
  BY <1>1, InTheLoop
<1>3. i \in Index
  BY <1>2, Digits
<1>4. TypeInv /\ TreeInv /\ LoopInv
  BY DEF PagingInv
<1>5. at \in [LEVELS -> TableId] /\ idx \in [LEVELS -> Index] /\ used \in TableId
  BY <1>4 DEF TypeInv
<1>6. idx' = [idx EXCEPT ![l] = i]
  BY DEF Descend
\* what both cases have to show
<1>7. ASSUME NEW t \in TableId, at' = [at EXCEPT ![l - 1] = t], used' \in TableId,
             table' \in [TableId -> [Index -> Entry]], TreeInv',
             \A p \in Page : Translate(p)' = Translate(p),
             Walk(table', l - 1, addr) = t,
             \A k \in LEVELS : k >= l => Walk(table', k, addr) = At(k, addr)
      PROVE  PagingInv'
  <2>1. MapInv' /\ PhaseInv' /\ KernelMap' /\ NoStaleTlb'
    BY <1>1, <1>7, QuietStore
  <2>2. at' \in [LEVELS -> TableId] /\ idx' \in [LEVELS -> Index]
    BY <1>3, <1>5, <1>6, <1>7
  <2>3. TypeInv'
    <3>1. level' \in 0..4
      BY <1>1
    <3>2. QED
      BY <1>1, <1>4, <1>7, <2>2, <3>1 DEF TypeInv
  <2>4. LoopInv'
    <3>1. at'[4] = 1
      BY <1>1, <1>4, <1>5, <1>7, Sizes DEF LoopInv
    <3>2. /\ call'.start <= addr' /\ addr' <= call'.end /\ call'.end <= Pages
          /\ level' = 0 <=> addr' = call'.end
      BY <1>1, <1>2, <1>4 DEF LoopInv
    <3>3. ASSUME NEW k \in LEVELS, k >= l - 1 PROVE at'[k] = Walk(table', k, addr)
      <4>1. CASE k = l - 1
        BY <1>5, <1>7, <4>1
      <4>2. CASE k # l - 1
        <5>1. k >= l
          BY <1>1, <3>3, <4>2, Sizes
        <5>2. at[k] = At(k, addr)
          BY <1>1, <1>4, <5>1 DEF LoopInv
        <5>3. at'[k] = at[k]
          BY <1>5, <1>7, <4>2
        <5>4. QED
          BY <1>7, <5>1, <5>2, <5>3
      <4>3. QED
        BY <4>1, <4>2
    <3>4. ASSUME NEW k \in LEVELS, k > l - 1 PROVE idx'[k] = calc_index(k, addr)
      <4>1. CASE k = l
        BY <1>5, <1>6, <4>1
      <4>2. CASE k # l
        <5>1. k > l
          BY <1>1, <3>4, <4>2, Sizes
        <5>2. idx[k] = calc_index(k, addr)
          BY <1>1, <1>4, <5>1 DEF LoopInv
        <5>3. QED
          BY <1>5, <1>6, <4>2, <5>2
      <4>3. QED
        BY <4>1, <4>2
    <3>5. \A k \in LEVELS : k >= level' => at'[k] = At(k, addr)'
      BY <1>1, <3>3 DEF At
    <3>6. QED
      BY <1>1, <3>1, <3>2, <3>4, <3>5 DEF LoopInv
  <2>5. QED
    BY <1>7, <2>1, <2>3, <2>4 DEF PagingInv
<1>8. CASE is_present(e)
  <2>1. at' = [at EXCEPT ![l - 1] = e.to] /\ UNCHANGED <<table, used>>
    BY <1>8 DEF Descend
  <2>2. At(l - 1, addr) = e.to /\ At(l - 1, addr) # 0
    <3>1. at[l] # 0
      BY <1>2 DEF TableId
    <3>2. At(l - 1, addr) = Below(table, at[l], l, addr)
      BY <1>1, <1>2, WalkDown DEF At
    <3>3. Leads(table, addr)
      BY <1>2, <1>4 DEF TreeInv
    <3>4. QED
      BY <1>1, <1>2, <1>8, <3>1, <3>2, <3>3 DEF Leads, Below, At
  <2>3. l - 1 \in LEVELS
    BY <1>1, Sizes
  <2>4. e.to \in TableId
    BY <1>2, <1>4, <2>2, <2>3, WalkTypes
  <2>5. TreeInv' /\ \A p \in Page : Translate(p)' = Translate(p)
    BY <1>4, <2>1, SameTables
  <2>6. table' \in [TableId -> [Index -> Entry]] /\ used' \in TableId
    BY <1>4, <2>1 DEF TypeInv
  <2>7. Walk(table', l - 1, addr) = e.to /\ \A k \in LEVELS : k >= l => Walk(table', k, addr) = At(k, addr)
    BY <2>1, <2>2 DEF At
  <2>8. QED
    BY <1>7, <2>1, <2>4, <2>5, <2>6, <2>7
<1>9. CASE ~is_present(e)
  <2>1. /\ used + 1 \in TableId /\ used' = used + 1
        /\ table' = [table EXCEPT ![at[l]] = [@ EXCEPT ![i] = n]]
        /\ at' = [at EXCEPT ![l - 1] = used + 1]
    BY <1>9 DEF Descend
  <2>2. n \in Entry /\ n.to = used + 1 /\ is_present(n)
    BY <2>1 DEF Entry, Attr, is_present, TableId
  <2>3. Populates(l, addr, at[l], i, used + 1, n)
    BY <1>1, <1>2, <1>9, <2>1, <2>2 DEF Populates
  <2>4. /\ table' \in [TableId -> [Index -> Entry]] /\ TreeInv'
        /\ \A p \in Page : Translate(p)' = Translate(p)
        /\ Walk(table', l - 1, addr) = used + 1
        /\ \A k \in LEVELS : k >= l => Walk(table', k, addr) = At(k, addr)
    BY <1>4, <2>1, <2>3, PopulateKeeps
  <2>5. QED
    BY <1>7, <2>1, <2>4
<1>10. QED
  BY <1>8, <1>9

LEMMA SetPageKeeps ==
  ASSUME PagingInv, SetPage
  PROVE  PagingInv'
<1> DEFINE i == [idx EXCEPT ![1] = calc_index(1, addr)]
           e == [to |-> addr, attr |-> call.attr]
<1>1. /\ level = 1 /\ level # 0 /\ addr' = addr + 1 /\ idx' = i /\ level' = AfterPage(i, addr + 1)
      /\ UNCHANGED <<pc, used, cr3, tlb, call, at, prior>>
  BY DEF SetPage
<1>2. /\ addr \in Page /\ addr \in Nat /\ addr < call.end /\ call.end \in Nat /\ call.end <= Pages
      /\ at[1] \in TableId /\ at[1] = At(1, addr)
  BY <1>1, InTheLoop
<1>3. TypeInv /\ TreeInv /\ LoopInv /\ MapInv /\ PhaseInv /\ KernelMap
  BY DEF PagingInv
<1>4. idx \in [LEVELS -> Index] /\ call \in [start : Nat, end : Nat, attr : Attr] /\ call.start \in Nat /\ call.attr \in Attr
  BY <1>3 DEF TypeInv
<1>5. 1 \in LEVELS /\ \A k \in LEVELS : k # 1 => k > 1
  BY Sizes
<1>6. calc_index(1, addr) \in Index
  BY <1>2, <1>5, Digits
<1>7. i \in [LEVELS -> Index] /\ \A k \in LEVELS : i[k] = calc_index(k, addr)
  <2>1. \A k \in LEVELS : k # 1 => idx[k] = calc_index(k, addr)
    BY <1>1, <1>3, <1>5 DEF LoopInv
  <2>2. QED
    BY <1>4, <1>5, <1>6, <2>1
<1>8. Sets(addr, at[1], e)
  <2>1. e \in Entry
    BY <1>2, <1>4 DEF Entry
  <2>2. i[1] = calc_index(1, addr)
    BY <1>5, <1>7
  <2>3. table' = [table EXCEPT ![at[1]] = [@ EXCEPT ![calc_index(1, addr)] = e]]
    BY <2>2 DEF SetPage
  <2>4. QED
    BY <1>2, <2>1, <2>3 DEF Sets
<1>9. /\ table' \in [TableId -> [Index -> Entry]] /\ TreeInv'
      /\ \A k \in LEVELS, p \in Page : Walk(table', k, p) = At(k, p)
      /\ \A p \in Page : Translate(p)' = IF p = addr THEN e ELSE Translate(p)
  <2> HIDE DEF e
  <2> QED
    BY <1>1, <1>3, <1>8, SetPageWalk
<1>10. /\ addr' = call.end => level' = 0
       /\ addr' # call.end => /\ level' \in LEVELS
                              /\ \A k \in LEVELS : k >= level' => High(k + 1, addr') = High(k + 1, addr)
  <2> HIDE DEF i
  <2>1. PICK b : b = addr + 1
    OBVIOUS
  <2>2. /\ b = call.end => AfterPage(i, b) = 0
        /\ b # call.end => /\ AfterPage(i, b) \in LEVELS
                           /\ \A k \in LEVELS : k >= AfterPage(i, b) => High(k + 1, b) = High(k + 1, addr)
    BY <1>2, <1>7, <2>1, NextLoop
  <2>3. QED
    BY <1>1, <2>1, <2>2
<1>11. TypeInv'
  <2>1. level' \in 0..4 /\ addr' \in Nat
    BY <1>1, <1>2, <1>10, Sizes
  <2>2. idx' \in [LEVELS -> Index]
    BY <1>1, <1>7
  <2>3. QED
    BY <1>1, <1>3, <1>9, <2>1, <2>2 DEF TypeInv
<1>12. call.start <= addr
  BY <1>3 DEF LoopInv
<1>13. LoopInv'
  <2>1. /\ at'[4] = 1 /\ call'.start <= addr' /\ addr' <= call'.end /\ call'.end <= Pages
    BY <1>1, <1>2, <1>3, <1>4 DEF LoopInv
  <2>2. level' = 0 <=> addr' = call'.end
    BY <1>1, <1>10, Sizes
  <2>3. ASSUME level' # 0, NEW k \in LEVELS, k >= level' PROVE at'[k] = At(k, addr)'
    <3>1. level' \in LEVELS /\ High(k + 1, addr') = High(k + 1, addr)
      BY <1>1, <1>10, <2>2, <2>3
    <3>2. addr' \in Nat /\ addr' < Pages
      <4>1. addr + 1 # call.end
        BY <1>1, <2>2, <2>3
      <4>2. Pages \in Nat
        BY Sizes
      <4>3. addr + 1 < Pages
        BY <1>2, <4>1, <4>2
      <4>4. QED
        BY <1>1, <1>2, <4>3
    <3>3. addr' \in Page
      BY <3>2, Sizes DEF Page
    <3>4. Walk(table', k, addr') = Walk(table', k, addr)
      BY <1>2, <3>1, <3>2, SameWalk
    <3>5. at[k] = At(k, addr)
      BY <1>1, <1>3, Sizes DEF LoopInv
    <3>6. QED
      BY <1>1, <1>2, <1>9, <3>4, <3>5 DEF At
  <2>4. ASSUME level' # 0, NEW k \in LEVELS, k > level' PROVE idx'[k] = calc_index(k, addr')
    <3>1. PICK j \in LEVELS : j = k - 1
      <4>1. level' \in LEVELS
        BY <1>1, <1>10, <2>2, <2>4
      <4>2. k - 1 \in LEVELS
        BY <2>4, <4>1, Sizes
      <4>3. QED
        BY <4>2
    <3>2. level' \in LEVELS /\ j + 1 = k /\ j >= level'
      BY <1>1, <1>10, <2>2, <2>4, <3>1, Sizes
    <3>3. High(j + 1, addr') = High(j + 1, addr)
      BY <1>1, <1>10, <2>2, <2>4, <3>2
    <3>4. High(k, addr') = High(k, addr)
      BY <3>2, <3>3
    <3>5. addr' \in Nat
      BY <1>1, <1>2
    <3>6. calc_index(k, addr') = calc_index(k, addr)
      BY <1>2, <3>4, <3>5, SameDigits
    <3>7. QED
      BY <1>1, <1>7, <3>6
  <2>5. QED
    BY <2>1, <2>2, <2>3, <2>4 DEF LoopInv
<1>14. MapInv'
  <2> SUFFICES ASSUME NEW p \in Page
               PROVE  Translate(p)' = IF p \in call.start..(addr' - 1)
                                      THEN [to |-> p, attr |-> call.attr] ELSE prior[p]
    BY <1>1 DEF MapInv
  <2>1. p \in Nat
    BY Sizes DEF Page
  <2>2. CASE p = addr
    <3>1. p \in call.start..(addr' - 1)
      BY <1>1, <1>2, <1>4, <1>12, <2>2
    <3>2. QED
      BY <1>9, <2>2, <3>1
  <2>3. CASE p # addr
    <3>1. p \in call.start..(addr' - 1) <=> p \in call.start..(addr - 1)
      BY <1>1, <1>2, <1>4, <2>1, <2>3
    <3>2. Translate(p)' = Translate(p)
      BY <1>9, <2>3
    <3>3. QED
      BY <1>3, <3>1, <3>2 DEF MapInv
  <2>4. QED
    BY <2>2, <2>3
<1>15. pc # "idle"
  BY <1>1, <1>3 DEF PhaseInv
<1>16. PhaseInv' /\ NoStaleTlb'
  BY <1>1, <1>3, <1>15 DEF PhaseInv, NoStaleTlb
<1>17. KernelMap'
  <2> SUFFICES ASSUME cr3 = "kernel"
               PROVE  /\ ~is_present(Translate(0)')
                      /\ \A p \in Conventional \ {0} : is_present(Translate(p)') /\ Translate(p)'.to = p
    BY <1>1 DEF KernelMap, is_present
  <2>1. call.attr = "ReadWriteIo" /\ call.start >= 1
    BY <1>3, <1>15 DEF PhaseInv, TypeInv
  <2>2. addr # 0 /\ 0 \in Page
    BY <1>2, <1>4, <1>12, <2>1, Sizes DEF Page
  <2>3. Translate(0)' = Translate(0)
    BY <1>9, <2>2
  <2>4. ASSUME NEW p \in Conventional \ {0} PROVE is_present(Translate(p)') /\ Translate(p)'.to = p
    <3>1. p \in Page
      BY MemoryEnd
    <3>2. CASE p = addr
      <4>1. Translate(p)' = [to |-> addr, attr |-> "ReadWriteIo"]
        BY <1>9, <2>1, <3>1, <3>2
      <4>2. QED
        BY <3>2, <4>1 DEF is_present
    <3>3. CASE p # addr
      <4>1. Translate(p)' = Translate(p)
        BY <1>9, <3>1, <3>3
      <4>2. QED
        BY <1>3, <4>1 DEF KernelMap
    <3>4. QED
      BY <3>2, <3>3
  <2>5. QED
    BY <1>3, <2>3, <2>4 DEF KernelMap
<1>18. QED
  BY <1>9, <1>11, <1>13, <1>14, <1>16, <1>17 DEF PagingInv

\* A call of create_mapping: the tables are as they are, and none of the range
\* has been gone through.
LEMMA EnterKeeps ==
  ASSUME PagingInv, level = 0, NEW c \in [start : Nat, end : Nat, attr : Attr],
         c.start < c.end, c.end <= Pages, Enter(c), UNCHANGED <<cr3, tlb>>, pc' = "load"
  PROVE  /\ TypeInv' /\ TreeInv' /\ LoopInv' /\ MapInv' /\ KernelMap' /\ NoStaleTlb'
         /\ call' = c /\ prior' = [p \in Page |-> Translate(p)] /\ level' = 4
<1>1. /\ call' = c /\ addr' = c.start /\ prior' = [p \in Page |-> Translate(p)] /\ level' = 4
      /\ UNCHANGED <<table, used, at, idx>>
  BY DEF Enter
<1>2. TypeInv /\ TreeInv /\ LoopInv /\ KernelMap
  BY DEF PagingInv
<1>3. /\ \A p : Translate(p)' = Translate(p)
      /\ TreeInv'
  BY <1>1, <1>2, SameTables
<1>4. TypeInv'
  BY <1>1, <1>2 DEF TypeInv
<1>5. LoopInv'
  <2>1. at'[4] = 1
    BY <1>1, <1>2 DEF LoopInv
  <2>2. \A k \in LEVELS : k >= level' => k = 4
    BY <1>1, Sizes
  <2>3. \A k \in LEVELS : ~(k > level')
    BY <1>1, Sizes
  <2>4. At(4, addr)' = 1
    BY DEF At, Walk
  <2>5. \A k \in LEVELS : k >= level' => at'[k] = At(k, addr)'
    BY <2>1, <2>2, <2>4
  <2>6. call'.start <= addr' /\ addr' <= call'.end /\ call'.end <= Pages /\ level' # 0 /\ addr' # call'.end
    BY <1>1
  <2>7. QED
    BY <2>1, <2>3, <2>5, <2>6 DEF LoopInv
<1>6. MapInv'
  <2>1. \A p \in Page : p \notin c.start..(c.start - 1)
    OBVIOUS
  <2>2. QED
    BY <1>1, <1>3, <2>1 DEF MapInv
<1>7. KernelMap' /\ NoStaleTlb'
  BY <1>2, <1>3 DEF KernelMap, NoStaleTlb
<1>8. QED
  BY <1>1, <1>3, <1>4, <1>5, <1>6, <1>7

LEMMA UnmapNullKeeps ==
  ASSUME PagingInv, UnmapNull
  PROVE  PagingInv'
<1> DEFINE c == [start |-> 0, end |-> 1, attr |-> "NotPresent"]
<1>1. pc = "unmap" /\ level = 0 /\ Enter(c) /\ pc' = "load" /\ UNCHANGED <<cr3, tlb>>
  BY DEF UnmapNull
<1>2. /\ c \in [start : Nat, end : Nat, attr : Attr] /\ c.start < c.end /\ c.end <= Pages
  BY Sizes DEF Attr
<1>3. /\ TypeInv' /\ TreeInv' /\ LoopInv' /\ MapInv' /\ KernelMap' /\ NoStaleTlb'
      /\ call' = c /\ prior' = [p \in Page |-> Translate(p)]
  <2> HIDE DEF c
  <2> QED
    BY <1>1, <1>2, EnterKeeps
<1>4. /\ cr3 = "uefi" /\ call.start = 0 /\ call.end = end_of_mem /\ call.attr = "ReadWriteKernel"
      /\ addr = end_of_mem
  BY <1>1 DEF PagingInv, PhaseInv, LoopInv
<1>5. \A p \in 0..(end_of_mem - 1) : prior'[p] = [to |-> p, attr |-> "ReadWriteKernel"]
  <2> TAKE p \in 0..(end_of_mem - 1)
  <2>1. p \in Page
    BY MemoryEnd, Sizes DEF Page
  <2>2. Translate(p) = [to |-> p, attr |-> "ReadWriteKernel"]
    BY <1>4, <2>1 DEF PagingInv, MapInv
  <2>3. QED
    BY <1>3, <2>1, <2>2
<1>6. PhaseInv'
  BY <1>1, <1>3, <1>4, <1>5 DEF PhaseInv
<1>7. QED
  BY <1>3, <1>6 DEF PagingInv

\* The regions that are made uncacheable lie in memory the table describes, and
\* never contain page 0.
LEMMA RegionsFit ==
  ASSUME NEW r \in IoRegions
  PROVE  r.start \in Nat /\ r.pages \in Nat /\ r.start >= 1 /\ r.pages >= 1 /\ r.start + r.pages <= Pages
<1>1. CASE r \in Bars
  <2>1. Bars \subseteq [start : Page \ {0}, pages : Nat \ {0}] /\ \A b \in Bars : b.start + b.pages <= Pages
    BY PagingAssumption, Zenon
  <2>2. r \in [start : Page \ {0}, pages : Nat \ {0}] /\ r.start + r.pages <= Pages
    BY <1>1, <2>1, Zenon
  <2>3. r.start \in Page /\ r.start # 0 /\ r.pages \in Nat /\ r.pages # 0
    BY <2>2
  <2>4. r.start \in Nat /\ r.start >= 1 /\ r.pages >= 1
    BY <2>3, Sizes DEF Page
  <2>5. QED
    BY <2>2, <2>3, <2>4
<1>2. CASE r \notin Bars
  <2>1. PICK p \in Conventional \ {0} : r = [start |-> p, pages |-> 1]
    BY <1>2 DEF IoRegions
  <2>2. p \in Page
    BY MemoryEnd
  <2>3. p \in Nat /\ p >= 1 /\ p + 1 <= Pages
    BY <2>1, <2>2, Sizes DEF Page
  <2>4. QED
    BY <2>1, <2>3
<1>3. QED
  BY <1>1, <1>2

LEMMA DisableCacheKeeps ==
  ASSUME PagingInv, NEW r \in IoRegions, DisableCache(r)
  PROVE  PagingInv'
<1> DEFINE c == [start |-> r.start, end |-> r.start + r.pages, attr |-> "ReadWriteIo"]
<1>1. pc = "idle" /\ Enter(c) /\ pc' = "load" /\ UNCHANGED <<cr3, tlb>>
  BY DEF DisableCache
<1>2. level = 0 /\ cr3 = "kernel"
  BY <1>1 DEF PagingInv, PhaseInv
<1>3. /\ c.start = r.start /\ c.end = r.start + r.pages /\ c.attr = "ReadWriteIo"
      /\ c \in [start : Nat, end : Nat, attr : Attr] /\ c.start < c.end /\ c.end <= Pages /\ c.start >= 1
  BY RegionsFit, Sizes DEF Attr
<1>4. /\ TypeInv' /\ TreeInv' /\ LoopInv' /\ MapInv' /\ KernelMap' /\ NoStaleTlb'
      /\ call' = c
  <2> HIDE DEF c
  <2> QED
    BY <1>1, <1>2, <1>3, EnterKeeps
<1>5. PhaseInv'
  <2> HIDE DEF c
  <2> QED
    BY <1>1, <1>2, <1>3, <1>4 DEF PhaseInv
<1>6. QED
  BY <1>4, <1>5 DEF PagingInv

\* The steps that leave tables and loops alone.
LEMMA SameLoops ==
  ASSUME PagingInv, UNCHANGED <<level, table, used, call, addr, at, idx, prior>>,
         pc' \in {"unmap", "load", "idle"}, cr3' \in {"uefi", "kernel"}
  PROVE  /\ TypeInv' /\ TreeInv' /\ LoopInv' /\ MapInv'
         /\ \A p : Translate(p)' = Translate(p)
<1>1. TypeInv /\ TreeInv /\ LoopInv /\ MapInv
  BY DEF PagingInv
<1>2. /\ \A p : Translate(p)' = Translate(p)
      /\ \A k, p : At(k, p)' = At(k, p)
      /\ TreeInv'
  BY <1>1, SameTables
<1>3. TypeInv'
  BY <1>1 DEF TypeInv
<1>4. LoopInv'
  <2>1. \A k : At(k, addr)' = At(k, addr)
    BY DEF At
  <2>2. QED
    BY <1>1, <2>1 DEF LoopInv
<1>5. MapInv'
  BY <1>1, <1>2 DEF MapInv
<1>6. QED
  BY <1>2, <1>3, <1>4, <1>5

\* write_cr3: at the first load page 0 has just been unmapped from what the
\* first call mapped.
LEMMA WriteCr3Keeps ==
  ASSUME PagingInv, WriteCr3
  PROVE  PagingInv'
<1>1. /\ pc = "load" /\ level = 0 /\ cr3' = "kernel" /\ tlb' = {} /\ pc' = "idle"
      /\ UNCHANGED <<level, table, used, call, addr, at, idx, prior>>
  BY DEF WriteCr3, loopVars
<1>2. /\ TypeInv' /\ TreeInv' /\ LoopInv' /\ MapInv'
      /\ \A p : Translate(p)' = Translate(p)
  BY <1>1, SameLoops
<1>3. PhaseInv' /\ NoStaleTlb'
  BY <1>1 DEF PhaseInv, NoStaleTlb
<1>4. KernelMap'
  <2>1. CASE cr3 = "kernel"
    BY <1>2, <2>1 DEF PagingInv, KernelMap
  <2>2. CASE cr3 = "uefi"
    <3>1. /\ call.start = 0 /\ call.end = 1 /\ call.attr = "NotPresent"
          /\ \A p \in 0..(end_of_mem - 1) : prior[p] = [to |-> p, attr |-> "ReadWriteKernel"]
      BY <1>1, <2>2 DEF PagingInv, PhaseInv
    <3>2. addr = 1
      BY <1>1, <3>1 DEF PagingInv, LoopInv
    <3>3. \A p \in Page : Translate(p) = IF p \in 0..(1 - 1) THEN [to |-> p, attr |-> "NotPresent"] ELSE prior[p]
      BY <3>1, <3>2 DEF PagingInv, MapInv
    <3>4. ~is_present(Translate(0))
      <4>1. 0 \in Page
        BY Sizes DEF Page
      <4>2. Translate(0) = [to |-> 0, attr |-> "NotPresent"]
        BY <3>3, <4>1
      <4>3. QED
        BY <4>2 DEF is_present
    <3>5. ASSUME NEW p \in Conventional \ {0} PROVE is_present(Translate(p)) /\ Translate(p).to = p
      <4>1. p \in Page /\ p < end_of_mem /\ end_of_mem \in 1..Pages
        BY MemoryEnd
      <4>2. p \in 0..(end_of_mem - 1) /\ p \notin 0..(1 - 1)
        BY <4>1, Sizes DEF Page
      <4>3. Translate(p) = [to |-> p, attr |-> "ReadWriteKernel"]
        BY <3>1, <3>3, <4>1, <4>2
      <4>4. QED
        BY <4>3 DEF is_present
    <3>6. QED
      BY <1>2, <3>4, <3>5 DEF KernelMap
  <2>3. QED
    BY <2>1, <2>2 DEF PagingInv, TypeInv
<1>5. QED
  BY <1>2, <1>3, <1>4 DEF PagingInv

LEMMA TlbFillKeeps ==
  ASSUME PagingInv, NEW p \in Page, TlbFill(p)
  PROVE  PagingInv'
<1>1. /\ tlb' = {[page |-> p, entry |-> Translate(p)]}
      /\ UNCHANGED <<pc, cr3>> /\ UNCHANGED <<level, table, used, call, addr, at, idx, prior>>
  BY DEF TlbFill, loopVars
<1>2. /\ TypeInv' /\ TreeInv' /\ LoopInv' /\ MapInv'
      /\ \A q : Translate(q)' = Translate(q)
  BY <1>1, SameLoops DEF PagingInv, TypeInv
<1>3. PhaseInv' /\ KernelMap'
  BY <1>1, <1>2 DEF PagingInv, PhaseInv, KernelMap
<1>4. NoStaleTlb'
  BY <1>1, <1>2 DEF NoStaleTlb
<1>5. QED
  BY <1>2, <1>3, <1>4 DEF PagingInv

LEMMA StepKeeps == PagingInv /\ [Next]_vars => PagingInv'
<1> SUFFICES ASSUME PagingInv, [Next]_vars PROVE PagingInv'
  OBVIOUS
<1>1. CASE CreateMapping
  BY <1>1, DescendKeeps, SetPageKeeps DEF CreateMapping
<1>2. CASE UnmapNull
  BY <1>2, UnmapNullKeeps
<1>3. CASE WriteCr3
  BY <1>3, WriteCr3Keeps
<1>4. CASE \E r \in IoRegions : DisableCache(r)
  BY <1>4, DisableCacheKeeps
<1>5. CASE \E p \in Page : TlbFill(p)
  BY <1>5, TlbFillKeeps
<1>6. CASE UNCHANGED vars
  <2>1. UNCHANGED <<pc, cr3, tlb>> /\ UNCHANGED <<level, table, used, call, addr, at, idx, prior>>
    BY <1>6 DEF vars, loopVars
  <2>2. /\ TypeInv' /\ TreeInv' /\ LoopInv' /\ MapInv'
        /\ \A p : Translate(p)' = Translate(p)
    BY <2>1, SameLoops DEF PagingInv, TypeInv
  <2>3. PhaseInv' /\ KernelMap' /\ NoStaleTlb'
    BY <2>1, <2>2 DEF PagingInv, PhaseInv, KernelMap, NoStaleTlb
  <2>4. QED
    BY <2>2, <2>3 DEF PagingInv
<1>7. QED
  BY <1>1, <1>2, <1>3, <1>4, <1>5, <1>6 DEF Next

-----------------------------------------------------------------------------
(* The theorems                                                            *)

\* The page tables stay a tree, create_mapping's loops stay on the walk for the
\* address they have reached, and what the CPU finds is what the calls have
\* asked for, for tables of every size and every memory map.
THEOREM PagingSafety == Spec => []PagingInv
<1>1. Init => PagingInv
  BY InitHolds
<1>2. PagingInv /\ [Next]_vars => PagingInv'
  BY StepKeeps
<1>3. QED
  BY <1>1, <1>2, PTL DEF Spec

\* create_mapping maps the pages it has gone through as it was asked, leaves
\* every other page as it was, and returns at the end of its range.
THEOREM MapsWhatItShould == Spec => []MappedSoFar
<1>1. PagingInv => MappedSoFar
  BY DEF PagingInv, MapInv, LoopInv, MappedSoFar
<1>2. QED
  BY <1>1, PagingSafety, PTL

\* From the first write_cr3 on, also while disable_cache edits the live table,
\* page 0 is not mapped and all of the heap's memory is mapped to itself.
THEOREM HeapStaysMapped == Spec => []KernelMap
<1>1. PagingInv => KernelMap
  BY DEF PagingInv
<1>2. QED
  BY <1>1, PagingSafety, PTL

\* When disable_cache has returned, the CPU holds no translation that differs
\* from the table's.
THEOREM EditsTakeEffect == Spec => []NoStaleTlb
<1>1. PagingInv => NoStaleTlb
  BY DEF PagingInv
<1>2. QED
  BY <1>1, PagingSafety, PTL
=============================================================================
