----------------------------- MODULE HidReport ------------------------------
(***************************************************************************)
(* tablet.rs: parse_hid_report_descriptor, which turns a HID report        *)
(* descriptor into a list of fields, and value_from_report, which takes a  *)
(* field's bits out of a report.                                           *)
(*                                                                         *)
(* A descriptor is a stream of items.  Global items set a state that lasts,*)
(* local items a state that lasts to the next main item, and an Input (a   *)
(* main item) declares report_count fields of report_size bits.  The model *)
(* reads any stream of items up to MAX_FIELDS fields and, beside the       *)
(* parser, plays the device: `fields` are the fields the descriptor        *)
(* declares, each with a value the device puts in its report.              *)
(*                                                                         *)
(* Not among the streams: local items that give both a list of usages and  *)
(* a range, a usage page between local items and their main item, an Input *)
(* without a report size, and report IDs, which the parser does not know.  *)
(***************************************************************************)
EXTENDS Integers, Sequences, Bits, Range

CONSTANTS
  SIZES,       \* the report sizes that occur, in bits
  COUNTS,      \* the report counts that occur
  VALUES,      \* the values that occur
  LAST_BUTTON, \* the last usage of a range of buttons
  LOGICAL_MIN, \* the logical minimum a descriptor may set
  LOGICAL_MAX, \* the logical maximum it may set
  REPORT_LEN,  \* bytes of a report the driver asks for, 8 in the code
  MAX_FIELDS,  \* bound on the fields of a report
  MAX_USAGES,  \* bound on the local usages of a main item
  WIDTH        \* pixels of the screen

ASSUME HidAssumption ==
  /\ SIZES \subseteq 1..63 /\ COUNTS \subseteq Nat /\ VALUES \subseteq Nat
  /\ LAST_BUTTON \in Nat \ {0} /\ LOGICAL_MIN \in Nat /\ LOGICAL_MAX \in Nat
  /\ REPORT_LEN \in Nat
  /\ MAX_FIELDS \in Nat /\ MAX_USAGES \in Nat /\ WIDTH \in Nat \ {0}

NoUsage == -1
Button(n) == <<"Button", n>>
Unknown == <<"Unknown", 0>>
Constant == <<"Constant", 0>>
Usage == {<<"X", 0>>, <<"Y", 0>>}

VARIABLES
  usage_page, report_size, report_count, logical_min, logical_max,   \* global items
  usage_queue, usage_min, usage_max,    \* local items
  bit_offset, input_report_items,       \* what is made of them
  declared,    \* device: the usages since the last main item, in order
  fields,      \* device: [usage, size, value] of every field
  skipped      \* device: an Input came before any usage page

global == <<usage_page, report_size, report_count, logical_min, logical_max>>
local == <<usage_queue, usage_min, usage_max>>
parsed == <<bit_offset, input_report_items>>
deviceSide == <<declared, fields, skipped>>
hidVars == <<global, local, parsed, deviceSide>>

HidInit ==
  /\ usage_page = "None" /\ report_size = 0 /\ report_count = 0
  /\ logical_min = 0 /\ logical_max = 0
  /\ usage_queue = <<>> /\ usage_min = NoUsage /\ usage_max = NoUsage
  /\ bit_offset = 0 /\ input_report_items = <<>>
  /\ declared = <<>> /\ fields = <<>> /\ skipped = FALSE

-----------------------------------------------------------------------------
(* Global and local items                                                  *)

UsagePage(p) ==
  /\ usage_queue = <<>> /\ usage_min = NoUsage /\ usage_max = NoUsage
  /\ usage_page' = p
  /\ UNCHANGED <<report_size, report_count, logical_min, logical_max, local, parsed, deviceSide>>

ReportSize(n) ==
  /\ report_size' = n
  /\ UNCHANGED <<usage_page, report_count, logical_min, logical_max, local, parsed, deviceSide>>

ReportCount(n) ==
  /\ report_count' = n
  /\ UNCHANGED <<usage_page, report_size, logical_min, logical_max, local, parsed, deviceSide>>

\* Both are read without a sign.
LogicalMin(m) ==
  /\ logical_min' = m
  /\ UNCHANGED <<usage_page, report_size, report_count, logical_max, local, parsed, deviceSide>>

LogicalMax(m) ==
  /\ logical_max' = m
  /\ UNCHANGED <<usage_page, report_size, report_count, logical_min, local, parsed, deviceSide>>

\* A usage is named by the page that is current when it is given.
UsageName(u) == IF usage_page = "GenericDesktop" THEN u ELSE Unknown

LocalUsage(u) ==
  /\ usage_min = NoUsage /\ usage_max = NoUsage /\ Len(usage_queue) < MAX_USAGES
  /\ usage_queue' = Append(usage_queue, UsageName(u))
  /\ declared' = Append(declared, UsageName(u))
  /\ UNCHANGED <<global, usage_min, usage_max, parsed, fields, skipped>>

\* The usages of a range, once both its ends are given.
RangeOf(min, max) ==
  IF usage_page = "Button" /\ min # NoUsage /\ max # NoUsage
  THEN [i \in 1..(max - min + 1) |-> Button(min + i - 1)]
  ELSE <<>>

UsageMin(n) ==
  /\ usage_queue = <<>>
  /\ usage_min' = n
  /\ declared' = RangeOf(n, usage_max)
  /\ UNCHANGED <<global, usage_queue, usage_max, parsed, fields, skipped>>

UsageMax(n) ==
  /\ usage_queue = <<>>
  /\ usage_max' = n
  /\ declared' = RangeOf(usage_min, n)
  /\ UNCHANGED <<global, usage_queue, usage_min, parsed, fields, skipped>>

-----------------------------------------------------------------------------
(* Main items                                                              *)

\* Mutant: the state of the local items stays.
ForgetNothing == UNCHANGED local

\* "if matches!(b_type, Main)": every main item ends the local state.
ForgetLocals == usage_queue' = <<>> /\ usage_min' = NoUsage /\ usage_max' = NoUsage

\* Collection, End Collection, Output, Feature.
OtherMain ==
  /\ ForgetLocals
  /\ declared' = <<>>
  /\ UNCHANGED <<global, parsed, fields, skipped>>

\* The usage of the i-th field (from 0): from the queue, or of the range.
FieldUsage(i, is_constant) ==
  IF i < Len(usage_queue) THEN usage_queue[i + 1]
  ELSE IF usage_page = "Button" /\ usage_min # NoUsage /\ usage_max # NoUsage
  THEN IF usage_min + i <= usage_max THEN Button(usage_min + i) ELSE Unknown
  ELSE IF is_constant THEN Constant ELSE Unknown

NewItems(is_constant) ==
  [k \in 1..report_count |->
     [usage |-> FieldUsage(k - 1, is_constant), bit_size |-> report_size,
      bit_offset |-> bit_offset + (k - 1) * report_size,
      logical_min |-> logical_min, logical_max |-> logical_max]]

\* Input, in a descriptor that has named a usage page.
Input(is_constant, values) ==
  /\ usage_page # "None"
  /\ input_report_items' = input_report_items \o NewItems(is_constant)
  /\ bit_offset' = bit_offset + report_count * report_size
  /\ ForgetLocals
  /\ fields' = fields \o [k \in 1..report_count |->
                            [usage |-> IF k <= Len(declared) THEN declared[k] ELSE Unknown,
                             size |-> report_size, value |-> values[k]]]
  /\ declared' = <<>>
  /\ UNCHANGED <<global, skipped>>

\* Without one the parser makes nothing of it.
InputSkipped ==
  /\ usage_page = "None"
  /\ ForgetLocals
  /\ declared' = <<>> /\ skipped' = (skipped \/ report_count * report_size > 0)
  /\ UNCHANGED <<global, parsed, fields>>

\* Values whose top bit is 0, unless the field is one bit.
ValuesOf(size) == {v \in VALUES : v < IF size = 1 THEN 2 ELSE pow2[size - 1]}

\* A global or local item, or an Input.
NextItem ==
  \/ \E p \in {"GenericDesktop", "Button"} : UsagePage(p)
  \/ \E n \in SIZES : ReportSize(n)
  \/ \E n \in COUNTS : ReportCount(n)
  \/ LogicalMin(LOGICAL_MIN) \/ LogicalMax(LOGICAL_MAX)
  \/ \E u \in Usage : LocalUsage(u)
  \/ UsageMin(1) \/ UsageMax(LAST_BUTTON)
  \/ /\ report_size > 0 /\ Len(fields) + report_count <= MAX_FIELDS
     /\ \E c \in BOOLEAN, vs \in [1..report_count -> ValuesOf(report_size)] : Input(c, vs)
  \/ InputSkipped

\* What follows the last field adds nothing to the report.
HidNext == OtherMain \/ (Len(fields) < MAX_FIELDS /\ NextItem)

HidSpec == HidInit /\ [][HidNext]_hidVars

-----------------------------------------------------------------------------
(* value_from_report                                                       *)

\* The bits of the first n fields.
Size(fs) ==
  LET bits[n \in 0..Len(fs)] == IF n = 0 THEN 0 ELSE bits[n - 1] + fs[n].size
  IN bits

\* The first n fields as the device sends them: one behind the other, bit 0 of
\* the first one in bit 0 of the first byte.
Sent(fs) ==
  LET wire[n \in 0..Len(fs)] ==
        IF n = 0 THEN 0 ELSE wire[n - 1] + fs[n].value * pow2[Size(fs)[n - 1]]
  IN wire

Wire == Sent(fields)[Len(fields)]

\* request_hid_report reads REPORT_LEN bytes, whatever the descriptor says.  A
\* field that does not end in them has no value.
Arrives(i) == Size(fields)[i] <= 8 * REPORT_LEN

\* A set top bit of a field of two bits or more is dropped from the value: the
\* complement, the negation and the -1 of the code cancel.
value_from_report(e) ==
  LET v == extract_bits_from_le_bytes(Wire, REPORT_LEN, e.bit_offset, e.bit_size)
  IN IF v # NoBits /\ e.bit_size >= 2 /\ extract_bits(v, e.bit_size - 1, 1) = 1
     THEN extract_bits(v, 0, e.bit_size - 1)
     ELSE v

mapped_range_from_report(e) ==
  LET v == value_from_report(e)
  IN IF v = NoBits THEN Err
     ELSE map_value_in_range_inclusive([start |-> e.logical_min, end |-> e.logical_max],
                                       [start |-> 0, end |-> WIDTH - 1], v)

-----------------------------------------------------------------------------
(* Properties                                                              *)

\* What the device puts into a field, the driver takes out of the same field
\* under the same usage, wherever in the bytes it lies: no Input is given the
\* usages of an earlier one, and no offset is off.  Fields behind the bytes the
\* driver asks for have no value, and are not made up.  (For values whose top
\* bit is not set, and descriptors that name a usage page first.)
DecodesWhatWasSent ==
  ~skipped =>
    /\ Len(input_report_items) = Len(fields)
    /\ \A i \in 1..Len(fields) :
         LET e == input_report_items[i]
         IN /\ e.usage = fields[i].usage \/ (e.usage = Constant /\ fields[i].usage = Unknown)
            /\ value_from_report(e) = IF Arrives(i) THEN fields[i].value ELSE NoBits

\* A pointer field is mapped to a pixel of the screen, the ends of its range to
\* the screen's edges, or is reported as missing or as out of its range.
PointerOnScreen ==
  ~skipped =>
    \A i \in 1..Len(fields) :
      LET e == input_report_items[i]
          x == mapped_range_from_report(e)
          v == fields[i].value
      IN IF Arrives(i) /\ e.logical_min <= v /\ v <= e.logical_max
         THEN /\ x \in 0..(WIDTH - 1)
              /\ v = e.logical_min => x = 0
              /\ v = e.logical_max /\ e.logical_min < e.logical_max => x = WIDTH - 1
         ELSE x = Err
=============================================================================
