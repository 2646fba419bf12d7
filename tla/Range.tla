-------------------------------- MODULE Range -------------------------------
(***************************************************************************)
(* range.rs: map_value_in_range_inclusive, which scales a coordinate of a  *)
(* pointing device to the screen.  Ranges are inclusive: [start, end].     *)
(***************************************************************************)
EXTENDS Integers

Err == "Err"

\* Mutant: the number of pixels for the distance between the ends.
ScaleByCount(from, to, v) ==
  to.start + ((v - from.start) * (to.end - to.start + 1)) \div (from.end - from.start)

\* The intermediate product is an i128 in the code and cannot overflow.  The
\* division truncates; with both operands not negative that is \div.
Scale(from, to, v) ==
  to.start + ((v - from.start) * (to.end - to.start)) \div (from.end - from.start)

map_value_in_range_inclusive(from, to, v) ==
  IF ~(from.start <= v /\ v <= from.end) THEN Err
  ELSE IF from.end = from.start THEN to.start
  ELSE Scale(from, to, v)
=============================================================================
