-------------------------------- MODULE Bits --------------------------------
(***************************************************************************)
(* bits.rs: extract_bits and extract_bits_from_le_bytes.  A buffer is its  *)
(* length and the number its bytes are the little endian digits of.        *)
(*                                                                         *)
(* For widths up to 63: extract_bits masks with no more bits than that,    *)
(* and the bits that the conversion of the sum to u64 cuts off are behind  *)
(* the mask.                                                               *)
(***************************************************************************)
EXTENDS Integers

NoBits == -1

\* 1 << n
pow2[n \in Nat] == IF n = 0 THEN 1 ELSE 2 * pow2[n - 1]

ByteAt(wire, i) == (wire \div pow2[8 * i]) % 256

extract_bits(value, shift, width) == (value \div pow2[shift]) % pow2[width]

\* The loop of extract_bits_from_le_bytes, by the number of bytes it has seen:
\* each is put in its place and shifted right by the bits in front of the field.
\* Their bits do not meet, so the sum is the bitwise or.
Gathered(wire, first, bit_shift) ==
  LET value[n \in Nat] ==
        IF n = 0 THEN 0
        ELSE value[n - 1] + (ByteAt(wire, first + (n - 1)) * pow2[8 * (n - 1)]) \div pow2[bit_shift]
  IN value

extract_bits_from_le_bytes(wire, length, shift, width) ==
  LET start == shift \div 8
      end == (shift + (width + 7)) \div 8
  IN IF width = 0 \/ end > length THEN NoBits
     ELSE extract_bits(Gathered(wire, start, shift - start * 8)[end - start], 0, width)
=============================================================================
