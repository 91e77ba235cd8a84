------------------------------- MODULE Arith -------------------------------
(***************************************************************************)
(* The integer arithmetic of src/common/arith.h and src/common/rate.c: the *)
(* saturating, rounding and ratio operators every rate decision goes       *)
(* through.  Unsigned values are 0..U64_MAX and a product or sum the C code *)
(* does not guard wraps modulo U64_MAX + 1, as uint64_t does.  The word     *)
(* width and the two scales are parameters, so that TLC reaches the        *)
(* overflow regime with small numbers.                                     *)
(***************************************************************************)
EXTENDS Integers

CONSTANTS
  U64_MAX,       \* UINT64_MAX
  RATIO_ONE_E6,  \* 100% as a ratio: one million in the code
  SECOND         \* microseconds per second: one million in the code

\* What the split products rely on: a remainder below RATIO_ONE_E6 still fits.
ASSUME ArithAssumption ==
  /\ RATIO_ONE_E6 \in Nat \ {0}
  /\ SECOND \in Nat \ {0}
  /\ U64_MAX \in Nat
  /\ RATIO_ONE_E6 * RATIO_ONE_E6 <= U64_MAX

U64 == 0 .. U64_MAX

BITS_PER_BYTE == 8

\* An unguarded uint64_t result.
Wrap(x) == x % (U64_MAX + 1)

saturating_add(value, addend) ==
  IF value + addend > U64_MAX THEN U64_MAX ELSE value + addend

saturating_mul(value, factor) ==
  IF value * factor > U64_MAX THEN U64_MAX ELSE value * factor

saturating_sub(value, subtrahend) ==
  IF value > subtrahend THEN value - subtrahend ELSE 0

min_u64(first, second) == IF first < second THEN first ELSE second

max_u64(first, second) == IF first > second THEN first ELSE second

\* value * numerator / denominator, without multiplying the full value.
mul_div(value, numerator, denominator) ==
  Wrap(Wrap((value \div denominator) * numerator)
       + Wrap((value % denominator) * numerator) \div denominator)

rounded_divide(value, divisor) ==
  value \div divisor
    + IF value % divisor >= (divisor \div 2) + (divisor % 2) THEN 1 ELSE 0

\* C division truncates towards zero, so the magnitude is rounded and signed.
signed_rounded_divide(value, divisor) ==
  LET magnitude == IF value < 0 THEN -value ELSE value
      remainder == magnitude % divisor
      rounded == magnitude \div divisor
                   + IF remainder > 0 /\ remainder >= divisor - remainder
                     THEN 1 ELSE 0
  IN  IF value < 0 THEN -rounded ELSE rounded

\* Mutant: the product is formed before the division.
ratio_of_unsplit(value, ratio) == Wrap(value * ratio) \div RATIO_ONE_E6

ratio_of(value, ratio) ==
  saturating_add(saturating_mul(value \div RATIO_ONE_E6, ratio),
                 Wrap((value % RATIO_ONE_E6) * ratio) \div RATIO_ONE_E6)

ratio_of_rounded_up(value, ratio) ==
  saturating_add(saturating_mul(value \div RATIO_ONE_E6, ratio),
                 Wrap((value % RATIO_ONE_E6) * ratio + RATIO_ONE_E6 - 1)
                   \div RATIO_ONE_E6)

\* part / whole as a ratio.  A whole whose remainder could overflow gives up
\* its last digits on both sides first.
fraction_to_ratio(part, whole) ==
  LET large == whole > U64_MAX \div RATIO_ONE_E6
      p == IF large THEN part \div RATIO_ONE_E6 ELSE part
      w == IF large THEN whole \div RATIO_ONE_E6 ELSE whole
  IN  IF w = 0 THEN 0
      ELSE saturating_add(saturating_mul(p \div w, RATIO_ONE_E6),
                          Wrap((p % w) * RATIO_ONE_E6) \div w)

load_ratio(traffic_bps, shaper_bps) ==
  fraction_to_ratio(traffic_bps, shaper_bps)

\* A counter delta over a duration, in bit/s.
bps(byte_delta, elapsed_us) ==
  LET byte_per_us_to_bps == BITS_PER_BYTE * SECOND
  IN  IF elapsed_us = 0 THEN U64_MAX
      ELSE saturating_add(
             saturating_mul(byte_delta \div elapsed_us, byte_per_us_to_bps),
             saturating_mul(byte_delta % elapsed_us, byte_per_us_to_bps)
               \div elapsed_us)

serialization_us(wire_packet_bits, rate_bps) ==
  LET whole == wire_packet_bits \div rate_bps
      fractional == (wire_packet_bits % rate_bps) * SECOND
  IN  IF rate_bps = 0 THEN 0
      ELSE IF whole > U64_MAX \div SECOND \/ fractional > U64_MAX THEN U64_MAX
      ELSE saturating_add(whole * SECOND, rounded_divide(fractional, rate_bps))

\* Strict boundary: equality and backwards timestamps have not elapsed.
interval_elapsed(current, previous, interval) ==
  current > previous /\ current - previous > interval
=============================================================================
