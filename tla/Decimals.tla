------------------------------ MODULE Decimals ------------------------------
(***************************************************************************)
(* The decimal texts that cake-adapt reads and lists exactly, without       *)
(* floating point: the scaled options of config/config.c and               *)
(* config/options.c, and the times of the fping and IRTT lines of           *)
(* latency/parser.c.  A text is its whole part and the digits that follow   *)
(* the point; REFUSED is the answer of a parser that turns a text down.     *)
(* RATIO_ONE_E6 and SECOND are both the million the code has for them, 10   *)
(* to the power of FractionDigits.                                          *)
(***************************************************************************)
EXTENDS Arith, Sequences, FiniteSetsExt

CONSTANTS
  FractionDigits,              \* LATENCY_FRACTION_DIGITS, and the places listed
  NANOSECONDS_PER_MICROSECOND  \* a thousand

Radix == 10
Digit == 0 .. Radix - 1
REFUSED == -1

NANOSECONDS_PER_MILLISECOND == NANOSECONDS_PER_MICROSECOND * NANOSECONDS_PER_MICROSECOND
NANOSECONDS_PER_SECOND == NANOSECONDS_PER_MILLISECOND * NANOSECONDS_PER_MICROSECOND

\* The integer that count digits spell, the missing ones being zeros.
Spelled(digits, count) ==
  MapThenSumSet(
    LAMBDA i : (IF i <= Len(digits) THEN digits[i] ELSE 0) * Radix^(count - i),
    1 .. count)

\* parse_unsigned: a whole part that strtoull() can hold.
parse_unsigned(whole) == IF whole > U64_MAX THEN REFUSED ELSE whole

-----------------------------------------------------------------------------
(* Options. *)

\* The places that a scale divides: those a digit other than zero may have.
Places(scale) == CHOOSE n \in 0 .. FractionDigits + 2 :
  /\ scale % Radix^n = 0
  /\ scale % Radix^(n + 1) # 0

parse_scaled_decimal(text, scale) ==
  LET whole == parse_unsigned(text.whole)
      digits == text.digits
      places == Places(scale)
      value == whole * scale + Spelled(digits, places) * (scale \div Radix^places)
  IN  IF \/ whole = REFUSED
         \/ \E i \in places + 1 .. Len(digits) : digits[i] # 0
      THEN REFUSED
      ELSE IF value > U64_MAX THEN REFUSED ELSE value

\* The text of so many millionths, without its trailing zeros.
Shortest(whole, millionths) ==
  LET digit(i) == (millionths \div Radix^(FractionDigits - i)) % Radix
      last == CHOOSE n \in 0 .. FractionDigits :
                /\ n > 0 => digit(n) # 0
                /\ \A i \in n + 1 .. FractionDigits : digit(i) = 0
  IN  [whole |-> whole, digits |-> [i \in 1 .. last |-> digit(i)]]

\* Mutant: a fraction that rounds up to one is not carried.
format_scaled_uncarried(value, scale) ==
  Shortest(value \div scale,
           rounded_divide((value % scale) * RATIO_ONE_E6, scale) % RATIO_ONE_E6)

format_scaled(value, scale) ==
  LET millionths == rounded_divide((value % scale) * RATIO_ONE_E6, scale)
  IN  IF millionths = RATIO_ONE_E6 THEN Shortest(value \div scale + 1, 0)
      ELSE Shortest(value \div scale, millionths)

-----------------------------------------------------------------------------
(* Times. *)

ns_to_us(ns) == rounded_divide(ns, NANOSECONDS_PER_MICROSECOND)

\* It may be the whole million.
six_decimals(digits) ==
  Spelled(digits, FractionDigits)
    + IF Len(digits) > FractionDigits /\ digits[FractionDigits + 1] >= 5 THEN 1 ELSE 0

\* The time in brackets that starts a line of fping, in seconds.
parse_timestamp(text) ==
  LET whole_sec == parse_unsigned(text.whole)
      fraction_us == six_decimals(text.digits)
  IN  IF \/ whole_sec = REFUSED
         \/ text.digits = <<>>
         \/ whole_sec > (U64_MAX - fraction_us) \div SECOND
      THEN REFUSED
      ELSE Wrap(whole_sec * SECOND + fraction_us)

\* The round trip of fping, in milliseconds, as nanoseconds.
parse_round_trip(text) ==
  LET whole_ms == parse_unsigned(text.whole)
  IN  IF whole_ms = REFUSED \/ whole_ms >= U64_MAX \div NANOSECONDS_PER_MILLISECOND
      THEN REFUSED
      ELSE Wrap(whole_ms * NANOSECONDS_PER_MILLISECOND + six_decimals(text.digits))

half_round_trip(round_trip_ns) ==
  min_u64(rounded_divide(round_trip_ns, 2 * NANOSECONDS_PER_MICROSECOND), U64_MAX \div 2)

\* irtt_unit_ns
Unit == {1, NANOSECONDS_PER_MICROSECOND, NANOSECONDS_PER_MILLISECOND,
         NANOSECONDS_PER_SECOND}

\* Digits below a nanosecond are dropped.
NanosecondDigits(unit_ns) == CHOOSE n \in 0 .. 3 * FractionDigits : Radix^n = unit_ns

parse_irtt_duration(text, unit_ns) ==
  LET whole == parse_unsigned(text.whole)
      us == ns_to_us(Wrap(whole * unit_ns + Spelled(text.digits, NanosecondDigits(unit_ns))))
  IN  IF whole = REFUSED \/ whole > U64_MAX \div unit_ns - 1 THEN REFUSED
      ELSE IF us > U64_MAX \div 2 THEN REFUSED ELSE us
=============================================================================
