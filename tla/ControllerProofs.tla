-------------------------- MODULE ControllerProofs --------------------------
(***************************************************************************)
(* Theorems about Controller, for every configuration config_validate      *)
(* accepts, every word width and every set of inputs.                      *)
(***************************************************************************)
EXTENDS Controller, FiniteSetTheorems, TLAPS

\* Natural numbers are closed under multiplication.
LEMMA ProductNat == ASSUME NEW a \in Nat, NEW b \in Nat PROVE a * b \in Nat
  BY SMT

\* The quotient and the remainder of a division of natural numbers.
LEMMA DivNat == ASSUME NEW a \in Nat, NEW b \in Nat \ {0}
                PROVE /\ a \div b \in Nat
                      /\ a % b \in 0 .. b - 1
  BY SMT

\* ratio_of (rate.c) returns a natural number for every value and ratio.
LEMMA RatioOfNat ==
  ASSUME NEW v \in Nat, NEW r \in Nat
  PROVE  ratio_of(v, r) \in Nat
  <1> USE ArithAssumption
  <1> DEFINE q == v \div RATIO_ONE_E6
             m == v % RATIO_ONE_E6
             p == (m * r) % (U64_MAX + 1)
  <1>1. q \in Nat /\ m \in Nat
    BY DivNat
  <1>2. q * r \in Nat /\ m * r \in Nat
    BY <1>1, ProductNat
  <1>3. p \in Nat
    <2> HIDE DEF m
    <2> QED BY <1>2, DivNat, SMT
  <1>4. p \div RATIO_ONE_E6 \in Nat
    <2> HIDE DEF p
    <2> QED BY <1>3, DivNat
  <1> HIDE DEF q, m, p
  <1>5. saturating_mul(q, r) \in Nat
    BY <1>1, <1>2 DEF saturating_mul
  <1>6. saturating_add(saturating_mul(q, r), p \div RATIO_ONE_E6) \in Nat
    BY <1>4, <1>5 DEF saturating_add
  <1> QED
    BY <1>6 DEF ratio_of, Wrap, q, m, p

\* fraction_to_ratio returns a natural number, for a whole of 0 as well.
LEMMA FractionNat ==
  ASSUME NEW part \in Nat, NEW whole \in Nat
  PROVE  fraction_to_ratio(part, whole) \in Nat
  <1> USE ArithAssumption
  <1>1. ASSUME NEW p \in Nat, NEW w \in Nat \ {0}
        PROVE  saturating_add(saturating_mul(p \div w, RATIO_ONE_E6),
                              Wrap((p % w) * RATIO_ONE_E6) \div w) \in Nat
    <2>1. p \div w \in Nat /\ p % w \in Nat
      BY DivNat
    <2>2. (p \div w) * RATIO_ONE_E6 \in Nat /\ (p % w) * RATIO_ONE_E6 \in Nat
      BY <2>1, ProductNat
    <2>3. Wrap((p % w) * RATIO_ONE_E6) \in Nat
      BY <2>2, DivNat DEF Wrap
    <2>4. Wrap((p % w) * RATIO_ONE_E6) \div w \in Nat
      BY <2>3, DivNat
    <2>5. saturating_mul(p \div w, RATIO_ONE_E6) \in Nat
      BY <2>1, <2>2 DEF saturating_mul
    <2> QED BY <2>4, <2>5 DEF saturating_add
  <1>2. part \div RATIO_ONE_E6 \in Nat /\ whole \div RATIO_ONE_E6 \in Nat
    BY DivNat
  <1> QED
    BY <1>1, <1>2 DEF fraction_to_ratio

\* rate_holdable returns a rate the shaper can hold: a multiple of its step.
LEMMA HoldableNat ==
  ASSUME NEW x \in Nat
  PROVE  /\ rate_holdable(x) \in Nat
         /\ rate_holdable(x) % SHAPER_RATE_STEP_BPS = 0
  BY SMT DEF rate_holdable, SHAPER_RATE_STEP_BPS, BITS_PER_BYTE

\* scale_rate returns a rate the shaper can hold.
LEMMA ScaleRateFacts ==
  ASSUME NEW x \in Nat, NEW f \in Nat
  PROVE  /\ scale_rate(x, f) \in Nat
         /\ scale_rate(x, f) % SHAPER_RATE_STEP_BPS = 0
  BY RatioOfNat, HoldableNat DEF scale_rate

-----------------------------------------------------------------------------
(* Factors: a share of a value is at most the value.                        *)

\* Wrapping a natural number to its width never increases it.
LEMMA WrapLe == ASSUME NEW x \in Nat PROVE Wrap(x) \in Nat /\ Wrap(x) <= x
  BY ArithAssumption, SMT DEF Wrap

\* An upper bound of a quotient.
LEMMA DivLe ==
  ASSUME NEW a \in Nat, NEW b \in Nat, NEW c \in Nat \ {0}, a <= b * c
  PROVE  a \div c <= b
  <1>1. a = c * (a \div c) + (a % c) /\ a % c \in 0 .. c - 1 /\ a \div c \in Nat
    BY SMT
  <1>2. SUFFICES ASSUME a \div c > b PROVE FALSE
    BY <1>1
  <1>3. a \div c >= b + 1
    BY <1>1, <1>2
  <1>4. c * (a \div c) >= c * (b + 1)
    BY <1>1, <1>3, SMT
  <1>5. c * (b + 1) = b * c + c
    BY SMT
  <1> QED BY <1>1, <1>4, <1>5

\* A lower bound of a quotient.
LEMMA DivGe ==
  ASSUME NEW a \in Nat, NEW b \in Nat \ {0}, NEW c \in Nat, c * b <= a
  PROVE  c <= a \div b
  <1> DEFINE q == a \div b
             m == a % b
  <1>1. q \in Nat /\ m \in 0 .. b - 1 /\ a = b * q + m
    BY SMT
  <1>2. m \in Nat /\ m < b
    BY <1>1
  <1> HIDE DEF q, m
  <1>3. c * b < b * (q + 1)
    BY <1>1, <1>2, SMT
  <1>4. c < q + 1
    BY <1>1, <1>3, SMT
  <1>5. c <= q
    BY <1>1, <1>4
  <1> QED BY <1>5 DEF q

\* Multiplication of natural numbers is monotonic on either side.
LEMMA ProductLe ==
  ASSUME NEW a \in Nat, NEW b \in Nat, NEW c \in Nat, a <= b
  PROVE  c * a <= c * b /\ a * c <= b * c
  BY SMT

\* A ratio of at most one never increases a value.
LEMMA RatioOfLe ==
  ASSUME NEW v \in Nat, NEW r \in Nat, r <= RATIO_ONE_E6
  PROVE  ratio_of(v, r) \in Nat /\ ratio_of(v, r) <= v
  <1> USE ArithAssumption
  <1> DEFINE q == v \div RATIO_ONE_E6
             m == v % RATIO_ONE_E6
             p == Wrap(m * r)
  <1>1. q \in Nat /\ m \in Nat /\ v = RATIO_ONE_E6 * q + m
    BY SMT
  <1> HIDE DEF q, m
  <1>2. q * r \in Nat /\ q * r <= q * RATIO_ONE_E6
    BY <1>1, ProductNat, ProductLe
  <1>3. m * r \in Nat /\ m * r <= m * RATIO_ONE_E6
    BY <1>1, ProductNat, ProductLe
  <1>4. p \in Nat /\ p <= m * RATIO_ONE_E6
    BY <1>1, <1>3, WrapLe, ProductNat
  <1> HIDE DEF p
  <1>5. p \div RATIO_ONE_E6 \in Nat /\ p \div RATIO_ONE_E6 <= m
    BY <1>1, <1>4, DivLe, DivNat
  <1>6. saturating_mul(q, r) \in Nat /\ saturating_mul(q, r) <= q * r
    BY <1>1, <1>2 DEF saturating_mul
  <1>7. q * RATIO_ONE_E6 = RATIO_ONE_E6 * q
    BY <1>1, SMT
  <1>8. /\ saturating_add(saturating_mul(q, r), p \div RATIO_ONE_E6) \in Nat
        /\ saturating_add(saturating_mul(q, r), p \div RATIO_ONE_E6) <= v
    BY <1>1, <1>2, <1>5, <1>6, <1>7 DEF saturating_add
  <1> QED BY <1>8 DEF ratio_of, q, m, p

\* A ratio of at least one never decreases a value: the bound on the configured
\* factors keeps the product with the remainder inside the word.
LEMMA RatioOfGe ==
  ASSUME NEW v \in Nat, v <= U64_MAX, NEW r \in Nat, RATIO_ONE_E6 <= r,
         r <= U64_MAX \div RATIO_ONE_E6
  PROVE  v <= ratio_of(v, r)
  <1> USE ArithAssumption
  <1> DEFINE q == v \div RATIO_ONE_E6
             m == v % RATIO_ONE_E6
             limit == U64_MAX \div RATIO_ONE_E6
             p == m * r
  <1>1. q \in Nat /\ m \in Nat /\ v = RATIO_ONE_E6 * q + m /\ m <= RATIO_ONE_E6
    BY SMT
  <1>2. limit \in Nat /\ RATIO_ONE_E6 * limit <= U64_MAX /\ r <= limit
    BY DivNat, SMT
  <1> HIDE DEF q, m, limit
  <1>3. q * r \in Nat /\ q * RATIO_ONE_E6 <= q * r
    BY <1>1, ProductNat, ProductLe
  <1>4. p \in Nat /\ m * RATIO_ONE_E6 <= p /\ p <= U64_MAX
    <2>1. m * r <= RATIO_ONE_E6 * r /\ RATIO_ONE_E6 * r <= RATIO_ONE_E6 * limit
      BY <1>1, <1>2, ProductLe
    <2>2. m * r \in Nat /\ RATIO_ONE_E6 * r \in Nat /\ RATIO_ONE_E6 * limit \in Nat
      BY <1>1, <1>2, ProductNat
    <2>3. m * RATIO_ONE_E6 <= m * r
      BY <1>1, ProductLe
    <2> QED BY <1>2, <2>1, <2>2, <2>3
  <1> HIDE DEF p
  <1>5. Wrap(p) = p
    BY <1>4 DEF Wrap
  <1>6. p \div RATIO_ONE_E6 \in Nat /\ m <= p \div RATIO_ONE_E6
    BY <1>1, <1>4, DivGe, DivNat
  <1> DEFINE big == saturating_mul(q, r)
             small == p \div RATIO_ONE_E6
  <1>7. big \in Nat /\ (big = U64_MAX \/ q * RATIO_ONE_E6 <= big)
    BY <1>3 DEF saturating_mul
  <1>8. ratio_of(v, r) = saturating_add(big, small)
    BY <1>5 DEF ratio_of, p, q, m
  <1>9. small \in Nat /\ m <= small
    BY <1>6
  <1> HIDE DEF big, small
  <1>10. q * RATIO_ONE_E6 \in Nat /\ v = q * RATIO_ONE_E6 + m
    BY <1>1, ProductNat
  <1> DEFINE whole == q * RATIO_ONE_E6
  <1>11. whole \in Nat /\ v = whole + m /\ (big = U64_MAX \/ whole <= big)
    BY <1>7, <1>10
  <1> HIDE DEF whole
  <1> QED BY <1>1, <1>7, <1>8, <1>9, <1>11 DEF saturating_add

\* The ratio of a part to its whole is at most one.
LEMMA FractionLe ==
  ASSUME NEW part \in Nat, NEW whole \in Nat, part <= whole
  PROVE  /\ fraction_to_ratio(part, whole) \in Nat
         /\ fraction_to_ratio(part, whole) <= RATIO_ONE_E6
  <1> USE ArithAssumption
  <1>1. ASSUME NEW p \in Nat, NEW w \in Nat \ {0}, p <= w
        PROVE  saturating_add(saturating_mul(p \div w, RATIO_ONE_E6),
                              Wrap((p % w) * RATIO_ONE_E6) \div w) <= RATIO_ONE_E6
    <2>1. CASE p = w
      <3>1. p \div w = 1 /\ p % w = 0
        BY <2>1, SMT
      <3>2. Wrap((p % w) * RATIO_ONE_E6) = 0
        BY <3>1, SMT DEF Wrap
      <3>3. Wrap((p % w) * RATIO_ONE_E6) \div w = 0
        BY <3>2, SMT
      <3>4. saturating_mul(p \div w, RATIO_ONE_E6) <= RATIO_ONE_E6
        BY <3>1, SMT DEF saturating_mul
      <3> QED BY <3>1, <3>3, <3>4, SMT DEF saturating_add, saturating_mul
    <2>2. CASE p < w
      <3>1. p \div w = 0 /\ p % w = p
        BY <2>2, SMT
      <3>2. p * RATIO_ONE_E6 \in Nat /\ p * RATIO_ONE_E6 <= RATIO_ONE_E6 * w
        BY <2>2, ProductNat, ProductLe, SMT
      <3>3. Wrap(p * RATIO_ONE_E6) \in Nat /\ Wrap(p * RATIO_ONE_E6) <= RATIO_ONE_E6 * w
        BY <3>2, WrapLe, ProductNat
      <3>4. /\ Wrap(p * RATIO_ONE_E6) \div w <= RATIO_ONE_E6
            /\ Wrap(p * RATIO_ONE_E6) \div w \in Nat
        BY <3>3, DivLe, DivNat
      <3>5. saturating_mul(0, RATIO_ONE_E6) = 0
        BY SMT DEF saturating_mul
      <3> QED BY <3>1, <3>4, <3>5 DEF saturating_add
    <2> QED BY <1>1, <2>1, <2>2
  <1>2. /\ part \div RATIO_ONE_E6 \in Nat /\ whole \div RATIO_ONE_E6 \in Nat
        /\ part \div RATIO_ONE_E6 <= whole \div RATIO_ONE_E6
    <2>1. /\ part \div RATIO_ONE_E6 \in Nat /\ whole \div RATIO_ONE_E6 \in Nat
      BY DivNat
    <2>2. part = RATIO_ONE_E6 * (part \div RATIO_ONE_E6) + (part % RATIO_ONE_E6)
          /\ whole = RATIO_ONE_E6 * (whole \div RATIO_ONE_E6) + (whole % RATIO_ONE_E6)
          /\ whole % RATIO_ONE_E6 \in 0 .. RATIO_ONE_E6 - 1
      BY SMT
    <2>3. part <= ((whole \div RATIO_ONE_E6) + 1) * RATIO_ONE_E6 - 1
      BY <2>1, <2>2, SMT
    <2> QED BY <2>1, <2>2, <2>3, SMT
  <1>3. fraction_to_ratio(part, whole) \in Nat
    BY FractionNat
  <1>4. RATIO_ONE_E6 \in Nat /\ 0 <= RATIO_ONE_E6
    OBVIOUS
  <1> QED
    BY <1>1, <1>2, <1>3, <1>4 DEF fraction_to_ratio

\* interpolate_factor stays a natural number, whichever end is larger.
LEMMA InterpolateNat ==
  ASSUME NEW a \in Nat, NEW b \in Nat, NEW x \in Nat, x <= RATIO_ONE_E6
  PROVE  interpolate_factor(a, b, x) \in Nat
  <1>1. CASE b >= a
    <2>1. b - a \in Nat
      BY <1>1
    <2>2. ratio_of(b - a, x) \in Nat
      BY <2>1, RatioOfNat
    <2> QED BY <1>1, <2>2 DEF interpolate_factor
  <1>2. CASE ~(b >= a)
    <2>1. a - b \in Nat
      BY <1>2
    <2>2. ratio_of(a - b, x) \in Nat /\ ratio_of(a - b, x) <= a - b
      BY <2>1, RatioOfLe
    <2>3. a - ratio_of(a - b, x) \in Nat
      BY <2>1, <2>2
    <2> QED BY <1>2, <2>3 DEF interpolate_factor
  <1> QED BY <1>1, <1>2

\* The types of the pieces of a direction, as in TypeOK.
RateState == [shaper_rate : Nat, last_congestion : Nat, last_decay : Nat,
              last_increase_sample_id : Nat, initial_rate_pending : BOOLEAN]
ThresholdState == [up_us : Nat, threshold_us : Nat, down_us : Nat]

\* A limit as ConfigAssumption has it.
LimitOK(limit) ==
  /\ limit.adjust \in BOOLEAN
  /\ limit.minimum \in Nat /\ limit.base \in Nat /\ limit.maximum \in Nat
  /\ limit.minimum <= limit.base /\ limit.base <= limit.maximum
  /\ limit.maximum <= U64_MAX
  /\ limit.minimum % SHAPER_RATE_STEP_BPS = 0
  /\ limit.base % SHAPER_RATE_STEP_BPS = 0
  /\ limit.maximum % SHAPER_RATE_STEP_BPS = 0

\* The constant limits of each direction are what clamp_rate needs.
LEMMA LimitsOK == ASSUME NEW d \in Direction PROVE LimitOK(limits[d])
  BY ConfigAssumption, ArithAssumption DEF LimitOK, U64

\* The configured factors, loads and intervals are natural numbers.
LEMMA FactorsNat ==
  /\ config.minimum_adjust_down \in Nat /\ config.maximum_adjust_down \in Nat
  /\ config.minimum_adjust_up \in Nat /\ config.maximum_adjust_up \in Nat
  /\ config.down_load_low \in Nat /\ config.up_load_low \in Nat
  /\ config.high_load_threshold \in Nat
  /\ config.bufferbloat_refractory \in Nat /\ config.decay_refractory \in Nat
  <1>1. U64_MAX \div RATIO_ONE_E6 \in Nat
    BY ArithAssumption, DivNat
  <1> QED BY <1>1, ConfigAssumption DEF U64

\* downward_factor returns a natural number for every average, negative ones too.
LEMMA DownwardNat ==
  ASSUME NEW average \in Int, NEW t \in ThresholdState
  PROVE  downward_factor(average, t) \in Nat
  <1> DEFINE a == delay_adjustment(average, t.threshold_us, t.down_us)
  <1>1. t.threshold_us \in Nat /\ t.down_us \in Nat
    BY DEF ThresholdState
  <1>2. RATIO_ONE_E6 \in Nat
    BY ArithAssumption
  <1>3. CASE t.down_us <= t.threshold_us \/ average >= t.down_us \/ average <= t.threshold_us
    <2>1. a \in {0, RATIO_ONE_E6}
      BY <1>1, <1>3 DEF delay_adjustment
    <2>2. a \in Nat /\ a <= RATIO_ONE_E6
      BY <1>2, <2>1
    <2> HIDE DEF a
    <2>3. interpolate_factor(config.minimum_adjust_down,
                             config.maximum_adjust_down, a) \in Nat
      BY <2>2, FactorsNat, InterpolateNat
    <2> QED BY <2>3 DEF downward_factor, a
  <1>4. CASE ~(t.down_us <= t.threshold_us \/ average >= t.down_us \/ average <= t.threshold_us)
    <2>1. /\ average - t.threshold_us \in Nat
          /\ t.down_us - t.threshold_us \in Nat
          /\ average - t.threshold_us <= t.down_us - t.threshold_us
      BY <1>1, <1>4
    <2>2. a = fraction_to_ratio(average - t.threshold_us, t.down_us - t.threshold_us)
      BY <1>1, <1>4 DEF delay_adjustment
    <2>3. a \in Nat /\ a <= RATIO_ONE_E6
      BY <2>1, <2>2, FractionLe
    <2> QED BY <2>3, FactorsNat, InterpolateNat DEF downward_factor
  <1> QED BY <1>3, <1>4

\* upward_factor returns a natural number for every average.
LEMMA UpwardNat ==
  ASSUME NEW average \in Int, NEW t \in ThresholdState
  PROVE  upward_factor(average, t) \in Nat
  <1>1. t.threshold_us \in Nat /\ t.up_us \in Nat
    BY DEF ThresholdState
  <1>2. RATIO_ONE_E6 \in Nat
    BY ArithAssumption
  <1>3. ASSUME NEW a \in Nat, a <= RATIO_ONE_E6
        PROVE  interpolate_factor(config.minimum_adjust_up,
                                  config.maximum_adjust_up, a) \in Nat
    BY <1>3, FactorsNat, InterpolateNat
  <1>4. CASE \/ t.threshold_us <= t.up_us \/ average <= 0 \/ average <= t.up_us
    BY <1>2, <1>3, <1>4 DEF upward_factor
  <1>5. CASE ~(\/ t.threshold_us <= t.up_us \/ average <= 0 \/ average <= t.up_us)
             /\ average < t.threshold_us
    <2>1. /\ t.threshold_us - average \in Nat
          /\ t.threshold_us - t.up_us \in Nat
          /\ t.threshold_us - average <= t.threshold_us - t.up_us
      BY <1>1, <1>5
    <2>2. LET a == fraction_to_ratio(t.threshold_us - average,
                                     t.threshold_us - t.up_us)
          IN  a \in Nat /\ a <= RATIO_ONE_E6
      BY <2>1, FractionLe
    <2> QED BY <1>3, <1>5, <2>2 DEF upward_factor
  <1>6. CASE ~(\/ t.threshold_us <= t.up_us \/ average <= 0 \/ average <= t.up_us)
             /\ ~(average < t.threshold_us)
    BY <1>2, <1>3, <1>6 DEF upward_factor
  <1> QED BY <1>4, <1>5, <1>6

-----------------------------------------------------------------------------
(* The rate: what one call of rate_adjust leaves behind.                    *)

\* The configured range, in rates CAKE can hold.
InRange(x, limit) ==
  /\ x \in Nat
  /\ limit.minimum <= x /\ x <= limit.maximum
  /\ x % SHAPER_RATE_STEP_BPS = 0

\* A step toward the base rate is again a rate the shaper can hold.
LEMMA TowardBaseFacts ==
  ASSUME NEW x \in Nat, NEW base \in Nat,
         x % SHAPER_RATE_STEP_BPS = 0, base % SHAPER_RATE_STEP_BPS = 0
  PROVE  /\ rate_toward_base(x, base) \in Nat
         /\ rate_toward_base(x, base) % SHAPER_RATE_STEP_BPS = 0
  <1>1. /\ scale_rate(x, config.down_load_low) \in Nat
        /\ scale_rate(x, config.down_load_low) % SHAPER_RATE_STEP_BPS = 0
    BY FactorsNat, ScaleRateFacts
  <1>2. /\ scale_rate(x, config.up_load_low) \in Nat
        /\ scale_rate(x, config.up_load_low) % SHAPER_RATE_STEP_BPS = 0
    BY FactorsNat, ScaleRateFacts
  <1> QED BY <1>1, <1>2 DEF rate_toward_base, max_u64, min_u64

\* What a call needs to know of its arguments.
CallOK(r, w, t, limit, update) ==
  /\ r \in RateState /\ t \in ThresholdState
  /\ w.average \in Int
  /\ LimitOK(limit) /\ InRange(r.shaper_rate, limit)
  /\ update.timestamp \in Nat
  /\ update.input.sample_id \in Nat
  /\ update.ceiling \in Nat
  /\ update.ceiling = U64_MAX \/ update.ceiling % SHAPER_RATE_STEP_BPS = 0

\* What each branch of rate_adjust changes, and what it leaves alone.
LEMMA MovedFacts ==
  ASSUME NEW r, NEW w, NEW t, NEW limit, NEW update, NEW branch,
         CallOK(r, w, t, limit, update)
  PROVE  LET m == Moved(branch, r, w, t, limit, update)
         IN  /\ m \in RateState
             /\ m.shaper_rate % SHAPER_RATE_STEP_BPS = 0
             /\ m.initial_rate_pending = r.initial_rate_pending
             /\ m.last_congestion \in {r.last_congestion, update.timestamp}
             /\ m.last_decay \in {r.last_decay, update.timestamp}
             /\ branch = "CONGESTION" => /\ m.last_congestion = update.timestamp
                                         /\ m.last_decay = update.timestamp
             /\ branch = "UNCHANGED" => m.shaper_rate = r.shaper_rate
  <1> DEFINE m == Moved(branch, r, w, t, limit, update)
  <1>1. /\ r \in RateState /\ r.shaper_rate \in Nat
        /\ r.shaper_rate % SHAPER_RATE_STEP_BPS = 0
        /\ update.timestamp \in Nat /\ update.input.sample_id \in Nat
    BY DEF CallOK, InRange, RateState
  <1>2. CASE branch = "CONGESTION"
    <2>1. LET x == scale_rate(r.shaper_rate, downward_factor(w.average, t))
          IN  x \in Nat /\ x % SHAPER_RATE_STEP_BPS = 0
      BY <1>1, DownwardNat, ScaleRateFacts DEF CallOK
    <2>2. m = [r EXCEPT !.shaper_rate = scale_rate(r.shaper_rate, downward_factor(w.average, t)),
                        !.last_congestion = update.timestamp,
                        !.last_decay = update.timestamp]
      BY <1>2 DEF Moved
    <2> QED BY <1>1, <1>2, <2>1, <2>2 DEF RateState
  <1>3. CASE branch = "HIGH_LOAD"
    <2>1. LET x == scale_rate(r.shaper_rate, upward_factor(w.average, t))
          IN  x \in Nat /\ x % SHAPER_RATE_STEP_BPS = 0
      BY <1>1, UpwardNat, ScaleRateFacts DEF CallOK
    <2>2. m = [r EXCEPT !.shaper_rate = scale_rate(r.shaper_rate, upward_factor(w.average, t)),
                        !.last_increase_sample_id = update.input.sample_id,
                        !.last_decay = update.timestamp]
      BY <1>3 DEF Moved
    <2> QED BY <1>1, <1>3, <2>1, <2>2 DEF RateState
  <1>4. CASE branch = "RETURN_TO_BASE"
    <2>1. LET x == rate_toward_base(r.shaper_rate, limit.base)
          IN  x \in Nat /\ x % SHAPER_RATE_STEP_BPS = 0
      BY <1>1, TowardBaseFacts DEF CallOK, LimitOK
    <2>2. m = [r EXCEPT !.shaper_rate = rate_toward_base(r.shaper_rate, limit.base),
                        !.last_decay = update.timestamp]
      BY <1>4 DEF Moved
    <2> QED BY <1>1, <1>4, <2>1, <2>2 DEF RateState
  <1>5. CASE branch \notin {"CONGESTION", "HIGH_LOAD", "RETURN_TO_BASE"}
    <2>1. m = r
      BY <1>5 DEF Moved
    <2> QED BY <1>1, <1>5, <2>1 DEF RateState
  <1> QED BY <1>2, <1>3, <1>4, <1>5

\* Which conditions let rate_adjust take each of its branches.
LEMMA BranchFacts ==
  ASSUME NEW r, NEW w, NEW limit, NEW update
  PROVE  LET b == Branch(r, w, limit, update)
         IN  /\ b \in {"CONGESTION", "HIGH_LOAD", "RETURN_TO_BASE", "UNCHANGED"}
             /\ b \in {"HIGH_LOAD", "RETURN_TO_BASE"} => w.congestion # "DETECTED"
             /\ b \in {"CONGESTION", "HIGH_LOAD"} =>
                  interval_elapsed(update.timestamp, r.last_congestion,
                                   config.bufferbloat_refractory)
             /\ b = "RETURN_TO_BASE" =>
                  interval_elapsed(update.timestamp, r.last_decay,
                                   config.decay_refractory)
  BY DEF Branch

\* clamp_rate brings a holdable rate between the minimum and the maximum.
LEMMA ClampFacts ==
  ASSUME NEW limit, LimitOK(limit), NEW x \in Nat, x % SHAPER_RATE_STEP_BPS = 0
  PROVE  InRange(clamp_rate(x, limit), limit)
  BY DEF LimitOK, InRange, clamp_rate

\* The rate stays in range; a rise was preceded by a refractory period; a
\* congestion reason restarts both.
AdjustOK(a, r, limit, update) ==
  /\ a.rate \in RateState
  /\ InRange(a.rate.shaper_rate, limit)
  /\ a.rate.last_congestion \in {r.last_congestion, update.timestamp}
  /\ a.rate.last_decay \in {r.last_decay, update.timestamp}
  /\ a.reason = "CONGESTION" => /\ a.rate.last_congestion = update.timestamp
                                /\ a.rate.last_decay = update.timestamp
  /\ a.rate.shaper_rate > r.shaper_rate =>
       \/ interval_elapsed(update.timestamp, r.last_congestion,
                           config.bufferbloat_refractory)
       \/ interval_elapsed(update.timestamp, r.last_decay,
                           config.decay_refractory)

\* One call of rate_adjust returns what AdjustOK states of it.
LEMMA RateAdjustFacts ==
  ASSUME NEW r, NEW w, NEW t, NEW limit, NEW update,
         CallOK(r, w, t, limit, update)
  PROVE  AdjustOK(rate_adjust(r, w, t, limit, update), r, limit, update)
  <1> DEFINE a == rate_adjust(r, w, t, limit, update)
             b == Branch(r, w, limit, update)
             m == Moved(b, r, w, t, limit, update)
             capped == m.shaper_rate > update.ceiling
             x == IF capped THEN update.ceiling ELSE m.shaper_rate
             final == clamp_rate(x, limit)
  <1> SUFFICES AdjustOK(a, r, limit, update)
    OBVIOUS
  <1>1. r \in RateState /\ InRange(r.shaper_rate, limit) /\ update.timestamp \in Nat
    BY DEF CallOK
  <1>2. CASE ~limit.adjust \/ ~update.input.valid
    <2>1. a = [rate |-> r, reason |-> "UNCHANGED"]
      BY <1>2 DEF rate_adjust
    <2> HIDE DEF a
    <2> QED BY <1>1, <2>1 DEF InRange, AdjustOK
  <1>3. CASE limit.adjust /\ update.input.valid /\ r.initial_rate_pending
    <2>1. a = [rate |-> [r EXCEPT !.initial_rate_pending = FALSE,
                                  !.last_congestion = update.timestamp,
                                  !.last_decay = update.timestamp],
               reason |-> "INITIAL"]
      BY <1>3 DEF rate_adjust
    <2> HIDE DEF a
    <2>2. /\ a.rate \in RateState /\ a.rate.shaper_rate = r.shaper_rate
          /\ a.rate.last_congestion = update.timestamp
          /\ a.rate.last_decay = update.timestamp
      BY <1>1, <2>1 DEF RateState
    <2>3. ~(r.shaper_rate > r.shaper_rate)
      BY <1>1 DEF InRange
    <2> QED BY <1>1, <2>2, <2>3 DEF AdjustOK
  <1>4. CASE limit.adjust /\ update.input.valid /\ ~r.initial_rate_pending
             /\ ~update.latency.valid
    <2>1. a = [rate |-> r, reason |-> "UNCHANGED"]
      BY <1>4 DEF rate_adjust
    <2> HIDE DEF a
    <2> QED BY <1>1, <2>1 DEF InRange, AdjustOK
  <1>5. CASE limit.adjust /\ update.input.valid /\ ~r.initial_rate_pending
             /\ update.latency.valid
    <2>1. /\ m \in RateState
          /\ m.shaper_rate % SHAPER_RATE_STEP_BPS = 0
          /\ m.last_congestion \in {r.last_congestion, update.timestamp}
          /\ m.last_decay \in {r.last_decay, update.timestamp}
          /\ b = "CONGESTION" => /\ m.last_congestion = update.timestamp
                                 /\ m.last_decay = update.timestamp
          /\ b = "UNCHANGED" => m.shaper_rate = r.shaper_rate
      BY MovedFacts
    <2>2. /\ b \in {"CONGESTION", "HIGH_LOAD", "RETURN_TO_BASE", "UNCHANGED"}
          /\ b \in {"HIGH_LOAD", "RETURN_TO_BASE"} => w.congestion # "DETECTED"
          /\ b \in {"CONGESTION", "HIGH_LOAD"} =>
               interval_elapsed(update.timestamp, r.last_congestion,
                                config.bufferbloat_refractory)
          /\ b = "RETURN_TO_BASE" =>
               interval_elapsed(update.timestamp, r.last_decay,
                                config.decay_refractory)
      BY BranchFacts
    <2>3. a.rate = [m EXCEPT !.shaper_rate = final]
      BY <1>5 DEF rate_adjust, Reason
    <2>4. a.reason = "CONGESTION" =>
            final # r.shaper_rate /\ ~capped /\ w.congestion = "DETECTED"
      BY <1>5 DEF rate_adjust, Reason
    <2>5. m.shaper_rate \in Nat /\ r.shaper_rate \in Nat
      BY <1>1, <2>1 DEF RateState
    <2> HIDE DEF a, b, m
    <2>6. InRange(final, limit)
      <3>1. CASE capped /\ update.ceiling = U64_MAX
        <4>1. x = U64_MAX
          BY <3>1
        <4>2. final = limit.maximum
          BY <4>1, ArithAssumption DEF clamp_rate, CallOK, LimitOK
        <4> QED BY <4>2 DEF InRange, CallOK, LimitOK
      <3>2. CASE ~(capped /\ update.ceiling = U64_MAX)
        <4>1. x \in Nat /\ x % SHAPER_RATE_STEP_BPS = 0
          BY <2>1, <2>5, <3>2 DEF CallOK
        <4> HIDE DEF x
        <4> QED BY <4>1, ClampFacts DEF CallOK
      <3> QED BY <3>1, <3>2
    <2>7. b = "UNCHANGED" => final <= r.shaper_rate
      <3> SUFFICES ASSUME b = "UNCHANGED" PROVE final <= r.shaper_rate
        OBVIOUS
      <3>1. x \in Nat /\ x <= r.shaper_rate
        BY <2>1, <2>5 DEF CallOK
      <3> HIDE DEF x
      <3> QED BY <1>1, <2>5, <3>1 DEF clamp_rate, InRange, CallOK, LimitOK
    <2>8. b = "UNCHANGED" /\ ~capped => final = r.shaper_rate
      <3> SUFFICES ASSUME b = "UNCHANGED", ~capped PROVE final = r.shaper_rate
        OBVIOUS
      <3>1. x = r.shaper_rate
        BY <2>1
      <3> HIDE DEF x
      <3> QED BY <1>1, <2>5, <3>1 DEF clamp_rate, InRange, CallOK, LimitOK
    <2> HIDE DEF capped, x, final
    <2>9. final \in Nat
      BY <2>6 DEF InRange
    <2>10. a.rate \in RateState /\ a.rate.shaper_rate = final
           /\ a.rate.last_congestion = m.last_congestion
           /\ a.rate.last_decay = m.last_decay
      BY <2>1, <2>3, <2>9 DEF RateState
    <2>11. a.reason = "CONGESTION" => b = "CONGESTION"
      BY <2>2, <2>4, <2>8
    <2>12. final > r.shaper_rate => b # "UNCHANGED"
      BY <2>5, <2>7, <2>9
    <2> QED BY <2>1, <2>2, <2>6, <2>10, <2>11, <2>12 DEF AdjustOK
  <1> QED BY <1>2, <1>3, <1>4, <1>5

\* The two low-load factors are on their sides of one, as the defaults and every
\* sensible configuration have them; config_validate does not ask for it.
FactorsDecay ==
  config.down_load_low <= RATIO_ONE_E6 /\ RATIO_ONE_E6 <= config.up_load_low

\* With such factors a low-load step goes from the rate towards the base and not
\* past it, or nowhere: the multiple of eight it is cut to is not below the rate.
LEMMA TowardBase ==
  ASSUME FactorsDecay, NEW x \in Nat, NEW base \in Nat, x <= U64_MAX,
         x % SHAPER_RATE_STEP_BPS = 0
  PROVE  LET y == rate_toward_base(x, base)
         IN  /\ y \in Nat
             /\ x <= base => x <= y /\ y <= base
             /\ base <= x => base <= y /\ y <= x
  <1> DEFINE down == ratio_of(x, config.down_load_low)
             up == ratio_of(x, config.up_load_low)
  <1>1. down \in Nat /\ down <= x /\ up \in Nat /\ x <= up
    <2>1. config.up_load_low <= U64_MAX \div RATIO_ONE_E6
      BY ConfigAssumption
    <2>2. config.down_load_low \in Nat /\ config.up_load_low \in Nat
      BY FactorsNat
    <2> QED BY <2>1, <2>2, RatioOfLe, RatioOfGe, RatioOfNat DEF FactorsDecay
  <1>2. /\ scale_rate(x, config.down_load_low) = rate_holdable(down)
        /\ scale_rate(x, config.up_load_low) = rate_holdable(up)
    BY DEF scale_rate
  <1> HIDE DEF down, up
  <1>3. /\ rate_holdable(down) \in Nat /\ rate_holdable(down) <= x
        /\ rate_holdable(up) \in Nat /\ x <= rate_holdable(up)
    BY <1>1, SMT DEF rate_holdable, SHAPER_RATE_STEP_BPS, BITS_PER_BYTE
  <1> QED BY <1>2, <1>3 DEF rate_toward_base, max_u64, min_u64

\* A high-load reason consumes a sample not consumed before; a low-load one moves
\* the rate towards its base and not past it.
ReasonOK(a, r, limit, update) ==
  LET old == r.shaper_rate
      new == a.rate.shaper_rate
  IN  /\ a.reason = "HIGH_LOAD" =>
           /\ a.rate.last_increase_sample_id = update.input.sample_id
           /\ update.input.sample_id # r.last_increase_sample_id
      /\ a.reason = "RETURN_TO_BASE" =>
           \/ old < new /\ new <= limit.base
           \/ limit.base <= new /\ new < old

\* The reason of rate_adjust, worked out from the sample, is the one of the branch
\* that moved the rate.
LEMMA ReasonFacts ==
  ASSUME FactorsDecay, NEW r, NEW w, NEW t, NEW limit, NEW update,
         CallOK(r, w, t, limit, update)
  PROVE  ReasonOK(rate_adjust(r, w, t, limit, update), r, limit, update)
  <1> DEFINE a == rate_adjust(r, w, t, limit, update)
             b == Branch(r, w, limit, update)
             m == Moved(b, r, w, t, limit, update)
             high_load == load_ratio(update.input.traffic, r.shaper_rate)
                            > config.high_load_threshold
             capped == m.shaper_rate > update.ceiling
             x == IF capped THEN update.ceiling ELSE m.shaper_rate
             final == clamp_rate(x, limit)
  <1> SUFFICES ASSUME a.reason \in {"HIGH_LOAD", "RETURN_TO_BASE"}
               PROVE  ReasonOK(a, r, limit, update)
    BY DEF ReasonOK
  <1>1. /\ r \in RateState /\ InRange(r.shaper_rate, limit) /\ LimitOK(limit)
        /\ r.shaper_rate \in Nat
    BY DEF CallOK, InRange
  <1>2. /\ a.rate = [m EXCEPT !.shaper_rate = final]
        /\ a.reason = Reason(final # r.shaper_rate, capped,
                             w.congestion = "DETECTED", high_load)
    BY DEF rate_adjust
  <1>3. /\ final # r.shaper_rate /\ ~capped /\ w.congestion # "DETECTED"
        /\ a.reason = "HIGH_LOAD" <=> high_load
    BY <1>2 DEF Reason
  <1>4. final = clamp_rate(m.shaper_rate, limit)
    BY <1>3
  <1>5. CASE b = "HIGH_LOAD"
    <2>1. high_load /\ update.input.sample_id # r.last_increase_sample_id
      BY <1>5 DEF Branch
    <2>2. m = [r EXCEPT !.shaper_rate = scale_rate(r.shaper_rate,
                                                   upward_factor(w.average, t)),
                        !.last_increase_sample_id = update.input.sample_id,
                        !.last_decay = update.timestamp]
      BY <1>5 DEF Moved
    <2> HIDE DEF a, b, m, final, capped, x, high_load
    <2>3. a.rate.last_increase_sample_id = update.input.sample_id
      BY <1>1, <1>2, <2>2 DEF RateState
    <2>4. a.reason = "HIGH_LOAD"
      BY <1>3, <2>1
    <2> QED BY <2>1, <2>3, <2>4 DEF ReasonOK
  <1>6. CASE b = "RETURN_TO_BASE"
    <2>1. ~high_load
      BY <1>6 DEF Branch
    <2> DEFINE y == rate_toward_base(r.shaper_rate, limit.base)
    <2>2. m = [r EXCEPT !.shaper_rate = y, !.last_decay = update.timestamp]
      BY <1>6 DEF Moved
    <2>3. /\ y \in Nat
          /\ r.shaper_rate <= limit.base => r.shaper_rate <= y /\ y <= limit.base
          /\ limit.base <= r.shaper_rate => limit.base <= y /\ y <= r.shaper_rate
      <3>1. /\ r.shaper_rate <= U64_MAX /\ r.shaper_rate % SHAPER_RATE_STEP_BPS = 0
            /\ limit.base \in Nat
        BY <1>1, ArithAssumption DEF InRange, LimitOK
      <3> QED BY <1>1, <3>1, TowardBase
    <2> HIDE DEF a, b, m, final, capped, x, high_load, y
    <2>4. m.shaper_rate = y
      BY <1>1, <2>2 DEF RateState
    <2>5. final = y
      BY <1>1, <1>4, <2>3, <2>4 DEF clamp_rate, InRange, LimitOK
    <2>6. a.rate.shaper_rate = y /\ a.reason = "RETURN_TO_BASE"
      <3>1. m \in RateState
        BY <1>1, <2>2, <2>3 DEF CallOK, RateState
      <3> QED BY <1>2, <1>3, <2>1, <2>5, <3>1 DEF RateState
    <2> QED BY <1>1, <1>3, <2>3, <2>5, <2>6 DEF ReasonOK, LimitOK
  <1>7. CASE b \notin {"HIGH_LOAD", "RETURN_TO_BASE"}
    <2>1. b = "UNCHANGED"
      BY <1>3, <1>7 DEF Branch
    <2>2. m = r
      BY <2>1 DEF Moved
    <2> HIDE DEF b, m
    <2>3. final = r.shaper_rate
      BY <1>1, <1>4, <2>2 DEF clamp_rate, InRange, LimitOK
    <2> QED BY <1>3, <2>3
  <1> QED BY <1>5, <1>6, <1>7

-----------------------------------------------------------------------------
(* The bufferbloat window.                                                  *)

WindowState ==
  [samples : [Slots -> Int], delayed : [Slots -> BOOLEAN],
   sum : Int, count : Int, next : Slots, average : Int,
   congestion : {"UNKNOWN", "CLEAR", "DETECTED"}]

LatencyState == [valid : BOOLEAN, delta : Int]

\* signed_rounded_divide returns an integer for dividends of either sign.
LEMMA SignedDivideInt ==
  ASSUME NEW v \in Int, NEW n \in Nat \ {0}
  PROVE  signed_rounded_divide(v, n) \in Int
  <1>1. ASSUME NEW magnitude \in Nat
        PROVE  magnitude \div n \in Int
    BY <1>1, DivNat
  <1> QED BY <1>1, SMT DEF signed_rounded_divide

\* congestion_update keeps the type of the window.
LEMMA WindowTyped ==
  ASSUME NEW w \in WindowState, NEW threshold \in Nat, NEW lat \in LatencyState
  PROVE  congestion_update(w, threshold, lat) \in WindowState
  <1> DEFINE sum == w.sum - w.samples[w.next] + lat.delta
             late == lat.delta > 0 /\ lat.delta > threshold
             count == w.count - (IF w.delayed[w.next] THEN 1 ELSE 0)
                              + (IF late THEN 1 ELSE 0)
  <1>1. /\ w.next \in Slots /\ w.samples \in [Slots -> Int]
        /\ w.delayed \in [Slots -> BOOLEAN]
        /\ w.sum \in Int /\ w.count \in Int /\ lat.delta \in Int
    BY DEF WindowState, LatencyState
  <1>2. sum \in Int /\ count \in Int /\ late \in BOOLEAN
    BY <1>1
  <1>3. signed_rounded_divide(sum, config.detection_window) \in Int
    BY <1>2, SignedDivideInt, ConfigAssumption
  <1>4. (IF w.next + 1 = config.detection_window THEN 0 ELSE w.next + 1) \in Slots
    <2>1. config.detection_window \in Nat \ {0}
      BY ConfigAssumption
    <2> QED BY <1>1, <2>1 DEF Slots
  <1> HIDE DEF sum, late, count
  <1>5. CASE ~lat.valid
    <2>1. congestion_update(w, threshold, lat) =
            [w EXCEPT !.congestion = "UNKNOWN", !.average = 0]
      BY <1>5 DEF congestion_update
    <2> DEFINE v == [w EXCEPT !.congestion = "UNKNOWN"]
    <2>2. [w EXCEPT !.congestion = "UNKNOWN", !.average = 0] =
            [v EXCEPT !.average = 0]
      BY DEF WindowState
    <2>3. v \in WindowState
      BY DEF WindowState
    <2> HIDE DEF v
    <2>4. [v EXCEPT !.average = 0] \in WindowState
      BY <2>3 DEF WindowState
    <2> QED BY <2>1, <2>2, <2>4
  <1>6. CASE lat.valid
    <2>1. congestion_update(w, threshold, lat) =
            [samples |-> [w.samples EXCEPT ![w.next] = lat.delta],
             delayed |-> [w.delayed EXCEPT ![w.next] = late],
             sum |-> sum, count |-> count,
             next |-> IF w.next + 1 = config.detection_window
                      THEN 0 ELSE w.next + 1,
             average |-> signed_rounded_divide(sum, config.detection_window),
             congestion |-> IF count >= config.detection_threshold
                            THEN "DETECTED" ELSE "CLEAR"]
      BY <1>6 DEF congestion_update, leaving, next_slot, sum, late, count
    <2> QED BY <1>1, <1>2, <1>3, <1>4, <2>1 DEF WindowState
  <1> QED BY <1>5, <1>6

\* CountMatchesWindow for one direction's window.
CountOK(w) == w.count = Cardinality({i \in Slots : w.delayed[i]})

\* congestion_update keeps the count of a window equal to its late samples.
LEMMA WindowCounted ==
  ASSUME NEW w \in WindowState, NEW threshold \in Nat, NEW lat \in LatencyState,
         CountOK(w)
  PROVE  CountOK(congestion_update(w, threshold, lat))
  <1> DEFINE late == lat.delta > 0 /\ lat.delta > threshold
             n == w.next
             new == congestion_update(w, threshold, lat)
             S == {i \in Slots : w.delayed[i]}
             T == S \ {n}
  <1>1. n \in Slots /\ w.delayed \in [Slots -> BOOLEAN] /\ late \in BOOLEAN
        /\ w.count \in Int
    BY DEF WindowState, LatencyState
  <1> SUFFICES CountOK(new)
    OBVIOUS
  <1>2. IsFiniteSet(Slots)
    <2>1. 0 \in Int /\ config.detection_window - 1 \in Int
      BY ConfigAssumption
    <2> QED BY <2>1, FS_Interval DEF Slots
  <1>3. IsFiniteSet(S) /\ IsFiniteSet(T)
    BY <1>2, FS_Subset
  <1>4. Cardinality(S) \in Nat /\ Cardinality(T) \in Nat
    BY <1>3, FS_CardinalityType
  <1>5. Cardinality(T) = Cardinality(S) - (IF w.delayed[n] THEN 1 ELSE 0)
    <2>1. CASE w.delayed[n]
      <3>1. n \in S
        BY <1>1, <2>1
      <3> HIDE DEF S
      <3> QED BY <1>3, <2>1, <3>1, FS_RemoveElement
    <2>2. CASE ~w.delayed[n]
      <3>1. T = S
        BY <2>2
      <3> HIDE DEF S, T
      <3> QED BY <1>4, <2>2, <3>1
    <2> QED BY <2>1, <2>2
  <1>6. Cardinality(T \cup {n}) = Cardinality(T) + 1
    BY <1>3, FS_AddElement
  <1>7. CASE ~lat.valid
    <2>1. new.count = w.count /\ new.delayed = w.delayed
      BY <1>7 DEF congestion_update, WindowState
    <2> HIDE DEF new
    <2> QED BY <2>1 DEF CountOK
  <1>8. CASE lat.valid
    <2>1. /\ new.count = w.count - (IF w.delayed[n] THEN 1 ELSE 0)
                                 + (IF late THEN 1 ELSE 0)
          /\ new.delayed = [w.delayed EXCEPT ![n] = late]
      BY <1>8 DEF congestion_update, leaving
    <2> HIDE DEF new
    <2>2. {i \in Slots : new.delayed[i]} = IF late THEN T \cup {n} ELSE T
      <3> HIDE DEF late
      <3> QED BY <1>1, <2>1
    <2>3. w.count = Cardinality(S)
      BY DEF CountOK
    <2> HIDE DEF late, S, T
    <2>4. Cardinality({i \in Slots : new.delayed[i]}) =
            Cardinality(T) + (IF late THEN 1 ELSE 0)
      BY <1>1, <1>4, <1>6, <2>2
    <2>5. new.count = Cardinality(T) + (IF late THEN 1 ELSE 0)
      BY <1>1, <1>4, <1>5, <2>1, <2>3
    <2> QED BY <2>4, <2>5 DEF CountOK
  <1> QED BY <1>1, <1>7, <1>8 DEF LatencyState

-----------------------------------------------------------------------------
(* One sample through a direction.                                          *)

\* What the daemon may pass in, as InputAssumption and NextInputs have it.
InputOK(input) ==
  /\ \A d \in Direction :
       /\ input.directions[d].traffic \in Nat
       /\ input.directions[d].sample_id \in Nat
       /\ input.latency[d] \in LatencyState
       /\ input.queue.delay_us[d] \in Int
  /\ input.queue.delay_us["download"] + input.queue.delay_us["upload"]
       <= U64_MAX \div RATIO_ONE_E6
  /\ input.acks.ack \in Nat /\ input.acks.upload \in Nat
  /\ input.timestamp \in Nat /\ now <= input.timestamp

\* The traffic and the sample number of an input are natural numbers.
LEMMA DirectionsOK ==
  ASSUME TypeOK, NEW input \in NextInputs, NEW d \in Direction
  PROVE  /\ input.directions[d].traffic \in Nat
         /\ input.directions[d].sample_id \in Nat
  <1>1. PICK i \in Pairs(DirectionInputs), new \in [Direction -> 0 .. 1] :
          input.directions =
            [e \in Direction |->
               [valid |-> i[e].valid, traffic |-> i[e].traffic,
                cake |-> i[e].cake, sample_id |-> sample_id[e] + new[e]]]
    BY DEF NextInputs
  <1>2. i[d] \in [valid : BOOLEAN, traffic : U64, cake : U64]
    BY InputAssumption DEF Pairs
  <1>3. i[d].traffic \in Nat
    BY <1>2, ArithAssumption DEF U64
  <1>4. new[d] \in 0 .. 1 /\ sample_id[d] \in Nat
    BY DEF TypeOK
  <1>5. /\ input.directions[d].traffic = i[d].traffic
        /\ input.directions[d].sample_id = sample_id[d] + new[d]
    BY <1>1
  <1> QED BY <1>3, <1>4, <1>5

\* Every input of a step is one the helpers accept.
LEMMA InputFacts ==
  ASSUME TypeOK, NEW input \in NextInputs
  PROVE  InputOK(input)
  <1>1. ASSUME NEW d \in Direction PROVE input.latency[d] \in LatencyState
    <2>1. input.latency \in Pairs(Latencies)
      BY DEF NextInputs
    <2>2. input.latency[d] \in Latencies[d]
      BY <2>1 DEF Pairs
    <2> QED BY <2>2, InputAssumption DEF LatencyState
  <1>2. input.queue \in QueueInputs /\ input.acks \in AckInputs
    BY DEF NextInputs
  <1>3. input.queue \in [valid : BOOLEAN, delay_us : [Direction -> Int]]
    BY <1>2, InputAssumption
  <1>4. input.queue.delay_us["download"] + input.queue.delay_us["upload"]
          <= U64_MAX \div RATIO_ONE_E6
    BY <1>2, InputAssumption
  <1>5. input.acks \in [valid : BOOLEAN, ack : U64, upload : U64]
    BY <1>2, InputAssumption
  <1>6. input.acks.ack \in Nat /\ input.acks.upload \in Nat
    BY <1>5, ArithAssumption DEF U64
  <1>7. input.timestamp \in now .. now + MaxElapsed
    BY DEF NextInputs
  <1>8. input.timestamp \in Nat /\ now <= input.timestamp
    BY <1>7, InputAssumption DEF TypeOK
  <1> QED BY <1>1, <1>3, <1>4, <1>6, <1>8, DirectionsOK DEF InputOK

\* The latency a direction reads from an input has its type.
LEMMA LatencyTyped ==
  ASSUME NEW input, InputOK(input), NEW d \in Direction
  PROVE  Latency(input, d) \in LatencyState
  <1> DEFINE total == input.queue.delay_us["download"]
                        + input.queue.delay_us["upload"]
             round_trip == input.latency["download"].delta
                             + input.latency["upload"].delta
             product == round_trip * input.queue.delay_us["download"]
             download == signed_rounded_divide(product, total)
  <1>1. "download" \in Direction /\ "upload" \in Direction
    BY DEF Direction
  <1>2. CASE MeasuredQueues(input) /\ input.latency["download"].valid
             /\ input.latency["upload"].valid
    <2>1. total \in Nat \ {0}
      <3>1. total \in Int
        BY <1>1 DEF InputOK
      <3>2. total >= policy.queue_minimum_us
        BY <1>2 DEF MeasuredQueues
      <3> HIDE DEF total
      <3> QED BY <3>1, <3>2, PolicyAssumption
    <2>2. round_trip \in Int /\ input.queue.delay_us["download"] \in Int
      BY <1>1 DEF InputOK, LatencyState
    <2>3. product \in Int
      <3> HIDE DEF round_trip
      <3> QED BY <2>2, SMT
    <2>4. download \in Int
      <3> HIDE DEF product, total
      <3> QED BY <2>1, <2>3, SignedDivideInt
    <2>5. Latency(input, d) =
            [valid |-> TRUE,
             delta |-> IF d = "download" THEN download ELSE round_trip - download]
      BY <1>2 DEF Latency
    <2> HIDE DEF download, round_trip
    <2> QED BY <2>2, <2>4, <2>5 DEF LatencyState
  <1>3. CASE ~(MeasuredQueues(input) /\ input.latency["download"].valid
               /\ input.latency["upload"].valid)
    <2>1. Latency(input, d) = input.latency[d]
      BY <1>3 DEF Latency
    <2> QED BY <2>1 DEF InputOK
  <1> QED BY <1>2, <1>3

\* The ceiling of a direction is no limit, or a rate the shaper can hold.
LEMMA CeilingFacts ==
  ASSUME TypeOK, NEW input, InputOK(input), NEW d \in Direction
  PROVE  LET c == Ceiling(input, d)
         IN  c \in Nat /\ (c = U64_MAX \/ c % SHAPER_RATE_STEP_BPS = 0)
  <1> USE ArithAssumption
  <1> DEFINE c == Ceiling(input, d)
             room == rate["upload"].shaper_rate
             other == saturating_sub(input.acks.upload, input.acks.ack)
             headroom == ratio_of(room, policy.ack_headroom)
             taken == Wrap(other + headroom)
             share == ratio_of(room, config.ack_share)
             allowed == max_u64(saturating_sub(room, taken), share)
             traffic == input.directions["download"].traffic
             ack == input.acks.ack
             x == mul_div(traffic, allowed, ack)
  <1> SUFFICES c \in Nat /\ (c = U64_MAX \/ c % SHAPER_RATE_STEP_BPS = 0)
    OBVIOUS
  <1>1. room \in Nat /\ policy.ack_headroom \in Nat /\ config.ack_share \in Nat
        /\ ack \in Nat /\ input.acks.upload \in Nat /\ traffic \in Nat
    BY ConfigAssumption, PolicyAssumption
       DEF TypeOK, Direction, U64, InputOK
  <1>2. headroom \in Nat /\ share \in Nat
    <2> HIDE DEF room
    <2> QED BY <1>1, RatioOfNat
  <1>3. other \in Nat
    BY <1>1 DEF saturating_sub
  <1>4. taken \in Nat
    <2> HIDE DEF other, headroom
    <2>1. other + headroom \in Nat
      BY <1>2, <1>3
    <2> QED BY <2>1, WrapLe
  <1>5. allowed \in Nat
    <2> HIDE DEF room, taken, share
    <2> QED BY <1>1, <1>2, <1>4 DEF max_u64, saturating_sub
  <1>6. c = U64_MAX \/ (ack # 0 /\ c = rate_holdable(x))
    BY DEF Ceiling, coupling_download_ceiling, NO_CEILING
  <1>7. CASE ack # 0
    <2> HIDE DEF allowed, traffic, ack
    <2>0. traffic \in Nat /\ ack \in Nat \ {0}
      BY <1>1, <1>7
    <2>1. traffic \div ack \in Nat /\ traffic % ack \in Nat
      BY <2>0, DivNat
    <2>2. Wrap((traffic \div ack) * allowed) \in Nat
          /\ Wrap((traffic % ack) * allowed) \in Nat
      BY <1>5, <2>1, ProductNat, WrapLe
    <2>3. Wrap((traffic % ack) * allowed) \div ack \in Nat
      BY <1>1, <1>7, <2>2, DivNat
    <2>4. x \in Nat
      <3>1. Wrap((traffic \div ack) * allowed)
              + Wrap((traffic % ack) * allowed) \div ack \in Nat
        BY <2>2, <2>3
      <3> QED BY <3>1, WrapLe DEF mul_div
    <2> HIDE DEF x, c
    <2>5. rate_holdable(x) \in Nat /\ rate_holdable(x) % SHAPER_RATE_STEP_BPS = 0
      BY <2>4, HoldableNat
    <2> QED BY <1>6, <2>5
  <1>8. CASE ack = 0
    <2> HIDE DEF x, c
    <2> QED BY <1>6, <1>8
  <1> QED BY <1>7, <1>8

\* controller_update calls rate_adjust with arguments it is made for.
LEMMA DirectionCall ==
  ASSUME TypeOK, RatesHoldable, NEW input \in NextInputs, NEW d \in Direction
  PROVE  /\ NewWindow(input, d) \in WindowState
         /\ CallOK(rate[d], NewWindow(input, d), thresholds[d], limits[d],
                   DirectionUpdate(input, d))
  <1>1. InputOK(input)
    BY InputFacts
  <1>2. window[d] \in WindowState /\ thresholds[d] \in ThresholdState
        /\ thresholds[d].threshold_us \in Nat /\ rate[d] \in RateState
    BY DEF TypeOK, WindowState, ThresholdState, RateState
  <1>3. Latency(input, d) \in LatencyState
    BY <1>1, LatencyTyped
  <1>4. NewWindow(input, d) \in WindowState
    BY <1>2, <1>3, WindowTyped DEF NewWindow
  <1>5. LimitOK(limits[d])
    BY LimitsOK
  <1>6. InRange(rate[d].shaper_rate, limits[d])
    BY <1>2 DEF RatesHoldable, InRange, RateState
  <1>7. CallOK(rate[d], NewWindow(input, d), thresholds[d], limits[d],
               DirectionUpdate(input, d))
    <2>1. /\ DirectionUpdate(input, d).timestamp = input.timestamp
          /\ DirectionUpdate(input, d).input = input.directions[d]
          /\ DirectionUpdate(input, d).ceiling = Ceiling(input, d)
      BY DEF DirectionUpdate
    <2>2. NewWindow(input, d).average \in Int
      BY <1>4 DEF WindowState
    <2>3. LET c == Ceiling(input, d)
          IN  c \in Nat /\ (c = U64_MAX \/ c % SHAPER_RATE_STEP_BPS = 0)
      BY <1>1, CeilingFacts
    <2>4. input.timestamp \in Nat /\ input.directions[d].sample_id \in Nat
      BY <1>1 DEF InputOK
    <2> HIDE DEF Direction
    <2> QED BY <1>2, <1>5, <1>6, <2>1, <2>2, <2>3, <2>4 DEF CallOK
  <1> QED BY <1>4, <1>7

\* What one controller_update computes for one direction.
LEMMA DirectionFacts ==
  ASSUME TypeOK, RatesHoldable, NEW input \in NextInputs, NEW d \in Direction
  PROVE  /\ NewWindow(input, d) \in WindowState
         /\ AdjustOK(Adjusted(input, d), rate[d], limits[d],
                     DirectionUpdate(input, d))
  BY DirectionCall, RateAdjustFacts DEF Adjusted

-----------------------------------------------------------------------------
(* The invariant.                                                           *)

\* The last cut is no later than either refractory timestamp, and neither lies
\* in the future: what CutsStick needs to know of the past.
CutRecorded ==
  \A d \in Direction :
    /\ rate[d].last_congestion <= now
    /\ rate[d].last_decay <= now
    /\ cut_at[d] >= 0 => /\ cut_at[d] <= rate[d].last_congestion
                         /\ cut_at[d] <= rate[d].last_decay

IInv ==
  TypeOK /\ RatesHoldable /\ CountMatchesWindow /\ AlwaysBlamed /\ CutRecorded

LineState ==
  [state : {"UNKNOWN", "BELOW_CAPACITY", "SATURATED"},
   saturation : 0 .. SATURATION_CONFIRMATION_SAMPLES - 1,
   recovery : 0 .. RECOVERY_CONFIRMATION_SAMPLES - 1]

\* congestion_update_line_state keeps the type of the line.
LEMMA LineTyped ==
  ASSUME NEW l \in LineState, NEW input
  PROVE  congestion_update_line_state(l, input) \in LineState
  <1> USE DEF SATURATION_CONFIRMATION_SAMPLES, RECOVERY_CONFIRMATION_SAMPLES
  <1> DEFINE recovered ==
               input.traffic <= ratio_of_rounded_up(input.cake, policy.exit)
             saturated ==
               input.traffic >= ratio_of_rounded_up(input.cake, policy.enter)
             cleared == [l EXCEPT !.saturation = 0]
             entering == [l EXCEPT !.saturation = @ + 1]
  <1>1. UNKNOWN_LINE \in LineState
        /\ [state |-> "BELOW_CAPACITY", saturation |-> 0, recovery |-> 0] \in LineState
        /\ [state |-> "SATURATED", saturation |-> 0, recovery |-> 0] \in LineState
    BY DEF LineState, UNKNOWN_LINE
  <1>2. l.saturation \in 0 .. 2 /\ l.recovery \in 0 .. 2
    BY DEF LineState
  <1>3. cleared \in LineState
    BY DEF LineState
  <1>4. [cleared EXCEPT !.recovery = 0] \in LineState
    BY <1>3 DEF LineState
  <1>5. l.recovery + 1 < 3 => [cleared EXCEPT !.recovery = @ + 1] \in LineState
    <2>1. cleared.recovery = l.recovery
      BY DEF LineState
    <2> HIDE DEF cleared
    <2> QED BY <1>2, <1>3, <2>1 DEF LineState
  <1>6. l.saturation + 1 < 3 => [entering EXCEPT !.recovery = 0] \in LineState
    <2> SUFFICES ASSUME l.saturation + 1 < 3
                 PROVE  [entering EXCEPT !.recovery = 0] \in LineState
      OBVIOUS
    <2>1. entering \in LineState
      BY <1>2 DEF LineState
    <2> HIDE DEF entering
    <2> QED BY <2>1 DEF LineState
  <1>7. /\ [l EXCEPT !.saturation = 0, !.recovery = 0]
             = [cleared EXCEPT !.recovery = 0]
        /\ [l EXCEPT !.saturation = 0, !.recovery = @ + 1]
             = [cleared EXCEPT !.recovery = @ + 1]
        /\ [l EXCEPT !.saturation = @ + 1, !.recovery = 0]
             = [entering EXCEPT !.recovery = 0]
    BY DEF LineState
  <1>8. congestion_update_line_state(l, input) \in
          {UNKNOWN_LINE,
           [state |-> "BELOW_CAPACITY", saturation |-> 0, recovery |-> 0],
           [state |-> "SATURATED", saturation |-> 0, recovery |-> 0],
           [cleared EXCEPT !.recovery = 0]}
        \/ /\ l.recovery + 1 < 3
           /\ congestion_update_line_state(l, input)
                = [cleared EXCEPT !.recovery = @ + 1]
        \/ /\ l.saturation + 1 < 3
           /\ congestion_update_line_state(l, input)
                = [entering EXCEPT !.recovery = 0]
    <2> HIDE DEF cleared, entering
    <2> QED BY <1>2, <1>7 DEF congestion_update_line_state
  <1> HIDE DEF cleared, entering
  <1> QED BY <1>1, <1>4, <1>5, <1>6, <1>8

\* Bufferbloat has a culprit, whatever the input.
LEMMA BlameFacts ==
  ASSUME TypeOK, NEW input, InputOK(input)
  PROVE  Attributed(input, "download") \/ Attributed(input, "upload")
  <1> USE ArithAssumption
  <1> DEFINE dl == input.queue.delay_us["download"]
             ul == input.queue.delay_us["upload"]
             total == dl + ul
             delivery == coupling_delivery_ratio(rate["download"].shaper_rate,
                                                 input.directions["download"])
  <1>1. dl \in Int /\ ul \in Int /\ total <= U64_MAX \div RATIO_ONE_E6
    BY DEF InputOK, Direction
  <1>2. CASE ~MeasuredQueues(input)
    <2>1. rate["download"].shaper_rate \in Nat
          /\ input.directions["download"].traffic \in Nat
      BY DEF InputOK, Direction, TypeOK
    <2>2. delivery \in Nat
      BY <2>1, FractionNat DEF coupling_delivery_ratio, load_ratio
    <2>3. policy.full_delivery \in Nat
      BY PolicyAssumption DEF U64
    <2>4. delivery < policy.full_delivery \/ delivery >= policy.full_delivery
      BY <2>2, <2>3
    <2>5. Attributed(input, "download")
            <=> (~config.shared_delay \/ delivery < policy.full_delivery)
      BY <1>2 DEF Attributed
    <2>6. Attributed(input, "upload")
            <=> \/ ~config.shared_delay
                \/ delivery <= config.high_load_threshold
                \/ delivery >= policy.full_delivery
      BY <1>2 DEF Attributed
    <2> QED BY <2>4, <2>5, <2>6
  <1>3. CASE MeasuredQueues(input)
    <2>1. /\ Attributed(input, "download") <=> coupling_holds_queue_share(dl, total)
          /\ Attributed(input, "upload") <=> coupling_holds_queue_share(ul, total)
      BY <1>3 DEF Attributed
    <2>2. total \in Nat \ {0}
      <3>1. total >= policy.queue_minimum_us
        BY <1>3 DEF MeasuredQueues
      <3> QED BY <1>1, <3>1, PolicyAssumption
    <2>3. policy.queue_share \in Nat /\ 2 * policy.queue_share <= RATIO_ONE_E6
      BY PolicyAssumption DEF U64
    <2> HIDE DEF total
    <2>4. ASSUME NEW q \in Nat, 2 * q >= total
          PROVE  coupling_holds_queue_share(q, total)
      <3>1. q > 0
        BY <2>2, <2>4
      <3>2. fraction_to_ratio(q, total) =
              saturating_add(saturating_mul(q \div total, RATIO_ONE_E6),
                             Wrap((q % total) * RATIO_ONE_E6) \div total)
        BY <1>1, <2>2 DEF fraction_to_ratio
      <3>3. q \div total \in Nat /\ q % total \in 0 .. total - 1
        BY <2>2, DivNat
      <3> DEFINE m == q % total
                 y == m * RATIO_ONE_E6
      <3>4. m \in Nat /\ m < total /\ y \in Nat
        BY <2>2, <3>3, ProductNat
      <3>5. y <= U64_MAX
        <4>1. y <= total * RATIO_ONE_E6
          <5> HIDE DEF m
          <5> QED BY <2>2, <3>4, ProductLe
        <4>2. total * RATIO_ONE_E6 <= U64_MAX
          <5>1. (U64_MAX \div RATIO_ONE_E6) * RATIO_ONE_E6 <= U64_MAX
            BY SMT
          <5>2. total * RATIO_ONE_E6 <= (U64_MAX \div RATIO_ONE_E6) * RATIO_ONE_E6
            BY <1>1, <2>2, DivNat, ProductLe
          <5>3. U64_MAX \div RATIO_ONE_E6 \in Nat
            BY DivNat
          <5>4. total * RATIO_ONE_E6 \in Nat
                /\ (U64_MAX \div RATIO_ONE_E6) * RATIO_ONE_E6 \in Nat
            BY <2>2, <5>3, ProductNat
          <5> QED BY <5>1, <5>2, <5>4
        <4>3. total * RATIO_ONE_E6 \in Nat
          BY <2>2, ProductNat
        <4> HIDE DEF y
        <4> QED BY <3>4, <4>1, <4>2, <4>3
      <3>6. Wrap(y) = y
        <4> HIDE DEF y
        <4> QED BY <3>4, <3>5 DEF Wrap
      <3>7. y \div total \in Nat
        <4> HIDE DEF y
        <4> QED BY <2>2, <3>4, DivNat
      <3>8. CASE q < total
        <4>1. m = q /\ q \div total = 0
          BY <2>2, <3>8, SMT
        <4>2. policy.queue_share * total <= q * RATIO_ONE_E6
          <5>1. (2 * policy.queue_share) * q <= RATIO_ONE_E6 * q
            BY <2>3, ProductLe
          <5>2. total * policy.queue_share <= (2 * q) * policy.queue_share
            BY <2>2, <2>3, <2>4, ProductLe
          <5> QED BY <2>2, <2>3, <5>1, <5>2, SMT
        <4>3. policy.queue_share <= y \div total
          <5>1. y = q * RATIO_ONE_E6
            BY <4>1
          <5> HIDE DEF y
          <5> QED BY <2>2, <2>3, <3>4, <4>2, <5>1, DivGe
        <4>4. saturating_mul(q \div total, RATIO_ONE_E6) = 0
          BY <4>1 DEF saturating_mul
        <4>5. fraction_to_ratio(q, total) \in {U64_MAX, y \div total}
          <5> HIDE DEF y
          <5> QED BY <3>2, <3>6, <3>7, <4>4 DEF saturating_add, y
        <4>6. U64_MAX >= policy.queue_share
          BY PolicyAssumption DEF U64
        <4> HIDE DEF y
        <4> QED BY <2>2, <3>1, <4>3, <4>5, <4>6 DEF coupling_holds_queue_share
      <3>9. CASE q >= total
        <4>1. q \div total >= 1
          BY <2>2, <3>9, SMT
        <4>2. (q \div total) * RATIO_ONE_E6 >= RATIO_ONE_E6
              /\ (q \div total) * RATIO_ONE_E6 \in Nat
          BY <3>3, <4>1, ProductLe, ProductNat
        <4>3. U64_MAX >= policy.queue_share /\ RATIO_ONE_E6 >= policy.queue_share
          BY <2>3, PolicyAssumption DEF U64
        <4> DEFINE s == saturating_mul(q \div total, RATIO_ONE_E6)
        <4>4. s \in Nat /\ s >= policy.queue_share
          BY <2>3, <4>2, <4>3 DEF saturating_mul
        <4> HIDE DEF s, y
        <4>5. fraction_to_ratio(q, total) >= policy.queue_share
          BY <2>3, <3>2, <3>6, <3>7, <4>3, <4>4 DEF saturating_add, s, y
        <4> QED BY <3>1, <4>5 DEF coupling_holds_queue_share
      <3> QED BY <2>2, <3>8, <3>9
    <2>5. (dl \in Nat /\ 2 * dl >= total) \/ (ul \in Nat /\ 2 * ul >= total)
      BY <1>1, <2>2 DEF total
    <2> QED BY <2>1, <2>4, <2>5
  <1> QED BY <1>2, <1>3

-----------------------------------------------------------------------------
(* The invariant holds initially and is kept by every action.               *)

\* TypeOK, one direction at a time.
LEMMA TypeOKByDirection ==
  TypeOK <=> /\ line \in [Direction -> LineState]
             /\ window \in [Direction -> WindowState]
             /\ rate \in [Direction -> RateState]
             /\ thresholds \in [Direction -> ThresholdState]
             /\ now \in Nat
             /\ sample_id \in [Direction -> Nat]
             /\ cut_at \in [Direction -> Int]
  BY DEF TypeOK, LineState, WindowState, RateState, ThresholdState

\* The invariant holds when the controller starts.
LEMMA InitInv == ASSUME Init PROVE IInv
  <1>1. config.detection_window \in Nat \ {0} /\ 0 \in Slots
    BY ConfigAssumption DEF Slots
  <1>2. ASSUME NEW d \in Direction
        PROVE  /\ limits[d].base \in Nat
               /\ limits[d].minimum <= limits[d].base
               /\ limits[d].base <= limits[d].maximum
               /\ limits[d].base % SHAPER_RATE_STEP_BPS = 0
               /\ limits[d].adjust \in BOOLEAN
               /\ limits[d].up_us \in Nat /\ limits[d].threshold_us \in Nat
               /\ limits[d].down_us \in Nat
    BY ConfigAssumption, ArithAssumption DEF U64
  <1>3. TypeOK
    <2>1. line \in [Direction -> LineState]
      <3>1. UNKNOWN_LINE \in LineState
        BY DEF UNKNOWN_LINE, LineState, SATURATION_CONFIRMATION_SAMPLES,
               RECOVERY_CONFIRMATION_SAMPLES
      <3> QED BY <3>1 DEF Init
    <2>2. window \in [Direction -> WindowState]
      <3>1. [samples |-> [i \in Slots |-> 0], delayed |-> [i \in Slots |-> FALSE],
             sum |-> 0, count |-> 0, next |-> 0, average |-> 0,
             congestion |-> "UNKNOWN"] \in WindowState
        BY <1>1 DEF WindowState
      <3> QED BY <3>1 DEF Init
    <2>3. rate \in [Direction -> RateState]
      BY <1>2 DEF Init, RateState
    <2>4. thresholds \in [Direction -> ThresholdState]
      BY <1>2 DEF Init, ThresholdState
    <2>5. now \in Nat /\ sample_id \in [Direction -> Nat]
          /\ cut_at \in [Direction -> Int]
      BY DEF Init
    <2> QED BY <2>1, <2>2, <2>3, <2>4, <2>5, TypeOKByDirection
  <1>4. RatesHoldable
    BY <1>2 DEF Init, RatesHoldable
  <1>5. CountMatchesWindow
    <2> SUFFICES ASSUME NEW d \in Direction
                 PROVE  window[d].count
                          = Cardinality({i \in Slots : window[d].delayed[i]})
      BY DEF CountMatchesWindow
    <2>1. window[d].count = 0 /\ {i \in Slots : window[d].delayed[i]} = {}
      BY DEF Init
    <2> QED BY <2>1, FS_EmptySet
  <1>6. AlwaysBlamed
    BY DEF Init, AlwaysBlamed, Direction
  <1>7. CutRecorded
    BY DEF Init, CutRecorded
  <1> QED BY <1>3, <1>4, <1>5, <1>6, <1>7 DEF IInv

\* controller_update keeps the invariant.
LEMMA UpdateInv ==
  ASSUME IInv, NEW input \in NextInputs, controller_update(input)
  PROVE  IInv'
  <1>1. TypeOK /\ RatesHoldable /\ CountMatchesWindow /\ CutRecorded
    BY DEF IInv
  <1>2. InputOK(input)
    BY <1>1, InputFacts
  <1>3. /\ line' = [d \in Direction |->
              congestion_update_line_state(line[d], input.directions[d])]
        /\ window' = [d \in Direction |-> NewWindow(input, d)]
        /\ rate' = [d \in Direction |-> Adjusted(input, d).rate]
        /\ thresholds' = thresholds /\ now' = input.timestamp
        /\ sample_id' = [d \in Direction |-> input.directions[d].sample_id]
    BY DEF controller_update
  <1>4. ASSUME NEW d \in Direction
        PROVE  /\ NewWindow(input, d) \in WindowState
               /\ AdjustOK(Adjusted(input, d), rate[d], limits[d],
                           DirectionUpdate(input, d))
               /\ DirectionUpdate(input, d).timestamp = input.timestamp
    BY <1>1, DirectionFacts DEF DirectionUpdate
  <1>5. TypeOK'
    <2>1. line' \in [Direction -> LineState]
      BY <1>1, <1>3, LineTyped, TypeOKByDirection
    <2>2. window' \in [Direction -> WindowState]
      BY <1>3, <1>4
    <2>3. rate' \in [Direction -> RateState]
      BY <1>3, <1>4 DEF AdjustOK
    <2>4. thresholds' \in [Direction -> ThresholdState]
      BY <1>1, <1>3, TypeOKByDirection
    <2>5. now' \in Nat /\ sample_id' \in [Direction -> Nat]
      BY <1>2, <1>3 DEF InputOK
    <2>6. cut_at' \in [Direction -> Int]
      <3>1. cut_at' = [d \in Direction |->
                         IF output'[d].decision.reason = "CONGESTION"
                         THEN input.timestamp ELSE cut_at[d]]
        BY DEF controller_update
      <3>2. input.timestamp \in Int /\ cut_at \in [Direction -> Int]
        BY <1>1, <1>2 DEF InputOK, TypeOK
      <3> QED BY <3>1, <3>2
    <2> QED BY <2>1, <2>2, <2>3, <2>4, <2>5, <2>6
            DEF TypeOK, LineState, WindowState, RateState, ThresholdState
  <1>6. RatesHoldable'
    BY <1>3, <1>4 DEF RatesHoldable, AdjustOK, InRange
  <1>7. CountMatchesWindow'
    <2> SUFFICES ASSUME NEW d \in Direction
                 PROVE  CountOK(NewWindow(input, d))
      BY <1>3 DEF CountMatchesWindow, CountOK
    <2>1. CountOK(window[d]) /\ window[d] \in WindowState
          /\ thresholds[d].threshold_us \in Nat
      BY <1>1, TypeOKByDirection DEF CountMatchesWindow, CountOK, ThresholdState
    <2>2. Latency(input, d) \in LatencyState
      BY <1>2, LatencyTyped
    <2> QED BY <2>1, <2>2, WindowCounted DEF NewWindow
  <1>8. AlwaysBlamed'
    <2>1. \A d \in Direction : output'[d].attributed = Attributed(input, d)
      BY DEF controller_update
    <2> QED BY <1>1, <1>2, <2>1, BlameFacts DEF AlwaysBlamed, Direction
  <1>9. CutRecorded'
    <2> SUFFICES ASSUME NEW d \in Direction
                 PROVE  /\ rate'[d].last_congestion <= now'
                        /\ rate'[d].last_decay <= now'
                        /\ cut_at'[d] >= 0 =>
                             /\ cut_at'[d] <= rate'[d].last_congestion
                             /\ cut_at'[d] <= rate'[d].last_decay
      BY DEF CutRecorded
    <2> DEFINE a == Adjusted(input, d)
    <2>1. rate'[d] = a.rate /\ now' = input.timestamp
      BY <1>3
    <2>2. /\ a.rate.last_congestion \in {rate[d].last_congestion, input.timestamp}
          /\ a.rate.last_decay \in {rate[d].last_decay, input.timestamp}
          /\ a.reason = "CONGESTION" =>
               /\ a.rate.last_congestion = input.timestamp
               /\ a.rate.last_decay = input.timestamp
      BY <1>4 DEF AdjustOK
    <2>3. /\ input.timestamp \in Nat /\ now \in Nat /\ now <= input.timestamp
          /\ rate[d].last_congestion \in Nat /\ rate[d].last_decay \in Nat
          /\ cut_at[d] \in Int
      BY <1>1, <1>2 DEF InputOK, TypeOK
    <2>4. /\ rate[d].last_congestion <= now /\ rate[d].last_decay <= now
          /\ cut_at[d] >= 0 => /\ cut_at[d] <= rate[d].last_congestion
                               /\ cut_at[d] <= rate[d].last_decay
      BY <1>1 DEF CutRecorded
    <2>5. cut_at'[d] = cut_at[d] \/ (cut_at'[d] = input.timestamp
                                     /\ a.reason = "CONGESTION")
      <3>1. cut_at'[d] = IF output'[d].decision.reason = "CONGESTION"
                         THEN input.timestamp ELSE cut_at[d]
        BY DEF controller_update
      <3>2. output'[d].decision =
              rate_set_output(a.rate, limits[d], input.directions[d], a.reason)
        BY DEF controller_update
      <3> HIDE DEF a
      <3>3. output'[d].decision.reason = "CONGESTION" => a.reason = "CONGESTION"
        BY <3>2 DEF rate_set_output
      <3> QED BY <3>1, <3>3
    <2> HIDE DEF a
    <2> QED BY <2>1, <2>2, <2>3, <2>4, <2>5
  <1> QED BY <1>5, <1>6, <1>7, <1>8, <1>9 DEF IInv

\* controller_set_minimum_rates keeps the invariant.
LEMMA MinimumInv ==
  ASSUME IInv, NEW t \in now .. now + MaxElapsed, controller_set_minimum_rates(t)
  PROVE  IInv'
  <1>1. TypeOK /\ RatesHoldable /\ CountMatchesWindow /\ AlwaysBlamed
        /\ CutRecorded
    BY DEF IInv
  <1>2. t \in Nat /\ now <= t /\ now \in Nat
    BY <1>1, InputAssumption DEF TypeOK
  <1>3. now' = t /\ UNCHANGED <<line, window, thresholds, output, sample_id, cut_at>>
    BY DEF controller_set_minimum_rates
  <1>4. ASSUME NEW d \in Direction
        PROVE  /\ rate'[d] \in RateState
               /\ rate'[d].shaper_rate \in {rate[d].shaper_rate, limits[d].minimum}
               /\ rate'[d].last_congestion \in {rate[d].last_congestion, t}
               /\ rate'[d].last_decay \in {rate[d].last_decay, t}
    <2>1. limits[d].minimum \in Nat /\ rate[d] \in RateState
      BY <1>1, LimitsOK, TypeOKByDirection DEF LimitOK
    <2>2. CASE ~limits[d].adjust
      <3>1. rate'[d] = rate[d]
        BY <2>2 DEF controller_set_minimum_rates
      <3> QED BY <2>1, <3>1
    <2>3. CASE limits[d].adjust
      <3>1. rate'[d] = [rate[d] EXCEPT !.shaper_rate = limits[d].minimum,
                                       !.last_congestion = t,
                                       !.last_decay = t,
                                       !.initial_rate_pending = FALSE]
        BY <2>3 DEF controller_set_minimum_rates
      <3> HIDE DEF Direction
      <3> QED BY <1>2, <2>1, <3>1 DEF RateState
    <2> QED BY <2>2, <2>3
  <1>5. rate' \in [Direction -> RateState]
    <2>1. \E f : rate' = [d \in Direction |-> f[d]]
      <3>1. rate' = [d \in Direction |-> rate'[d]]
        BY DEF controller_set_minimum_rates
      <3> QED BY <3>1
    <2> QED BY <1>4, <2>1
  <1>6. TypeOK'
    BY <1>1, <1>2, <1>3, <1>5 DEF TypeOK, RateState
  <1>7. RatesHoldable'
    <2>1. ASSUME NEW d \in Direction
          PROVE  /\ limits[d].minimum <= limits[d].maximum
                 /\ limits[d].minimum <= limits[d].minimum
                 /\ limits[d].minimum % SHAPER_RATE_STEP_BPS = 0
      BY LimitsOK DEF LimitOK
    <2> QED BY <1>1, <1>4, <2>1 DEF RatesHoldable
  <1>8. CountMatchesWindow'
    BY <1>1, <1>3 DEF CountMatchesWindow, Slots
  <1>9. AlwaysBlamed'
    BY <1>1, <1>3 DEF AlwaysBlamed
  <1>10. CutRecorded'
    <2> SUFFICES ASSUME NEW d \in Direction
                 PROVE  /\ rate'[d].last_congestion <= t
                        /\ rate'[d].last_decay <= t
                        /\ cut_at[d] >= 0 =>
                             /\ cut_at[d] <= rate'[d].last_congestion
                             /\ cut_at[d] <= rate'[d].last_decay
      BY <1>3 DEF CutRecorded
    <2>1. rate[d].last_congestion \in Nat /\ rate[d].last_decay \in Nat
          /\ cut_at[d] \in Int
      BY <1>1 DEF TypeOK
    <2> QED BY <1>1, <1>2, <1>4, <2>1 DEF CutRecorded
  <1> QED BY <1>6, <1>7, <1>8, <1>9, <1>10 DEF IInv

\* controller_set_serialization_compensation keeps the invariant.
LEMMA CompensationInv ==
  ASSUME IInv, NEW bits \in Pairs(WirePacketBits),
         controller_set_serialization_compensation(bits)
  PROVE  IInv'
  <1>1. TypeOK /\ RatesHoldable /\ CountMatchesWindow /\ AlwaysBlamed
        /\ CutRecorded
    BY DEF IInv
  <1>2. UNCHANGED <<line, window, rate, output, now, sample_id, cut_at>>
    BY DEF controller_set_serialization_compensation
  <1>3. ASSUME NEW d \in Direction
        PROVE  compensate_direction(d, bits[d]) \in ThresholdState
    <2> DEFINE us == serialization_us(bits[d], rate[d].shaper_rate)
    <2>1. us \in Nat
      <3> USE ArithAssumption
      <3>1. bits[d] \in Nat /\ rate[d].shaper_rate \in Nat
        BY <1>1, InputAssumption DEF Pairs, U64, TypeOK
      <3>2. ASSUME NEW b \in Nat, NEW r \in Nat
            PROVE  serialization_us(b, r) \in Nat
        <4>1. CASE r = 0
          BY <4>1 DEF serialization_us
        <4>2. CASE r # 0
          <5>0. r \in Nat \ {0}
            BY <4>2
          <5>1. b \div r \in Nat /\ b % r \in Nat
            BY <5>0, DivNat
          <5> DEFINE fractional == (b % r) * SECOND
                     whole == b \div r
          <5>2. whole * SECOND \in Nat /\ fractional \in Nat
            BY <5>1, ProductNat
          <5>3. rounded_divide(fractional, r) \in Nat
            <6> HIDE DEF fractional
            <6>1. fractional \div r \in Nat /\ fractional % r \in Nat
              BY <5>0, <5>2, DivNat
            <6> QED BY <6>1 DEF rounded_divide
          <5>4. serialization_us(b, r) \in
                  {U64_MAX, whole * SECOND + rounded_divide(fractional, r)}
            BY <4>2 DEF serialization_us, saturating_add
          <5> HIDE DEF whole, fractional
          <5> QED BY <5>2, <5>3, <5>4
        <4> QED BY <4>1, <4>2
      <3> QED BY <3>1, <3>2
    <2>2. limits[d].up_us \in Nat /\ limits[d].threshold_us \in Nat
          /\ limits[d].down_us \in Nat
      BY ConfigAssumption, ArithAssumption DEF U64
    <2> HIDE DEF us
    <2>3. compensate_direction(d, bits[d]) =
            [up_us |-> saturating_add(limits[d].up_us, us),
             threshold_us |-> saturating_add(limits[d].threshold_us, us),
             down_us |-> saturating_add(limits[d].down_us, us)]
      BY DEF compensate_direction, us
    <2> QED BY <2>1, <2>2, <2>3, ArithAssumption
            DEF ThresholdState, saturating_add
  <1>4. thresholds' \in [Direction -> ThresholdState]
    BY <1>3 DEF controller_set_serialization_compensation
  <1>5. TypeOK'
    BY <1>1, <1>2, <1>4 DEF TypeOK, ThresholdState
  <1>6. RatesHoldable' /\ AlwaysBlamed' /\ CutRecorded'
    BY <1>1, <1>2 DEF RatesHoldable, AlwaysBlamed, CutRecorded
  <1>7. CountMatchesWindow'
    BY <1>1, <1>2 DEF CountMatchesWindow, Slots
  <1> QED BY <1>5, <1>6, <1>7 DEF IInv

\* Every step of the controller, and every stutter, keeps the invariant.
LEMMA NextInv == ASSUME IInv, [Next]_vars PROVE IInv'
  <1>1. ASSUME NEW input \in NextInputs, controller_update(input) PROVE IInv'
    BY <1>1, UpdateInv
  <1>2. ASSUME NEW t \in now .. now + MaxElapsed, controller_set_minimum_rates(t)
        PROVE  IInv'
    BY <1>2, MinimumInv
  <1>3. ASSUME NEW bits \in Pairs(WirePacketBits),
               controller_set_serialization_compensation(bits)
        PROVE  IInv'
    BY <1>3, CompensationInv
  <1>4. CASE UNCHANGED vars
    <2>1. TypeOK' /\ RatesHoldable' /\ AlwaysBlamed' /\ CutRecorded'
      BY <1>4 DEF vars, IInv, TypeOK, RatesHoldable, AlwaysBlamed, CutRecorded
    <2>2. CountMatchesWindow'
      BY <1>4 DEF vars, IInv, CountMatchesWindow, Slots
    <2> QED BY <2>1, <2>2 DEF IInv
  <1> QED BY <1>1, <1>2, <1>3, <1>4 DEF Next

-----------------------------------------------------------------------------
(* The theorems.                                                            *)

\* The inductive invariant holds of every reachable state of the controller.
THEOREM Invariance == Spec => []IInv
  BY InitInv, NextInv, PTL DEF Spec

\* Every reachable state is typed: no branch of rate.c or congestion.c leaves a
\* negative rate, threshold or timestamp, or a window index outside its slots.
THEOREM TypeCorrectness == Spec => []TypeOK
  <1>1. IInv => TypeOK
    BY DEF IInv
  <1> QED BY <1>1, Invariance, PTL

\* Whatever the factors, ceilings and compensations, rate_adjust and
\* controller_set_minimum_rates leave a rate CAKE can hold in its range.
THEOREM RatesStayHoldable == Spec => []RatesHoldable
  <1>1. IInv => RatesHoldable
    BY DEF IInv
  <1> QED BY <1>1, Invariance, PTL

\* congestion_update's running count never drifts from the samples it counts,
\* for windows of every length.
THEOREM CountStaysTrue == Spec => []CountMatchesWindow
  <1>1. IInv => CountMatchesWindow
    BY DEF IInv
  <1> QED BY <1>1, Invariance, PTL

\* The attribution rules of controller.c never acquit both directions.
THEOREM BufferbloatIsBlamed == Spec => []AlwaysBlamed
  <1>1. IInv => AlwaysBlamed
    BY DEF IInv
  <1> QED BY <1>1, Invariance, PTL

\* After rate_adjust has cut a rate, no branch raises it before one of the two
\* refractory periods is over.
THEOREM CutsAreKept == Spec => CutsStick
  <1> DEFINE Kept(d) ==
        rate'[d].shaper_rate > rate[d].shaper_rate /\ cut_at[d] >= 0 =>
          now' - cut_at[d] > min_u64(config.bufferbloat_refractory,
                                     config.decay_refractory)
  <1>1. ASSUME IInv, [Next]_vars PROVE [\A d \in Direction : Kept(d)]_vars
    <2>1. ASSUME NEW input \in NextInputs, controller_update(input),
                 NEW d \in Direction
          PROVE  Kept(d)
      <3>1. TypeOK /\ RatesHoldable /\ CutRecorded
        BY <1>1 DEF IInv
      <3>2. AdjustOK(Adjusted(input, d), rate[d], limits[d],
                     DirectionUpdate(input, d))
        BY <3>1, DirectionFacts
      <3>3. rate'[d] = Adjusted(input, d).rate /\ now' = input.timestamp
            /\ DirectionUpdate(input, d).timestamp = input.timestamp
        BY <2>1 DEF controller_update, DirectionUpdate
      <3>4. rate'[d].shaper_rate > rate[d].shaper_rate =>
              \/ interval_elapsed(now', rate[d].last_congestion,
                                  config.bufferbloat_refractory)
              \/ interval_elapsed(now', rate[d].last_decay,
                                  config.decay_refractory)
        BY <3>2, <3>3 DEF AdjustOK
      <3>5. InputOK(input)
        BY <3>1, InputFacts
      <3>6. now' \in Nat /\ cut_at[d] \in Int /\ rate[d].last_congestion \in Nat
            /\ rate[d].last_decay \in Nat
        BY <3>1, <3>3, <3>5 DEF InputOK, TypeOK
      <3>7. cut_at[d] >= 0 => /\ cut_at[d] <= rate[d].last_congestion
                              /\ cut_at[d] <= rate[d].last_decay
        BY <3>1 DEF CutRecorded
      <3> QED BY <3>4, <3>6, <3>7, FactorsNat DEF interval_elapsed, min_u64
    <2>2. ASSUME NEW t \in now .. now + MaxElapsed,
                 controller_set_minimum_rates(t), NEW d \in Direction
          PROVE  Kept(d)
      <3>1. rate'[d].shaper_rate \in {rate[d].shaper_rate, limits[d].minimum}
        <4>1. limits[d].minimum \in Nat /\ rate[d] \in RateState
          BY <1>1, LimitsOK, TypeOKByDirection DEF LimitOK, IInv
        <4> QED BY <2>2, <4>1 DEF controller_set_minimum_rates, RateState
      <3>2. limits[d].minimum <= rate[d].shaper_rate
            /\ limits[d].minimum \in Nat /\ rate[d].shaper_rate \in Nat
        BY <1>1, LimitsOK DEF IInv, RatesHoldable, LimitOK, TypeOK
      <3> QED BY <3>1, <3>2
    <2>3. ASSUME NEW d \in Direction, rate' = rate PROVE Kept(d)
      <3>1. rate[d].shaper_rate \in Nat /\ rate'[d] = rate[d]
        BY <1>1, <2>3 DEF IInv, TypeOK
      <3> QED BY <3>1
    <2>4. ASSUME NEW bits \in Pairs(WirePacketBits),
                 controller_set_serialization_compensation(bits)
          PROVE  rate' = rate
      BY <2>4 DEF controller_set_serialization_compensation
    <2>5. CASE Next
      <3> HIDE DEF Kept
      <3> QED BY <2>1, <2>2, <2>3, <2>4, <2>5 DEF Next
    <2>6. CASE UNCHANGED vars
      BY <2>6
    <2> QED BY <1>1, <2>5, <2>6
  <1> QED BY <1>1, Invariance, PTL DEF Spec, CutsStick

\* Where the two low-load factors lie on their sides of one, the reason reported for
\* a rate names what moved it, although rate_adjust works it out from the sample and
\* after the ceiling and the clamp.
THEOREM ReasonsAreTruthful ==
  ASSUME FactorsDecay
  PROVE  Spec => ReasonsTruthful
  <1> DEFINE True(d) ==
        LET reason == output'[d].decision.reason
            base == limits[d].base
            old == rate[d].shaper_rate
            new == rate'[d].shaper_rate
        IN  output' # output =>
              /\ reason = "CONGESTION" => rate'[d].last_congestion = now'
              /\ reason = "HIGH_LOAD" =>
                   /\ rate'[d].last_increase_sample_id = sample_id'[d]
                   /\ rate'[d].last_increase_sample_id
                        # rate[d].last_increase_sample_id
              /\ reason = "RETURN_TO_BASE" =>
                   \/ old < new /\ new <= base
                   \/ base <= new /\ new < old
  <1>1. ASSUME IInv, [Next]_vars PROVE [\A d \in Direction : True(d)]_vars
    <2>1. ASSUME NEW input \in NextInputs, controller_update(input),
                 NEW d \in Direction
          PROVE  True(d)
      <3> DEFINE a == Adjusted(input, d)
      <3>1. TypeOK /\ RatesHoldable
        BY <1>1 DEF IInv
      <3>2. AdjustOK(a, rate[d], limits[d], DirectionUpdate(input, d))
        BY <3>1, DirectionFacts
      <3>3. ReasonOK(a, rate[d], limits[d], DirectionUpdate(input, d))
        BY <3>1, DirectionCall, ReasonFacts DEF Adjusted
      <3>4. /\ rate'[d] = a.rate /\ now' = input.timestamp
            /\ sample_id'[d] = input.directions[d].sample_id
            /\ output'[d].decision =
                 rate_set_output(a.rate, limits[d], input.directions[d], a.reason)
        BY <2>1 DEF controller_update
      <3>5. /\ DirectionUpdate(input, d).timestamp = input.timestamp
            /\ DirectionUpdate(input, d).input.sample_id
                 = input.directions[d].sample_id
        BY DEF DirectionUpdate
      <3> HIDE DEF a
      <3>6. output'[d].decision.reason \in {"CONGESTION", "HIGH_LOAD", "RETURN_TO_BASE"}
              => a.reason = output'[d].decision.reason
        BY <3>4 DEF rate_set_output
      <3> QED BY <3>2, <3>3, <3>4, <3>5, <3>6 DEF AdjustOK, ReasonOK
    <2>2. ASSUME NEW t \in now .. now + MaxElapsed, controller_set_minimum_rates(t)
          PROVE  output' = output
      BY <2>2 DEF controller_set_minimum_rates
    <2>3. ASSUME NEW bits \in Pairs(WirePacketBits),
                 controller_set_serialization_compensation(bits)
          PROVE  output' = output
      BY <2>3 DEF controller_set_serialization_compensation
    <2>4. output' = output => \A d \in Direction : True(d)
      OBVIOUS
    <2>5. CASE Next
      <3> HIDE DEF True
      <3> QED BY <2>1, <2>2, <2>3, <2>4, <2>5 DEF Next
    <2>6. CASE UNCHANGED vars
      BY <2>6
    <2> QED BY <1>1, <2>5, <2>6
  <1> QED BY <1>1, Invariance, PTL DEF Spec, ReasonsTruthful
=============================================================================
