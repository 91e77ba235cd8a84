------------------------------ MODULE Tracker ------------------------------
(***************************************************************************)
(* latency/tracker.c: the one-way delay baselines of a reflector and the    *)
(* moving averages of what its replies are delayed beyond them.  A delay is *)
(* an int64_t of microseconds; I64_MAX follows the word of Arith.           *)
(***************************************************************************)
EXTENDS Arith

CONSTANTS
  AlphaIncrease,    \* alpha_baseline_increase_ratio_e6
  AlphaDecrease,    \* alpha_baseline_decrease_ratio_e6
  AlphaEwma,        \* alpha_delta_ewma_ratio_e6
  InitialBaseline,  \* INITIAL_ONE_WAY_BASELINE_US
  RolloverDelta     \* LATENCY_TIMESTAMP_ROLLOVER_DELTA_US

\* The ratios are validated to be at most 100%.
ASSUME TrackerAssumption ==
  /\ {AlphaIncrease, AlphaDecrease, AlphaEwma} \subseteq 0 .. RATIO_ONE_E6
  /\ InitialBaseline \in Nat
  /\ RolloverDelta \in Nat

Way == {"download", "upload"}

I64_MAX == U64_MAX \div 2
I64_MIN == -I64_MAX - 1

RepresentedI64(x) == I64_MIN <= x /\ x <= I64_MAX

\* A result that saturates to the int64_t range.
Saturated(x) == IF x > I64_MAX THEN I64_MAX ELSE IF x < I64_MIN THEN I64_MIN ELSE x

signed_sum(first, second) == Saturated(first + second)
signed_difference(first, second) == Saturated(first - second)
absolute_difference(first, second) ==
  IF first >= second THEN first - second ELSE second - first

\* weighted_average, and the restart at the sample that both its callers fall
\* back to when a product or the sum does not fit.
Averaged(alpha, value, average) ==
  LET new == alpha * value
      old == (RATIO_ONE_E6 - alpha) * average
  IN  IF RepresentedI64(new) /\ RepresentedI64(old) /\ RepresentedI64(new + old)
      THEN signed_rounded_divide(new + old, RATIO_ONE_E6)
      ELSE value

tracker_reset ==
  [baseline |-> [w \in Way |-> InitialBaseline], delta_ewma |-> [w \in Way |-> 0]]

\* Only timestamps wrap: their jump past 50 minutes is a new origin of time.
sample_has_timestamp_rollover(tracker, owd, timestamps) ==
  LET delta == [w \in Way |-> absolute_difference(owd[w], tracker.baseline[w])]
  IN  /\ timestamps
      /\ \/ delta["download"] >= RolloverDelta
         \/ delta["upload"] >= RolloverDelta - delta["download"]

\* tracker_update_direction: where a sample moves a baseline.
MovedBaseline(baseline, value) ==
  Averaged(IF value >= baseline THEN AlphaIncrease ELSE AlphaDecrease,
           value, baseline)

\* The tracker after tracker_update, and the deltas it reports.
tracker_update(tracker, owd, timestamps) ==
  LET rollover == sample_has_timestamp_rollover(tracker, owd, timestamps)
      moved == [w \in Way |->
                  IF rollover THEN owd[w]
                  ELSE MovedBaseline(tracker.baseline[w], owd[w])]
  IN  [tracker |-> [tracker EXCEPT !.baseline = moved],
       owd_delta |-> [w \in Way |-> signed_difference(owd[w], moved[w])]]

\* The averages stand still while either link is busy.
tracker_update_delta_ewma(tracker, owd_delta, low_load) ==
  IF low_load
  THEN [tracker EXCEPT !.delta_ewma =
          [w \in Way |-> Averaged(AlphaEwma, owd_delta[w], tracker.delta_ewma[w])]]
  ELSE tracker
=============================================================================
