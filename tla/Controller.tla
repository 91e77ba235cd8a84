----------------------------- MODULE Controller -----------------------------
(***************************************************************************)
(* The rate controller of src/controller/: one shaper rate per direction,  *)
(* cut on bufferbloat, raised under high load and returned to its base     *)
(* rate at low load.  controller.c drives, for each direction and for every *)
(* latency sample, the line state and the bufferbloat window               *)
(* (congestion.c), the rules that tie download to upload (coupling.c) and   *)
(* the rate itself (rate.c).                                               *)
(*                                                                         *)
(* struct controller_direction is split by what updates it: line and       *)
(* window (congestion.c), rate (rate.c), thresholds (the compensated       *)
(* copy in direction->config) and output, whose attribution and ACK share  *)
(* fields are also the direction's memory of its last decision.            *)
(***************************************************************************)
EXTENDS Arith, FiniteSets

CONSTANTS
  limits,         \* struct controller_direction_config, one per direction
  config,         \* the rest of struct controller_config
  policy,         \* the ratios and times of src/constants/controller.h
  DirectionInputs,\* controller_direction_input values, for each direction
  Latencies,      \* controller_latency_input values, for each direction
  WirePacketBits, \* sizes of the largest wire packet, for each direction
  QueueInputs, AckInputs,
  MaxElapsed,     \* longest time between two calls
  MaxTime,        \* bound on the clock
  MaxSample       \* bound on each direction's sample identifier

VARIABLES line, window, rate, thresholds, output,
          now,        \* the last timestamp passed in
          sample_id,  \* the last traffic sample identifier passed in
          cut_at      \* history: when congestion last moved each rate, or -1

vars == <<line, window, rate, thresholds, output, now, sample_id, cut_at>>

Direction == {"download", "upload"}

SHAPER_RATE_STEP_BPS == BITS_PER_BYTE
SATURATION_CONFIRMATION_SAMPLES == 3
RECOVERY_CONFIRMATION_SAMPLES == 3

\* What config_validate and controller_init accept: ordered rates in whole
\* bytes/s for an adjusted direction, a detection window of at least one
\* sample, and factors that ratio_of can multiply by.
ASSUME ConfigAssumption ==
  /\ \A d \in Direction :
       /\ limits[d].adjust \in BOOLEAN
       /\ {limits[d].minimum, limits[d].base, limits[d].maximum} \subseteq U64
       /\ limits[d].minimum <= limits[d].base
       /\ limits[d].base <= limits[d].maximum
       /\ limits[d].minimum % SHAPER_RATE_STEP_BPS = 0
       /\ limits[d].base % SHAPER_RATE_STEP_BPS = 0
       /\ limits[d].maximum % SHAPER_RATE_STEP_BPS = 0
       /\ limits[d].adjust => limits[d].minimum > 0
       /\ {limits[d].up_us, limits[d].threshold_us, limits[d].down_us}
            \subseteq U64
  /\ config.detection_window \in Nat \ {0}
  /\ config.detection_threshold \in 0 .. config.detection_window
  /\ {config.minimum_adjust_down, config.maximum_adjust_down,
      config.minimum_adjust_up, config.maximum_adjust_up,
      config.down_load_low, config.up_load_low}
       \subseteq 0 .. U64_MAX \div RATIO_ONE_E6
  /\ {config.high_load_threshold, config.ack_share} \subseteq U64
  /\ {config.bufferbloat_refractory, config.decay_refractory} \subseteq Nat
  /\ config.shared_delay \in BOOLEAN

ASSUME PolicyAssumption ==
  /\ {policy.enter, policy.exit, policy.full_delivery, policy.queue_share,
      policy.ack_headroom} \subseteq U64
  /\ policy.queue_minimum_us \in Nat \ {0}
  /\ 2 * policy.queue_share <= RATIO_ONE_E6

ASSUME InputAssumption ==
  /\ \A d \in Direction :
       /\ DirectionInputs[d] \subseteq [valid : BOOLEAN, traffic : U64, cake : U64]
       /\ Latencies[d] \subseteq [valid : BOOLEAN, delta : Int]
       /\ WirePacketBits[d] \subseteq U64
  /\ QueueInputs \subseteq [valid : BOOLEAN, delay_us : [Direction -> Int]]
  /\ \A q \in QueueInputs :
       q.delay_us["download"] + q.delay_us["upload"] <= U64_MAX \div RATIO_ONE_E6
  /\ AckInputs \subseteq [valid : BOOLEAN, ack : U64, upload : U64]
  /\ MaxElapsed \in Nat /\ MaxTime \in Nat /\ MaxSample \in [Direction -> Nat]

NO_CEILING == U64_MAX
Slots == 0 .. config.detection_window - 1

-----------------------------------------------------------------------------
(* congestion.c                                                             *)

UNKNOWN_LINE == [state |-> "UNKNOWN", saturation |-> 0, recovery |-> 0]

\* The saturation hysteresis: 90% of the CAKE rate to enter, 80% to leave, each
\* confirmed by consecutive samples; an unusable input starts over.
congestion_update_line_state(l, input) ==
  LET recovered == input.traffic <= ratio_of_rounded_up(input.cake, policy.exit)
      saturated == input.traffic >= ratio_of_rounded_up(input.cake, policy.enter)
  IN  IF ~input.valid \/ input.cake = 0 THEN UNKNOWN_LINE
      ELSE IF l.state = "SATURATED" THEN
        IF ~recovered THEN [l EXCEPT !.saturation = 0, !.recovery = 0]
        ELSE IF l.recovery + 1 >= RECOVERY_CONFIRMATION_SAMPLES
        THEN [state |-> "BELOW_CAPACITY", saturation |-> 0, recovery |-> 0]
        ELSE [l EXCEPT !.saturation = 0, !.recovery = @ + 1]
      ELSE IF ~saturated
      THEN [state |-> "BELOW_CAPACITY", saturation |-> 0, recovery |-> 0]
      ELSE IF l.saturation + 1 >= SATURATION_CONFIRMATION_SAMPLES
      THEN [state |-> "SATURATED", saturation |-> 0, recovery |-> 0]
      ELSE [l EXCEPT !.saturation = @ + 1, !.recovery = 0]

\* Mutant: the index runs one past the last slot.
next_slot_late(i) == IF i = config.detection_window THEN 0 ELSE i + 1

next_slot(i) == IF i + 1 = config.detection_window THEN 0 ELSE i + 1

\* Mutant: the leaving sample is classified anew, by today's threshold.
leaving_reclassified(w, threshold_us) ==
  w.samples[w.next] > 0 /\ w.samples[w.next] > threshold_us

\* Whether the sample about to be overwritten is in the running count.
leaving(w, threshold_us) == w.delayed[w.next]

\* The rolling bufferbloat window: the slot's old sample leaves the running sum
\* and count, the new one enters both, classified by today's threshold.
congestion_update(w, threshold_us, latency) ==
  LET i == w.next
      late == latency.delta > 0 /\ latency.delta > threshold_us
      sum == w.sum - w.samples[i] + latency.delta
      count == w.count - (IF leaving(w, threshold_us) THEN 1 ELSE 0)
                       + (IF late THEN 1 ELSE 0)
  IN  IF ~latency.valid
      THEN [w EXCEPT !.congestion = "UNKNOWN", !.average = 0]
      ELSE [samples |-> [w.samples EXCEPT ![i] = latency.delta],
            delayed |-> [w.delayed EXCEPT ![i] = late],
            sum |-> sum,
            count |-> count,
            next |-> next_slot(i),
            average |-> signed_rounded_divide(sum, config.detection_window),
            congestion |-> IF count >= config.detection_threshold
                           THEN "DETECTED" ELSE "CLEAR"]

-----------------------------------------------------------------------------
(* rate.c                                                                   *)

rate_holdable(rate_bps) ==
  (rate_bps \div SHAPER_RATE_STEP_BPS) * SHAPER_RATE_STEP_BPS

scale_rate(rate_bps, factor) == rate_holdable(ratio_of(rate_bps, factor))

\* Mutant: only the maximum is enforced.
clamp_rate_above(rate_bps, limit) ==
  IF rate_bps > limit.maximum THEN limit.maximum ELSE rate_bps

clamp_rate(rate_bps, limit) ==
  IF rate_bps < limit.minimum THEN limit.minimum
  ELSE IF rate_bps > limit.maximum THEN limit.maximum
  ELSE rate_bps

\* One low-load step, never past the base rate.
rate_toward_base(rate_bps, base) ==
  IF rate_bps > base
  THEN max_u64(scale_rate(rate_bps, config.down_load_low), base)
  ELSE IF rate_bps < base
  THEN min_u64(scale_rate(rate_bps, config.up_load_low), base)
  ELSE rate_bps

interpolate_factor(minimum, maximum, adjustment) ==
  IF maximum >= minimum
  THEN minimum + ratio_of(maximum - minimum, adjustment)
  ELSE minimum - ratio_of(minimum - maximum, adjustment)

\* How far a delay is from one bound towards another, as a ratio.
delay_adjustment(delay_us, from_us, to_us) ==
  IF to_us <= from_us \/ (delay_us > 0 /\ delay_us >= to_us) THEN RATIO_ONE_E6
  ELSE IF delay_us <= 0 \/ delay_us <= from_us THEN 0
  ELSE fraction_to_ratio(delay_us - from_us, to_us - from_us)

downward_factor(average_us, t) ==
  interpolate_factor(config.minimum_adjust_down, config.maximum_adjust_down,
                     delay_adjustment(average_us, t.threshold_us, t.down_us))

\* The full increase at the maximum-adjust-up delay and below, none at the
\* threshold.
upward_factor(average_us, t) ==
  interpolate_factor(
    config.minimum_adjust_up, config.maximum_adjust_up,
    IF t.threshold_us <= t.up_us \/ average_us <= 0 \/ average_us <= t.up_us
    THEN RATIO_ONE_E6
    ELSE IF average_us < t.threshold_us
    THEN fraction_to_ratio(t.threshold_us - average_us, t.threshold_us - t.up_us)
    ELSE 0)

\* The three ways a sample may move a rate, in the order the code tries them.
Branch(r, w, limit, update) ==
  LET congested == w.congestion = "DETECTED"
      high_load == load_ratio(update.input.traffic, r.shaper_rate)
                     > config.high_load_threshold
      refractory_elapsed ==
        interval_elapsed(update.timestamp, r.last_congestion,
                         config.bufferbloat_refractory)
  IN  IF congested /\ update.attributed /\ refractory_elapsed THEN "CONGESTION"
      ELSE IF /\ ~congested /\ high_load /\ refractory_elapsed
              /\ update.input.sample_id # r.last_increase_sample_id
      THEN "HIGH_LOAD"
      ELSE IF /\ ~congested /\ ~high_load /\ r.shaper_rate # limit.base
              /\ interval_elapsed(update.timestamp, r.last_decay,
                                  config.decay_refractory)
      THEN "RETURN_TO_BASE"
      ELSE "UNCHANGED"

\* Mutant: a congestion cut leaves the decay timer running.
Moved_decay_running(branch, r, w, t, limit, update) ==
  CASE branch = "CONGESTION" ->
         [r EXCEPT !.shaper_rate = scale_rate(@, downward_factor(w.average, t)),
                   !.last_congestion = update.timestamp]
    [] branch = "HIGH_LOAD" ->
         [r EXCEPT !.shaper_rate = scale_rate(@, upward_factor(w.average, t)),
                   !.last_increase_sample_id = update.input.sample_id,
                   !.last_decay = update.timestamp]
    [] branch = "RETURN_TO_BASE" ->
         [r EXCEPT !.shaper_rate = rate_toward_base(@, limit.base),
                   !.last_decay = update.timestamp]
    [] OTHER -> r

\* Mutant: every sample restarts the decay timer.
Moved_decay_restarted(branch, r, w, t, limit, update) ==
  [r EXCEPT !.last_decay = update.timestamp,
            !.shaper_rate =
              CASE branch = "CONGESTION" ->
                     scale_rate(@, downward_factor(w.average, t))
                [] branch = "HIGH_LOAD" ->
                     scale_rate(@, upward_factor(w.average, t))
                [] branch = "RETURN_TO_BASE" -> rate_toward_base(@, limit.base)
                [] OTHER -> @]

\* The branch's rate and the timestamps and sample it consumes.
Moved(branch, r, w, t, limit, update) ==
  CASE branch = "CONGESTION" ->
         [r EXCEPT !.shaper_rate = scale_rate(@, downward_factor(w.average, t)),
                   !.last_congestion = update.timestamp,
                   !.last_decay = update.timestamp]
    [] branch = "HIGH_LOAD" ->
         [r EXCEPT !.shaper_rate = scale_rate(@, upward_factor(w.average, t)),
                   !.last_increase_sample_id = update.input.sample_id,
                   !.last_decay = update.timestamp]
    [] branch = "RETURN_TO_BASE" ->
         [r EXCEPT !.shaper_rate = rate_toward_base(@, limit.base),
                   !.last_decay = update.timestamp]
    [] OTHER -> r

\* Mutant: congestion hides the ceiling.
Reason_congestion_first(changed, capped, congested, high_load) ==
  IF ~changed THEN "UNCHANGED"
  ELSE IF congested THEN "CONGESTION"
  ELSE IF capped THEN "ACK_SHARE"
  ELSE IF high_load THEN "HIGH_LOAD"
  ELSE "RETURN_TO_BASE"

\* The reason reported for a rate, worked out after the ceiling and the clamp
\* from the classification of the sample rather than from the branch taken.
Reason(changed, capped, congested, high_load) ==
  IF ~changed THEN "UNCHANGED"
  ELSE IF capped THEN "ACK_SHARE"
  ELSE IF congested THEN "CONGESTION"
  ELSE IF high_load THEN "HIGH_LOAD"
  ELSE "RETURN_TO_BASE"

\* The new rate state and the reason reported for it.
rate_adjust(r, w, t, limit, update) ==
  LET moved == Moved(Branch(r, w, limit, update), r, w, t, limit, update)
      capped == moved.shaper_rate > update.ceiling
      final == clamp_rate(IF capped THEN update.ceiling ELSE moved.shaper_rate,
                          limit)
      high_load == load_ratio(update.input.traffic, r.shaper_rate)
                     > config.high_load_threshold
  IN  IF ~limit.adjust \/ ~update.input.valid
      THEN [rate |-> r, reason |-> "UNCHANGED"]
      ELSE IF r.initial_rate_pending
      THEN [rate |-> [r EXCEPT !.initial_rate_pending = FALSE,
                               !.last_congestion = update.timestamp,
                               !.last_decay = update.timestamp],
            reason |-> "INITIAL"]
      ELSE IF ~update.latency.valid THEN [rate |-> r, reason |-> "UNCHANGED"]
      ELSE [rate |-> [moved EXCEPT !.shaper_rate = final],
            reason |-> Reason(final # r.shaper_rate, capped,
                              w.congestion = "DETECTED", high_load)]

\* What the daemon is asked to write: the initial rate once, and any rate CAKE
\* does not hold.
rate_set_output(r, limit, input, reason) ==
  LET changed == input.valid /\ (reason = "INITIAL" \/ input.cake # r.shaper_rate)
  IN  IF ~limit.adjust
      THEN [rate |-> input.cake, changed |-> FALSE, reason |-> "UNCHANGED"]
      ELSE [rate |-> r.shaper_rate, changed |-> changed,
            reason |-> IF changed /\ reason = "UNCHANGED"
                       THEN "RECONCILE" ELSE reason]

-----------------------------------------------------------------------------
(* coupling.c                                                               *)

\* The download rate at which its ACKs fit beside upload's other traffic, but
\* never below their configured share; no ceiling unless upload is loaded.
coupling_download_ceiling(room, input) ==
  LET acks == input.acks
      ul == input.directions["upload"]
      dl == input.directions["download"]
      other == saturating_sub(acks.upload, acks.ack)
      taken == Wrap(other + ratio_of(room, policy.ack_headroom))
      allowed == max_u64(saturating_sub(room, taken),
                         ratio_of(room, config.ack_share))
  IN  IF \/ config.ack_share = 0 \/ ~acks.valid \/ acks.ack = 0
         \/ ~ul.valid \/ ~dl.valid
         \/ load_ratio(ul.traffic, room) <= config.high_load_threshold
         \/ acks.ack <= allowed
      THEN NO_CEILING
      ELSE rate_holdable(mul_div(dl.traffic, allowed, acks.ack))

\* Mutant: only the larger queue is blamed.
coupling_holds_queue_majority(queue_us, total_us) == 2 * queue_us > total_us

coupling_holds_queue_share(queue_us, total_us) ==
  queue_us > 0 /\ fraction_to_ratio(queue_us, total_us) >= policy.queue_share

coupling_delivery_ratio(rate_bps, input) ==
  IF input.valid THEN load_ratio(input.traffic, rate_bps) ELSE 0

\* A direction's delay thresholds raised by a wire packet's time at its rate.
compensate_direction(d, wire_packet_bits) ==
  LET us == serialization_us(wire_packet_bits, rate[d].shaper_rate)
  IN  [up_us |-> saturating_add(limits[d].up_us, us),
       threshold_us |-> saturating_add(limits[d].threshold_us, us),
       down_us |-> saturating_add(limits[d].down_us, us)]

-----------------------------------------------------------------------------
(* controller.c                                                             *)

\* Who is blamed for bufferbloat.  With one shared delay, download delivering
\* its full rate has no standing queue, so the delay is upload's; loaded but
\* delivering less, it is the bottleneck.  Measured queues replace that rule
\* when they are large enough to explain the delay.
MeasuredQueues(input) ==
  /\ config.shared_delay /\ input.queue.valid
  /\ input.queue.delay_us["download"] + input.queue.delay_us["upload"]
       >= policy.queue_minimum_us

Attributed(input, d) ==
  LET total == input.queue.delay_us["download"] + input.queue.delay_us["upload"]
      delivery == coupling_delivery_ratio(rate["download"].shaper_rate,
                                          input.directions["download"])
  IN  IF MeasuredQueues(input)
      THEN coupling_holds_queue_share(input.queue.delay_us[d], total)
      ELSE \/ ~config.shared_delay
           \/ IF d = "download" THEN delivery < policy.full_delivery
              ELSE \/ delivery <= config.high_load_threshold
                   \/ delivery >= policy.full_delivery

\* The round-trip delta, split by the measured queues instead of in half.
Latency(input, d) ==
  LET lat == input.latency
      round_trip == lat["download"].delta + lat["upload"].delta
      total == input.queue.delay_us["download"] + input.queue.delay_us["upload"]
      download == signed_rounded_divide(
                    round_trip * input.queue.delay_us["download"], total)
  IN  IF MeasuredQueues(input) /\ lat["download"].valid /\ lat["upload"].valid
      THEN [valid |-> TRUE,
            delta |-> IF d = "download" THEN download ELSE round_trip - download]
      ELSE lat[d]

Ceiling(input, d) ==
  IF d = "download"
  THEN coupling_download_ceiling(rate["upload"].shaper_rate, input)
  ELSE NO_CEILING

\* struct direction_update: one direction's share of an update.
DirectionUpdate(input, d) ==
  [input |-> input.directions[d], latency |-> Latency(input, d),
   attributed |-> Attributed(input, d), ceiling |-> Ceiling(input, d),
   timestamp |-> input.timestamp]

\* update_direction's window and rate, in its order: the rate sees the window
\* this sample has just entered.
NewWindow(input, d) ==
  congestion_update(window[d], thresholds[d].threshold_us, Latency(input, d))

Adjusted(input, d) ==
  rate_adjust(rate[d], NewWindow(input, d), thresholds[d], limits[d],
              DirectionUpdate(input, d))

\* One latency sample through both directions.
controller_update(input) ==
  /\ line' = [d \in Direction |->
       congestion_update_line_state(line[d], input.directions[d])]
  /\ window' = [d \in Direction |-> NewWindow(input, d)]
  /\ rate' = [d \in Direction |-> Adjusted(input, d).rate]
  /\ output' = [d \in Direction |->
       [decision |-> rate_set_output(Adjusted(input, d).rate, limits[d],
                                     input.directions[d],
                                     Adjusted(input, d).reason),
        attributed |-> Attributed(input, d),
        ack_share_active |-> Ceiling(input, d) # NO_CEILING]]
  /\ now' = input.timestamp
  /\ sample_id' = [d \in Direction |-> input.directions[d].sample_id]
  /\ cut_at' = [d \in Direction |->
       IF output'[d].decision.reason = "CONGESTION"
       THEN input.timestamp ELSE cut_at[d]]
  /\ UNCHANGED thresholds

\* A stall's minimum rates, in both adjusted directions.
controller_set_minimum_rates(timestamp_us) ==
  /\ rate' = [d \in Direction |->
       IF ~limits[d].adjust THEN rate[d]
       ELSE [rate[d] EXCEPT !.shaper_rate = limits[d].minimum,
                            !.last_congestion = timestamp_us,
                            !.last_decay = timestamp_us,
                            !.initial_rate_pending = FALSE]]
  /\ now' = timestamp_us
  /\ UNCHANGED <<line, window, thresholds, output, sample_id, cut_at>>

controller_set_serialization_compensation(wire_packet_bits) ==
  /\ thresholds' = [d \in Direction |->
                      compensate_direction(d, wire_packet_bits[d])]
  /\ UNCHANGED <<line, window, rate, output, now, sample_id, cut_at>>

-----------------------------------------------------------------------------
(* The controller under every sequence of inputs the daemon may pass: time  *)
(* never goes back, and a direction's sample identifier moves only when its *)
(* traffic was measured anew.                                               *)

\* A choice for each direction.
Pairs(S) ==
  {f \in [Direction -> S["download"] \cup S["upload"]] :
     \A d \in Direction : f[d] \in S[d]}

NextInputs ==
  [directions : {[d \in Direction |->
                    [valid |-> i[d].valid, traffic |-> i[d].traffic,
                     cake |-> i[d].cake, sample_id |-> sample_id[d] + new[d]]] :
                  i \in Pairs(DirectionInputs), new \in [Direction -> 0 .. 1]},
   latency : Pairs(Latencies),
   queue : QueueInputs,
   acks : AckInputs,
   timestamp : now .. now + MaxElapsed]

WithinBounds(input) ==
  /\ input.timestamp <= MaxTime
  /\ \A d \in Direction : input.directions[d].sample_id <= MaxSample[d]

Init ==
  /\ line = [d \in Direction |-> UNKNOWN_LINE]
  /\ window = [d \in Direction |->
       [samples |-> [i \in Slots |-> 0], delayed |-> [i \in Slots |-> FALSE],
        sum |-> 0, count |-> 0, next |-> 0, average |-> 0,
        congestion |-> "UNKNOWN"]]
  /\ rate = [d \in Direction |->
       [shaper_rate |-> limits[d].base, last_congestion |-> 0, last_decay |-> 0,
        last_increase_sample_id |-> 0, initial_rate_pending |-> limits[d].adjust]]
  /\ thresholds = [d \in Direction |->
       [up_us |-> limits[d].up_us, threshold_us |-> limits[d].threshold_us,
        down_us |-> limits[d].down_us]]
  /\ output = [d \in Direction |->
       [decision |-> [rate |-> 0, changed |-> FALSE, reason |-> "UNCHANGED"],
        attributed |-> TRUE, ack_share_active |-> FALSE]]
  /\ now = 0
  /\ sample_id = [d \in Direction |-> 0]
  /\ cut_at = [d \in Direction |-> -1]

Next ==
  \/ \E input \in NextInputs : WithinBounds(input) /\ controller_update(input)
  \/ \E t \in now .. now + MaxElapsed :
       t <= MaxTime /\ controller_set_minimum_rates(t)
  \/ \E bits \in Pairs(WirePacketBits) :
       controller_set_serialization_compensation(bits)

Spec == Init /\ [][Next]_vars

-----------------------------------------------------------------------------
(* Properties                                                               *)

\* The state is well-formed: counters of samples stay below what confirms a state,
\* the window's place is one of its slots, and no time is negative.
TypeOK ==
  /\ line \in [Direction ->
       [state : {"UNKNOWN", "BELOW_CAPACITY", "SATURATED"},
        saturation : 0 .. SATURATION_CONFIRMATION_SAMPLES - 1,
        recovery : 0 .. RECOVERY_CONFIRMATION_SAMPLES - 1]]
  /\ window \in [Direction ->
       [samples : [Slots -> Int], delayed : [Slots -> BOOLEAN],
        sum : Int, count : Int, next : Slots, average : Int,
        congestion : {"UNKNOWN", "CLEAR", "DETECTED"}]]
  /\ rate \in [Direction ->
       [shaper_rate : Nat, last_congestion : Nat, last_decay : Nat,
        last_increase_sample_id : Nat, initial_rate_pending : BOOLEAN]]
  /\ thresholds \in [Direction ->
       [up_us : Nat, threshold_us : Nat, down_us : Nat]]
  /\ now \in Nat
  /\ sample_id \in [Direction -> Nat]
  /\ cut_at \in [Direction -> Int]

\* Whatever the samples, factors, ceilings and compensations, an adjusted
\* direction's rate stays between its configured minimum and maximum and is
\* one CAKE can hold, so cake_set_bandwidth never refuses it and the readback
\* of apply_bandwidth can equal it.
RatesHoldable ==
  \A d \in Direction :
    /\ limits[d].minimum <= rate[d].shaper_rate
    /\ rate[d].shaper_rate <= limits[d].maximum
    /\ rate[d].shaper_rate % SHAPER_RATE_STEP_BPS = 0

\* The running count of the bufferbloat window is the number of samples that
\* were late when they entered it, so the unsigned counter never underflows,
\* although thresholds move under the samples already in the window.
CountMatchesWindow ==
  \A d \in Direction :
    window[d].count = Cardinality({i \in Slots : window[d].delayed[i]})

\* A rate that congestion has moved does not rise again, by decay or by load,
\* until the shorter of the two refractory periods has passed.
CutsStick ==
  [][\A d \in Direction :
       rate'[d].shaper_rate > rate[d].shaper_rate /\ cut_at[d] >= 0 =>
         now' - cut_at[d] > min_u64(config.bufferbloat_refractory,
                                    config.decay_refractory)]_vars

\* Bufferbloat is never left unblamed: whatever the delivery ratio and the
\* measured queues, at least one direction may be cut for it.
AlwaysBlamed == \E d \in Direction : output[d].attributed

\* The reason reported for a rate names what moved it: a congestion reason
\* restarts the refractory period, a high-load reason consumes a new traffic
\* sample, and a low-load one moves the rate towards its base and not past it.
ReasonsTruthful ==
  [][\A d \in Direction :
       LET reason == output'[d].decision.reason
           base == limits[d].base
           old == rate[d].shaper_rate
           new == rate'[d].shaper_rate
       IN  output' # output =>
             /\ reason = "CONGESTION" => rate'[d].last_congestion = now'
             /\ reason = "HIGH_LOAD" =>
                  /\ rate'[d].last_increase_sample_id = sample_id'[d]
                  /\ rate'[d].last_increase_sample_id
                       # rate[d].last_increase_sample_id
             /\ reason = "RETURN_TO_BASE" =>
                  \/ old < new /\ new <= base
                  \/ base <= new /\ new < old]_vars
=============================================================================
