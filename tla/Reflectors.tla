----------------------------- MODULE Reflectors -----------------------------
(***************************************************************************)
(* daemon/reflectors.c and controller/reflector.c: which reflectors the     *)
(* pinger slots poll, the health of each slot, the reflectors' trackers and *)
(* the recent delay that TCP estimates are compared with.                   *)
(*                                                                         *)
(* Time passes in health checks, one of which is also a second of recent    *)
(* delays; timestamps are kept as ages, capped just past the interval they  *)
(* are compared with.  An age below zero lies in the future, as after a     *)
(* grace.                                                                   *)
(***************************************************************************)
EXTENDS Tracker, FiniteSets

CONSTANTS
  ReflectorCount,       \* reflectors configured
  ActiveCount,          \* no_pingers: the slots
  ResponseDeadline,     \* reflector_response_deadline_us
  DetectionWindow,      \* reflector_misbehaving_detection_window
  DetectionThreshold,   \* reflector_misbehaving_detection_threshold
  ReplacementInterval,  \* reflector_replacement_interval_us
  ComparisonInterval,   \* reflector_comparison_interval_us
  BaselineThreshold,    \* reflector_sum_owd_baselines_delta_threshold_us
  EwmaThreshold,        \* reflector_owd_delta_ewma_delta_threshold_us
  RetainStats,          \* retain_reflector_stats
  ReplyGrace,           \* two ping intervals
  ReplyDelays           \* one-way delays of echo replies

VARIABLES
  reflectors,           \* struct daemon_reflectors without its recent delays
  recent,               \* struct reflector_recent_delay of each slot
  silent,               \* history: checks a slot has failed in a row
  replies               \* history: a slot's delays of this second and the last

reflectorVars == <<reflectors, recent, silent, replies>>

\* config/validate.c: at least one slot, no more than there are reflectors, and
\* a threshold within its window.
ASSUME ReflectorsAssumption ==
  /\ ActiveCount \in Nat \ {0} /\ ReflectorCount \in Nat
  /\ ActiveCount <= ReflectorCount
  /\ DetectionWindow \in Nat /\ DetectionThreshold \in 1 .. DetectionWindow
  /\ {ResponseDeadline, ReplacementInterval, ComparisonInterval, ReplyGrace,
      BaselineThreshold, EwmaThreshold} \subseteq Nat
  /\ RetainStats \in BOOLEAN
  /\ ReplyDelays \subseteq Nat

Slot == 1 .. ActiveCount
Standby == ActiveCount + 1 .. ReflectorCount
Reflector == 1 .. ReflectorCount

NO_SLOT == 0
NO_DELAY == -1

\* An age after one more check, no further than limit + 1.
Later(age, limit) == IF age > limit THEN age ELSE age + 1

-----------------------------------------------------------------------------
(* controller/reflector.c                                                   *)

\* A slot whose last response is age old, with an empty window.
reflector_health_reset(age) ==
  [offences |-> [k \in 0 .. DetectionWindow - 1 |-> FALSE],
   response_age |-> age, index |-> 0, count |-> 0]

reflector_health_check(health) ==
  LET offence == health.response_age > ResponseDeadline
      left == health.count - IF health.offences[health.index] THEN 1 ELSE 0
  IN  [health EXCEPT
         !.offences[health.index] = offence,
         !.count = left + IF offence THEN 1 ELSE 0,
         !.index = (@ + 1) % DetectionWindow]

misbehaving(health) == health.count >= DetectionThreshold

\* The first standby takes the slot and the bad reflector queues last.
reflector_rotate(order, slot) ==
  [k \in DOMAIN order |->
     CASE k = slot -> order[ActiveCount + 1]
       [] k = ReflectorCount -> order[slot]
       [] k \in Standby /\ k < ReflectorCount -> order[k + 1]
       [] OTHER -> order[k]]

Least(values) == CHOOSE v \in values : \A w \in values : v <= w

\* reflector_compare and the thresholds compare_active_reflectors applies.
Exceeds(trackers, order, slot) ==
  LET sum(s) == signed_sum(trackers[order[s]].baseline["download"],
                           trackers[order[s]].baseline["upload"])
      ewma(s, w) == trackers[order[s]].delta_ewma[w]
  IN  \/ absolute_difference(sum(slot), Least({sum(s) : s \in Slot}))
           > BaselineThreshold
      \/ \E w \in Way :
           signed_difference(ewma(slot, w), Least({ewma(s, w) : s \in Slot}))
             > EwmaThreshold

\* The first slot that stands out, if any does.
WorstSlot(trackers, order) ==
  LET exceeding == {s \in Slot : Exceeds(trackers, order, s)}
  IN  IF exceeding = {} THEN NO_SLOT ELSE Least(exceeding)

-----------------------------------------------------------------------------
(* daemon/reflectors.c                                                      *)

replace_active_reflector(r, slot) ==
  LET rotate == ReflectorCount > ActiveCount
      bad == r.order[slot]
  IN  [r EXCEPT !.order = IF rotate THEN reflector_rotate(@, slot) ELSE @,
                !.trackers[bad] =
                   IF rotate /\ ~RetainStats THEN tracker_reset ELSE @,
                !.health[slot] = reflector_health_reset(0)]

reflectors_reset_health(r, age) ==
  [r EXCEPT !.health = [s \in Slot |-> reflector_health_reset(age)]]

\* Everything grows older by one check.
AgedReflectors(r) ==
  [r EXCEPT
     !.health = [s \in Slot |->
                   [r.health[s] EXCEPT !.response_age = Later(@, ResponseDeadline)]],
     !.replacement_age = Later(@, ReplacementInterval),
     !.comparison_age = Later(@, ComparisonInterval),
     !.grace = IF @ > 0 THEN @ - 1 ELSE 0]

ReplacementDue(r) == r.replacement_age > ReplacementInterval
ComparisonDue(r) == ~ReplacementDue(r) /\ r.comparison_age > ComparisonInterval

\* Mutant: every misbehaving slot but the first is judged afresh.
ReplacedSlots_forgiving(r) ==
  LET bad == {s \in Slot : misbehaving(r.health[s])}
  IN  IF bad = {} THEN r
      ELSE [replace_active_reflector(r, Least(bad)) EXCEPT
              !.health = [s \in Slot |-> IF s \in bad THEN reflector_health_reset(0)
                                                      ELSE r.health[s]]]

\* Only the first misbehaving slot of a check is replaced.
ReplacedSlots(r) ==
  LET bad == {s \in Slot : misbehaving(r.health[s])}
  IN  IF bad = {} THEN r ELSE replace_active_reflector(r, Least(bad))

CheckedSlots(r) ==
  [r EXCEPT !.health = [s \in Slot |-> reflector_health_check(r.health[s])]]

Failed(r) == {s \in Slot : r.health[s].response_age > ResponseDeadline}

-----------------------------------------------------------------------------
(* Recent delays                                                            *)

\* The largest of a second's replies; the second before it is kept.
recent_delay_add(delays, age, delay) ==
  IF age = delays.age
  THEN [delays EXCEPT !.current = IF delay > @ THEN delay ELSE @]
  ELSE [age |-> age, current |-> delay,
        previous |-> IF delays.age = age + 1 THEN delays.current ELSE 0]

recent_delay_value(delays) ==
  CASE delays.age = 0 -> IF delays.current > delays.previous
                         THEN delays.current ELSE delays.previous
    [] delays.age = 1 -> delays.current
    [] OTHER -> NO_DELAY

\* The lower median over the slots that have been heard, which the code sorts:
\* a slot's position is the number of those whose value is smaller, or is as
\* large and was there before.
reflectors_recent_delay_us(delays) ==
  LET value(s) == recent_delay_value(delays[s])
      heard == {s \in Slot : value(s) # NO_DELAY}
      before(s) == {t \in heard : value(t) < value(s) \/ (value(t) = value(s) /\ t < s)}
      middle == (Cardinality(heard) - 1) \div 2
  IN  IF heard = {} THEN NO_DELAY
      ELSE value(CHOOSE s \in heard : Cardinality(before(s)) = middle)

\* A second later.  Two seconds and more are all the same to what is kept.
AgedDelays(delays) == [s \in Slot |-> [delays[s] EXCEPT !.age = Later(@, 1)]]

-----------------------------------------------------------------------------
(* The handlers                                                             *)

\* handle_health_timer.  judged: both links are ready, the line is RUNNING and
\* the clock reads; chosen: the slot a due rotation picks, or NO_SLOT when
\* there is no randomness.
HealthTimer(judged, chosen) ==
  LET r == AgedReflectors(reflectors)
      due == [r EXCEPT !.replacement_age = IF ReplacementDue(r) THEN 0 ELSE @,
                       !.comparison_age = IF ComparisonDue(r) THEN 0 ELSE @]
      scheduled == CASE ReplacementDue(r) -> chosen
                     [] ComparisonDue(r) -> WorstSlot(r.trackers, r.order)
                     [] OTHER -> NO_SLOT
      checked == CheckedSlots(due)
  IN  /\ reflectors' = CASE ~judged \/ r.grace > 0 -> r
                         [] judged /\ r.grace = 0 /\ scheduled # NO_SLOT ->
                              replace_active_reflector(due, scheduled)
                         [] OTHER -> ReplacedSlots(checked)
      /\ silent' = [s \in Slot |->
           IF ~judged \/ r.grace > 0 THEN silent[s]
           ELSE IF reflectors'.order # r.order /\ reflectors'.order[s] # r.order[s] THEN 0
           ELSE IF scheduled # NO_SLOT THEN silent[s]
           ELSE IF s \in Failed(due) THEN silent[s] + 1 ELSE 0]
      /\ recent' = AgedDelays(recent)
      /\ replies' = [s \in Slot |-> <<NO_DELAY, replies[s][1]>>]

Larger(x, y) == IF x > y THEN x ELSE y

\* reflectors_record for an echo reply of this second, or one of the last that
\* was handled late; a slot's replies come in the order they were received.
Reply(slot, owd, age, low_load) ==
  LET target == reflectors.order[slot]
      updated == tracker_update(reflectors.trackers[target], [w \in Way |-> owd], FALSE)
      delta == updated.owd_delta["download"] + updated.owd_delta["upload"]
      added == Larger(delta, 0)
  IN  /\ age <= recent[slot].age
      /\ reflectors' = [reflectors EXCEPT
           !.trackers[target] =
              tracker_update_delta_ewma(updated.tracker, updated.owd_delta, low_load),
           !.health[slot].response_age = age]
      /\ recent' = [recent EXCEPT ![slot] = recent_delay_add(@, age, added)]
      /\ replies' = [replies EXCEPT ![slot][age + 1] = Larger(@, added)]
      /\ silent' = [silent EXCEPT ![slot] = 0]

\* grant_grace when the pingers resume, or pingers_restart with no grace.
Restarted(grace) ==
  /\ reflectors' = [reflectors_reset_health(reflectors, -grace) EXCEPT
                      !.grace = IF grace > 0 THEN grace ELSE @]
  /\ silent' = [s \in Slot |-> 0]
  /\ UNCHANGED <<recent, replies>>

\* reflectors_start: the configured order, or a random one.
reflectors_start(order) ==
  [order |-> order,
   trackers |-> [k \in Reflector |-> tracker_reset],
   health |-> [s \in Slot |-> reflector_health_reset(0)],
   replacement_age |-> 0, comparison_age |-> 0, grace |-> 0]

ReflectorsInit ==
  /\ \E order \in [Reflector -> Reflector] :
       /\ \A k, l \in Reflector : order[k] = order[l] => k = l
       /\ reflectors = reflectors_start(order)
  /\ recent = [s \in Slot |-> [age |-> 2, current |-> 0, previous |-> 0]]
  /\ silent = [s \in Slot |-> 0]
  /\ replies = [s \in Slot |-> <<NO_DELAY, NO_DELAY>>]

ReflectorsNext ==
  \/ \E judged \in BOOLEAN, chosen \in {NO_SLOT} \cup Slot : HealthTimer(judged, chosen)
  \/ \E slot \in Slot, owd \in ReplyDelays, age \in 0 .. 1, low_load \in BOOLEAN :
       Reply(slot, owd, age, low_load)
  \/ \E grace \in {0, ReplyGrace} : Restarted(grace)

ReflectorsSpec == ReflectorsInit /\ [][ReflectorsNext]_reflectorVars

-----------------------------------------------------------------------------
(* Properties                                                               *)

\* The count a reflector is judged by is that of the offences in its window,
\* whatever was reset in between: it never wraps below zero.
OffencesCounted ==
  \A s \in Slot :
    LET h == reflectors.health[s]
    IN  h.count = Cardinality({k \in DOMAIN h.offences : h.offences[k]})

\* A slot that stays silent is given another reflector, although a check replaces
\* only one: it waits for no more than one check for each slot before it.  Only a
\* slot within the threshold can be sure of that: beyond it, the slots before may
\* have new reflectors that are silent for as long, and are first again.
SilentReplaced ==
  ReflectorCount > ActiveCount =>
    \A s \in Slot : s <= DetectionThreshold => silent[s] < DetectionThreshold + s - 1

\* What is discarded stays discarded: a reflector that waits has either never
\* been asked or lost what was learned, unless statistics are retained.
StandbyUnlearned ==
  ~RetainStats =>
    \A k \in Standby : reflectors.trackers[reflectors.order[k]] = tracker_reset

\* reflectors.h: the recent delay is the lower median of what the slots' replies
\* of this second and the last were delayed most, and so never more than what
\* half of the slots that answered saw.
RecentDelayHeard ==
  LET largest(s) == Larger(replies[s][1], replies[s][2])
      heard == {s \in Slot : largest(s) # NO_DELAY}
      value == reflectors_recent_delay_us(recent)
  IN  IF heard = {} THEN value = NO_DELAY
      ELSE /\ \E s \in heard : largest(s) = value
           /\ 2 * Cardinality({s \in heard : largest(s) < value}) < Cardinality(heard)
           /\ 2 * Cardinality({s \in heard : largest(s) > value}) <= Cardinality(heard)

\* Who is replaced, what is known of who waits, and what was heard last.
ReflectorsSound == OffencesCounted /\ SilentReplaced /\ StandbyUnlearned /\ RecentDelayHeard
=============================================================================
