------------------------------ MODULE Estimator ------------------------------
(***************************************************************************)
(* The TCP timestamp estimator (tcpdelay/estimator.c): what the queues of  *)
(* both directions are, from the arrival of a flow's packets, the remote   *)
(* clock's timestamps on them and the departure of what they echo.  The    *)
(* remote clock's period is unknown at first, so the least delay (the      *)
(* floor) is kept for every standard period until one fits.                *)
(*                                                                         *)
(* The network is modelled with what the daemon cannot see: the remote     *)
(* clock's true period and phase and the true delay of every packet, so    *)
(* that an estimate can be compared with the queue there was.              *)
(***************************************************************************)
EXTENDS Integers, FiniteSets, FiniteSetsExt

CONSTANTS
  FlowKeys,        \* TCP connections, as numbers
  TCPDELAY_FLOWS,  \* slots of the flow table
  StandardTicks,   \* the standard clock periods
  TICK_SPAN,       \* history needed before a period is fitted
  TICK_TOLERANCE,  \* percent a fitted period may differ from a standard one
  WINDOW,          \* length of a result window
  IMPLAUSIBLE,     \* a queue above this restarts the flow
  TSVALS,          \* 2^32: timestamps are below this and wrap
  QueueBounds,     \* the echo pinger's delays
  Delays,          \* delays a packet may have in one direction
  Gaps,            \* times between two samples
  MaxSamples       \* bounds the samples

ASSUME EstimatorAssumption ==
  /\ FlowKeys \subseteq Nat /\ TCPDELAY_FLOWS \in Nat \ {0}
  /\ StandardTicks \subseteq Nat \ {0} /\ StandardTicks # {}
  /\ WINDOW \in Nat \ {0} /\ TSVALS \in Nat \ {0, 1} /\ MaxSamples \in Nat
  /\ TICK_SPAN \in Nat \ {0} /\ {TICK_TOLERANCE, IMPLAUSIBLE} \subseteq Nat
  /\ QueueBounds \subseteq Nat /\ Delays \subseteq Nat /\ Gaps \subseteq Nat

VARIABLES
  estimator, \* struct tcpdelay_estimator
  network,   \* the remote clocks' true periods, the samples, the latest arrival
  heard      \* history: what each slot measured since its flow started

estimatorVars == <<estimator, network, heard>>

Slots == 1..TCPDELAY_FLOWS
Directions == {"down", "up"}
NOTHING == -1       \* an empty minimum, no departure, no standard period
NO_BOUND == -1

\* A floor that nothing was measured for.
UnknownFloor == [valid |-> FALSE, value |-> 0]

EmptyWindow == [minimum |-> [k \in 0..1 |-> NOTHING], index |-> 0]

UnusedFlow ==
  [key |-> NOTHING, first_arrival |-> 0, last_tsval |-> 0, last_accepted |-> 0,
   ticks |-> 0, tick |-> NOTHING,
   floor |-> [d \in Directions |-> [t \in StandardTicks |-> UnknownFloor]],
   windows |-> [d \in Directions |-> EmptyWindow]]

EstimatorInit ==
  /\ estimator = [bound |-> NO_BOUND, flows |-> [s \in Slots |-> UnusedFlow]]
  /\ network \in [periods: [FlowKeys -> StandardTicks], now: {0}, samples: {0}]
  /\ heard = [s \in Slots |-> {}]
-----------------------------------------------------------------------------
\* A new minimum lowers the floor; a value above the bound raises it.
floor_update(bound, floor, value) ==
  [valid |-> TRUE,
   value |-> IF ~floor.valid \/ value < floor.value THEN value
             ELSE IF bound # NO_BOUND /\ value - floor.value > bound THEN value - bound
             ELSE floor.value]

\* Mutant: the window before survives a gap of several windows.
window_add_surviving(window, queue, time) ==
  LET index == time \div WINDOW
      empty == \A k \in 0..1: window.minimum[k] = NOTHING
      moved == IF empty \/ index <= window.index THEN window.minimum
               ELSE [k \in 0..1 |-> IF k = 1 THEN window.minimum[0] ELSE NOTHING]
      current == IF empty \/ index > window.index THEN index ELSE window.index
      slot == current - index
  IN [minimum |-> [k \in 0..1 |->
        IF k = slot /\ (moved[k] = NOTHING \/ queue < moved[k]) THEN queue ELSE moved[k]],
      index |-> current]

\* Slot 0 is the current window and slot 1 the one just before.
window_add(window, queue, time) ==
  LET index == time \div WINDOW
      empty == \A k \in 0..1: window.minimum[k] = NOTHING
      moved == IF empty \/ index <= window.index THEN window.minimum
               ELSE [k \in 0..1 |-> IF k = 1 /\ index = window.index + 1
                                    THEN window.minimum[0] ELSE NOTHING]
      current == IF empty \/ index > window.index THEN index ELSE window.index
      slot == current - index
  IN [minimum |-> [k \in 0..1 |->
        IF k = slot /\ (moved[k] = NOTHING \/ queue < moved[k]) THEN queue ELSE moved[k]],
      index |-> current]

\* Only windows that are the current or the one before it at now count.
window_result(window, now) ==
  LET index == now \div WINDOW
      fresh == {k \in 0..1: /\ window.minimum[k] # NOTHING
                            /\ \/ window.index = index
                               \/ k = 0 /\ window.index + 1 = index}
  IN IF fresh = {} THEN NOTHING ELSE Min({window.minimum[k]: k \in fresh})

flow_start(sample) ==
  [UnusedFlow EXCEPT !.key = sample.key, !.first_arrival = sample.arrival,
                     !.last_tsval = sample.tsval, !.last_accepted = sample.arrival]

\* flow_for(): the flow's slot, else the first unused one, else the one whose
\* last accepted sample is the oldest.  Slots fill in order.
SlotFor(flows, key) ==
  LET own == {s \in Slots: flows[s].key = key}
      unused == {s \in Slots: flows[s].key = NOTHING}
      oldest == {s \in Slots: \A r \in Slots:
                  flows[s].last_accepted <= flows[r].last_accepted}
  IN Min(IF own # {} THEN own ELSE IF unused # {} THEN unused ELSE oldest)

flow_for(flows, sample) ==
  LET slot == SlotFor(flows, sample.key)
  IN IF flows[slot].key = sample.key THEN flows
     ELSE [flows EXCEPT ![slot] = flow_start(sample)]

\* The first standard period the measured one is within the tolerance of.
fit_tick(flow, span) ==
  LET period == span \div flow.ticks
      error(t) == IF period > t THEN period - t ELSE t - period
      near == {t \in StandardTicks: error(t) <= (t * TICK_TOLERANCE) \div 100}
  IN IF span < TICK_SPAN \/ flow.ticks = 0 THEN NOTHING
     ELSE IF near = {} THEN NOTHING ELSE Min(near)

(* flow_measure() for one candidate period: the value each direction's     *)
(* floor is compared with.  Without a departure there is none for upload.  *)
Value(flow, tick, sample, d) ==
  IF d = "down" THEN (sample.arrival - flow.first_arrival) - flow.ticks * tick
  ELSE flow.ticks * tick - (sample.departure - flow.first_arrival)

Measured(sample) == IF sample.departure = NOTHING THEN {"down"} ELSE Directions

flow_measure(bound, flow, ticks, sample) ==
  [flow EXCEPT !.floor =
    [d \in Directions |-> [t \in StandardTicks |->
      IF t \in ticks /\ d \in Measured(sample)
      THEN floor_update(bound, flow.floor[d][t], Value(flow, t, sample, d))
      ELSE flow.floor[d][t]]]]

\* The queue a measured flow shows: what is above the floor of its period.
Queue(flow, sample, d) ==
  Value(flow, flow.tick, sample, d) - flow.floor[d][flow.tick].value

\* Progress of the remote clock, read as a signed difference of wrapping values.
Step(tsval, last) ==
  LET difference == (tsval + TSVALS - last) % TSVALS
  IN IF difference >= TSVALS \div 2 THEN difference - TSVALS ELSE difference

Accepts(flow, sample) ==
  /\ Step(sample.tsval, flow.last_tsval) >= 0
  /\ sample.arrival >= flow.last_accepted

Progressed(flow, sample) ==
  [flow EXCEPT !.last_accepted = sample.arrival, !.last_tsval = sample.tsval,
               !.ticks = @ + Step(sample.tsval, flow.last_tsval)]

\* Until a period fits, the floors of every candidate are kept.
Learning(bound, flow, sample) ==
  [flow_measure(bound, flow, StandardTicks, sample) EXCEPT
     !.tick = fit_tick(flow, sample.arrival - flow.first_arrival)]

Implausible(flow, sample) ==
  \E d \in Measured(sample): Queue(flow, sample, d) > IMPLAUSIBLE

Windowed(flow, sample) ==
  [flow EXCEPT !.windows = [d \in Directions |->
    IF d \in Measured(sample)
    THEN window_add(@[d], Queue(flow, sample, d), sample.arrival) ELSE @[d]]]

Known(bound, flow, sample) ==
  LET measured == flow_measure(bound, flow, {flow.tick}, sample)
  IN IF Implausible(measured, sample) THEN flow_start(sample)
     ELSE Windowed(measured, sample)

\* tcpdelay_estimator_add() for the flow in the sample's slot.
flow_add(bound, flow, sample) ==
  LET progressed == Progressed(flow, sample)
  IN IF ~Accepts(flow, sample) THEN flow
     ELSE IF flow.tick = NOTHING THEN Learning(bound, progressed, sample)
     ELSE Known(bound, progressed, sample)

(* tcpdelay_estimator_result(): the pair of one flow with a fresh download *)
(* queue, one with both directions before others, then the oldest.         *)
Fresh(now) == {s \in Slots: window_result(estimator.flows[s].windows["down"], now) # NOTHING}
Both(now) == {s \in Fresh(now): window_result(estimator.flows[s].windows["up"], now) # NOTHING}
SelectedSlot(now) ==
  LET among == IF Both(now) # {} THEN Both(now) ELSE Fresh(now)
  IN Min({s \in among: \A r \in among:
           estimator.flows[s].first_arrival <= estimator.flows[r].first_arrival})

tcpdelay_estimator_result(now) ==
  [d \in Directions |->
    IF Fresh(now) = {} THEN NOTHING
    ELSE window_result(estimator.flows[SelectedSlot(now)].windows[d], now)]
-----------------------------------------------------------------------------
SetBound(bound) ==
  /\ estimator' = [estimator EXCEPT !.bound = bound]
  /\ UNCHANGED <<network, heard>>

(* The remote sends at a time and stamps its clock; what it echoes left    *)
(* some delay before that, or before the departures were recorded.         *)
INITIAL_TSVAL == TSVALS - 3
RemoteTsval(key, sent) == (sent \div network.periods[key] + INITIAL_TSVAL) % TSVALS

Heard(slot, flow, sample, sent, started) ==
  LET old == IF started THEN {} ELSE heard[slot]
      delay(d) == IF d = "down" THEN sample.arrival - sent ELSE sent - sample.departure
      least(d) == Min({delay(d)} \cup {h.delay: h \in {g \in old: g.d = d}})
      queue(d) == IF estimator.flows[slot].tick = NOTHING \/ started THEN NOTHING
                  ELSE Queue(flow, sample, d)
  IN [heard EXCEPT ![slot] = old \cup
       {[d |-> d, window |-> sample.arrival \div WINDOW, delay |-> delay(d),
         queue |-> queue(d), truth |-> delay(d) - least(d)]: d \in Measured(sample)}]

Sampled(key, gap, down, up) ==
  LET arrival == network.now + gap
      sent == arrival - down
      sample == [key |-> key, arrival |-> arrival, tsval |-> RemoteTsval(key, sent),
                 departure |-> IF up = NOTHING THEN NOTHING ELSE sent - up]
      flows == flow_for(estimator.flows, sample)
      slot == SlotFor(estimator.flows, key)
      flow == flow_add(estimator.bound, flows[slot], sample)
      restarted == Accepts(flows[slot], sample) /\ flow.first_arrival = arrival
                   /\ flow.ticks = 0 /\ flows[slot].first_arrival # arrival
      started == estimator.flows[slot].key # key
  IN
  /\ network.samples < MaxSamples
  /\ sent >= 0
  /\ up # NOTHING => sent - up >= 0
  /\ network' = [network EXCEPT !.now = arrival, !.samples = @ + 1]
  /\ estimator' = [estimator EXCEPT !.flows = [flows EXCEPT ![slot] = flow]]
  /\ heard' = IF restarted THEN [heard EXCEPT ![slot] = {}]
              ELSE IF Accepts(flows[slot], sample)
              THEN Heard(slot, flow, sample, sent, started) ELSE heard

EstimatorNext ==
  \/ \E bound \in QueueBounds: SetBound(bound)
  \/ \E key \in FlowKeys, gap \in Gaps, down \in Delays, up \in Delays \cup {NOTHING}:
       Sampled(key, gap, down, up)

EstimatorSpec == EstimatorInit /\ [][EstimatorNext]_estimatorVars
-----------------------------------------------------------------------------
(* The two result windows of a slot hold what a log of its flow would      *)
(* give: the least queue of the current and the previous window, and       *)
(* nothing of a window further back or of the flow that had the slot       *)
(* before, at any time from the latest sample on.                          *)
WindowsExact ==
  \A s \in Slots, d \in Directions, now \in network.now..network.now + 2 * WINDOW:
    LET index == now \div WINDOW
        counted == {h \in heard[s]: /\ h.d = d /\ h.queue # NOTHING
                                    /\ h.window \in {index - 1, index}}
    IN window_result(estimator.flows[s].windows[d], now) =
         IF counted = {} THEN NOTHING ELSE Min({h.queue: h \in counted})

(* Without a bound, a queue that is shown differs from the queue there was *)
(* above the least since the flow began by less than one tick of the       *)
(* remote clock, in both directions, and the period that fits is the true  *)
(* one: neither wrapping timestamps nor the time before that disturb it.   *)
QueuesTrue ==
  \A s \in Slots: estimator.flows[s].key # NOTHING =>
    LET period == network.periods[estimator.flows[s].key]
    IN /\ estimator.flows[s].tick \in {NOTHING, period}
       /\ estimator.bound = NO_BOUND =>
            \A h \in heard[s]:
              h.queue = NOTHING \/ h.queue - h.truth \in (1 - period)..(period - 1)

(* A flow whose queue the result can still use gives way to another only   *)
(* when every slot has accepted a sample in the same two windows: flows    *)
(* that fell silent, and records that were not accepted, keep no slot.     *)
FreshKept ==
  [][\A s \in Slots:
       (estimator'.flows[s].key # estimator.flows[s].key /\ s \in Fresh(network'.now))
         => \A r \in Slots: estimator.flows[r].last_accepted \div WINDOW
                             >= network'.now \div WINDOW - 1]_estimatorVars

(* What daemon/tcp.c:370 and estimator.h:73 say of the bound: no queue     *)
(* that is shown exceeds it.  The windows hold what was measured before.   *)
ShownWithinBound ==
  estimator.bound # NO_BOUND =>
    \A d \in Directions:
      tcpdelay_estimator_result(network.now)[d] <= estimator.bound

\* The windows hold exactly the floors of their two intervals, no queue is shown
\* that was not measured, and what is shown is recent (tcpdelay_estimator_add,
\* tcpdelay_estimator_result).
EstimatorTrue == [](WindowsExact /\ QueuesTrue) /\ FreshKept
=============================================================================
