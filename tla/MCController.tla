---------------------------- MODULE MCController ----------------------------
(***************************************************************************)
(* Small instances of Controller.  Ratios are percentages (RATIO_ONE_E6 is  *)
(* 100), rates are a few bytes per second, times a few microseconds.        *)
(***************************************************************************)
EXTENDS Controller

Limit(adjusted) ==
  [adjust |-> adjusted, minimum |-> 120, base |-> 160, maximum |-> 200,
   up_us |-> 1, threshold_us |-> 2, down_us |-> 6]

DownloadOnly == [d \in Direction |-> Limit(d = "download")]
BothAdjusted == [d \in Direction |-> Limit(TRUE)]

Configured(shared, window_size, late, share) ==
  [detection_window |-> window_size, detection_threshold |-> late,
   minimum_adjust_down |-> 95, maximum_adjust_down |-> 60,
   minimum_adjust_up |-> 100, maximum_adjust_up |-> 120,
   down_load_low |-> 90, up_load_low |-> 110,
   high_load_threshold |-> 75,
   bufferbloat_refractory |-> 1, decay_refractory |-> 2,
   shared_delay |-> shared, ack_share |-> share]

WindowConfig == Configured(FALSE, 2, 2, 0)
SharedConfig ==
  [Configured(TRUE, 1, 1, 10) EXCEPT !.bufferbloat_refractory = 0,
                                     !.decay_refractory = 1]

PolicyPercent ==
  [enter |-> 90, exit |-> 80, full_delivery |-> 98, queue_share |-> 25,
   ack_headroom |-> 5, queue_minimum_us |-> 4]

In(t, c) == [valid |-> TRUE, traffic |-> t, cake |-> c]
Invalid == [valid |-> FALSE, traffic |-> 0, cake |-> 0]

\* One direction at work: idle, loaded below and above the rate, unusable.
OneDirection ==
  [d \in Direction |->
     IF d = "download" THEN {In(0, 160), In(150, 160), Invalid}
     ELSE {Invalid}]

\* Both directions: download delivering little, most and all of its rate;
\* upload idle and loaded.  CAKE holds a rate far above, as after a change made
\* outside the daemon, so the line state stays put.
TwoDirections ==
  [d \in Direction |->
     IF d = "download" THEN {In(40, 400), In(150, 400), In(240, 400)}
     ELSE {In(0, 400), In(200, 400)}]

Lat(v) == [valid |-> TRUE, delta |-> v]
NoLatency == [valid |-> FALSE, delta |-> 0]
WindowLatencies ==
  [d \in Direction |-> IF d = "download" THEN {Lat(-1), Lat(3)}
                       ELSE {NoLatency}]
SharedLatencies ==
  [d \in Direction |-> IF d = "download" THEN {Lat(0), Lat(4)} ELSE {Lat(4)}]

DownloadPackets == [d \in Direction |-> IF d = "download" THEN {3} ELSE {0}]
NoPackets == [d \in Direction |-> {0}]
DownloadSamples == [d \in Direction |-> IF d = "download" THEN 1 ELSE 0]

Queue(dl, ul) ==
  [valid |-> TRUE,
   delay_us |-> [d \in Direction |-> IF d = "download" THEN dl ELSE ul]]
NoQueue == [Queue(0, 0) EXCEPT !.valid = FALSE]
NoAcks == [valid |-> FALSE, ack |-> 0, upload |-> 0]

NoQueues == {NoQueue}
SomeQueues == {NoQueue, Queue(6, -1), Queue(5, 5)}
NoAckInputs == {NoAcks}
SomeAcks == {NoAcks, [valid |-> TRUE, ack |-> 60, upload |-> 180]}

-----------------------------------------------------------------------------
(* A line gone quiet: from any download rate in range and a window full of  *)
(* late samples, only low-load samples without delay arrive, a bounded time *)
(* apart.                                                                   *)

QuietInputs ==
  [d \in Direction |-> IF d = "download" THEN {In(0, 160), In(60, 160)}
                       ELSE {Invalid}]
QuietSamples == [d \in Direction |-> 0]

QuietInit ==
  /\ line = [d \in Direction |-> UNKNOWN_LINE]
  /\ \E late \in BOOLEAN :
       window = [d \in Direction |->
         [samples |-> [i \in Slots |-> IF late THEN 6 ELSE 0],
          delayed |-> [i \in Slots |-> late],
          sum |-> IF late THEN 6 * config.detection_window ELSE 0,
          count |-> IF late THEN config.detection_window ELSE 0,
          next |-> 0, average |-> IF late THEN 6 ELSE 0,
          congestion |-> IF late THEN "DETECTED" ELSE "CLEAR"]]
  /\ \E r \in limits["download"].minimum .. limits["download"].maximum :
       /\ rate_holdable(r) = r
       /\ rate = [d \in Direction |->
            [shaper_rate |-> r, last_congestion |-> 0, last_decay |-> 0,
             last_increase_sample_id |-> 0, initial_rate_pending |-> FALSE]]
  /\ thresholds = [d \in Direction |->
       [up_us |-> limits[d].up_us, threshold_us |-> limits[d].threshold_us,
        down_us |-> limits[d].down_us]]
  /\ output = [d \in Direction |->
       [decision |-> [rate |-> 0, changed |-> FALSE, reason |-> "UNCHANGED"],
        attributed |-> TRUE, ack_share_active |-> FALSE]]
  /\ now = 0
  /\ sample_id = [d \in Direction |-> 0]
  /\ cut_at = [d \in Direction |-> -1]

\* Samples keep coming, at most MaxElapsed apart.
QuietNext ==
  \E i \in Pairs(DirectionInputs), t \in now + 1 .. now + MaxElapsed :
    /\ t <= MaxTime
    /\ controller_update(
         [directions |-> [d \in Direction |->
            [valid |-> i[d].valid, traffic |-> i[d].traffic,
             cake |-> i[d].cake, sample_id |-> sample_id[d]]],
          latency |-> [d \in Direction |->
            IF d = "download" THEN Lat(1) ELSE NoLatency],
          queue |-> NoQueue, acks |-> NoAcks, timestamp |-> t])

QuietSpec == QuietInit /\ [][QuietNext]_vars

\* Time for the window to be overwritten and for DECAY_STEPS low-load steps,
\* each of which waits for a sample after the decay refractory period.  Five
\* steps of 110% lead from 120 to 160 in rates CAKE can hold.
DECAY_STEPS == 5
SettleTime == MaxElapsed * config.detection_window
                + DECAY_STEPS * (config.decay_refractory + MaxElapsed)

\* A quiet line is back at its base rate after that time, from above and from
\* below and however it was left: no branch of rate_adjust keeps re-arming the
\* timer the low-load step waits for, and no step overshoots or falls short.
SettlesAtBase ==
  now >= SettleTime => rate["download"].shaper_rate = limits["download"].base
=============================================================================
