------------------------------- MODULE Shaper -------------------------------
(***************************************************************************)
(* daemon/shaper.c: the controller's rates are written to the CAKE qdiscs   *)
(* and read back.  The qdiscs belong to the kernel, where anybody may change *)
(* or replace them between two reads, and in the middle of a handler.        *)
(*                                                                         *)
(* How the controller arrives at a rate is Controller's; here it moves to    *)
(* any rate within its limits whenever its input is valid.                  *)
(***************************************************************************)
EXTENDS Naturals, FiniteSets

CONSTANTS
  Side,             \* the two directions
  AdjustedSides,    \* those with adjust_*_shaper_rate
  ShaperRates,      \* rates within the configured limits
  MinimumRate,      \* minimum_rate_bps
  ForeignRates,     \* rates others may set; UNLIMITED is one
  MaxQdiscs,        \* bound on the qdiscs ever created on a side
  MaxAccidents      \* bound on interference and failures

UNLIMITED == 0      \* CAKE without a bandwidth
NO_QDISC == 0

ASSUME ShaperAssumption ==
  /\ AdjustedSides \subseteq Side
  /\ ShaperRates \subseteq Nat \ {UNLIMITED} /\ ForeignRates \subseteq Nat
  /\ MinimumRate \in ShaperRates
  /\ {MaxQdiscs, MaxAccidents} \subseteq Nat

VARIABLES
  qdisc,            \* the kernel's CAKE of each side: its identity and rate
  cake,             \* links_direction: the last observation and its validity
  control,          \* controller_direction: shaper_rate and initial_rate_pending
  touched,          \* history: changed by somebody since the last good read
  sampled,          \* history: the last step was an update for a sample
  accidents         \* how much has happened to the qdiscs and requests

shaperVars == <<qdisc, cake, control, touched, sampled, accidents>>

Accident == accidents < MaxAccidents /\ accidents' = accidents + 1

-----------------------------------------------------------------------------
(* The kernel, in the hands of others.                                      *)

\* tc qdisc change.
ChangedByOthers(s) ==
  /\ Accident /\ qdisc[s].id # NO_QDISC
  /\ \E rate \in ForeignRates : qdisc' = [qdisc EXCEPT ![s].rate = rate]
  /\ touched' = [touched EXCEPT ![s] = TRUE] /\ sampled' = FALSE
  /\ UNCHANGED <<cake, control>>

\* tc qdisc replace, or del with a later add: a new CAKE with a new identity.
ReplacedByOthers(s) ==
  /\ Accident /\ qdisc[s].id < MaxQdiscs
  /\ \E rate \in ForeignRates :
       qdisc' = [qdisc EXCEPT ![s] = [id |-> @.id + 1, rate |-> rate]]
  /\ touched' = [touched EXCEPT ![s] = TRUE] /\ sampled' = FALSE
  /\ UNCHANGED <<cake, control>>

-----------------------------------------------------------------------------
(* The daemon.                                                              *)

\* links_observe, once a traffic tick: one dump for both sides.  A rate needs
\* two reads of the same qdisc.
ObserveCake(fails) ==
  /\ IF fails THEN Accident ELSE UNCHANGED accidents
  /\ cake' = [s \in Side |->
       IF fails THEN [cake[s] EXCEPT !.valid = FALSE, !.traffic = FALSE, !.seen = NO_QDISC]
       ELSE [valid |-> TRUE, id |-> qdisc[s].id, rate |-> qdisc[s].rate,
             seen |-> qdisc[s].id, traffic |-> cake[s].seen = qdisc[s].id]]
  /\ touched' = [s \in Side |-> touched[s] /\ fails] /\ sampled' = FALSE
  /\ UNCHANGED <<qdisc, control>>

\* What becomes of a change: nothing unusual, the request or the readback fails,
\* or somebody changes CAKE between the two.
Outcomes == [how : {"WRITTEN", "REFUSED", "UNREADABLE"}, rate : {UNLIMITED}]
              \cup [how : {"OVERTAKEN"}, rate : ForeignRates]

\* cake_set_bandwidth: the request names the qdisc last read.
cake_set_bandwidth(q, c, desired, outcome) ==
  IF outcome.how = "REFUSED" \/ q.id # c.id THEN q
  ELSE [q EXCEPT !.rate = IF outcome.how = "OVERTAKEN" THEN outcome.rate ELSE desired]

\* Mutant: the desired rate is remembered before it is verified.
apply_bandwidth_trusting(q, c, desired, outcome) == [c EXCEPT !.rate = desired]

\* apply_bandwidth: what the daemon believes of CAKE afterwards, q being the
\* qdisc as the request left it.
apply_bandwidth(q, c, desired, outcome) ==
  IF q.id # c.id \/ outcome.how \in {"REFUSED", "UNREADABLE"} \/ q.rate # desired
  THEN c ELSE [c EXCEPT !.rate = desired]

\* Both sides after the writes asked for.  A change whose readback fails is one
\* the daemon has not seen either.
Apply(wanted, desired, outcome) ==
  LET written(s) == cake_set_bandwidth(qdisc[s], cake[s], desired[s], outcome[s])
      smooth == {s \in Side : outcome[s].how = "WRITTEN"}
  IN  /\ Side \ wanted \subseteq smooth
      /\ qdisc' = [s \in Side |-> IF s \in wanted THEN written(s) ELSE qdisc[s]]
      /\ cake' = [s \in Side |->
           IF s \in wanted
           THEN apply_bandwidth(written(s), cake[s], desired[s], outcome[s])
           ELSE cake[s]]
      /\ touched' = [s \in Side |->
           touched[s] \/ outcome[s].how \in {"UNREADABLE", "OVERTAKEN"}]
      /\ IF smooth = Side THEN UNCHANGED accidents ELSE Accident

\* direction_input.
input_valid(c) == c.traffic /\ c.valid /\ c.rate > UNLIMITED

\* The controller's rate after an update.
RatesAfter(s) ==
  IF s \in AdjustedSides /\ input_valid(cake[s]) /\ ~control[s].pending
  THEN ShaperRates ELSE {control[s].rate}

\* Mutant: only what the controller moved is written.
rate_changed_moved(c, was, rate) ==
  input_valid(c) /\ (was.pending \/ was.rate # rate)

\* rate_set_output: the first rate, and any rate CAKE is not known to hold.
rate_changed(c, was, rate) == input_valid(c) /\ (was.pending \/ c.rate # rate)

\* shaper_update, for one latency sample.
ShaperUpdate(outcome) ==
  /\ sampled' = TRUE
  /\ \E rate \in [Side -> ShaperRates] :
       /\ \A s \in Side : rate[s] \in RatesAfter(s)
       /\ control' = [s \in Side |->
            [rate |-> rate[s],
             pending |-> control[s].pending /\
                           ~(s \in AdjustedSides /\ input_valid(cake[s]))]]
       /\ Apply({s \in AdjustedSides : rate_changed(cake[s], control[s], rate[s])},
                rate, outcome)

\* shaper_enforce_minimum, on a stall or on sleep.
EnforceMinimum(outcome) ==
  /\ control' = [s \in Side |->
       IF s \in AdjustedSides THEN [rate |-> MinimumRate, pending |-> FALSE]
       ELSE control[s]]
  /\ Apply({s \in AdjustedSides : cake[s].valid}, [s \in Side |-> MinimumRate], outcome)
  /\ sampled' = FALSE

\* shaper_start, over qdiscs somebody has created.
ShaperInit ==
  /\ \E rate \in ForeignRates : qdisc = [s \in Side |-> [id |-> 1, rate |-> rate]]
  /\ cake = [s \in Side |-> [valid |-> FALSE, id |-> NO_QDISC, rate |-> UNLIMITED,
                             seen |-> NO_QDISC, traffic |-> FALSE]]
  /\ \E base \in ShaperRates : control = [s \in Side |-> [rate |-> base, pending |-> TRUE]]
  /\ touched = [s \in Side |-> TRUE]
  /\ sampled = FALSE /\ accidents = 0

ShaperNext ==
  \/ \E s \in Side : ChangedByOthers(s) \/ ReplacedByOthers(s)
  \/ \E fails \in BOOLEAN : ObserveCake(fails)
  \/ \E outcome \in [Side -> Outcomes] : ShaperUpdate(outcome) \/ EnforceMinimum(outcome)

\* The traffic cycle goes on, and its reads succeed in the end.
ShaperFairness == WF_shaperVars(ObserveCake(FALSE))

ShaperSpec == ShaperInit /\ [][ShaperNext]_shaperVars /\ ShaperFairness

-----------------------------------------------------------------------------
(* Properties                                                               *)

\* Until somebody else changes a qdisc, or a change of its own cannot be read
\* back, the daemon is right about the rate CAKE holds: after refused requests,
\* readbacks that did not match, and writes to one side that failed on the other.
BelievesCake ==
  \A s \in Side : cake[s].valid /\ ~touched[s] =>
    cake[s].id = qdisc[s].id /\ cake[s].rate = qdisc[s].rate

\* Once nobody interferes and nothing fails, every sample leaves each adjusted
\* CAKE at the controller's rate, whatever was overwritten, replaced or left half
\* done before.  A CAKE without a bandwidth is nobody's input and stays as it is.
Followed ==
  <>[](sampled => \A s \in AdjustedSides :
         qdisc[s].rate \in {UNLIMITED, control[s].rate})
=============================================================================
