------------------------------- MODULE Daemon -------------------------------
(***************************************************************************)
(* The event loop's handlers over the links: the activity state machine     *)
(* (controller/activity.c), the traffic tick that drives it (daemon.c) and  *)
(* the life of the latency session (daemon/pingers.c, child_pingers.c).     *)
(* Everything here runs on one thread; what interleaves are whole handlers, *)
(* with the kernel and the pinger processes between them.                   *)
(*                                                                         *)
(* Links is the module of the two CAKE qdiscs; its actions are conjoined    *)
(* with what the same handlers do to the pingers.  A timestamp is kept as   *)
(* its age, and a deadline as the time left, both in traffic ticks and      *)
(* capped where no comparison tells greater values apart.                   *)
(***************************************************************************)
EXTENDS Links

CONSTANTS
  Adjusted,         \* the directions whose rate may be changed
  EnableSleep,      \* enable_sleep_function
  Enforce,          \* minimum_shaper_rates_enforcement
  ChildPingers,     \* the pinger is a child process, not native sockets
  SustainedIdle,    \* sustained_idle_sleep_threshold_s
  StallTimeout,     \* stall detection threshold times the response interval
  GlobalTimeout,    \* global_ping_response_timeout_s
  Grace,            \* two ping intervals
  MaxAge,           \* a cap for ages
  StaleAge          \* responses older than this are not acted on (500 ms)

VARIABLES
  activity,         \* struct controller_activity
  pingers,          \* struct daemon_pingers and its latency session
  minimum,          \* history: what has become of the minimum rates
  ready_for         \* history: how long both links have been ready

daemonVars == <<activity, pingers, minimum, ready_for>>
allVars == <<vars, daemonVars>>

ASSUME DaemonAssumption ==
  /\ Adjusted \subseteq Direction
  /\ {EnableSleep, Enforce, ChildPingers} \subseteq BOOLEAN
  /\ {SustainedIdle, StallTimeout, GlobalTimeout, Grace, StaleAge, MaxAge} \subseteq Nat
  /\ \A t \in {SustainedIdle, StallTimeout, StaleAge} : t < MaxAge
  /\ GlobalTimeout <= MaxAge

Older(age, elapsed) == IF age + elapsed > MaxAge THEN MaxAge ELSE age + elapsed
Quieter(time, elapsed) == IF time > SustainedIdle THEN time ELSE time + elapsed
Left(time, elapsed) == IF elapsed > time THEN 0 ELSE time - elapsed

-----------------------------------------------------------------------------
(* controller/activity.c                                                    *)

NOT_TIMED == -1              \* idle_started_us = 0

\* What a direction's counters may say: no valid rate, or a rate that is below
\* both thresholds, above the stall threshold, or above the active one too.
Rates == {"INVALID", "QUIET", "TRICKLE", "ACTIVE"}

above_stall_threshold(r) == r \in {"TRICKLE", "ACTIVE"}
above_active_threshold(r) == r = "ACTIVE"

both_above_stall(rates) == \A d \in Direction : above_stall_threshold(rates[d])
either_above_active(rates) == \E d \in Direction : above_active_threshold(rates[d])
both_valid(rates) == \A d \in Direction : rates[d] # "INVALID"

\* The state after one update, and since when the link has been quiet.
NextActivity(a, p, rates) ==
  CASE a.state = "RUNNING" /\ p.grace > 0 -> a
    [] a.state = "RUNNING" /\ p.grace = 0 /\ p.response_age > StallTimeout ->
         [a EXCEPT !.idle = NOT_TIMED,
                   !.state = IF both_above_stall(rates) THEN @ ELSE "STALL"]
    [] a.state = "RUNNING" /\ p.grace = 0 /\ p.response_age <= StallTimeout ->
         IF ~EnableSleep \/ ~both_valid(rates) \/ either_above_active(rates)
         THEN [a EXCEPT !.idle = NOT_TIMED]
         ELSE IF a.idle = NOT_TIMED THEN [a EXCEPT !.idle = 0]
         ELSE IF a.idle > SustainedIdle
         THEN [a EXCEPT !.state = "IDLE", !.idle = NOT_TIMED]
         ELSE a
    [] a.state = "IDLE" ->
         [a EXCEPT !.state = IF either_above_active(rates) THEN "RUNNING" ELSE @]
    [] a.state = "STALL" ->
         [a EXCEPT !.state =
            IF p.response_age <= StallTimeout \/ both_above_stall(rates)
            THEN "RUNNING" ELSE @]

\* The response timeout is looked at while nothing answers.
TimedOut(a, p) ==
  /\ \/ a.state = "STALL"
     \/ a.state = "RUNNING" /\ p.grace = 0 /\ p.response_age > StallTimeout
  /\ p.response_age >= GlobalTimeout

\* Mutant: the report of an earlier timeout is never withdrawn.
Reported_once(a, p) == a.reported

\* Whether this timeout has been reported already.
Reported(a, p) == a.reported /\ p.response_age >= GlobalTimeout

\* controller_activity_update: the new activity and its output.
controller_activity_update(a, p, rates) ==
  LET timed_out == TimedOut(a, p)
  IN  [activity |-> [NextActivity(a, p, rates) EXCEPT
                       !.reported = Reported(a, p) \/ timed_out],
       global_timeout_started |-> timed_out /\ ~Reported(a, p),
       restart_pingers |-> timed_out /\ p.restart_age >= GlobalTimeout]

-----------------------------------------------------------------------------
(* daemon/pingers.c                                                         *)

\* Child processes are told to stop, and reaped later.
pingers_close(p) ==
  [p EXCEPT !.open = FALSE, !.stopping = @ \/ (ChildPingers /\ p.open)]

\* ensure_latency_open: whether a session may be opened now.
may_open(p, links) ==
  links_ready(links) /\ ~p.open /\ ~p.stopping /\ p.retry = 0

\* pingers_watch, where opening a session succeeds or not.
pingers_watch(p, links, opens) ==
  IF ~may_open(p, links) THEN p
  ELSE IF opens THEN [p EXCEPT !.open = TRUE, !.restart_age = 0]
  ELSE [p EXCEPT !.retry = RetryTicks]

\* ungraced is a history: closed for a missing CAKE, and no grace since.
close_for_cake(p) == [pingers_close(p) EXCEPT !.ungraced = TRUE]

grant_grace(p) ==
  [p EXCEPT !.response_age = 0, !.grace = Grace, !.ungraced = FALSE]

pingers_suspend(p) == [close_for_cake(p) EXCEPT !.suspended = TRUE]

pingers_unsuspend(p) ==
  IF p.suspended THEN [grant_grace(p) EXCEPT !.suspended = FALSE] ELSE p

pingers_resume(p, links, opens) ==
  pingers_watch([grant_grace(p) EXCEPT !.retry = 0], links, opens)

pingers_reopen(p, links, opens) ==
  pingers_watch([pingers_close(p) EXCEPT !.retry = 0], links, opens)

pingers_restart(p, links, opens) ==
  pingers_reopen([p EXCEPT !.restart_age = 0], links, opens)

\* Mutant: the next attempt is not scheduled.
pingers_defer_retry_unscheduled(p) == pingers_close(p)

pingers_defer_retry(p) == [pingers_close(p) EXCEPT !.retry = RetryTicks]

\* Time passes for everything that is timed.
Aged(p, elapsed) ==
  [p EXCEPT !.response_age = Older(@, elapsed), !.restart_age = Older(@, elapsed),
            !.grace = Left(@, elapsed), !.retry = Left(@, elapsed)]

\* pingers_prepare and controller_activity_init.
INITIAL_PINGERS ==
  [open |-> FALSE, stopping |-> FALSE, suspended |-> FALSE, ungraced |-> FALSE,
   grace |-> 0, response_age |-> 0, restart_age |-> 0, retry |-> 0]
INITIAL_ACTIVITY == [state |-> "RUNNING", idle |-> NOT_TIMED, reported |-> FALSE]

-----------------------------------------------------------------------------
(* daemon/shaper.c: the minimum rates.                                      *)

\* History.  held are the directions whose CAKE has run at its minimum rate since
\* it was set; touched are those whose CAKE has refused it, or has got another
\* rate or been replaced since; silent says that the last traffic cycle found the
\* response timeout exceeded.
INITIAL_MINIMUM == [held |-> {}, touched |-> {}, silent |-> FALSE]

Touched(m, directions) ==
  [m EXCEPT !.held = @ \ directions, !.touched = @ \cup directions]

\* apply_bandwidth gives up on one direction: the write is refused or fails, or
\* the readback is not what was written.
WriteFailure(d) == [dump |-> FALSE, mtu |-> {}, write |-> d]

\* Every adjusted direction whose CAKE has just been read is set to its minimum.
shaper_enforce_minimum(m, links, failure) ==
  LET asked == {d \in Adjusted : links[d].cake_valid}
      failed == {d \in asked : failure = WriteFailure(d)}
  IN  [m EXCEPT !.held = (@ \cup asked) \ failed, !.touched = (@ \ asked) \cup failed]

\* A cycle in which the link neither sleeps nor is past the timeout: the next time
\* the minimum has to be set again, whatever touched a CAKE before.
Judged(m, age, state) ==
  [m EXCEPT !.silent = (age >= GlobalTimeout),
            !.touched = IF age < GlobalTimeout /\ state # "IDLE" THEN {} ELSE @]

-----------------------------------------------------------------------------
(* daemon.c                                                                 *)

\* update_activity and the pingers_watch after it.  a is the activity before,
\* p the pingers after pingers_unsuspend.
UpdatedPingers(a, p, output, links, opens) ==
  LET state == output.activity.state
      changed == CASE a.state # "IDLE" /\ state = "IDLE" -> pingers_close(p)
                   [] a.state = "IDLE" /\ state # "IDLE" ->
                        pingers_resume(p, links, opens)
                   [] OTHER -> p
      restarted == IF output.restart_pingers
                   THEN pingers_restart(changed, links, opens) ELSE changed
  IN  IF state = "IDLE" THEN restarted
      ELSE pingers_watch(restarted, links, opens)

\* What may go wrong in a traffic cycle: a read of CAKE, a change of its rate, or
\* the pingers' start.
OpenFailure == [dump |-> FALSE, mtu |-> {}, open |-> TRUE]
Failures == ReadFailures \cup {OpenFailure} \cup {WriteFailure(d) : d \in Direction}
Opens(failure) == failure # OpenFailure

\* daemon_tick once links_observe has left links, elapsed after the last one.
\* p is the session's state as the handler found or left it.
daemon_tick(links, p, elapsed, rates, failure) ==
  LET q == Aged(p, elapsed)
      a == [activity EXCEPT
              !.idle = IF @ = NOT_TIMED THEN @ ELSE Quieter(@, elapsed)]
      u == pingers_unsuspend(q)
      output == controller_activity_update(a, u, rates)
      enforced == /\ Enforce
                  /\ \/ output.global_timeout_started
                     \/ a.state # "IDLE" /\ output.activity.state = "IDLE"
      rated == IF enforced THEN shaper_enforce_minimum(minimum, links, failure)
               ELSE minimum
  IN  IF links_ready(links)
      THEN /\ activity' = output.activity
           /\ pingers' = UpdatedPingers(a, u, output, links, Opens(failure))
           /\ minimum' = Judged(rated, u.response_age, output.activity.state)
           /\ ready_for' = Quieter(ready_for, elapsed)
      ELSE /\ activity' = a
           /\ pingers' = pingers_suspend(q)
           /\ ready_for' = 0
           /\ UNCHANGED minimum

\* What the counters may say after a read: a rate only where the monitor has a
\* baseline, and none even there if a counter was reset or missing or the read
\* came within a millisecond of the last.
RatesOf(links) ==
  {rates \in [Direction -> Rates] :
     \A d \in Direction : ~links[d].traffic_valid => rates[d] = "INVALID"}

HandleTrafficTimer(failure) ==
  /\ Tick(failure)
  /\ \E rates \in RatesOf(link') :
       daemon_tick(link', pingers, 1, rates, failure)

\* A datagram that takes away a CAKE in use closes the pingers; one that brings
\* a new root qdisc is followed by a traffic cycle.
HandleQdiscEvents(failure) ==
  /\ QdiscEvents(failure)
  /\ LET event == Head(events)
         p == IF Suspends(event) = {} THEN pingers ELSE close_for_cake(pingers)
     IN  IF qdisc_refresh(event)
         THEN \E rates \in RatesOf(link') :
                daemon_tick(link', p, 0, rates, failure)
         ELSE pingers' = p /\ UNCHANGED <<activity, minimum, ready_for>>

\* A response of some age, which may be greater than that of one handled before it:
\* a pinger's line is as old as its timestamp says.  One that is stale is not
\* acted on; any other leaves the rates to the controller.
Response(age) ==
  /\ phase = "RUNNING" /\ pingers.open
  /\ pingers' = [pingers EXCEPT !.response_age = age]
  /\ minimum' = IF age > StaleAge THEN minimum ELSE Touched(minimum, Direction)
  /\ UNCHANGED <<vars, activity, ready_for>>

\* What happens in no link: a failure to open a session may come with it.
Elsewhere(opens) ==
  /\ IF opens THEN UNCHANGED disturbances ELSE Disturb
  /\ UNCHANGED <<kernel, last_index, events, overrun, phase, link,
                 activity, minimum, ready_for>>

\* handle_pinger_exit for the last process that was told to stop.
ChildExited(opens) ==
  /\ phase = "RUNNING" /\ pingers.stopping
  /\ LET p == [pingers EXCEPT !.stopping = FALSE]
     IN  pingers' = IF activity.state = "IDLE" THEN p
                    ELSE pingers_watch(p, link, opens)
  /\ Elsewhere(opens)

\* A process exits on its own, writes what cannot be read, or a socket fails.
\* The session's other processes may be left to be reaped.
PingerFails ==
  /\ phase = "RUNNING" /\ pingers.open
  /\ \E stopping \in {FALSE, ChildPingers} :
       pingers' = [pingers_defer_retry(pingers) EXCEPT !.stopping = stopping]
  /\ Elsewhere(FALSE)

\* handle_health_timer, when it replaces a reflector by a spare one.
ReplaceReflector(opens) ==
  /\ phase = "RUNNING" /\ links_ready(link)
  /\ activity.state = "RUNNING" /\ pingers.grace = 0
  /\ pingers' = pingers_reopen(pingers, link, opens)
  /\ Elsewhere(opens)

\* The kernel, with what becomes of the rate: CAKE changes for another, or its rate
\* does; or the news is of the daemon's own change.
KernelActs(d) ==
  /\ KernelOf(d)
  /\ \/ minimum' = Touched(minimum, {d})
     \/ UNCHANGED <<kernel, minimum>>
  /\ UNCHANGED <<activity, pingers, ready_for>>

\* pingers_prepare, start_activity and links_watch_events.
Start ==
  /\ Subscribe
  /\ activity' = INITIAL_ACTIVITY /\ pingers' = INITIAL_PINGERS
  /\ minimum' = INITIAL_MINIMUM /\ ready_for' = 0

EnterLoop(failure) ==
  /\ FirstObserve(failure)
  /\ pingers' = pingers_watch(pingers, link', Opens(failure))
  /\ UNCHANGED <<activity, minimum, ready_for>>

\* pingers_stop_now: the processes are stopped and reaped before the exit.
Stop ==
  /\ Overrun
  /\ pingers' = [pingers EXCEPT !.open = FALSE, !.stopping = FALSE]
  /\ UNCHANGED <<activity, minimum, ready_for>>

DaemonInit ==
  /\ Init
  /\ activity = INITIAL_ACTIVITY /\ pingers = INITIAL_PINGERS
  /\ minimum = INITIAL_MINIMUM /\ ready_for = 0

DaemonNext ==
  \/ \E d \in Direction : KernelActs(d)
  \/ Start
  \/ \E failure \in Failures :
       EnterLoop(failure) \/ HandleTrafficTimer(failure) \/ HandleQdiscEvents(failure)
  \/ \E age \in 0 .. MaxAge : Response(age)
  \/ \E opens \in BOOLEAN : ChildExited(opens) \/ ReplaceReflector(opens)
  \/ PingerFails
  \/ Stop

DaemonSpec == DaemonInit /\ [][DaemonNext]_allVars

\* The loop's timers and descriptors are served, and a process told to stop ends:
\* after CHILD_STOP_TIMEOUT_US it is killed.
DaemonFairness ==
  /\ WF_allVars(Start)
  /\ WF_allVars(EnterLoop(NoFailure))
  /\ WF_allVars(HandleTrafficTimer(NoFailure))
  /\ WF_allVars(HandleQdiscEvents(NoFailure))
  /\ WF_allVars(ChildExited(TRUE))
  /\ WF_allVars(Stop)

DaemonFairSpec == DaemonSpec /\ DaemonFairness

-----------------------------------------------------------------------------
(* Properties                                                               *)

Age == 0 .. MaxAge

DaemonTypeOK ==
  /\ activity \in [state : {"RUNNING", "IDLE", "STALL"},
                   idle : {NOT_TIMED} \cup Age, reported : BOOLEAN]
  /\ pingers \in [open : BOOLEAN, stopping : BOOLEAN, suspended : BOOLEAN,
                  ungraced : BOOLEAN, grace : 0 .. Grace, response_age : Age,
                  restart_age : Age, retry : 0 .. RetryTicks]
  /\ minimum \in [held : SUBSET Direction, touched : SUBSET Direction, silent : BOOLEAN]
  /\ ready_for \in Age

Running == phase = "RUNNING"
Ready == links_ready(link)

\* A session is open only over two CAKEs that are believed there, never while
\* the link is idle, and never beside an old one that is still to be reaped.
ProbesOnlyOverCake ==
  Running /\ pingers.open =>
    Ready /\ activity.state # "IDLE" /\ ~pingers.stopping

\* Whenever probing is due and no session is open, there is a reason that ends:
\* old processes about to be reaped, or a retry that has been scheduled.
SessionExpected ==
  Running /\ Ready /\ activity.state # "IDLE" /\ ~pingers.open =>
    pingers.stopping \/ pingers.retry > 0

\* In every state the session is one the qdiscs allow, never next to the old
\* one's processes, and a session that is due is on its way (ensure_latency_open).
SessionSound == DaemonTypeOK /\ ProbesOnlyOverCake /\ SessionExpected

\* Asleep, and in a stall that a traffic cycle has found past the response timeout,
\* every adjusted CAKE runs at its minimum rate, unless in this very sleep or
\* timeout it has refused the rate, or was replaced or given another rate, or a
\* sample has been acted on: however often the connection has come and gone, a new
\* timeout and a new sleep set the rates anew (update_activity).
MinimumInForce ==
  /\ Running /\ Ready /\ Enforce
  /\ activity.state = "IDLE" \/ (activity.state = "STALL" /\ minimum.silent)
  => Adjusted \subseteq minimum.held \cup minimum.touched

\* docs/technical.md:60-61: control resumes when the qdisc returns.
Resumes ==
  []<>(Running /\ (pingers.open \/ activity.state = "IDLE"))
    \/ []<>(\E d \in Direction : kernel[d].handle = 0)

\* controller/activity.c:121: "Only healthy probes and valid counters can
\* establish idle time."  Probes and counters are suspended while a CAKE is
\* missing, so idle time would be counted from when both were there.
IdleEarned ==
  [][activity.state = "RUNNING" /\ activity'.state = "IDLE"
       => ready_for' > SustainedIdle]_allVars

\* daemon/pingers.c:268: "Pingers stopped while CAKE was missing restart like
\* after IDLE", which grants a grace before they are judged.
GraceAfterCake == Running /\ pingers.open => ~pingers.ungraced
=============================================================================
