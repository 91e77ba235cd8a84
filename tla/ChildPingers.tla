---------------------------- MODULE ChildPingers ----------------------------
(***************************************************************************)
(* daemon/child_pingers.c and daemon/pingers.c over latency/children.c,     *)
(* fping.c and irtt.c: the processes of a latency session, one fping for    *)
(* all reflectors or one irtt for each of them.                             *)
(*                                                                         *)
(* The event loop reaps any process that exits, and tells only of those it  *)
(* watches; a process whose exit it does not tell of would keep its slot    *)
(* for ever.  Deadlines are kept as the time left, in ticks; a timer fires  *)
(* at any time after its deadline.                                          *)
(***************************************************************************)
EXTENDS Integers, FiniteSets

CONSTANTS
  ChildCount,       \* no_pingers, the most processes of a session
  PingInterval,     \* reflector_ping_interval_us
  FastExit,         \* IRTT_FAST_EXIT_THRESHOLD_US
  FastExitRetry,    \* IRTT_FAST_EXIT_RETRY_US
  SessionRetry,     \* interface_up_check_interval_us
  StopTimeout       \* CHILD_STOP_TIMEOUT_US

VARIABLES
  method,           \* pinger_method: "FPING" or "IRTT"
  wanted,           \* both links are ready and the line is not IDLE
  session           \* struct daemon_pingers and its struct latency

childVars == <<method, wanted, session>>

ASSUME ChildAssumption ==
  /\ ChildCount \in Nat \ {0}
  /\ PingInterval \in Nat \ {0}
  /\ {FastExit, FastExitRetry, SessionRetry, StopTimeout} \subseteq Nat

Child == 1 .. ChildCount
NO_TIMER == -1       \* a timer that is not pending
NO_CHILD == 0

\* pingers_prepare.  A slot is in several sets at once: the processes the daemon
\* knows of and those of them that have exited, what uloop watches, the outputs
\* that are open and read, what was told to stop and what was killed.  lost is
\* a history: a process nobody keeps any more.
NO_SESSION ==
  [active |-> FALSE, count |-> 0, processes |-> {}, exited |-> {}, watched |-> {},
   output |-> {}, reading |-> {}, stopping |-> {}, killed |-> {},
   starts |-> [c \in Child |-> 0], runtime |-> [c \in Child |-> 0],
   start |-> NO_TIMER, stop |-> NO_TIMER, failure |-> FALSE, retry |-> 0, lost |-> FALSE]

Members(s) == 1 .. s.count

latency_stopping(s) == s.stopping # {}

\* The children that wait for their start.
Pending(s) == Members(s) \ s.output

latency_irtt_start_pending(s) == s.active /\ method = "IRTT" /\ Pending(s) # {}

-----------------------------------------------------------------------------
(* Closing                                                                  *)

child_pingers_register(s) == [s EXCEPT !.watched = @ \cup s.processes]

\* latency_close: each process group is told to stop once.
latency_close(s) ==
  [s EXCEPT !.active = FALSE, !.count = 0, !.output = {}, !.reading = {},
            !.stopping = @ \cup s.processes]

\* stop_timer is set once until all have stopped.
ArmedStop(s) ==
  [s EXCEPT !.stop = IF latency_stopping(s) /\ @ = NO_TIMER THEN StopTimeout ELSE @]

\* Mutant: the processes started just before are not registered.
pingers_close_unregistered(s) == ArmedStop(latency_close([s EXCEPT !.start = NO_TIMER]))

pingers_close(s) ==
  ArmedStop(latency_close(child_pingers_register([s EXCEPT !.start = NO_TIMER])))

pingers_defer_retry(s) == [pingers_close(s) EXCEPT !.retry = SessionRetry]

-----------------------------------------------------------------------------
(* Opening.  unstartable or unreadable is the child whose start or watch    *)
(* fails, if one does.                                                      *)

\* spawn_child: a process in a slot that still has one would be lost.
spawn_child(s, children) ==
  [s EXCEPT !.lost = @ \/ children \cap s.processes # {},
            !.processes = @ \cup children]

\* child_start: a process with a pipe for its output.
child_start(s, children) ==
  [spawn_child(s, children) EXCEPT
     !.output = @ \cup children,
     !.runtime = [c \in Child |-> IF c \in children THEN 0 ELSE @[c]]]

\* child_pingers_watch: the processes, then every output that is not read yet.
child_pingers_watch(s, unreadable) ==
  LET open == Members(s) \cap s.output
      r == child_pingers_register(s)
  IN  IF unreadable \in open \ s.reading THEN pingers_close(r)
      ELSE [r EXCEPT !.reading = @ \cup open]

\* latency_irtt_start_children: the children that are due, in order, up to one
\* that cannot be started.
DueChildren(s) == {c \in Pending(s) : s.starts[c] = 0}

latency_irtt_start_children(s, unstartable) ==
  IF unstartable \in DueChildren(s)
  THEN latency_close(child_start(s, {c \in DueChildren(s) : c < unstartable}))
  ELSE child_start(s, DueChildren(s))

EarliestStart(s) ==
  CHOOSE t \in {s.starts[c] : c \in Pending(s)} :
    \A c \in Pending(s) : t <= s.starts[c]

\* start_timer comes back for the child that is due next.
WithStartTimer(s) ==
  IF latency_irtt_start_pending(s) THEN [s EXCEPT !.start = EarliestStart(s)] ELSE s

child_pingers_start_irtt(s, unstartable, unreadable) ==
  LET started == latency_irtt_start_children(s, unstartable)
  IN  IF ~latency_irtt_start_pending(s) THEN [s EXCEPT !.start = NO_TIMER]
      ELSE IF ~started.active THEN pingers_defer_retry(started)
      ELSE WithStartTimer(child_pingers_watch(started, unreadable))

\* fping_open, irtt_open: the sessions of irtt are spread over the interval
\* that follows, which begins after first ticks.
latency_open(s, first) ==
  IF method = "FPING"
  THEN [child_start(s, {1}) EXCEPT !.active = TRUE, !.count = 1]
  ELSE [s EXCEPT !.active = TRUE, !.count = ChildCount,
                 !.starts = [c \in Child |->
                               first + (c - 1) * (PingInterval \div ChildCount)]]

\* ensure_latency_open: a new session waits for the old one's processes.
may_open_session(s) == ~s.active /\ ~latency_stopping(s) /\ s.retry = 0

\* pingers_watch once a session is open.
WatchedOpen(s, unstartable, unreadable) ==
  IF method = "IRTT" THEN child_pingers_start_irtt(s, unstartable, unreadable)
                     ELSE child_pingers_watch(s, unreadable)

pingers_watch(s, first, unstartable, unreadable) ==
  CASE s.active -> WatchedOpen(s, unstartable, unreadable)
    [] ~s.active /\ ~may_open_session(s) -> s
    [] may_open_session(s) ->
         IF method = "FPING" /\ unstartable = 1
         THEN [s EXCEPT !.retry = SessionRetry]
         ELSE WatchedOpen(latency_open(s, first), unstartable, unreadable)

\* With its outcomes.
Watched(s) ==
  {pingers_watch(s, first, unstartable, unreadable) :
     first \in 1 .. PingInterval, unstartable \in {NO_CHILD} \cup Child,
     unreadable \in {NO_CHILD} \cup Child}

StartedIrtt(s) ==
  {child_pingers_start_irtt(s, unstartable, unreadable) :
     unstartable \in {NO_CHILD} \cup Child, unreadable \in {NO_CHILD} \cup Child}

-----------------------------------------------------------------------------
(* The event loop: timers that are due run before anything else is handled. *)

Unhurried == ~session.failure

\* daemon_tick, which closes the session or watches it, again.
ChildTick ==
  /\ \E w \in BOOLEAN :
       /\ wanted' = w
       /\ session' \in IF w THEN Watched(session) ELSE {pingers_close(session)}
  /\ UNCHANGED method

\* pingers_reopen and pingers_restart.
ReopenChildren ==
  /\ wanted
  /\ session' \in Watched([pingers_close(session) EXCEPT !.retry = 0])
  /\ UNCHANGED <<method, wanted>>

\* handle_latency_start
StartTimer ==
  /\ session.start = 0
  /\ session' \in StartedIrtt([session EXCEPT !.start = NO_TIMER])
  /\ UNCHANGED <<method, wanted>>

\* handle_pinger_stop_timeout: latency_kill_stopping.
StopTimer ==
  /\ session.stop = 0
  /\ session' = [session EXCEPT !.stop = NO_TIMER, !.killed = session.stopping]
  /\ UNCHANGED <<method, wanted>>

\* handle_latency_failure
FailureTimer ==
  /\ session.failure
  /\ session' = pingers_defer_retry([session EXCEPT !.failure = FALSE])
  /\ UNCHANGED <<method, wanted>>

\* handle_pinger_output meets what it cannot take: a line that is too long, or
\* that no pinger writes.
OutputFails(c) ==
  /\ Unhurried /\ c \in session.reading
  /\ session' = [session EXCEPT !.failure = TRUE]
  /\ UNCHANGED <<method, wanted>>

\* handle_pinger_state: end of output.
OutputEnds(c) ==
  /\ Unhurried /\ c \in session.reading
  /\ session' = [session EXCEPT !.reading = @ \ {c}]
  /\ UNCHANGED <<method, wanted>>

\* A process exits; one that ignores SIGTERM does so once it is killed.
ChildExits(c) ==
  /\ c \in session.processes \ session.exited
  /\ session' = [session EXCEPT !.exited = @ \cup {c}]
  /\ UNCHANGED <<method, wanted>>

\* irtt_exited: when the child starts again.
RestartTime(s, c) == IF s.runtime[c] < FastExit THEN FastExitRetry ELSE 0

\* latency_child_exited: the slot is free; a child that was not told to stop
\* closes its output and, of irtt, starts again.
latency_child_exited(s, c) ==
  LET gone == {c}
      restarts == method = "IRTT" /\ c \notin s.stopping
  IN  [s EXCEPT !.processes = @ \ gone, !.exited = @ \ gone, !.watched = @ \ gone,
                !.stopping = @ \ gone, !.killed = @ \ gone,
                !.output = IF c \in s.stopping THEN @ ELSE @ \ gone,
                !.starts[c] = IF restarts THEN RestartTime(s, c) ELSE @]

\* Mutant: the first process that is gone ends the wait for all.
ChildStopped_first(s) == [s EXCEPT !.stop = NO_TIMER]

\* The last process that is gone ends the wait for those told to stop.
ChildStopped(s) == IF latency_stopping(s) THEN s ELSE [s EXCEPT !.stop = NO_TIMER]

\* handle_pinger_exit, after what was written last is read, which may fail.
ChildReaped(c, unread) ==
  LET read == [session EXCEPT !.failure = @ \/ (unread /\ c \in session.reading),
                              !.reading = @ \ {c}]
      s == latency_child_exited(read, c)
  IN  /\ Unhurried /\ c \in session.exited \cap session.watched
      /\ session' \in
           CASE c \in session.stopping ->
                  IF wanted /\ ~latency_stopping(s)
                  THEN Watched(ChildStopped(s)) ELSE {ChildStopped(s)}
             [] c \notin session.stopping /\ method = "IRTT" -> StartedIrtt(s)
             [] c \notin session.stopping /\ method = "FPING" -> {pingers_defer_retry(s)}
      /\ UNCHANGED <<method, wanted>>

Shorter(left) == IF left > 0 THEN left - 1 ELSE left

ChildTime ==
  /\ session' = [session EXCEPT
       !.start = Shorter(@), !.stop = Shorter(@), !.retry = Shorter(@),
       !.starts = [c \in Child |-> Shorter(@[c])],
       !.runtime = [c \in Child |-> IF c \in session.processes /\ @[c] < FastExit
                                    THEN @[c] + 1 ELSE @[c]]]
  /\ UNCHANGED <<method, wanted>>

ChildInit ==
  /\ method \in {"FPING", "IRTT"}
  /\ wanted = FALSE
  /\ session = NO_SESSION

ChildNext ==
  \/ ChildTick \/ ReopenChildren \/ StartTimer \/ StopTimer \/ FailureTimer
  \/ \E c \in Child : OutputFails(c) \/ OutputEnds(c) \/ ChildExits(c)
  \/ \E c \in Child, unread \in BOOLEAN : ChildReaped(c, unread)
  \/ ChildTime

\* Time passes, a timer that is due fires, and what is killed exits.
ChildFairness ==
  /\ WF_childVars(StopTimer) /\ WF_childVars(ChildTime)
  /\ \A c \in Child : WF_childVars(c \in session.killed /\ ChildExits(c))

ChildSpec == ChildInit /\ [][ChildNext]_childVars /\ ChildFairness

-----------------------------------------------------------------------------
(* Properties                                                               *)

\* Between two handlers every process is watched, and belongs to the session
\* or has been told to stop: none is started twice or left to itself.
ChildrenKept ==
  /\ ~session.lost
  /\ session.processes \subseteq session.watched
  /\ session.processes \subseteq
       session.stopping \cup (IF session.active THEN Members(session) ELSE {})

\* An irtt session with a child that does not run has its start timer set, no
\* later than that child is due.
StartScheduled ==
  latency_irtt_start_pending(session) =>
    \A c \in Pending(session) : session.start \in 0 .. session.starts[c]

\* A process that is told to stop exits in the end, even one that ignores SIGTERM
\* while others of its session do not, so that the next session can open.
StoppedExits ==
  \A c \in Child : c \in session.stopping ~> c \notin session.stopping \ session.exited

\* Every process that runs is known to the session or to those stopping, and every
\* start that is pending has a timer (pingers_close, child_pingers_start_irtt).
ChildrenSound == ChildrenKept /\ StartScheduled
=============================================================================
