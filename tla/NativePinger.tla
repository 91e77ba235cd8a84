---------------------------- MODULE NativePinger ----------------------------
(***************************************************************************)
(* latency/native.c over latency/icmp.c: the probes the daemon sends itself.*)
(* A session sends to its targets in turn, keeps each request in a ring     *)
(* until it is answered or ten seconds old, and matches the replies, which  *)
(* come late, twice, out of order, from elsewhere, or for a session that is *)
(* closed.                                                                  *)
(*                                                                         *)
(* Time is in ticks of the monotonic clock, and the timer may be late.  A   *)
(* target is its index; the sockets of the two families differ in nothing   *)
(* else.  A session's token stands for its random token and identifier.     *)
(***************************************************************************)
EXTENDS Naturals, FiniteSets

CONSTANTS
  TargetCount,          \* active reflectors
  Spacing,              \* session->spacing_us
  Period,               \* session->period_us
  ResponseTimeout,      \* LATENCY_RESPONSE_TIMEOUT_US
  SequenceNumbers,      \* how many values a 16-bit sequence has
  Modes,                \* subset of {"ECHO", "TIMESTAMP"}
  MaxProbeTime,         \* bound on time
  MaxSessions           \* bound on sessions

VARIABLES
  native,               \* struct native_session
  probe_now,            \* CLOCK_MONOTONIC
  asked,                \* history: every request, by session and serial
  sampled_from          \* history: the requests whose replies became samples

nativeVars == <<native, probe_now, asked, sampled_from>>

\* native_open: the period holds every target's turn, and a sequence number is
\* not used twice while a request may still be answered.
ASSUME NativeAssumption ==
  /\ TargetCount \in Nat \ {0} /\ Spacing \in Nat \ {0} /\ MaxSessions \in Nat
  /\ Period \in Nat /\ Period >= Spacing * TargetCount
  /\ ResponseTimeout \in Nat /\ MaxProbeTime \in Nat
  /\ SequenceNumbers \in Nat /\ SequenceNumbers > ResponseTimeout \div Spacing + 2
  /\ Modes \subseteq {"ECHO", "TIMESTAMP"}

Target == 0 .. TargetCount - 1
LaterOf(t, u) == IF t > u THEN t ELSE u

\* Mutant: the ring has no room for the request that the timer was late for.
capacity_short == ResponseTimeout \div Spacing

\* session->capacity
capacity == ResponseTimeout \div Spacing + 2

NO_REQUEST == [serial |-> 0, target |-> 0, sent |-> 0, pending |-> FALSE]

\* native_open at the present time.
native_open(mode, token) ==
  [open |-> TRUE, mode |-> mode, token |-> token,
   requests |-> [k \in 0 .. capacity - 1 |-> NO_REQUEST],
   next_serial |-> 0, expired_serial |-> 0, timeout_count |-> 0, next_target |-> 0,
   next_send |-> probe_now,
   target_next |-> [t \in Target |-> probe_now + t * Spacing],
   send_failed |-> [t \in Target |-> FALSE]]

request_slot(serial) == serial % capacity
request_deadline(request) == request.sent + ResponseTimeout

\* native_expire: in the order they were sent, up to the first that is not due.
native_expire(n) ==
  LET due(k) == \A j \in n.expired_serial .. k :
                  probe_now >= request_deadline(n.requests[request_slot(j)])
      over == {k \in n.expired_serial .. n.next_serial - 1 : due(k)}
      unanswered == {k \in over : n.requests[request_slot(k)].pending}
  IN  [n EXCEPT !.timeout_count = @ + Cardinality(unanswered),
                !.expired_serial = @ + Cardinality(over),
                !.requests = [s \in DOMAIN @ |->
                   IF \E k \in over : request_slot(k) = s
                   THEN [@[s] EXCEPT !.pending = FALSE] ELSE @[s]]]

\* Where the schedule goes on from: the due time, unless a whole spacing late.
ScheduledFrom(n) ==
  IF probe_now - n.next_send >= Spacing THEN probe_now ELSE n.next_send

\* native_tick's send to the next target, where sendto succeeds or not.
Sent(n, sends) ==
  LET due == ScheduledFrom(n)
      target_next == [n.target_next EXCEPT ![n.next_target] = due + Period]
      next == (n.next_target + 1) % TargetCount
  IN  [n EXCEPT
         !.requests[request_slot(n.next_serial)] =
            [serial |-> n.next_serial, target |-> n.next_target,
             sent |-> probe_now, pending |-> sends],
         !.timeout_count = @ + IF sends THEN 0 ELSE 1,
         !.send_failed[n.next_target] = ~sends,
         !.target_next = target_next,
         !.next_serial = @ + 1,
         !.next_target = next,
         !.next_send = LaterOf(due + Spacing, target_next[next])]

\* native_tick: late requests are given up first, then one is sent if it is due.
Due(n) == probe_now >= n.next_send /\ probe_now >= n.target_next[n.next_target]

native_tick(n, sends) ==
  CASE Due(n) -> Sent(n, sends)
    [] ~Due(n) /\ probe_now >= n.next_send ->
         [n EXCEPT !.next_send = n.target_next[n.next_target]]
    [] OTHER -> n

\* When there is next something to do: a probe to send or one to give up.
native_next_event(n) ==
  LET oldest == request_deadline(n.requests[request_slot(n.expired_serial)])
  IN  IF n.expired_serial < n.next_serial /\ oldest < n.next_send
      THEN oldest ELSE n.next_send

\* What a probe carries, for its reply to bring back.
icmp_build(n) == [token |-> n.token, serial |-> n.next_serial, sent |-> probe_now]

\* icmp_send: the probe is stamped and leaves for its target, or does not.
icmp_send(n, sends) ==
  LET probe == icmp_build(n)
  IN  [token |-> probe.token, serial |-> probe.serial, sent |-> probe.sent,
       target |-> n.next_target, left |-> sends]

\* handle_native_tick: schedule_native_tick's timer fires at or after the next
\* event, and never before.
HandleNativeTick(sends) ==
  LET n == native_expire(native)
  IN  /\ native.open
      /\ probe_now >= native_next_event(native)
      /\ native' = native_tick(n, sends)
      /\ asked' = IF Due(n) THEN asked \cup {icmp_send(n, sends)} ELSE asked
      /\ UNCHANGED <<probe_now, sampled_from>>

\* Mutant: the token is not compared, so a reply to the session before counts.
MatchesRequest_session(n, reply, serial) ==
  LET request == n.requests[request_slot(serial)]
  IN  /\ request.pending /\ request.serial = serial
      /\ probe_now < request_deadline(request)
      /\ request.target = reply.source
      /\ IF n.mode = "TIMESTAMP" THEN reply.sent = request.sent
                                 ELSE reply.serial = serial
      /\ request.sent <= reply.received

\* native_accept's checks on the request that a reply's sequence leads to.  A
\* timestamp reply brings back the identifier and the time it was asked at, an
\* echo reply the session's token and the whole serial.
MatchesRequest(n, reply, serial) ==
  LET request == n.requests[request_slot(serial)]
  IN  /\ request.pending /\ request.serial = serial
      /\ probe_now < request_deadline(request)
      /\ request.target = reply.source
      /\ reply.token = n.token
      /\ IF n.mode = "TIMESTAMP" THEN reply.sent = request.sent
                                 ELSE reply.serial = serial
      /\ request.sent <= reply.received

\* The latest serial with the reply's 16-bit sequence: the one it must answer.
AnsweredSerial(n, reply) ==
  LET last == n.next_serial - 1
      age == (last + SequenceNumbers - (reply.serial % SequenceNumbers)) % SequenceNumbers
  IN  IF n.next_serial = 0 \/ age > last THEN {} ELSE {last - age}

\* What icmp_parse reads of a reply: what the request carried, and its source.
icmp_parse(request, source, received) ==
  [token |-> request.token, serial |-> request.serial, sent |-> request.sent,
   source |-> source, received |-> received]

\* handle_native_reply: a reply to any request that left, from any host, handled
\* at any time after it was received.
HandleNativeReply(request, source, received) ==
  LET reply == icmp_parse(request, source, received)
  IN  /\ native.open /\ request.left
      /\ \E serial \in AnsweredSerial(native, reply) :
           /\ MatchesRequest(native, reply, serial)
           /\ native' = [native EXCEPT !.requests[request_slot(serial)].pending = FALSE]
           /\ sampled_from' = sampled_from \cup
                {[token |-> native.token, serial |-> serial, reply |-> request,
                  source |-> source]}
      /\ UNCHANGED <<probe_now, asked>>

\* native_close, where a clock, the timer or a socket fails, or the pingers close.
NativeClose ==
  /\ native.open
  /\ native' = [native EXCEPT !.open = FALSE]
  /\ UNCHANGED <<probe_now, asked, sampled_from>>

NativeReopen ==
  /\ ~native.open /\ native.token < MaxSessions
  /\ native' = native_open(native.mode, native.token + 1)
  /\ UNCHANGED <<probe_now, asked, sampled_from>>

ProbeClock ==
  /\ probe_now < MaxProbeTime
  /\ probe_now' = probe_now + 1
  /\ UNCHANGED <<native, asked, sampled_from>>

NativeInit ==
  /\ probe_now = 0
  /\ \E mode \in Modes : native = native_open(mode, 1)
  /\ asked = {} /\ sampled_from = {}

NativeNext ==
  \/ ProbeClock
  \/ \E sends \in BOOLEAN : HandleNativeTick(sends)
  \/ \E request \in asked, source \in Target, received \in 0 .. probe_now :
       HandleNativeReply(request, source, received)
  \/ NativeClose
  \/ NativeReopen

NativeSpec == NativeInit /\ [][NativeNext]_nativeVars

-----------------------------------------------------------------------------
(* Properties                                                               *)

Samples == {s \in sampled_from : s.token = native.token}
Requests == {r \in asked : r.token = native.token}

\* A reply becomes a sample once, of the request it answers, from the host that
\* was asked, and in the session that asked.
SampledTruly ==
  /\ \A s \in sampled_from :
       s.reply.token = s.token /\ s.reply.serial = s.serial /\ s.source = s.reply.target
  /\ \A s, t \in sampled_from : s.token = t.token /\ s.serial = t.serial => s = t

\* Every request of a session is answered, timed out or still waited for, and
\* counted as one of them: the ring forgets none, however late the timer is.
RequestsSettled ==
  Cardinality(Requests) =
    Cardinality(Samples) + native.timeout_count
      + Cardinality({k \in DOMAIN native.requests : native.requests[k].pending})

\* native.c:83, "Never exceed its send cadence": a target is never asked again
\* less than a period, short of one spacing, after it was, and no two requests
\* of a session leave together, however late the timer has been.
CadenceKept ==
  /\ \A q, r \in Requests :
       q.serial < r.serial => q.sent < r.sent
  /\ \A q, r \in Requests :
       q.target = r.target /\ q.serial < r.serial => r.sent - q.sent > Period - Spacing

\* What is asked: each request once, at its time, and with one end.
RequestsSound == RequestsSettled /\ CadenceKept
=============================================================================
