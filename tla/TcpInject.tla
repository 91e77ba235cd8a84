------------------------------ MODULE TcpInject ------------------------------
(***************************************************************************)
(* TCP timestamp injection (tcpdelay/inject.h, and the egress program with *)
(* its part of the filter in tcpdelay.bpf.c): SYNs without a timestamp get *)
(* one, and the answers decide whether the server is left alone for a day, *)
(* whether the handshake worked, and which clock the client has.           *)
(*                                                                         *)
(* One client opens connections to one server, over paths that lose        *)
(* packets beyond the router.  The client's clock wraps at ClientTsvals, the     *)
(* server drops what looks older than what it has seen (PAWS), and some    *)
(* servers decline, drop or refuse a SYN with a timestamp.  Flows are the  *)
(* client's ports, which are used again.                                   *)
(***************************************************************************)
EXTENDS Integers, FiniteSets

CONSTANTS
  Flows,          \* 4-tuples: ports of the client
  ClientTsvals,         \* 2^32
  TSVAL,          \* TCPDELAY_INJECT_TSVAL
  STALLED_TSVAL,  \* TCPDELAY_INJECT_STALLED_TSVAL
  DAY,            \* TCPDELAY_INJECT_DAY_NS, in ticks of the client's clock
  Sequences,      \* initial sequence numbers
  ServerKinds,    \* what the server may be: TAKES, DECLINES, DROPS, REFUSES
  MaxBootTime,    \* bounds the clock
  MaxOpened       \* bounds the connections opened

ASSUME InjectAssumption ==
  /\ {ClientTsvals, TSVAL, STALLED_TSVAL, DAY, MaxBootTime, MaxOpened} \subseteq Nat
  /\ ClientTsvals > 0 /\ Sequences \subseteq Nat
  /\ 2 * DAY <= ClientTsvals  \* milliseconds wrap in 49 days
  /\ ServerKinds \subseteq {"TAKES", "DECLINES", "DROPS", "REFUSES"}

VARIABLES
  handshakes,  \* inject_handshakes: per flow, or NoHandshake
  server,      \* inject_servers: rejected_ns of the server, or NEVER
  client,      \* inject_clients: the client's entry
  flow_states, \* flows: what of struct flow_state the injector uses
  counted,     \* inject_counters
  conn,        \* the connections as client and server know them
  world        \* the server's kind, the client's clock, time, and history

injectVars == <<handshakes, server, client, flow_states, counted, conn, world>>

NEVER == -1
NoHandshake == [sequence |-> -1, tsval |-> -1, state |-> "NONE", learned |-> FALSE]
NoClient == [seen |-> NEVER, tsval |-> 0, stalled |-> FALSE]
NoFlowState == [known |-> FALSE, outgoing |-> -1, stamped |-> FALSE,
                waiting |-> FALSE, sequence |-> -1]
NoConnection == [phase |-> "CLOSED", sequence |-> -1, server_has |-> "NOTHING",
                 recent |-> -1, answered |-> FALSE, echo |-> FALSE,
                 outcomes |-> {}]

InjectInit ==
  /\ handshakes = [f \in Flows |-> NoHandshake]
  /\ server = NEVER
  /\ client = NoClient
  /\ flow_states = [f \in Flows |-> NoFlowState]
  /\ counted = [injected |-> 0, skipped |-> 0, accepted |-> 0, stalled |-> 0]
  /\ conn = [f \in Flows |-> NoConnection]
  /\ world \in [kind: ServerKinds, start: 0..ClientTsvals - 1, now: {0}, opened: {0},
                refused: {NEVER}]
-----------------------------------------------------------------------------
\* A difference of timestamps or sequence numbers, read as signed.
Ahead(a, b) == (a + ClientTsvals - b) % ClientTsvals < ClientTsvals \div 2

Clock == (world.start + world.now) % ClientTsvals

\* tcpdelay_inject_server_skipped(): rejected within the last day.
server_skipped == server # NEVER /\ world.now - server < DAY

\* tcpdelay_inject_client_tsval(): what is known lasts a day.
client_tsval ==
  IF client = NoClient \/ world.now - client.seen >= DAY THEN TSVAL
  ELSE IF client.tsval # 0 THEN client.tsval
  ELSE IF client.stalled THEN STALLED_TSVAL ELSE TSVAL

\* tcpdelay_inject_classify_syn().
classify_syn(h, sequence) ==
  IF h.sequence # sequence THEN "NEW"
  ELSE IF h.state = "SENT" THEN "RETRY"
  ELSE IF h.state = "ECHOED" THEN "REJECTED" ELSE "PASS"

\* Mutant: an answer to a retried SYN settles nothing.
classify_answer_once(h, echoes) ==
  IF h.state = "SENT" THEN IF echoes THEN "ECHOED" ELSE "DECLINED"
  ELSE IF h.state = "ECHOED" THEN "STALLED" ELSE "NONE"

\* tcpdelay_inject_classify_answer().
classify_answer(h, echoes) ==
  IF h.state = "SENT" THEN IF echoes THEN "ECHOED" ELSE "DECLINED"
  ELSE IF h.state = "RETRIED" THEN IF echoes THEN "ECHOED" ELSE "REJECTED"
  ELSE IF h.state = "ECHOED" THEN "STALLED" ELSE "NONE"
-----------------------------------------------------------------------------
\* inject_skip_server(): for every client, for a day.
Skip(f) ==
  /\ server' = world.now
  /\ handshakes' = [handshakes EXCEPT ![f].state = "CLOSED"]
  /\ counted' = [counted EXCEPT !.skipped = @ + 1]

\* The filter's outgoing() for a timestamp that leaves: whether it is the
\* first of the client's own, and the flow's state after it.
FirstOfClient(s, tsval, syn) == ~syn /\ s.outgoing # tsval /\ ~s.stamped

Stamped(s, tsval, syn) ==
  IF s.outgoing = tsval THEN s
  ELSE [s EXCEPT !.known = TRUE, !.outgoing = tsval, !.stamped = @ \/ ~syn]

\* A SYN reaches the server, which keeps the first it takes; one that drops
\* timestamped SYNs takes nothing.
Reached(c, stamped, tsval) ==
  IF c.server_has # "NOTHING" \/ (stamped /\ world.kind = "DROPS") THEN c
  ELSE [c EXCEPT !.server_has = IF stamped THEN "STAMPED" ELSE "PLAIN",
                 !.recent = tsval]

\* When an injected handshake was first seen to fail, a stall aside.
Injected(f) == handshakes[f].sequence = conn[f].sequence
FirstFailure(f, shown) == shown /\ Injected(f) /\ conn[f].outcomes = {}
Refusal(f, shown) == IF FirstFailure(f, shown) THEN world.now ELSE world.refused
Outcomes(f, shown) ==
  conn[f].outcomes \cup (IF FirstFailure(f, shown) THEN {"FAILED"} ELSE {})

(* inject_new_syn() for a new connection, whose sequence differs from the  *)
(* one before: injected unless the server is skipped.                      *)
ClientSyn(f, sequence, reaches) ==
  LET tsval == client_tsval
      skipped == server_skipped
      opened == [NoConnection EXCEPT !.phase = "SYN", !.sequence = sequence]
  IN
  /\ conn[f].phase = "CLOSED" /\ world.opened < MaxOpened
  /\ sequence # conn[f].sequence /\ sequence # handshakes[f].sequence
  /\ classify_syn(handshakes[f], sequence) = "NEW"
  /\ counted' = IF skipped THEN [counted EXCEPT !.skipped = @ + 1]
                ELSE [counted EXCEPT !.injected = @ + 1]
  /\ handshakes' = IF skipped THEN handshakes
                   ELSE [handshakes EXCEPT ![f] =
                     [sequence |-> sequence, tsval |-> tsval, state |-> "SENT",
                      learned |-> FALSE]]
  /\ flow_states' = IF skipped THEN flow_states
                    ELSE [flow_states EXCEPT ![f] = Stamped(@, tsval, TRUE)]
  /\ conn' = [conn EXCEPT ![f] =
       IF reaches THEN Reached(opened, ~skipped, tsval) ELSE opened]
  /\ world' = [world EXCEPT !.opened = @ + 1]
  /\ UNCHANGED <<server, client>>

(* A resent SYN: without a timestamp, or a rejection when the answer has   *)
(* passed the router and the client did not take it.                       *)
ClientResyn(f, reaches) ==
  LET class == classify_syn(handshakes[f], conn[f].sequence)
  IN
  /\ conn[f].phase = "SYN"
  /\ class # "NEW"
  /\ CASE class = "RETRY" -> /\ handshakes' = [handshakes EXCEPT ![f].state = "RETRIED"]
                             /\ UNCHANGED <<server, counted>>
       [] class = "REJECTED" -> Skip(f)
       [] OTHER -> UNCHANGED <<handshakes, server, counted>>
  /\ conn' = [conn EXCEPT ![f] =
       [IF reaches THEN Reached(@, FALSE, -1) ELSE @ EXCEPT
          !.outcomes = Outcomes(f, conn[f].answered /\ conn[f].echo)]]
  /\ world' = [world EXCEPT !.refused = Refusal(f, conn[f].answered /\ conn[f].echo)]
  /\ UNCHANGED <<client, flow_states>>

(* The server's SYN-ACK, seen by the filter and then maybe lost on the way *)
(* to the client.  A server takes timestamps when its SYN had one and it   *)
(* is of the kind.                                                         *)
inject_stall ==
  client' = IF client # NoClient THEN [client EXCEPT !.stalled = TRUE]
            ELSE [NoClient EXCEPT !.stalled = TRUE, !.seen = world.now]

Answers(f) == conn[f].server_has \in {"STAMPED", "PLAIN"}
Echoes(f) == conn[f].server_has = "STAMPED" /\ world.kind = "TAKES"
ServerSynAck(f, delivered) ==
  LET answer == classify_answer(handshakes[f], Echoes(f))
  IN
  /\ Answers(f)
  /\ world.kind = "REFUSES" => conn[f].server_has = "PLAIN"
  /\ conn[f].phase # "CLOSED"
  /\ CASE answer = "ECHOED" ->
            /\ handshakes' = [handshakes EXCEPT ![f].state = "ECHOED"]
            /\ flow_states' = [flow_states EXCEPT ![f].waiting = TRUE,
                                 ![f].sequence = handshakes[f].sequence]
            /\ UNCHANGED <<server, client, counted>>
       [] answer \in {"DECLINED", "REJECTED"} ->
            Skip(f) /\ UNCHANGED <<client, flow_states>>
       [] answer = "STALLED" ->
            /\ handshakes' = [handshakes EXCEPT ![f].state = "CLOSED"]
            /\ inject_stall
            /\ counted' = [counted EXCEPT !.stalled = @ + 1]
            /\ UNCHANGED <<server, flow_states>>
       [] answer = "NONE" ->
            UNCHANGED <<handshakes, server, client, flow_states, counted>>
  /\ conn' = [conn EXCEPT
       ![f].answered = TRUE,
       ![f].echo = Echoes(f),
       ![f].phase = IF delivered /\ @ = "SYN" THEN "ANSWERED" ELSE @,
       ![f].outcomes = IF answer = "STALLED" THEN @ \cup {"STALLED"}
                       ELSE Outcomes(f, ~Echoes(f))]
  /\ world' = [world EXCEPT !.refused = Refusal(f, ~Echoes(f))]

(* A server that refuses timestamps resets the connection.                 *)
ServerReset(f, delivered) ==
  /\ world.kind = "REFUSES" /\ conn[f].server_has = "STAMPED"
  /\ conn[f].phase = "SYN"
  /\ IF handshakes[f].state \in {"SENT", "RETRIED"} THEN Skip(f)
     ELSE UNCHANGED <<handshakes, server, counted>>
  /\ conn' = [conn EXCEPT ![f].phase = IF delivered THEN "CLOSED" ELSE @,
                          ![f].server_has = "NOTHING",
                          ![f].outcomes = Outcomes(f, TRUE)]
  /\ world' = [world EXCEPT !.refused = Refusal(f, TRUE)]
  /\ UNCHANGED <<client, flow_states>>

(* The client's first packet with its own timestamp: inject_learn().       *)
inject_learn(f, tsval) ==
  IF /\ FirstOfClient(flow_states[f], tsval, FALSE)
     /\ handshakes[f].state = "ECHOED" /\ ~handshakes[f].learned
  THEN /\ handshakes' = [handshakes EXCEPT ![f].learned = TRUE]
       /\ client' = [seen |-> world.now, tsval |-> tsval, stalled |-> FALSE]
  ELSE UNCHANGED <<handshakes, client>>

\* PAWS: the server takes what is not older than the latest it has seen.
Takes(f, tsval) == ~conn[f].echo \/ Ahead(tsval, conn[f].recent)

(* The client takes the answer and sends its ACK, or data again: the       *)
(* server has the connection once one of them reaches it and is not old.   *)
ClientSends(f, reaches) ==
  /\ conn[f].phase \in {"ANSWERED", "OPEN"}
  /\ IF conn[f].echo
     THEN /\ inject_learn(f, Clock)
          /\ flow_states' = [flow_states EXCEPT ![f] = Stamped(@, Clock, FALSE)]
     ELSE UNCHANGED <<handshakes, client, flow_states>>
  /\ conn' = [conn EXCEPT
       ![f].phase = "OPEN",
       ![f].server_has = IF reaches /\ Takes(f, Clock) THEN "CONNECTION" ELSE @,
       ![f].recent = IF reaches /\ Takes(f, Clock) THEN Clock ELSE @]
  /\ UNCHANGED <<server, counted, world>>

(* The client refuses the answer: an RST right after its SYN.              *)
ClientReset(f) ==
  /\ conn[f].phase = "ANSWERED" /\ conn[f].echo
  /\ IF handshakes[f].state = "ECHOED" THEN Skip(f)
     ELSE UNCHANGED <<handshakes, server, counted>>
  /\ conn' = [conn EXCEPT ![f].phase = "CLOSED", ![f].outcomes = Outcomes(f, TRUE)]
  /\ world' = [world EXCEPT !.refused = Refusal(f, TRUE)]
  /\ UNCHANGED <<client, flow_states>>

(* The server acknowledges the client's data: inject_check_data(), for     *)
(* packets with timestamps.                                                *)

ServerAcknowledges(f) ==
  LET accepted == /\ conn[f].echo /\ flow_states[f].waiting
                  /\ flow_states[f].sequence <= conn[f].sequence
  IN
  /\ conn[f].server_has = "CONNECTION" /\ conn[f].phase = "OPEN"
  /\ flow_states' = [flow_states EXCEPT ![f].waiting = @ /\ ~accepted]
  /\ counted' = IF accepted THEN [counted EXCEPT !.accepted = @ + 1] ELSE counted
  /\ conn' = [conn EXCEPT ![f].outcomes =
                IF accepted THEN @ \cup {"ACCEPTED"} ELSE @]
  /\ UNCHANGED <<handshakes, server, client, world>>

\* A connection ends, or the client gives up.
Closes(f) ==
  /\ conn[f].phase # "CLOSED"
  /\ conn' = [conn EXCEPT ![f] = [NoConnection EXCEPT !.sequence = conn[f].sequence]]
  /\ UNCHANGED <<handshakes, server, client, flow_states, counted, world>>

BootTime ==
  /\ world.now < MaxBootTime
  /\ world' = [world EXCEPT !.now = @ + 1]
  /\ UNCHANGED <<handshakes, server, client, flow_states, counted, conn>>

InjectNext ==
  \/ \E f \in Flows:
       \/ \E sequence \in Sequences, reaches \in BOOLEAN: ClientSyn(f, sequence, reaches)
       \/ \E lucky \in BOOLEAN:
            \/ ClientResyn(f, lucky)
            \/ ServerSynAck(f, lucky)
            \/ ServerReset(f, lucky)
            \/ ClientSends(f, lucky)
       \/ ClientReset(f)
       \/ ServerAcknowledges(f)
       \/ Closes(f)
  \/ BootTime

InjectSpec == InjectInit /\ [][InjectNext]_injectVars
-----------------------------------------------------------------------------
(* Once a timestamped handshake with a server has visibly failed, in any   *)
(* of the ways it can (a reset by either side, an answer without the       *)
(* timestamp or only to a SYN without one, an answer the client did not    *)
(* take), no SYN to that server is injected for a day, from any port.      *)
RefusedLeftAlone ==
  [][counted'.injected # counted.injected =>
       world.refused = NEVER \/ world.now - world.refused >= DAY]_injectVars

(* A timestamp that was learned from a client suits it whenever it is      *)
(* injected: it is not older than the client's own timestamps at that      *)
(* time, whatever their wrap, so no server drops the client's ACK for it.  *)
(* (Values that are also the two fixed ones are not told apart.)           *)
LearnedSuits ==
  [][\A f \in Flows:
       (/\ handshakes'[f].sequence # handshakes[f].sequence
        /\ client.tsval # 0 /\ handshakes'[f].tsval = client.tsval
        /\ client.tsval \notin {TSVAL, STALLED_TSVAL})
         => Ahead(Clock, client.tsval)]_injectVars

(* Every injected handshake is counted as accepted at most once, and only  *)
(* when the server acknowledged data on it.                                *)
AcceptedOnce ==
  [][counted'.accepted # counted.accepted =>
       \E f \in Flows: "ACCEPTED" \in conn'[f].outcomes \ conn[f].outcomes]_injectVars

\* Injection leaves a server alone for a day after a failure, learned timestamps suit
\* their client, and each handshake counts once (server_skipped, client_tsval,
\* classify_answer, inject_check_data).
InjectSound == RefusedLeftAlone /\ LearnedSuits /\ AcceptedOnce
=============================================================================
