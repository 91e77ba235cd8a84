------------------------------- MODULE Netlink -------------------------------
(***************************************************************************)
(* platform/netlink.c: the request socket, one request at a time, and the  *)
(* kernel's answers to it, with cake.c's closing of the socket on failure. *)
(* A request sends and then waits for a whole answer until one deadline;   *)
(* the kernel answers in parts, late, with an error or not at all, signals *)
(* interrupt, and libnl refuses an answer with another sequence number.    *)
(***************************************************************************)
EXTENDS Integers, Sequences

CONSTANTS
  NETLINK_RESPONSE_TIMEOUT,  \* in ticks of the clock
  DumpParts,                 \* messages of a dump before its end
  MaxRequests, MaxNetTime, MaxNetFaults  \* bounds

ASSUME NetlinkAssumption ==
  /\ NETLINK_RESPONSE_TIMEOUT \in Nat \ {0}
  /\ {DumpParts, MaxRequests, MaxNetTime, MaxNetFaults} \subseteq Nat

VARIABLES
  socket,    \* netlink->socket: open, its next sequence number, what it holds
  request,   \* the request under way, with its response_context
  answering, \* what the kernel still has to send, per request it has taken
  net_clock, \* CLOCK_MONOTONIC, requests sent and faults: the bounded counters
  reported   \* how the latest request ended, and the faults since it began

netVars == <<socket, request, answering, net_clock, reported>>

NoSocket == [open |-> FALSE, sequence |-> 0, held |-> <<>>]
NoContext == [parts |-> 0, parse_failed |-> FALSE, kernel_error |-> FALSE,
              complete |-> FALSE]
NoRequest == [phase |-> "IDLE", sequence |-> 0, kind |-> "DUMP", deadline |-> 0,
              context |-> NoContext, began |-> 0, waited |-> 0]

NetlinkInit ==
  /\ socket = NoSocket
  /\ request = NoRequest
  /\ answering = <<>>
  /\ net_clock = [now |-> 1, requests |-> 0, faults |-> 0]
  /\ reported = [result |-> "NONE", parts |-> 0, faulty |-> FALSE, kind |-> "DUMP"]

MayFail == net_clock.faults < MaxNetFaults
Faulty == [net_clock EXCEPT !.faults = @ + 1]
-----------------------------------------------------------------------------
netlink_close_requests == NoSocket

\* A request ends; one that failed closes the socket (cake_read(),
\* cake_set_bandwidth()).
Ends(result, faulty) ==
  /\ reported' = [result |-> result, parts |-> request.context.parts,
                  faulty |-> faulty \/ reported.faulty, kind |-> request.kind]
  /\ request' = NoRequest
  /\ socket' = IF result = "DONE" THEN socket ELSE netlink_close_requests
  /\ answering' = IF result = "DONE" THEN answering
                  ELSE IF netlink_close_requests.open THEN answering ELSE <<>>

(* netlink_open() and send_request(): the socket is opened when it is not, *)
(* and the kernel takes the request with the next sequence number.         *)
send_request(kind, messages) ==
  LET sequence == IF socket.open THEN socket.sequence ELSE 1
  IN
  /\ request.phase = "IDLE" /\ net_clock.requests < MaxRequests
  /\ socket' = [socket EXCEPT !.open = TRUE, !.sequence = sequence + 1]
  /\ request' = [NoRequest EXCEPT !.phase = "WAIT", !.sequence = sequence, !.kind = kind]
  /\ answering' = Append(answering, [sequence |-> sequence, left |-> messages])
  /\ reported' = [reported EXCEPT !.result = "NONE", !.faulty = FALSE]
  /\ net_clock' = [net_clock EXCEPT !.requests = @ + 1]

netlink_dump_qdiscs == send_request("DUMP", DumpParts)

\* A change is only acknowledged.
netlink_change_qdisc == send_request("CHANGE", 0)

(* Opening, building, sending or listening fails.                          *)
Unsent(kind) ==
  /\ request.phase = "IDLE" /\ net_clock.requests < MaxRequests
  /\ MayFail
  /\ socket' = netlink_close_requests
  /\ answering' = <<>>
  /\ reported' = [result |-> "FAILED", parts |-> 0, faulty |-> TRUE, kind |-> kind]
  /\ net_clock' = [Faulty EXCEPT !.requests = @ + 1]
  /\ UNCHANGED request

(* The kernel's next message: a part of a dump, the end of it, an          *)
(* acknowledgement, or an error instead of either.                         *)
Answer(refuses) ==
  LET first == Head(answering)
      kind == IF refuses THEN "ERROR" ELSE IF first.left = 0 THEN "END" ELSE "PART"
  IN
  /\ answering # <<>>
  /\ refuses => MayFail
  /\ socket' = [socket EXCEPT !.held =
       Append(@, [sequence |-> first.sequence, kind |-> kind])]
  /\ answering' = IF kind = "PART"
       THEN [answering EXCEPT ![1].left = @ - 1] ELSE Tail(answering)
  /\ net_clock' = IF refuses THEN Faulty ELSE net_clock
  /\ reported' = IF refuses THEN [reported EXCEPT !.faulty = TRUE] ELSE reported
  /\ UNCHANGED request

\* wait_for_response(): the first wait sets one deadline for the whole answer.
\* Mutant: every message that arrives starts the deadline again.
Deadline_again == net_clock.now + NETLINK_RESPONSE_TIMEOUT
Deadline ==
  IF request.deadline = 0 THEN net_clock.now + NETLINK_RESPONSE_TIMEOUT
  ELSE request.deadline

Waiting == [request EXCEPT
  !.deadline = Deadline,
  !.began = IF @ = 0 THEN net_clock.now ELSE @,
  !.waited = net_clock.now]

Wait ==
  /\ request.phase = "WAIT"
  /\ IF net_clock.now >= Deadline
     THEN Ends("FAILED", TRUE)
     ELSE /\ socket.held # <<>>
          /\ request' = [Waiting EXCEPT !.phase = "RECEIVE"]
          /\ UNCHANGED <<socket, answering, reported>>
  /\ UNCHANGED net_clock

\* poll() that is interrupted, or times out with nothing to read, polls again.
Poll ==
  /\ request.phase = "WAIT" /\ socket.held = <<>> /\ net_clock.now < Deadline
  /\ request' = Waiting
  /\ UNCHANGED <<socket, answering, net_clock, reported>>

\* The callbacks' changes to the response_context.
handle_valid_response(context, parses) ==
  IF parses THEN [context EXCEPT !.parts = @ + 1]
  ELSE [context EXCEPT !.parse_failed = TRUE]
handle_complete_response(context) == [context EXCEPT !.complete = TRUE]
handle_error_response(context) ==
  [context EXCEPT !.kernel_error = TRUE, !.complete = TRUE]

\* configure_response_callbacks(): what each kind of message calls.
Handled(message, parses) ==
  CASE message.kind = "PART" -> handle_valid_response(request.context, parses)
    [] message.kind = "END" -> handle_complete_response(request.context)
    [] message.kind = "ERROR" -> handle_error_response(request.context)

(* receive_response(): nl_recvmsgs() handles one message of this request,  *)
(* and the request goes on, is complete, or fails.  libnl fails it for a   *)
(* message with another sequence number.                                   *)
Receive(parses) ==
  LET message == Head(socket.held)
      context == Handled(message, parses)
      taken == [socket EXCEPT !.held = Tail(@)]
  IN
  /\ request.phase = "RECEIVE"
  /\ parses \/ (MayFail /\ message.kind = "PART")
  /\ IF message.sequence # request.sequence \/ context.kernel_error
     THEN Ends("FAILED", FALSE) /\ UNCHANGED net_clock
     ELSE IF context.parse_failed
     THEN Ends("FAILED", TRUE) /\ net_clock' = Faulty
     ELSE IF context.complete
     THEN /\ reported' = [result |-> "DONE", parts |-> context.parts, faulty |-> FALSE,
                          kind |-> request.kind]
          /\ request' = NoRequest
          /\ socket' = taken
          /\ UNCHANGED <<answering, net_clock>>
     ELSE /\ request' = [request EXCEPT !.phase = "WAIT", !.context = context]
          /\ socket' = taken
          /\ UNCHANGED <<answering, net_clock, reported>>

\* transient_error(): nothing was read after all; nothing is lost.
Interrupted ==
  /\ request.phase = "RECEIVE"
  /\ request' = [request EXCEPT !.phase = "WAIT"]
  /\ UNCHANGED <<socket, answering, net_clock, reported>>

NetTime ==
  /\ net_clock.now < MaxNetTime
  /\ net_clock' = [net_clock EXCEPT !.now = @ + 1]
  /\ UNCHANGED <<socket, request, answering, reported>>

NetlinkNext ==
  \/ netlink_dump_qdiscs \/ netlink_change_qdisc
  \/ \E kind \in {"DUMP", "CHANGE"}: Unsent(kind)
  \/ \E refuses \in BOOLEAN: Answer(refuses)
  \/ Wait \/ Poll \/ Interrupted \/ NetTime
  \/ \E parses \in BOOLEAN: Receive(parses)

NetlinkSpec == NetlinkInit /\ [][NetlinkNext]_netVars
-----------------------------------------------------------------------------
(* A request succeeds only with the whole of its own answer, and fails     *)
(* only for something that went wrong while it was under way: an answer    *)
(* that an earlier request left behind neither completes a later one nor   *)
(* fails it.                                                               *)
AnswersItself ==
  /\ reported.result = "DONE" =>
       reported.parts = IF reported.kind = "DUMP" THEN DumpParts ELSE 0
  /\ reported.result = "FAILED" => reported.faulty

(* One deadline covers a whole answer and its interruptions, however its   *)
(* messages trickle in: the main loop is never held up for longer.         *)
OneDeadline == request.waited - request.began < NETLINK_RESPONSE_TIMEOUT

\* A request ends with its own answer, in time (wait_for_response,
\* receive_response).
NetlinkSound == AnswersItself /\ OneDeadline
=============================================================================
