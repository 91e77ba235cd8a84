--------------------------- MODULE KernelProofs ----------------------------
(***************************************************************************)
(* The request socket, for answers of any length, any timeout and any       *)
(* number of requests, delays and faults; and what TCP's own timestamps     *)
(* tell, for any number of flows, slots, periods and delays: the queues     *)
(* shown are those measured, and near the ones there were.                  *)
(***************************************************************************)
EXTENDS Netlink, Estimator, SequenceTheorems, WellFoundedInduction, TLAPS

MessageType == [sequence : Int, kind : {"PART", "END", "ERROR"}]
PendingType == [sequence : Int, left : Nat]
ClockType == [now : Nat \ {0}, requests : Int, faults : Int]
SocketType == [open : BOOLEAN, sequence : Int, held : Seq(MessageType)]
ContextType == [parts : Int, parse_failed : BOOLEAN, kernel_error : BOOLEAN,
                complete : BOOLEAN]
RequestType == [phase : {"IDLE", "WAIT", "RECEIVE"}, sequence : Int,
                kind : {"DUMP", "CHANGE"}, deadline : Int, context : ContextType,
                began : Int, waited : Int]
ReportType == [result : {"NONE", "DONE", "FAILED"}, parts : Int, faulty : BOOLEAN,
               kind : {"DUMP", "CHANGE"}]

NetlinkTypeOK ==
  /\ socket \in SocketType
  /\ request \in RequestType
  /\ answering \in Seq(PendingType)
  /\ net_clock \in ClockType
  /\ reported \in ReportType

\* The messages of an answer, before its end.
Total(kind) == IF kind = "DUMP" THEN DumpParts ELSE 0

\* What the socket holds of an answer under way that ends with message n.
Parts(n) ==
  \A i \in 1 .. n : /\ socket.held[i].sequence = request.sequence
                    /\ socket.held[i].kind = "PART"

\* The kernel has more to send, and what is held are the parts it has sent.
Unfinished ==
  /\ Len(answering) = 1 /\ answering[1].sequence = request.sequence
  /\ Parts(Len(socket.held))
  /\ request.context.parts + Len(socket.held) + answering[1].left = Total(request.kind)

\* The last message held is the end of the answer, or the error instead of it.
Finished ==
  LET n == Len(socket.held)
  IN  /\ answering = <<>> /\ n > 0
      /\ Parts(n - 1)
      /\ socket.held[n].sequence = request.sequence
      /\ \/ /\ socket.held[n].kind = "END"
            /\ request.context.parts + (n - 1) = Total(request.kind)
         \/ socket.held[n].kind = "ERROR" /\ reported.faulty

\* Nothing is held or still to come for a request but its own answer.
AnswerIsWhole ==
  /\ request.phase = "IDLE" => socket.held = <<>> /\ answering = <<>>
  /\ request.phase # "IDLE" =>
       /\ request.context.complete = FALSE /\ request.context.kernel_error = FALSE
       /\ request.context.parse_failed = FALSE
       /\ Unfinished \/ Finished
  /\ request.phase = "RECEIVE" => Len(socket.held) > 0

\* The deadline is set once, by the first wait.
DeadlineKept ==
  \/ request.deadline = 0 /\ request.began = 0 /\ request.waited = 0
  \/ /\ request.began > 0 /\ request.deadline = request.began + NETLINK_RESPONSE_TIMEOUT
     /\ request.waited < request.deadline

NetlinkInv == NetlinkTypeOK /\ AnswerIsWhole /\ AnswersItself /\ DeadlineKept

-----------------------------------------------------------------------------
\* A sequence of length one: its head is all there is.
LEMMA OnlyOne ==
  ASSUME NEW S, NEW q \in Seq(S), Len(q) = 1
  PROVE  q # <<>> /\ q[1] \in S /\ Head(q) = q[1] /\ Tail(q) = <<>> /\ Tail(q) \in Seq(S)
  <1>1. q # <<>> /\ q[1] \in S /\ Head(q) = q[1]
    OBVIOUS
  <1>2. Tail(q) \in Seq(S) /\ Len(Tail(q)) = 0
    BY <1>1, HeadTailProperties
  <1> QED BY <1>1, <1>2, EmptySeq

\* The clock after a fault has the type of a clock.
LEMMA ClockTyped ==
  ASSUME net_clock \in ClockType
  PROVE  Faulty \in ClockType /\ net_clock.now \in Nat \ {0} /\ net_clock.now \in Int
  BY DEF ClockType, Faulty

\* The request of an idle socket has the type of a request.
LEMMA NoRequestTyped ==
  /\ NoRequest \in RequestType /\ NoRequest.phase = "IDLE"
  /\ NoRequest.deadline = 0 /\ NoRequest.began = 0 /\ NoRequest.waited = 0
  /\ NoRequest.context = NoContext /\ NoContext \in ContextType
  BY DEF NoRequest, NoContext, RequestType, ContextType

\* A closed socket has the type of a socket and holds no datagram.
LEMMA NoSocketTyped == NoSocket \in SocketType /\ NoSocket.held = <<>> /\ NoSocket.open = FALSE
  BY DEF NoSocket, SocketType

\* The invariant holds before the first socket opens.
LEMMA NetlinkInitInv == NetlinkInit => NetlinkInv
  <1> SUFFICES ASSUME NetlinkInit PROVE NetlinkInv
    OBVIOUS
  <1>1. NetlinkTypeOK
    BY NoRequestTyped, NoSocketTyped DEF NetlinkInit, NetlinkTypeOK, ReportType, ClockType
  <1> QED BY <1>1, NoRequestTyped, NoSocketTyped
          DEF NetlinkInit, NetlinkInv, AnswerIsWhole, AnswersItself, DeadlineKept

\* A request that ends without its answer leaves nothing behind.
LEMMA FailedInv ==
  ASSUME NetlinkInv, net_clock' \in ClockType,
         NEW faulty \in BOOLEAN, Ends("FAILED", faulty), faulty \/ reported.faulty
  PROVE  NetlinkInv'
  <1>1. request \in RequestType /\ reported \in ReportType /\ request.context \in ContextType
    BY DEF NetlinkInv, NetlinkTypeOK, RequestType
  <1>2. /\ request' = NoRequest /\ socket' = NoSocket /\ answering' = <<>>
        /\ reported' = [result |-> "FAILED", parts |-> request.context.parts,
                        faulty |-> faulty \/ reported.faulty, kind |-> request.kind]
    BY NoSocketTyped DEF Ends, netlink_close_requests
  <1>3. (faulty \/ reported.faulty) = TRUE
    BY <1>1 DEF ReportType
  <1>4. reported' \in ReportType /\ reported'.result = "FAILED" /\ reported'.faulty
    BY <1>1, <1>2, <1>3 DEF ReportType, ContextType, RequestType
  <1>5. NetlinkTypeOK'
    BY <1>2, <1>4, NoRequestTyped, NoSocketTyped DEF NetlinkTypeOK
  <1> QED BY <1>2, <1>4, <1>5, NoRequestTyped, NoSocketTyped
          DEF NetlinkInv, AnswerIsWhole, AnswersItself, DeadlineKept

\* A request is sent with nothing left over from the one before.
LEMMA SendInv ==
  ASSUME NetlinkInv, NEW kind \in {"DUMP", "CHANGE"}, send_request(kind, Total(kind))
  PROVE  NetlinkInv'
  <1> DEFINE sequence == IF socket.open THEN socket.sequence ELSE 1
             asked == [sequence |-> sequence, left |-> Total(kind)]
  <1>1. /\ socket \in SocketType /\ request \in RequestType /\ reported \in ReportType
        /\ net_clock \in ClockType
        /\ request.phase = "IDLE" /\ socket.held = <<>> /\ answering = <<>>
    BY DEF NetlinkInv, NetlinkTypeOK, AnswerIsWhole, send_request
  <1>2. sequence \in Int /\ Total(kind) \in Nat
    BY <1>1, NetlinkAssumption DEF SocketType, Total
  <1>3. /\ socket' = [socket EXCEPT !.open = TRUE, !.sequence = sequence + 1]
        /\ request' = [NoRequest EXCEPT !.phase = "WAIT", !.sequence = sequence,
                                        !.kind = kind]
        /\ answering' = Append(answering, asked)
        /\ reported' = [reported EXCEPT !.result = "NONE", !.faulty = FALSE]
        /\ net_clock' = [net_clock EXCEPT !.requests = @ + 1]
    BY DEF send_request
  <1> HIDE DEF sequence
  <1>4. socket' \in SocketType /\ socket'.held = <<>>
    <2>1. sequence + 1 \in Int
      BY <1>2
    <2>2. socket.held \in Seq(MessageType)
      BY <1>1 DEF SocketType
    <2> QED BY <1>1, <1>3, <2>1, <2>2 DEF SocketType
  <1>5. /\ request' \in RequestType /\ request'.phase = "WAIT"
        /\ request'.sequence = sequence /\ request'.kind = kind
        /\ request'.deadline = 0 /\ request'.began = 0 /\ request'.waited = 0
        /\ request'.context = NoContext
    BY <1>2, <1>3, NoRequestTyped DEF RequestType
  <1>6. asked \in PendingType
    BY <1>2 DEF PendingType
  <1>7. /\ answering' = <<asked>> /\ Len(answering') = 1 /\ answering'[1] = asked
        /\ answering' \in Seq(PendingType)
    BY <1>1, <1>3, <1>6
  <1>8. reported' \in ReportType /\ reported'.result = "NONE"
    BY <1>1, <1>3 DEF ReportType
  <1>9. net_clock' \in ClockType
    BY <1>1, <1>3 DEF ClockType
  <1>10. NetlinkTypeOK'
    BY <1>4, <1>5, <1>7, <1>8, <1>9 DEF NetlinkTypeOK
  <1>11. Unfinished'
    <2>1. Len(socket'.held) = 0 /\ request'.context.parts = 0
      BY <1>4, <1>5 DEF NoContext
    <2>2. Parts(Len(socket.held))'
      BY <2>1 DEF Parts
    <2> QED BY <1>2, <1>5, <1>7, <2>1, <2>2 DEF Unfinished
  <1>12. AnswerIsWhole'
    BY <1>5, <1>11 DEF AnswerIsWhole, NoContext
  <1> QED BY <1>5, <1>8, <1>10, <1>12 DEF NetlinkInv, AnswersItself, DeadlineKept

\* A request that cannot be sent keeps the invariant.
LEMMA UnsentInv ==
  ASSUME NetlinkInv, NEW kind \in {"DUMP", "CHANGE"}, Unsent(kind) PROVE NetlinkInv'
  <1>1. /\ request \in RequestType /\ request.phase = "IDLE" /\ request' = request
        /\ net_clock \in ClockType
        /\ socket' = NoSocket /\ answering' = <<>>
        /\ reported' = [result |-> "FAILED", parts |-> 0, faulty |-> TRUE, kind |-> kind]
        /\ net_clock' = [Faulty EXCEPT !.requests = @ + 1]
    BY DEF NetlinkInv, NetlinkTypeOK, Unsent, netlink_close_requests
  <1>2. net_clock' \in ClockType
    <2>1. Faulty \in ClockType
      BY <1>1, ClockTyped
    <2> QED BY <1>1, <2>1 DEF ClockType
  <1>3. NetlinkTypeOK'
    BY <1>1, <1>2, NoSocketTyped DEF NetlinkTypeOK, ReportType
  <1> QED BY <1>1, <1>3, NoSocketTyped
          DEF NetlinkInv, AnswerIsWhole, AnswersItself, DeadlineKept

\* The kernel sends a part, the end, or an error instead of either.
LEMMA AnswerInv ==
  ASSUME NetlinkInv, NEW refuses \in BOOLEAN, Answer(refuses) PROVE NetlinkInv'
  <1> DEFINE first == answering[1]
             kind == IF refuses THEN "ERROR" ELSE IF first.left = 0 THEN "END" ELSE "PART"
             message == [sequence |-> first.sequence, kind |-> kind]
             held == socket.held
             n == Len(held)
             parts == request.context.parts
             total == Total(request.kind)
  <1>1. /\ socket \in SocketType /\ request \in RequestType /\ reported \in ReportType
        /\ request.context \in ContextType /\ held \in Seq(MessageType)
        /\ net_clock \in ClockType /\ answering \in Seq(PendingType) /\ answering # <<>>
    BY DEF NetlinkInv, NetlinkTypeOK, SocketType, RequestType, Answer
  <1>2. request.phase # "IDLE" /\ Unfinished
    BY <1>1 DEF NetlinkInv, AnswerIsWhole, Finished
  <1>3. /\ Len(answering) = 1 /\ Head(answering) = first /\ Tail(answering) = <<>>
        /\ Tail(answering) \in Seq(PendingType) /\ first \in PendingType
        /\ first.sequence = request.sequence
        /\ first.sequence \in Int /\ first.left \in Nat
    <2>1. Len(answering) = 1 /\ answering[1].sequence = request.sequence
      BY <1>2 DEF Unfinished
    <2>2. /\ first \in PendingType /\ Head(answering) = first
          /\ Tail(answering) = <<>> /\ Tail(answering) \in Seq(PendingType)
      BY <1>1, <2>1, OnlyOne
    <2> QED BY <2>1, <2>2 DEF PendingType
  <1>4. /\ socket' = [socket EXCEPT !.held = Append(@, message)]
        /\ answering' = IF kind = "PART" THEN [answering EXCEPT ![1].left = @ - 1]
                        ELSE Tail(answering)
        /\ net_clock' = IF refuses THEN Faulty ELSE net_clock
        /\ reported' = IF refuses THEN [reported EXCEPT !.faulty = TRUE] ELSE reported
        /\ request' = request
    BY <1>3 DEF Answer
  <1>5. message \in MessageType /\ message.sequence = request.sequence /\ message.kind = kind
    BY <1>3 DEF MessageType
  <1>6. net_clock' \in ClockType
    BY <1>1, <1>4, ClockTyped
  <1>7. /\ reported' \in ReportType /\ reported'.result = reported.result
        /\ reported'.parts = reported.parts /\ reported'.kind = reported.kind
        /\ refuses => reported'.faulty
        /\ reported.faulty => reported'.faulty
    BY <1>1, <1>4 DEF ReportType
  <1>8. /\ \A i \in 1 .. n : held[i].sequence = request.sequence /\ held[i].kind = "PART"
        /\ parts + n + first.left = total
    BY <1>2 DEF Unfinished, Parts
  <1>9. n \in Nat /\ parts \in Int /\ total \in Int
    BY <1>1, NetlinkAssumption DEF ContextType, Total
  <1>10. kind \in {"PART", "END", "ERROR"} /\ (kind = "END" => first.left = 0)
           /\ (kind = "ERROR" => refuses)
    OBVIOUS
  <1> HIDE DEF message, kind, parts, total
  <1>11. /\ socket' \in SocketType /\ Len(socket'.held) = n + 1
         /\ \A i \in 1 .. n : socket'.held[i] = held[i]
         /\ socket'.held[n + 1] = message
    <2>1. /\ Append(held, message) \in Seq(MessageType)
          /\ Len(Append(held, message)) = n + 1
          /\ \A i \in 1 .. n : Append(held, message)[i] = held[i]
          /\ Append(held, message)[n + 1] = message
      BY <1>1, <1>5, AppendProperties
    <2>2. socket'.held = Append(held, message) /\ socket' \in SocketType
      BY <1>1, <1>4, <2>1 DEF SocketType
    <2> QED BY <2>1, <2>2
  <1> HIDE DEF held, n
  <1>12. \A i \in 1 .. n : /\ socket'.held[i].sequence = request.sequence
                          /\ socket'.held[i].kind = "PART"
    BY <1>8, <1>11
  <1>13. CASE kind = "PART"
    <2> DEFINE rest == [first EXCEPT !.left = @ - 1]
    <2>1. first.left # 0
      BY <1>13 DEF kind
    <2>2. /\ rest \in PendingType /\ rest.sequence = request.sequence
          /\ rest.left = first.left - 1
      BY <1>3, <2>1 DEF PendingType
    <2>3. answering' = [answering EXCEPT ![1] = rest]
      BY <1>4, <1>13
    <2> HIDE DEF rest
    <2>4. /\ answering' \in Seq(PendingType) /\ Len(answering') = 1 /\ answering'[1] = rest
      BY <1>1, <1>3, <2>2, <2>3
    <2>5. ASSUME NEW i \in 1 .. n + 1
          PROVE  socket'.held[i].sequence = request.sequence /\ socket'.held[i].kind = "PART"
      <3>1. i \in 1 .. n \/ i = n + 1
        BY <1>9
      <3> QED BY <1>5, <1>11, <1>12, <1>13, <3>1
    <2>6. Parts(Len(socket.held))'
      BY <1>4, <1>11, <2>5 DEF Parts
    <2>7. parts + (n + 1) + rest.left = total
      BY <1>3, <1>8, <1>9, <2>2
    <2>8. Unfinished'
      BY <1>4, <1>11, <2>2, <2>4, <2>6, <2>7 DEF Unfinished, Total, parts, total
    <2>9. NetlinkTypeOK'
      BY <1>1, <1>4, <1>6, <1>7, <1>11, <2>4 DEF NetlinkTypeOK
    <2>10. AnswerIsWhole'
      BY <1>2, <1>4, <1>9, <1>11, <2>8 DEF NetlinkInv, AnswerIsWhole
    <2> QED BY <1>4, <1>7, <2>9, <2>10 DEF NetlinkInv, AnswersItself, DeadlineKept
  <1>14. CASE kind # "PART"
    <2>1. answering' = <<>> /\ answering' \in Seq(PendingType)
      BY <1>3, <1>4, <1>14
    <2>2. Len(socket'.held) - 1 = n /\ Len(socket'.held) > 0
      BY <1>9, <1>11
    <2>3. Parts(Len(socket.held) - 1)'
      BY <1>4, <1>12, <2>2 DEF Parts
    <2>4. \/ kind = "END" /\ parts + n = total
          \/ kind = "ERROR" /\ reported'.faulty
      BY <1>7, <1>8, <1>9, <1>10, <1>14
    <2>5. socket'.held[Len(socket'.held)] = message
      BY <1>11
    <2>6. Finished'
      BY <1>4, <1>5, <2>1, <2>2, <2>3, <2>4, <2>5 DEF Finished, Total, parts, total
    <2>7. NetlinkTypeOK'
      BY <1>1, <1>4, <1>6, <1>7, <1>11, <2>1 DEF NetlinkTypeOK
    <2>8. AnswerIsWhole'
      BY <1>2, <1>4, <2>2, <2>6 DEF NetlinkInv, AnswerIsWhole
    <2> QED BY <1>4, <1>7, <2>7, <2>8 DEF NetlinkInv, AnswersItself, DeadlineKept
  <1> QED BY <1>13, <1>14

\* The request waits, which sets its deadline if nothing has.
LEMMA WaitingInv ==
  ASSUME NetlinkInv, request.phase = "WAIT", net_clock.now < Deadline,
         NEW phase \in {"WAIT", "RECEIVE"}, phase = "RECEIVE" => socket.held # <<>>,
         request' = [Waiting EXCEPT !.phase = phase],
         UNCHANGED <<socket, answering, net_clock, reported>>
  PROVE  NetlinkInv'
  <1>1. /\ request \in RequestType /\ net_clock.now \in Nat \ {0}
        /\ request.deadline \in Int /\ request.began \in Int
        /\ socket.held \in Seq(MessageType)
    BY ClockTyped DEF NetlinkInv, NetlinkTypeOK, RequestType, SocketType
  <1> DEFINE began == IF request.began = 0 THEN net_clock.now ELSE request.began
  <1>2. Deadline \in Int /\ began \in Int
    BY <1>1, NetlinkAssumption DEF Deadline
  <1>3. Waiting = [request EXCEPT !.deadline = Deadline, !.began = began,
                                  !.waited = net_clock.now]
    BY DEF Waiting
  <1>4. /\ began > 0 /\ Deadline = began + NETLINK_RESPONSE_TIMEOUT
    BY <1>1, NetlinkAssumption DEF NetlinkInv, DeadlineKept, Deadline
  <1> HIDE DEF began
  <1>5. /\ request' \in RequestType /\ request'.phase = phase
        /\ request'.deadline = Deadline /\ request'.began = began
        /\ request'.waited = net_clock.now /\ request'.context = request.context
        /\ request'.sequence = request.sequence /\ request'.kind = request.kind
    <2> DEFINE now == net_clock.now
    <2>0. now \in Int
      BY <1>1
    <2> HIDE DEF now
    <2>1. /\ Waiting \in RequestType /\ Waiting.phase = request.phase
          /\ Waiting.deadline = Deadline /\ Waiting.began = began
          /\ Waiting.waited = now /\ Waiting.context = request.context
          /\ Waiting.sequence = request.sequence /\ Waiting.kind = request.kind
      <3>1. Waiting = [request EXCEPT !.deadline = Deadline, !.began = began, !.waited = now]
        BY <1>3 DEF now
      <3> HIDE DEF Waiting
      <3> QED BY <1>1, <1>2, <2>0, <3>1 DEF RequestType
    <2> HIDE DEF Waiting
    <2> QED BY <2>1 DEF RequestType, now
  <1>6. NetlinkTypeOK'
    BY <1>5 DEF NetlinkInv, NetlinkTypeOK
  <1>7. AnswerIsWhole'
    <2>1. socket.held # <<>> => Len(socket.held) > 0
      BY <1>1
    <2>2. Unfinished \/ Finished
      BY DEF NetlinkInv, AnswerIsWhole
    <2>3. Unfinished' \/ Finished'
      BY <1>5, <2>2 DEF Unfinished, Finished, Parts, Total
    <2> QED BY <1>5, <2>1, <2>3 DEF NetlinkInv, AnswerIsWhole
  <1>8. DeadlineKept'
    BY <1>4, <1>5 DEF DeadlineKept
  <1> QED BY <1>6, <1>7, <1>8 DEF NetlinkInv, AnswersItself

\* The wait for an answer keeps the invariant.
LEMMA WaitInv == ASSUME NetlinkInv, Wait \/ Poll PROVE NetlinkInv'
  <1>1. /\ net_clock \in ClockType
        /\ request \in RequestType
    BY DEF NetlinkInv, NetlinkTypeOK
  <1>2. Deadline \in Int /\ net_clock.now \in Int
    BY <1>1, ClockTyped, NetlinkAssumption DEF Deadline, RequestType
  <1>3. CASE Wait /\ net_clock.now >= Deadline
    <2>1. Ends("FAILED", TRUE) /\ net_clock' = net_clock
      BY <1>3 DEF Wait
    <2> QED BY <1>1, <2>1, FailedInv
  <1>4. CASE Wait /\ net_clock.now < Deadline
    <2>1. /\ request.phase = "WAIT" /\ socket.held # <<>>
          /\ request' = [Waiting EXCEPT !.phase = "RECEIVE"]
          /\ UNCHANGED <<socket, answering, net_clock, reported>>
      <3>1. ~(net_clock.now >= Deadline)
        BY <1>2, <1>4
      <3> QED BY <1>4, <3>1, Zenon DEF Wait
    <2> QED BY <1>4, <2>1, WaitingInv
  <1>5. CASE Poll
    <2>1. /\ request.phase = "WAIT" /\ net_clock.now < Deadline
          /\ request' = Waiting /\ UNCHANGED <<socket, answering, net_clock, reported>>
      BY <1>5 DEF Poll
    <2>2. Waiting = [Waiting EXCEPT !.phase = "WAIT"]
      <3>1. Deadline \in Int /\ request.began \in Int /\ net_clock.now \in Int
        BY <1>1, <1>2 DEF RequestType
      <3>2. Waiting \in RequestType /\ Waiting.phase = "WAIT"
        BY <1>1, <2>1, <3>1 DEF Waiting, RequestType
      <3> HIDE DEF Waiting
      <3> QED BY <3>2 DEF RequestType
    <2> QED BY <2>1, <2>2, WaitingInv
  <1> QED BY <1>1, <1>2, <1>3, <1>4, <1>5

\* An interrupted wait and the passing of time keep the invariant.
LEMMA InterruptedInv == ASSUME NetlinkInv, Interrupted \/ NetTime PROVE NetlinkInv'
  <1>1. /\ request \in RequestType
        /\ net_clock \in ClockType
    BY DEF NetlinkInv, NetlinkTypeOK
  <1>2. /\ UNCHANGED <<socket, answering, reported>>
        /\ net_clock' \in ClockType
        /\ request' \in RequestType
        /\ \/ request' = request
           \/ request.phase = "RECEIVE" /\ request'.phase = "WAIT"
        /\ request'.deadline = request.deadline /\ request'.began = request.began
        /\ request'.waited = request.waited /\ request'.context = request.context
        /\ request'.sequence = request.sequence /\ request'.kind = request.kind
    BY <1>1 DEF Interrupted, NetTime, RequestType, ClockType
  <1>3. (Unfinished' <=> Unfinished) /\ (Finished' <=> Finished)
    BY <1>2 DEF Unfinished, Finished, Parts, Total
  <1>4. AnswerIsWhole'
    BY <1>2, <1>3 DEF NetlinkInv, AnswerIsWhole
  <1> QED BY <1>2, <1>4 DEF NetlinkInv, NetlinkTypeOK, AnswersItself, DeadlineKept

\* A message is handled: the answer goes on, is complete, or the request fails.
LEMMA ReceiveInv ==
  ASSUME NetlinkInv, NEW parses \in BOOLEAN, Receive(parses) PROVE NetlinkInv'
  <1> DEFINE held == socket.held
             message == held[1]
             context == Handled(message, parses)
             n == Len(held)
             parts == request.context.parts
             total == Total(request.kind)
             left == answering[1].left
  <1>1. /\ socket \in SocketType /\ request \in RequestType /\ reported \in ReportType
        /\ request.context \in ContextType /\ held \in Seq(MessageType)
        /\ net_clock \in ClockType /\ answering \in Seq(PendingType)
        /\ request.phase = "RECEIVE" /\ n \in Nat /\ n > 0
        /\ Head(held) = message /\ message \in MessageType
    BY DEF NetlinkInv, NetlinkTypeOK, AnswerIsWhole, SocketType, RequestType, Receive
  <1>2. /\ request.context.complete = FALSE /\ request.context.kernel_error = FALSE
        /\ request.context.parse_failed = FALSE /\ parts \in Int
        /\ Unfinished \/ Finished
    BY <1>1 DEF NetlinkInv, AnswerIsWhole, ContextType
  <1>3. /\ Unfinished =>
             /\ Len(answering) = 1 /\ answering[1].sequence = request.sequence
             /\ \A i \in 1 .. n : held[i].sequence = request.sequence /\ held[i].kind = "PART"
             /\ parts + n + left = total
        /\ Finished =>
             /\ answering = <<>>
             /\ \A i \in 1 .. n - 1 :
                  held[i].sequence = request.sequence /\ held[i].kind = "PART"
             /\ held[n].sequence = request.sequence
             /\ \/ held[n].kind = "END" /\ parts + (n - 1) = total
                \/ held[n].kind = "ERROR" /\ reported.faulty
    BY DEF Unfinished, Finished, Parts
  <1>4. /\ Unfinished => left \in Int
        /\ total \in Int
    <2>1. ASSUME Unfinished PROVE left \in Int
      <3>1. answering[1] \in PendingType
        BY <1>1, <1>3, <2>1, OnlyOne
      <3> QED BY <3>1 DEF PendingType
    <2>2. total \in Int
      BY NetlinkAssumption DEF Total
    <2> QED BY <2>1, <2>2
  <1>5. /\ Tail(held) \in Seq(MessageType) /\ Len(Tail(held)) = n - 1
        /\ \A i \in 1 .. n - 1 : Tail(held)[i] = held[i + 1]
    BY <1>1, HeadTailProperties
  <1>6. n = 1 => Tail(held) = <<>>
    BY <1>1, OnlyOne
  <1>7. net_clock' \in ClockType
    BY <1>1, ClockTyped DEF Receive, Ends
  <1>8. /\ \/ message.sequence # request.sequence \/ context.kernel_error
           => Ends("FAILED", FALSE)
        /\ message.sequence = request.sequence /\ ~context.kernel_error =>
             /\ context.parse_failed => Ends("FAILED", TRUE)
             /\ ~context.parse_failed /\ context.complete =>
                  /\ reported' = [result |-> "DONE", parts |-> context.parts,
                                  faulty |-> FALSE, kind |-> request.kind]
                  /\ request' = NoRequest /\ answering' = answering
                  /\ socket' = [socket EXCEPT !.held = Tail(@)]
             /\ ~context.parse_failed /\ ~context.complete =>
                  /\ request' = [request EXCEPT !.phase = "WAIT", !.context = context]
                  /\ socket' = [socket EXCEPT !.held = Tail(@)]
                  /\ UNCHANGED <<answering, net_clock, reported>>
    BY <1>1, Zenon DEF Receive
  <1>9. socket' = [socket EXCEPT !.held = Tail(@)] =>
          socket' \in SocketType /\ socket'.held = Tail(held)
    BY <1>1, <1>5 DEF SocketType
  <1>10. message.kind \in {"PART", "END", "ERROR"} /\ (parses \/ message.kind = "PART")
    BY <1>1 DEF Receive, MessageType
  <1> HIDE DEF held, n, parts, total, left
  <1>11. n = 1 \/ 1 \in 1 .. n - 1
    BY <1>1
  <1>12. message.sequence = request.sequence
    BY <1>1, <1>2, <1>3, <1>11
  <1>13. CASE message.kind = "ERROR"
    <2>1. context.kernel_error = TRUE
      BY <1>1, <1>13 DEF Handled, handle_error_response, ContextType
    <2>2. Ends("FAILED", FALSE)
      BY <1>8, <2>1, Zenon
    <2>3. reported.faulty
      BY <1>1, <1>2, <1>3, <1>11, <1>13
    <2> QED BY <1>7, <2>2, <2>3, FailedInv
  <1>14. CASE message.kind = "END"
    <2>1. /\ context.kernel_error = FALSE /\ context.parse_failed = FALSE
          /\ context.complete = TRUE /\ context.parts = parts
      BY <1>1, <1>2, <1>14 DEF Handled, handle_complete_response, ContextType, parts
    <2>2. /\ reported' = [result |-> "DONE", parts |-> context.parts, faulty |-> FALSE,
                          kind |-> request.kind]
          /\ request' = NoRequest /\ socket' = [socket EXCEPT !.held = Tail(@)]
          /\ answering' = answering
      BY <1>8, <1>12, <2>1, Zenon
    <2>3. answering = <<>> /\ n = 1 /\ parts = total
      <3>1. 1 \in 1 .. n
        BY <1>1
      <3>2. Finished /\ n = 1
        BY <1>2, <1>3, <1>11, <1>14, <3>1
      <3> QED BY <1>2, <1>3, <1>4, <1>14, <3>2
    <2>4. socket' \in SocketType /\ socket'.held = <<>>
      BY <1>6, <1>9, <2>2, <2>3
    <2>5. /\ reported' \in ReportType /\ reported'.result = "DONE"
          /\ reported'.parts = Total(reported'.kind)
      BY <1>1, <1>2, <2>1, <2>2, <2>3 DEF ReportType, RequestType, total
    <2>6. NetlinkTypeOK'
      BY <1>1, <1>7, <2>2, <2>4, <2>5, NoRequestTyped DEF NetlinkTypeOK
    <2>7. AnswersItself'
      BY <2>5 DEF AnswersItself, Total
    <2> QED BY <2>2, <2>3, <2>4, <2>6, <2>7, NoRequestTyped
            DEF NetlinkInv, AnswerIsWhole, DeadlineKept
  <1>15. CASE message.kind = "PART" /\ ~parses
    <2>1. context.kernel_error = FALSE /\ context.parse_failed = TRUE
      BY <1>1, <1>2, <1>15 DEF Handled, handle_valid_response, ContextType
    <2>2. Ends("FAILED", TRUE)
      BY <1>8, <1>12, <2>1, Zenon
    <2> QED BY <1>7, <2>2, FailedInv
  <1>16. CASE message.kind = "PART" /\ parses
    <2>1. /\ context \in ContextType /\ context.kernel_error = FALSE
          /\ context.parse_failed = FALSE /\ context.complete = FALSE
          /\ context.parts = parts + 1
      <3>1. context = [request.context EXCEPT !.parts = @ + 1]
        BY <1>16 DEF Handled, handle_valid_response
      <3> HIDE DEF context
      <3> QED BY <1>1, <1>2, <3>1 DEF ContextType, parts
    <2>2. /\ request' = [request EXCEPT !.phase = "WAIT", !.context = context]
          /\ socket' = [socket EXCEPT !.held = Tail(@)]
          /\ UNCHANGED <<answering, net_clock, reported>>
      BY <1>8, <1>12, <2>1, Zenon
    <2> HIDE DEF context
    <2>3. /\ request' \in RequestType /\ request'.phase = "WAIT"
          /\ request'.context = context
          /\ request'.deadline = request.deadline /\ request'.began = request.began
          /\ request'.waited = request.waited
          /\ request'.sequence = request.sequence /\ request'.kind = request.kind
      BY <1>1, <2>1, <2>2 DEF RequestType
    <2>4. /\ socket' \in SocketType /\ Len(socket'.held) = n - 1
          /\ \A i \in 1 .. n - 1 : socket'.held[i] = held[i + 1]
      BY <1>5, <1>9, <2>2
    <2>5. ASSUME Unfinished PROVE Unfinished'
      <3>1. \A i \in 1 .. n - 1 : i + 1 \in 1 .. n
        BY <1>1
      <3>2. Parts(Len(socket.held))'
        BY <1>3, <2>3, <2>4, <2>5, <3>1 DEF Parts
      <3>3. (parts + 1) + (n - 1) + left = total
        BY <1>1, <1>2, <1>3, <1>4, <2>5
      <3> QED BY <1>3, <2>1, <2>2, <2>3, <2>4, <2>5, <3>2, <3>3
              DEF Unfinished, Total, left, total
    <2>6. ASSUME Finished PROVE Finished'
      <3>1. n # 1
        BY <1>3, <1>16, <2>6
      <3>2. /\ \A i \in 1 .. (n - 1) - 1 : i \in 1 .. n - 1 /\ i + 1 \in 1 .. n - 1
            /\ n - 1 \in 1 .. n - 1 /\ (n - 1) + 1 = n /\ n - 1 > 0
        BY <1>1, <3>1
      <3>3. Parts(Len(socket.held) - 1)'
        <4>1. ASSUME NEW i \in 1 .. (n - 1) - 1
              PROVE  /\ socket'.held[i].sequence = request'.sequence
                     /\ socket'.held[i].kind = "PART"
          <5>1. i \in 1 .. n - 1 /\ i + 1 \in 1 .. n - 1
            BY <3>2
          <5>2. held[i + 1].sequence = request.sequence /\ held[i + 1].kind = "PART"
            BY <1>3, <2>6, <5>1
          <5> QED BY <2>3, <2>4, <5>1, <5>2
        <4> QED BY <2>4, <4>1 DEF Parts
      <3>4. socket'.held[Len(socket'.held)] = held[n]
        BY <2>4, <3>2
      <3>5. parts + (n - 1) = (parts + 1) + ((n - 1) - 1)
        BY <1>1, <1>2
      <3> QED BY <1>3, <2>1, <2>2, <2>3, <2>4, <2>6, <3>2, <3>3, <3>4, <3>5
              DEF Finished, Total, total
    <2>7. AnswerIsWhole'
      BY <1>2, <2>1, <2>3, <2>5, <2>6 DEF AnswerIsWhole
    <2>8. NetlinkTypeOK'
      BY <1>1, <2>2, <2>3, <2>4 DEF NetlinkTypeOK
    <2> QED BY <2>2, <2>3, <2>7, <2>8 DEF NetlinkInv, AnswersItself, DeadlineKept
  <1> QED BY <1>10, <1>13, <1>14, <1>15, <1>16

\* Every step of the request, and every stutter, keeps the invariant.
LEMMA NetlinkStep == ASSUME NetlinkInv, [NetlinkNext]_netVars PROVE NetlinkInv'
  <1>1. ASSUME netlink_dump_qdiscs PROVE NetlinkInv'
    BY <1>1, SendInv DEF netlink_dump_qdiscs, Total
  <1>2. ASSUME netlink_change_qdisc PROVE NetlinkInv'
    BY <1>2, SendInv DEF netlink_change_qdisc, Total
  <1>3. ASSUME NEW kind \in {"DUMP", "CHANGE"}, Unsent(kind) PROVE NetlinkInv'
    BY <1>3, UnsentInv
  <1>4. ASSUME NEW refuses \in BOOLEAN, Answer(refuses) PROVE NetlinkInv'
    BY <1>4, AnswerInv
  <1>5. ASSUME Wait \/ Poll PROVE NetlinkInv'
    BY <1>5, WaitInv
  <1>6. ASSUME Interrupted \/ NetTime PROVE NetlinkInv'
    BY <1>6, InterruptedInv
  <1>7. ASSUME NEW parses \in BOOLEAN, Receive(parses) PROVE NetlinkInv'
    BY <1>7, ReceiveInv
  <1>8. ASSUME UNCHANGED netVars PROVE NetlinkInv'
    BY <1>8 DEF NetlinkInv, NetlinkTypeOK, AnswerIsWhole, AnswersItself, DeadlineKept,
                Unfinished, Finished, Parts, Total, netVars
  <1> QED BY <1>1, <1>2, <1>3, <1>4, <1>5, <1>6, <1>7, <1>8, Zenon DEF NetlinkNext

\* What the socket holds and the kernel still has to send are the answer to the
\* request under way, and nothing else (platform/netlink.c).
THEOREM NetlinkInvariance == NetlinkSpec => []NetlinkInv
  <1>1. NetlinkInv /\ [NetlinkNext]_netVars => NetlinkInv'
    BY NetlinkStep
  <1> QED BY NetlinkInitInv, <1>1, PTL DEF NetlinkSpec

\* A request succeeds only with the whole of its own answer, fails only for a
\* fault of its own time, and is over within one timeout of its first wait
\* (wait_for_response, receive_response).
THEOREM RequestsAreSound == NetlinkSpec => []NetlinkSound
  <1>1. NetlinkInv => NetlinkSound
    <2> SUFFICES ASSUME NetlinkInv PROVE OneDeadline
      BY DEF NetlinkSound, NetlinkInv
    <2>1. request.began \in Int /\ request.waited \in Int
      BY DEF NetlinkInv, NetlinkTypeOK, RequestType
    <2> QED BY <2>1, NetlinkAssumption DEF NetlinkInv, DeadlineKept, OneDeadline
  <1> QED BY <1>1, NetlinkInvariance, PTL

-----------------------------------------------------------------------------
(* Estimator: the windows and the floors of a flow.                         *)

FloorType == [valid : BOOLEAN, value : Int]
WindowType == [minimum : [0 .. 1 -> {NOTHING} \cup Nat], index : Nat]
MeasuredFlowType ==
  [key : {NOTHING} \cup FlowKeys, first_arrival : Nat, last_tsval : Int,
   last_accepted : Nat, ticks : Nat, tick : {NOTHING} \cup StandardTicks,
   floor : [Directions -> [StandardTicks -> FloorType]],
   windows : [Directions -> WindowType]]
HeardType ==
  [d : Directions, window : Nat, delay : Nat, queue : {NOTHING} \cup Nat, truth : Int]
SampleType ==
  [key : FlowKeys, arrival : Nat, tsval : Int, departure : {NOTHING} \cup Nat]

\* The least of Q, and nothing when there is none.
IsLeast(least, Q) ==
  IF Q = {} THEN least = NOTHING ELSE least \in Q /\ \A q \in Q : least <= q

\* What was heard in direction d with a queue, and the queues of window k.
Shown(H, d) == {h \in H : h.d = d /\ h.queue # NOTHING}
QueuesOf(H, k) == {h.queue : h \in {g \in H : g.window = k}}

\* A window has the least queues of the last interval with one and of that before.
Exact(w, H) ==
  /\ \A k \in 0 .. 1 : IsLeast(w.minimum[k], QueuesOf(H, w.index - k))
  /\ \A h \in H : h.window <= w.index
  /\ H # {} => w.minimum[0] # NOTHING

\* A flow's times are in order, and its windows hold what was heard of it.
Logged(f, H) ==
  /\ f.first_arrival <= f.last_accepted
  /\ f.tick # NOTHING => f.first_arrival < f.last_accepted
  /\ \A d \in Directions : /\ Exact(f.windows[d], Shown(H, d))
                           /\ f.windows[d].index <= f.last_accepted \div WINDOW
  /\ f.key = NOTHING => H = {} /\ f.last_accepted = 0

EstimatorTypeOK ==
  /\ estimator \in [bound : {NO_BOUND} \cup QueueBounds, flows : [Slots -> MeasuredFlowType]]
  /\ network \in [periods : [FlowKeys -> StandardTicks], now : Nat, samples : Nat]
  /\ heard \in [Slots -> SUBSET HeardType]

TableInv ==
  /\ EstimatorTypeOK
  /\ \A s \in Slots : /\ Logged(estimator.flows[s], heard[s])
                      /\ estimator.flows[s].last_accepted <= network.now

-----------------------------------------------------------------------------
\* Min of natural numbers.
LEMMA MinIs ==
  ASSUME NEW Q \in SUBSET Nat, Q # {}
  PROVE  Min(Q) \in Q /\ \A q \in Q : Min(Q) <= q
  <1>1. PICK q \in Q : \A r \in Q : ~(<<r, q>> \in OpToRel(<, Nat))
    BY NatLessThanWellFounded, WFMin
  <1>2. ASSUME NEW r \in Q PROVE q <= r
    <2>1. q \in Nat /\ r \in Nat /\ ~(<<r, q>> \in OpToRel(<, Nat)) BY <1>1
    <2> QED BY <2>1 DEF OpToRel
  <1> QED BY <1>2 DEF Min

\* A member that is below all others is the minimum.
LEMMA MinOnly ==
  ASSUME NEW Q \in SUBSET Nat, NEW q \in Q, \A r \in Q : q <= r
  PROVE  Min(Q) = q
  <1>1. Min(Q) \in Q /\ Min(Q) <= q BY MinIs
  <1>2. Min(Q) \in Nat /\ q \in Nat /\ q <= Min(Q) BY <1>1
  <1> QED BY <1>1, <1>2

\* Later times are in later windows.
LEMMA WindowsRise ==
  ASSUME NEW a \in Nat, NEW b \in Nat, a <= b
  PROVE  a \div WINDOW <= b \div WINDOW /\ a \div WINDOW \in Nat
  <1> DEFINE w == WINDOW
  <1>1. w \in Nat \ {0} BY EstimatorAssumption
  <1> HIDE DEF w
  <1>2. a \div w \in Nat /\ b \div w \in Nat BY <1>1
  <1>3. a = w * (a \div w) + (a % w) /\ b = w * (b \div w) + (b % w)
        /\ a % w \in 0 .. w - 1 /\ b % w \in 0 .. w - 1
    BY <1>1
  <1>4. ~(a \div w >= (b \div w) + 1)
    <2> DEFINE x == a \div w
               y == b \div w
               ra == a % w
               rb == b % w
    <2> HIDE DEF x, y, ra, rb
    <2>1. x \in Nat /\ y \in Nat /\ ra \in Nat /\ rb \in 0 .. w - 1
          /\ a = w * x + ra /\ b = w * y + rb
      BY <1>1, <1>2, <1>3 DEF x, y, ra, rb
    <2>2. \A i, j \in Nat : i >= j + 1 => w * i >= w * j + w
      <3>1. \A i, j \in Nat : i >= j + 1 => w * (i - j) >= w /\ w * (i - j) = w * i - w * j
        BY <1>1
      <3> QED BY <1>1, <3>1
    <2>3. ~(x >= y + 1) BY <1>1, <2>1, <2>2
    <2> QED BY <2>3 DEF x, y
  <1> QED BY <1>2, <1>4 DEF w

-----------------------------------------------------------------------------
\* A queue enters the window of its time, and what is older than the window before
\* leaves (window_add).
LEMMA WindowAdds ==
  ASSUME NEW w \in WindowType, NEW H \in SUBSET HeardType, Exact(w, H),
         \A h \in H : h.queue \in Nat,
         NEW time \in Nat, w.index <= time \div WINDOW,
         NEW h \in HeardType, h.queue \in Nat, h.window = time \div WINDOW
  PROVE  /\ window_add(w, h.queue, time) \in WindowType
         /\ window_add(w, h.queue, time).index = time \div WINDOW
         /\ Exact(window_add(w, h.queue, time), H \cup {h})
  <1> DEFINE index == time \div WINDOW
             empty == \A k \in 0 .. 1 : w.minimum[k] = NOTHING
             moved == IF empty \/ index <= w.index THEN w.minimum
                      ELSE [k \in 0 .. 1 |-> IF k = 1 /\ index = w.index + 1
                                             THEN w.minimum[0] ELSE NOTHING]
             q == h.queue
             first == IF moved[0] = NOTHING \/ q < moved[0] THEN q ELSE moved[0]
             minimum == [k \in 0 .. 1 |-> IF k = 0 THEN first ELSE moved[1]]
             G == H \cup {h}
             n == window_add(w, q, time)
  <1>1. index \in Nat /\ w.index \in Nat /\ w.index <= index /\ q \in Nat
        /\ w.minimum \in [0 .. 1 -> {NOTHING} \cup Nat]
    BY WindowsRise DEF WindowType
  <1>2. n = [minimum |-> minimum, index |-> index]
    <2> DEFINE current == IF empty \/ index > w.index THEN index ELSE w.index
               slot == current - index
               then == [k \in 0 .. 1 |->
                          IF k = slot /\ (moved[k] = NOTHING \/ q < moved[k]) THEN q ELSE moved[k]]
    <2>1. n = [minimum |-> then, index |-> current] BY DEF window_add
    <2>2. current = index /\ slot = 0 BY <1>1
    <2>3. then = minimum BY <2>2
    <2> HIDE DEF then, current, n, minimum
    <2> QED BY <2>1, <2>2, <2>3
  <1>3. \A g \in G : g.window \in Nat /\ g.queue \in Nat BY DEF HeardType
  <1>4. \A k \in 0 .. 1 : IsLeast(w.minimum[k], QueuesOf(H, w.index - k))
    BY DEF Exact
  <1>5. IsLeast(w.minimum[0], QueuesOf(H, w.index))
        /\ IsLeast(w.minimum[1], QueuesOf(H, w.index - 1))
    BY <1>1, <1>4
  <1>6. (\A g \in H : g.window <= w.index) /\ (empty => H = {})
    BY DEF Exact
  <1>7. /\ moved[0] \in {NOTHING} \cup Nat /\ moved[1] \in {NOTHING} \cup Nat
        /\ IsLeast(moved[0], QueuesOf(H, index)) /\ IsLeast(moved[1], QueuesOf(H, index - 1))
    <2>1. CASE empty
      <3>1. QueuesOf(H, index) = {} /\ QueuesOf(H, index - 1) = {} BY <1>6, <2>1 DEF QueuesOf
      <3>2. moved[0] = NOTHING /\ moved[1] = NOTHING BY <2>1
      <3> QED BY <3>1, <3>2 DEF IsLeast
    <2>2. CASE ~empty /\ index = w.index
      <3>1. moved = w.minimum BY <2>2
      <3> QED BY <1>1, <1>5, <2>2, <3>1
    <2>3. CASE ~empty /\ index # w.index
      <3>1. QueuesOf(H, index) = {}
        <4>1. \A g \in H : g.window # index BY <1>1, <1>3, <1>6, <2>3
        <4> QED BY <4>1 DEF QueuesOf
      <3>2. moved = [k \in 0 .. 1 |-> IF k = 1 /\ index = w.index + 1
                                      THEN w.minimum[0] ELSE NOTHING]
        BY <1>1, <2>3
      <3>3. moved[0] = NOTHING
            /\ moved[1] = IF index = w.index + 1 THEN w.minimum[0] ELSE NOTHING
        BY <3>2
      <3> HIDE DEF moved
      <3>4. index # w.index + 1 => QueuesOf(H, index - 1) = {}
        <4>1. index # w.index + 1 => \A g \in H : g.window # index - 1
          BY <1>1, <1>3, <1>6, <2>3
        <4> QED BY <4>1 DEF QueuesOf
      <3>5. index = w.index + 1 => index - 1 = w.index BY <1>1
      <3> QED BY <1>1, <1>5, <3>1, <3>3, <3>4, <3>5 DEF IsLeast
    <2> QED BY <2>1, <2>2, <2>3
  <1> HIDE DEF moved
  <1>8. first \in Nat /\ IsLeast(first, QueuesOf(G, index))
    <2>1. QueuesOf(G, index) = QueuesOf(H, index) \cup {q} BY DEF QueuesOf
    <2>2. \A r \in QueuesOf(H, index) : r \in Nat BY <1>3 DEF QueuesOf
    <2>3. NOTHING \notin Nat BY DEF NOTHING
    <2> DEFINE m == moved[0]
               R == QueuesOf(H, index)
    <2>4. m \in {NOTHING} \cup Nat /\ IsLeast(m, R) /\ q \in Nat
          /\ first = IF m = NOTHING \/ q < m THEN q ELSE m
      BY <1>1, <1>7
    <2> HIDE DEF m, R, first, q
    <2>5. first \in Nat BY <2>4
    <2>6. first \in R \cup {q} BY <2>2, <2>3, <2>4 DEF IsLeast, R
    <2>7. \A r \in R \cup {q} : first <= r
      <3>1. first <= q BY <2>4, <2>5
      <3>2. ASSUME NEW r \in R PROVE first <= r
        <4>1. m \in R /\ m <= r /\ r \in Nat /\ m \in Nat BY <2>2, <2>4 DEF IsLeast, R
        <4> QED BY <2>3, <2>4, <4>1
      <3> QED BY <3>1, <3>2
    <2> QED BY <2>1, <2>5, <2>6, <2>7 DEF IsLeast, R
  <1>9. IsLeast(moved[1], QueuesOf(G, index - 1))
    <2>1. QueuesOf(G, index - 1) = QueuesOf(H, index - 1)
      <3>1. h.window # index - 1 BY <1>1
      <3> QED BY <3>1 DEF QueuesOf
    <2> QED BY <1>7, <2>1
  <1> HIDE DEF n, first
  <1>10. /\ n.index = index /\ n.minimum = minimum
         /\ minimum[0] = first /\ minimum[1] = moved[1]
    BY <1>2
  <1>11. minimum \in [0 .. 1 -> {NOTHING} \cup Nat] BY <1>7, <1>8
  <1>12. n \in WindowType BY <1>1, <1>2, <1>11 DEF WindowType
  <1>13. Exact(n, G)
    <2>1. \A k \in 0 .. 1 : IsLeast(n.minimum[k], QueuesOf(G, n.index - k))
      <3>1. index - 0 = index BY <1>1
      <3> QED BY <1>8, <1>9, <1>10, <3>1
    <2>2. \A g \in G : g.window <= n.index BY <1>1, <1>3, <1>6, <1>10
    <2>3. n.minimum[0] # NOTHING BY <1>8, <1>10 DEF NOTHING
    <2> QED BY <2>1, <2>2, <2>3 DEF Exact
  <1> QED BY <1>10, <1>12, <1>13 DEF n

\* What a window shows is the least queue of the current interval and the last.
LEMMA WindowShows ==
  ASSUME NEW w \in WindowType, NEW H \in SUBSET HeardType, Exact(w, H),
         \A h \in H : h.queue \in Nat,
         NEW now \in Nat, w.index <= now \div WINDOW,
         NEW counted, counted = {h \in H : h.window \in {(now \div WINDOW) - 1, now \div WINDOW}}
  PROVE  window_result(w, now) =
           IF counted = {} THEN NOTHING ELSE Min({h.queue : h \in counted})
  <1> DEFINE index == now \div WINDOW
             i == w.index
             fresh == {k \in 0 .. 1 : /\ w.minimum[k] # NOTHING
                                      /\ \/ i = index
                                         \/ k = 0 /\ i + 1 = index}
             V == {w.minimum[k] : k \in fresh}
             Q == {h.queue : h \in counted}
             A == QueuesOf(H, i)
             B == QueuesOf(H, i - 1)
  <1>1. index \in Nat /\ i \in Nat /\ i <= index
        /\ w.minimum[0] \in {NOTHING} \cup Nat /\ w.minimum[1] \in {NOTHING} \cup Nat
    BY WindowsRise DEF WindowType
  <1>2. window_result(w, now) = IF fresh = {} THEN NOTHING ELSE Min(V)
    BY DEF window_result
  <1>3. \A h \in H : h.window \in Nat /\ h.window <= i /\ h.queue \in Nat
    BY DEF Exact, HeardType
  <1>4. IsLeast(w.minimum[0], A) /\ IsLeast(w.minimum[1], B)
    <2>1. i - 0 = i BY <1>1
    <2> QED BY <2>1 DEF Exact
  <1>5. A \in SUBSET Nat /\ B \in SUBSET Nat BY <1>3 DEF QueuesOf
  <1>6. Q = {} <=> counted = {} OBVIOUS
  <1>7. counted \in SUBSET H OBVIOUS
  <1> DEFINE a == w.minimum[0]
             b == w.minimum[1]
  <1>8. CASE i = index
    <2>1. Q = A \cup B
      <3>1. \A h \in H : h \in counted <=> h.window = i \/ h.window = i - 1
        BY <1>1, <1>8
      <3> QED BY <1>7, <3>1 DEF QueuesOf
    <2>2. V = {v \in {a, b} : v # NOTHING} /\ (fresh = {} <=> V = {})
      <3>1. fresh = {k \in {0, 1} : w.minimum[k] # NOTHING}
        <4>1. 0 .. 1 = {0, 1} OBVIOUS
        <4> QED BY <1>8, <4>1
      <3> HIDE DEF fresh
      <3> QED BY <3>1
    <2> HIDE DEF Q, V, A, B, a, b, fresh
    <2>3. (Q = {} <=> V = {}) /\ V \in SUBSET Nat /\ V \in SUBSET Q
          /\ \A x \in Q : \E v \in V : v <= x
      <3>1. NOTHING \notin Nat BY DEF NOTHING
      <3>2. A = {} => a = NOTHING BY <1>4 DEF IsLeast, a
      <3>3. A # {} => a \in A /\ a \in V /\ \A x \in A : a <= x
        BY <1>4, <1>5, <2>2, <3>1 DEF IsLeast, a
      <3>4. B = {} => b = NOTHING BY <1>4 DEF IsLeast, b
      <3>5. B # {} => b \in B /\ b \in V /\ \A x \in B : b <= x
        BY <1>4, <1>5, <2>2, <3>1 DEF IsLeast, b
      <3> QED BY <1>5, <2>1, <2>2, <3>1, <3>2, <3>3, <3>4, <3>5
    <2>4. ASSUME V # {} PROVE Min(V) = Min(Q)
      <3>1. Min(V) \in V /\ \A v \in V : Min(V) <= v BY <2>3, <2>4, MinIs
      <3>2. Q \in SUBSET Nat BY <1>5, <2>1
      <3>3. ASSUME NEW x \in Q PROVE Min(V) <= x
        <4>1. PICK v \in V : v <= x BY <2>3
        <4>2. Min(V) \in Nat /\ v \in Nat /\ x \in Nat /\ Min(V) <= v
          BY <2>3, <3>1, <3>2
        <4> QED BY <4>1, <4>2
      <3>4. Min(V) \in Q BY <2>3, <3>1
      <3> QED BY <3>2, <3>3, <3>4, MinOnly
    <2> QED BY <1>2, <1>6, <2>2, <2>3, <2>4 DEF Q
  <1>9. CASE i + 1 = index
    <2>1. Q = A
      <3>1. \A h \in H : h \in counted <=> h.window = i BY <1>1, <1>3, <1>9
      <3> QED BY <1>7, <3>1 DEF QueuesOf
    <2>2. V = {v \in {a} : v # NOTHING} /\ (fresh = {} <=> V = {})
      <3>1. fresh = {k \in {0} : w.minimum[k] # NOTHING}
        <4>1. i # index BY <1>1, <1>9
        <4> QED BY <1>9, <4>1
      <3> HIDE DEF fresh
      <3> QED BY <3>1
    <2> HIDE DEF Q, V, A, B, a, b, fresh
    <2>3. (Q = {} <=> V = {}) /\ V \in SUBSET Nat /\ V \in SUBSET Q
          /\ \A x \in Q : \E v \in V : v <= x
      BY <1>1, <1>4, <1>5, <2>1, <2>2 DEF IsLeast, a, NOTHING
    <2>4. ASSUME V # {} PROVE Min(V) = Min(Q)
      <3>1. Min(V) \in V /\ \A v \in V : Min(V) <= v BY <2>3, <2>4, MinIs
      <3>2. Q \in SUBSET Nat BY <1>5, <2>1
      <3>3. ASSUME NEW x \in Q PROVE Min(V) <= x
        <4>1. PICK v \in V : v <= x BY <2>3
        <4>2. Min(V) \in Nat /\ v \in Nat /\ x \in Nat /\ Min(V) <= v
          BY <2>3, <3>1, <3>2
        <4> QED BY <4>1, <4>2
      <3>4. Min(V) \in Q BY <2>3, <3>1
      <3> QED BY <3>2, <3>3, <3>4, MinOnly
    <2> QED BY <1>2, <1>6, <2>2, <2>3, <2>4 DEF Q
  <1>10. CASE i # index /\ i + 1 # index
    <2>1. fresh = {} BY <1>10
    <2>2. counted = {} BY <1>1, <1>3, <1>10
    <2> QED BY <1>2, <2>1, <2>2
  <1> QED BY <1>8, <1>9, <1>10

-----------------------------------------------------------------------------
\* The constants of the estimator, typed.
LEMMA EstimatorBounds ==
  /\ TSVALS \in Nat \ {0, 1} /\ TICK_SPAN \in Nat \ {0} /\ WINDOW \in Nat \ {0}
  /\ StandardTicks \in SUBSET (Nat \ {0}) /\ FlowKeys \in SUBSET Nat
  /\ QueueBounds \in SUBSET Nat /\ Delays \in SUBSET Nat /\ Gaps \in SUBSET Nat
  /\ NOTHING \notin Nat /\ NO_BOUND \notin Nat /\ Slots \in SUBSET Nat /\ 1 \in Slots
  BY EstimatorAssumption DEF NOTHING, NO_BOUND, Slots

\* A slot without a flow, and one whose flow begins.
LEMMA StartsLogged ==
  /\ UnusedFlow \in MeasuredFlowType /\ Logged(UnusedFlow, {})
  /\ \A sample \in SampleType :
       /\ flow_start(sample) \in MeasuredFlowType
       /\ Logged(flow_start(sample), {})
       /\ flow_start(sample).key = sample.key
       /\ flow_start(sample).first_arrival = sample.arrival
       /\ flow_start(sample).last_accepted = sample.arrival
       /\ flow_start(sample).last_tsval = sample.tsval
       /\ flow_start(sample).ticks = 0 /\ flow_start(sample).tick = NOTHING
       /\ flow_start(sample).floor = [d \in Directions |-> [t \in StandardTicks |-> UnknownFloor]]
  <1> DEFINE floor == [d \in Directions |-> [t \in StandardTicks |-> UnknownFloor]]
             windows == [d \in Directions |-> EmptyWindow]
  <1>1. floor \in [Directions -> [StandardTicks -> FloorType]]
    BY DEF UnknownFloor, FloorType
  <1>2. EmptyWindow \in WindowType /\ windows \in [Directions -> WindowType]
        /\ EmptyWindow.index = 0
    BY DEF EmptyWindow, WindowType
  <1>3. \A d \in Directions : Shown({}, d) = {} BY DEF Shown
  <1>4. Exact(EmptyWindow, {}) BY DEF Exact, IsLeast, QueuesOf, EmptyWindow
  <1>5. UnusedFlow =
          [key |-> NOTHING, first_arrival |-> 0, last_tsval |-> 0, last_accepted |-> 0,
           ticks |-> 0, tick |-> NOTHING, floor |-> floor, windows |-> windows]
    BY DEF UnusedFlow
  <1>6. \A n \in Nat : 0 <= n \div WINDOW
    BY WindowsRise
  <1> HIDE DEF floor
  <1>7. UnusedFlow \in MeasuredFlowType
    <2> HIDE DEF windows
    <2> QED BY <1>1, <1>2, <1>5 DEF MeasuredFlowType
  <1>8. Logged(UnusedFlow, {})
    <2>1. UnusedFlow.windows = windows /\ UnusedFlow.tick = NOTHING
          /\ UnusedFlow.first_arrival = 0 /\ UnusedFlow.last_accepted = 0
      BY <1>5
    <2> QED BY <1>2, <1>3, <1>4, <1>6, <2>1 DEF Logged
  <1>9. ASSUME NEW sample \in SampleType
        PROVE  LET f == flow_start(sample)
               IN /\ f \in MeasuredFlowType /\ Logged(f, {}) /\ f.key = sample.key
                  /\ f.first_arrival = sample.arrival /\ f.last_accepted = sample.arrival
                  /\ f.last_tsval = sample.tsval /\ f.ticks = 0 /\ f.tick = NOTHING
                  /\ f.floor = floor
    <2> DEFINE f == flow_start(sample)
    <2>1. f = [key |-> sample.key, first_arrival |-> sample.arrival,
               last_tsval |-> sample.tsval, last_accepted |-> sample.arrival,
               ticks |-> 0, tick |-> NOTHING, floor |-> floor, windows |-> windows]
      <3>1. f = [UnusedFlow EXCEPT !.key = sample.key, !.first_arrival = sample.arrival,
                                   !.last_tsval = sample.tsval,
                                   !.last_accepted = sample.arrival]
        BY DEF flow_start
      <3> HIDE DEF f, windows
      <3> QED BY <1>5, <3>1
    <2>2. sample.key \in FlowKeys /\ sample.arrival \in Nat /\ sample.tsval \in Int
      BY DEF SampleType
    <2> HIDE DEF f
    <2>3. f \in MeasuredFlowType
      <3> HIDE DEF windows
      <3> QED BY <1>1, <1>2, <2>1, <2>2 DEF MeasuredFlowType
    <2>4. /\ f.windows = windows /\ f.tick = NOTHING /\ f.key = sample.key /\ f.ticks = 0
          /\ f.first_arrival = sample.arrival /\ f.last_accepted = sample.arrival
          /\ f.last_tsval = sample.tsval /\ f.floor = floor
      BY <2>1
    <2>5. f.key # NOTHING BY <2>2, <2>4, EstimatorBounds
    <2>6. \A d \in Directions : f.windows[d] = EmptyWindow BY <2>4
    <2> HIDE DEF windows
    <2>7. 0 <= f.last_accepted \div WINDOW BY <1>6, <2>2, <2>4
    <2>8. \A d \in Directions : /\ Exact(f.windows[d], Shown({}, d))
                                /\ f.windows[d].index <= f.last_accepted \div WINDOW
      BY <1>2, <1>3, <1>4, <2>6, <2>7
    <2>9. f.first_arrival <= f.last_accepted BY <2>2, <2>4
    <2>10. Logged(f, {}) BY <2>4, <2>5, <2>8, <2>9 DEF Logged
    <2> QED BY <2>3, <2>4, <2>10 DEF f
  <1> QED BY <1>7, <1>8, <1>9 DEF floor

\* A floor is never above what it was last compared with.
LEMMA FloorUnder ==
  ASSUME NEW bound \in {NO_BOUND} \cup QueueBounds, NEW floor \in FloorType, NEW value \in Int
  PROVE  /\ floor_update(bound, floor, value) \in FloorType
         /\ floor_update(bound, floor, value).valid
         /\ floor_update(bound, floor, value).value <= value
  <1> DEFINE v == IF ~floor.valid \/ value < floor.value THEN value
                  ELSE IF bound # NO_BOUND /\ value - floor.value > bound THEN value - bound
                  ELSE floor.value
  <1>1. floor.value \in Int /\ (bound # NO_BOUND => bound \in Nat)
    BY EstimatorBounds DEF FloorType
  <1>2. v \in Int /\ v <= value BY <1>1
  <1>3. floor_update(bound, floor, value) = [valid |-> TRUE, value |-> v] BY DEF floor_update
  <1> HIDE DEF v
  <1> QED BY <1>2, <1>3 DEF FloorType

\* What a sample that is accepted moves on.
LEMMA ProgressedFacts ==
  ASSUME NEW F \in MeasuredFlowType, NEW sample \in SampleType, Accepts(F, sample),
         NEW P, P = Progressed(F, sample)
  PROVE  /\ P \in MeasuredFlowType
         /\ P.key = F.key /\ P.first_arrival = F.first_arrival /\ P.tick = F.tick
         /\ P.floor = F.floor /\ P.windows = F.windows
         /\ P.last_accepted = sample.arrival /\ P.last_tsval = sample.tsval
         /\ P.ticks = F.ticks + Step(sample.tsval, F.last_tsval)
  <1> DEFINE step == Step(sample.tsval, F.last_tsval)
             ticks == F.ticks + step
  <1>1. sample.tsval \in Int /\ sample.arrival \in Nat /\ F.last_tsval \in Int /\ F.ticks \in Nat
    BY DEF SampleType, MeasuredFlowType
  <1>2. step \in Int BY <1>1, EstimatorBounds DEF Step
  <1>3. step >= 0 BY DEF Accepts
  <1> HIDE DEF step
  <1>4. ticks \in Nat BY <1>1, <1>2, <1>3
  <1>5. P = [F EXCEPT !.last_accepted = sample.arrival, !.last_tsval = sample.tsval,
                      !.ticks = ticks]
    BY DEF Progressed, step
  <1> HIDE DEF ticks
  <1>6. /\ P \in MeasuredFlowType
        /\ P.key = F.key /\ P.first_arrival = F.first_arrival /\ P.tick = F.tick
        /\ P.floor = F.floor /\ P.windows = F.windows
        /\ P.last_accepted = sample.arrival /\ P.last_tsval = sample.tsval
        /\ P.ticks = ticks
    BY <1>1, <1>4, <1>5 DEF MeasuredFlowType
  <1> QED BY <1>6 DEF ticks, step

\* What measuring changes: the floors of the directions and periods it is about.
LEMMA MeasureFacts ==
  ASSUME NEW bound \in {NO_BOUND} \cup QueueBounds, NEW P \in MeasuredFlowType,
         NEW ticks, NEW sample \in SampleType,
         NEW M, M = flow_measure(bound, P, ticks, sample)
  PROVE  /\ M \in MeasuredFlowType
         /\ M.key = P.key /\ M.first_arrival = P.first_arrival /\ M.tick = P.tick
         /\ M.last_accepted = P.last_accepted /\ M.last_tsval = P.last_tsval
         /\ M.ticks = P.ticks /\ M.windows = P.windows
         /\ \A d \in Directions, t \in StandardTicks :
              M.floor[d][t] = IF t \in ticks /\ d \in Measured(sample)
                              THEN floor_update(bound, P.floor[d][t], Value(P, t, sample, d))
                              ELSE P.floor[d][t]
         /\ \A d \in Measured(sample), t \in StandardTicks :
              Value(P, t, sample, d) \in Int
  <1> DEFINE new(d, t) == floor_update(bound, P.floor[d][t], Value(P, t, sample, d))
             then(d, t) == IF t \in ticks /\ d \in Measured(sample) THEN new(d, t)
                           ELSE P.floor[d][t]
             floor == [d \in Directions |-> [t \in StandardTicks |-> then(d, t)]]
  <1>1. /\ P.ticks \in Nat /\ P.first_arrival \in Nat /\ sample.arrival \in Nat
        /\ sample.departure \in {NOTHING} \cup Nat
        /\ P.floor \in [Directions -> [StandardTicks -> FloorType]]
    BY DEF MeasuredFlowType, SampleType
  <1>2. Measured(sample) \in SUBSET Directions BY DEF Measured, Directions
  <1>3. ASSUME NEW d \in Measured(sample), NEW t \in StandardTicks
        PROVE  Value(P, t, sample, d) \in Int
    <2>1. t \in Nat BY EstimatorBounds
    <2>2. P.ticks * t \in Int BY <1>1, <2>1
    <2>3. d # "down" => sample.departure \in Nat
      BY <1>1 DEF Measured, Directions
    <2> QED BY <1>1, <2>2, <2>3 DEF Value
  <1>4. ASSUME NEW d \in Directions, NEW t \in StandardTicks PROVE then(d, t) \in FloorType
    <2>1. P.floor[d][t] \in FloorType BY <1>1
    <2>2. CASE t \in ticks /\ d \in Measured(sample)
      BY <1>3, <2>1, <2>2, FloorUnder
    <2> QED BY <2>1, <2>2
  <1>5. M = [P EXCEPT !.floor = floor]
    BY DEF flow_measure
  <1> HIDE DEF new, then
  <1>6. floor \in [Directions -> [StandardTicks -> FloorType]] BY <1>4
  <1>7. \A d \in Directions, t \in StandardTicks : floor[d][t] = then(d, t) OBVIOUS
  <1> HIDE DEF floor
  <1>8. /\ M \in MeasuredFlowType
        /\ M.key = P.key /\ M.first_arrival = P.first_arrival /\ M.tick = P.tick
        /\ M.last_accepted = P.last_accepted /\ M.last_tsval = P.last_tsval
        /\ M.ticks = P.ticks /\ M.windows = P.windows /\ M.floor = floor
    BY <1>5, <1>6 DEF MeasuredFlowType
  <1> QED BY <1>3, <1>7, <1>8 DEF then, new

\* M differs from P in its floors at most.
OnlyFloors(M, P) ==
  /\ M \in MeasuredFlowType
  /\ M.key = P.key /\ M.first_arrival = P.first_arrival /\ M.tick = P.tick
  /\ M.last_accepted = P.last_accepted /\ M.last_tsval = P.last_tsval
  /\ M.ticks = P.ticks /\ M.windows = P.windows

\* Measuring leaves everything but the floors alone (flow_measure).
LEMMA MeasureKeeps ==
  ASSUME NEW bound \in {NO_BOUND} \cup QueueBounds, NEW P \in MeasuredFlowType,
         NEW ticks, NEW sample \in SampleType
  PROVE  OnlyFloors(flow_measure(bound, P, ticks, sample), P)
  <1> DEFINE M == flow_measure(bound, P, ticks, sample)
  <1>1. M = flow_measure(bound, P, ticks, sample) OBVIOUS
  <1> HIDE DEF M
  <1>2. /\ M \in MeasuredFlowType
        /\ M.key = P.key /\ M.first_arrival = P.first_arrival /\ M.tick = P.tick
        /\ M.last_accepted = P.last_accepted /\ M.last_tsval = P.last_tsval
        /\ M.ticks = P.ticks /\ M.windows = P.windows
    BY <1>1, MeasureFacts
  <1>3. OnlyFloors(M, P) BY <1>2 DEF OnlyFloors
  <1> QED BY <1>3 DEF M

\* A period is fitted after the span at the earliest, and is a standard one.
LEMMA FitFacts ==
  ASSUME NEW M \in MeasuredFlowType, NEW span \in Int
  PROVE  /\ fit_tick(M, span) \in {NOTHING} \cup StandardTicks
         /\ fit_tick(M, span) # NOTHING => span >= TICK_SPAN /\ M.ticks # 0
         /\ fit_tick(M, span) # NOTHING =>
              LET t == fit_tick(M, span)
                  period == span \div M.ticks
              IN (IF period > t THEN period - t ELSE t - period)
                   <= (t * TICK_TOLERANCE) \div 100
  <1> DEFINE period == span \div M.ticks
             error(t) == IF period > t THEN period - t ELSE t - period
             near == {t \in StandardTicks: error(t) <= (t * TICK_TOLERANCE) \div 100}
  <1>1. fit_tick(M, span) = IF span < TICK_SPAN \/ M.ticks = 0 THEN NOTHING
                            ELSE IF near = {} THEN NOTHING ELSE Min(near)
    BY DEF fit_tick
  <1>2. near \in SUBSET Nat BY EstimatorBounds
  <1>3. CASE span < TICK_SPAN \/ M.ticks = 0 \/ near = {}
    BY <1>1, <1>3
  <1>4. CASE ~(span < TICK_SPAN \/ M.ticks = 0 \/ near = {})
    <2>1. fit_tick(M, span) = Min(near) BY <1>1, <1>4
    <2>2. Min(near) \in near
      <3> HIDE DEF near
      <3> QED BY <1>2, <1>4, MinIs
    <2>3. span >= TICK_SPAN BY <1>4, EstimatorBounds
    <2>4. /\ fit_tick(M, span) \in StandardTicks
          /\ error(fit_tick(M, span)) <= (fit_tick(M, span) * TICK_TOLERANCE) \div 100
      BY <2>1, <2>2
    <2> QED BY <1>4, <2>3, <2>4
  <1> QED BY <1>3, <1>4

\* What learning leaves of a flow, whose period it may fit.
Learned(flow, bound, P, sample) ==
  /\ flow \in MeasuredFlowType
  /\ flow.key = P.key /\ flow.first_arrival = P.first_arrival
  /\ flow.last_accepted = P.last_accepted /\ flow.last_tsval = P.last_tsval
  /\ flow.ticks = P.ticks /\ flow.windows = P.windows
  /\ flow.tick = fit_tick(P, sample.arrival - P.first_arrival)
  /\ flow.floor = flow_measure(bound, P, StandardTicks, sample).floor

\* A flow whose period is not known yet measures for every period.
LEMMA LearningFacts ==
  ASSUME NEW bound \in {NO_BOUND} \cup QueueBounds, NEW P \in MeasuredFlowType,
         NEW sample \in SampleType, NEW flow, flow = Learning(bound, P, sample)
  PROVE  Learned(flow, bound, P, sample)
  <1> DEFINE M == flow_measure(bound, P, StandardTicks, sample)
             tick == fit_tick(P, sample.arrival - P.first_arrival)
  <1>1. /\ M \in MeasuredFlowType
        /\ M.key = P.key /\ M.first_arrival = P.first_arrival
        /\ M.last_accepted = P.last_accepted /\ M.last_tsval = P.last_tsval
        /\ M.ticks = P.ticks /\ M.windows = P.windows
    BY MeasureFacts
  <1>2. sample.arrival - P.first_arrival \in Int BY DEF SampleType, MeasuredFlowType
  <1>3. tick \in {NOTHING} \cup StandardTicks BY <1>2, FitFacts
  <1>4. flow = [M EXCEPT !.tick = tick] BY DEF Learning
  <1> HIDE DEF M, tick
  <1>5. /\ flow \in MeasuredFlowType
        /\ flow.key = M.key /\ flow.first_arrival = M.first_arrival
        /\ flow.last_accepted = M.last_accepted /\ flow.last_tsval = M.last_tsval
        /\ flow.ticks = M.ticks /\ flow.windows = M.windows
        /\ flow.tick = tick /\ flow.floor = M.floor
    BY <1>1, <1>3, <1>4 DEF MeasuredFlowType
  <1> QED BY <1>1, <1>5 DEF Learned, M, tick

\* What is heard from a sample, in each direction it measures.
Entries(sample, delay, queue, truth) ==
  {[d |-> d, window |-> sample.arrival \div WINDOW, delay |-> delay[d], queue |-> queue[d],
    truth |-> truth[d]] : d \in Measured(sample)}

\* What windowing leaves of a flow, of which H was heard.
WindowedTrue(flow, M, H) ==
  /\ flow \in MeasuredFlowType /\ Logged(flow, H) /\ H \in SUBSET HeardType
  /\ flow.key = M.key /\ flow.first_arrival = M.first_arrival /\ flow.tick = M.tick
  /\ flow.last_accepted = M.last_accepted /\ flow.last_tsval = M.last_tsval
  /\ flow.ticks = M.ticks /\ flow.floor = M.floor

\* One whose period is known measures for it, and puts its queues into the windows.
LEMMA WindowedFacts ==
  ASSUME NEW M \in MeasuredFlowType, NEW sample \in SampleType,
         NEW H \in SUBSET HeardType, Logged(M, H), M.key \in FlowKeys,
         M.tick # NOTHING, M.last_accepted = sample.arrival,
         \A d \in Directions : M.windows[d].index <= sample.arrival \div WINDOW,
         NEW delay, NEW queue, NEW truth,
         \A d \in Measured(sample) : /\ delay[d] \in Nat /\ truth[d] \in Int
                                     /\ queue[d] = Queue(M, sample, d) /\ queue[d] \in Nat,
         NEW G, G = H \cup Entries(sample, delay, queue, truth),
         NEW flow, flow = Windowed(M, sample)
  PROVE  WindowedTrue(flow, M, G)
  <1> DEFINE now == sample.arrival \div WINDOW
             entry(d) == [d |-> d, window |-> now, delay |-> delay[d], queue |-> queue[d],
                          truth |-> truth[d]]
             window(d) == IF d \in Measured(sample)
                          THEN window_add(M.windows[d], queue[d], sample.arrival)
                          ELSE M.windows[d]
             windows == [d \in Directions |-> window(d)]
  <1>1. Measured(sample) \in SUBSET Directions BY DEF Measured, Directions
  <1>2. sample.arrival \in Nat /\ now \in Nat
    BY WindowsRise DEF SampleType
  <1>3. \A d \in Measured(sample) : entry(d) \in HeardType /\ queue[d] \in Nat
    BY <1>1, <1>2 DEF HeardType
  <1>4. G = H \cup {entry(d) : d \in Measured(sample)} BY DEF Entries
  <1>5. G \in SUBSET HeardType
    <2> HIDE DEF entry
    <2> QED BY <1>3, <1>4
  <1>6. ASSUME NEW d \in Directions
        PROVE  /\ window(d) \in WindowType /\ window(d).index <= now
               /\ Exact(window(d), Shown(G, d))
    <2> DEFINE w == M.windows[d]
               S == Shown(H, d)
    <2>1. w \in WindowType /\ S \in SUBSET HeardType /\ Exact(w, S) /\ w.index <= now
      BY DEF MeasuredFlowType, Logged, Shown
    <2>2. \A h \in S : h.queue \in Nat
      BY DEF Shown, HeardType
    <2>3. CASE d \in Measured(sample)
      <3> DEFINE h == entry(d)
      <3>1. h \in HeardType /\ h.queue \in Nat /\ h.window = sample.arrival \div WINDOW
            /\ h.queue = queue[d]
        BY <1>3, <2>3
      <3>2. Shown(G, d) = S \cup {h}
        <4>1. \A e \in Directions : entry(e).d = e /\ entry(e).queue = queue[e] OBVIOUS
        <4>2. \A e \in Measured(sample) : entry(e).queue # NOTHING BY <1>3, <4>1, EstimatorBounds
        <4> HIDE DEF entry
        <4> QED BY <1>1, <1>4, <2>3, <4>1, <4>2 DEF Shown
      <3>3. window(d) = window_add(w, h.queue, sample.arrival) BY <2>3, <3>1
      <3> HIDE DEF w, S, h, window, now
      <3>4. /\ window_add(w, h.queue, sample.arrival) \in WindowType
            /\ window_add(w, h.queue, sample.arrival).index = sample.arrival \div WINDOW
            /\ Exact(window_add(w, h.queue, sample.arrival), S \cup {h})
        BY <1>2, <2>1, <2>2, <3>1, WindowAdds DEF now
      <3>5. window(d) \in WindowType BY <3>3, <3>4
      <3>6. window(d).index <= now BY <1>2, <3>3, <3>4 DEF now
      <3>7. Exact(window(d), Shown(G, d)) BY <3>2, <3>3, <3>4
      <3> QED BY <3>5, <3>6, <3>7
    <2>4. CASE d \notin Measured(sample)
      <3>1. Shown(G, d) = S
        <4>1. \A e \in Directions : entry(e).d = e OBVIOUS
        <4> HIDE DEF entry
        <4> QED BY <1>1, <1>4, <2>4, <4>1 DEF Shown
      <3>2. window(d) = w BY <2>4
      <3> HIDE DEF window
      <3> QED BY <2>1, <3>1, <3>2
    <2> QED BY <2>3, <2>4
  <1>7. flow = [M EXCEPT !.windows = windows]
    <2>1. flow = [M EXCEPT !.windows = [d \in Directions |->
                    IF d \in Measured(sample)
                    THEN window_add(M.windows[d], Queue(M, sample, d), sample.arrival)
                    ELSE M.windows[d]]]
      BY DEF Windowed
    <2>2. \A d \in Directions :
            window(d) = IF d \in Measured(sample)
                        THEN window_add(M.windows[d], Queue(M, sample, d), sample.arrival)
                        ELSE M.windows[d]
      OBVIOUS
    <2> HIDE DEF window
    <2> QED BY <2>1, <2>2
  <1>8. windows \in [Directions -> WindowType] BY <1>6
  <1>9. \A d \in Directions : windows[d] = window(d) OBVIOUS
  <1> HIDE DEF windows, window, entry
  <1>10. /\ flow \in MeasuredFlowType /\ flow.windows = windows
         /\ flow.key = M.key /\ flow.first_arrival = M.first_arrival /\ flow.tick = M.tick
         /\ flow.last_accepted = M.last_accepted /\ flow.last_tsval = M.last_tsval
         /\ flow.ticks = M.ticks /\ flow.floor = M.floor
    BY <1>7, <1>8 DEF MeasuredFlowType
  <1>11. Logged(flow, G)
    <2>1. \A d \in Directions : /\ Exact(flow.windows[d], Shown(G, d))
                                /\ flow.windows[d].index <= flow.last_accepted \div WINDOW
      BY <1>6, <1>9, <1>10
    <2>2. flow.key # NOTHING BY <1>10, EstimatorBounds
    <2> QED BY <1>10, <2>1, <2>2 DEF Logged
  <1> QED BY <1>5, <1>10, <1>11 DEF WindowedTrue

\* Every queue that is measured is a natural number, since floors are under values.
LEMMA QueuesMeasured ==
  ASSUME NEW bound \in {NO_BOUND} \cup QueueBounds, NEW P \in MeasuredFlowType,
         P.tick \in StandardTicks, NEW sample \in SampleType,
         NEW M, M = flow_measure(bound, P, {P.tick}, sample)
  PROVE  \A d \in Measured(sample) :
           /\ Queue(M, sample, d) \in Nat
           /\ Value(M, P.tick, sample, d) = Value(P, P.tick, sample, d)
           /\ Queue(M, sample, d) = Value(P, P.tick, sample, d) - M.floor[d][P.tick].value
  <1> SUFFICES ASSUME NEW d \in Measured(sample)
               PROVE  /\ Queue(M, sample, d) \in Nat
                      /\ Value(M, P.tick, sample, d) = Value(P, P.tick, sample, d)
                      /\ Queue(M, sample, d)
                           = Value(P, P.tick, sample, d) - M.floor[d][P.tick].value
    OBVIOUS
  <1> DEFINE t == P.tick
             v == Value(P, t, sample, d)
             old == P.floor[d][t]
             new == floor_update(bound, old, v)
  <1>1. d \in Directions /\ t \in StandardTicks BY DEF Measured, Directions
  <1>2. /\ M.tick = t /\ M.first_arrival = P.first_arrival /\ M.ticks = P.ticks
        /\ M.floor[d][t] = new /\ v \in Int
    <2> DEFINE ticks == {t}
    <2>1. M = flow_measure(bound, P, ticks, sample) /\ t \in ticks OBVIOUS
    <2> HIDE DEF ticks, t
    <2>2. /\ M.tick = P.tick /\ M.first_arrival = P.first_arrival /\ M.ticks = P.ticks
          /\ M.floor[d][t] = IF t \in ticks /\ d \in Measured(sample)
                             THEN floor_update(bound, P.floor[d][t], Value(P, t, sample, d))
                             ELSE P.floor[d][t]
          /\ Value(P, t, sample, d) \in Int
      BY <1>1, <2>1, MeasureFacts
    <2> QED BY <2>1, <2>2 DEF t
  <1>3. old \in FloorType BY <1>1 DEF MeasuredFlowType
  <1>4. Value(M, t, sample, d) = v BY <1>2 DEF Value
  <1>5. Queue(M, sample, d) = v - M.floor[d][t].value BY <1>2, <1>4 DEF Queue
  <1> HIDE DEF v, old
  <1>6. new \in FloorType /\ new.value <= v BY <1>2, <1>3, FloorUnder
  <1> HIDE DEF new
  <1>7. new.value \in Int BY <1>6 DEF FloorType
  <1> QED BY <1>2, <1>4, <1>5, <1>6, <1>7 DEF v

\* What an accepted sample moves on in a flow that goes on.
MovedOn(flow, bound, F, sample) ==
  /\ flow.first_arrival = F.first_arrival /\ flow.last_tsval = sample.tsval
  /\ flow.last_accepted = sample.arrival
  /\ flow.ticks = F.ticks + Step(sample.tsval, F.last_tsval)
  /\ flow.tick = IF F.tick = NOTHING
                 THEN fit_tick(Progressed(F, sample), sample.arrival - F.first_arrival)
                 ELSE F.tick
  /\ flow.floor = flow_measure(bound, Progressed(F, sample),
                               IF F.tick = NOTHING THEN StandardTicks ELSE {F.tick},
                               sample).floor

\* What is logged of a sample: its queues are those of the flow that is left.
Entered(sample, F, flow, delay, queue, truth) ==
  \A d \in Measured(sample) :
     /\ delay[d] \in Nat /\ truth[d] \in Int
     /\ queue[d] = IF F.tick = NOTHING THEN NOTHING ELSE Queue(flow, sample, d)

\* What an accepted sample leaves: its flow begins anew, or goes on and is logged.
Added(flow, bound, F, sample, G) ==
  /\ flow \in MeasuredFlowType /\ flow.key = F.key /\ flow.last_accepted = sample.arrival
  /\ \/ /\ flow = flow_start(sample)
        /\ F.tick # NOTHING /\ F.first_arrival # sample.arrival
     \/ /\ MovedOn(flow, bound, F, sample)
        /\ G \in SUBSET HeardType /\ Logged(flow, G)

\* An accepted sample is logged: in the windows when its flow's period was known, or
\* by a flow that begins anew.
LEMMA AddedLogged ==
  ASSUME NEW bound \in {NO_BOUND} \cup QueueBounds, NEW F \in MeasuredFlowType,
         NEW H \in SUBSET HeardType, Logged(F, H), F.key \in FlowKeys,
         NEW sample \in SampleType, sample.key = F.key, Accepts(F, sample),
         NEW flow, flow = flow_add(bound, F, sample),
         NEW delay, NEW truth, NEW queue, Entered(sample, F, flow, delay, queue, truth),
         NEW G, G = H \cup Entries(sample, delay, queue, truth)
  PROVE  Added(flow, bound, F, sample, G)
  <1> SUFFICES /\ flow \in MeasuredFlowType /\ flow.key = F.key
               /\ flow.last_accepted = sample.arrival
               /\ \/ /\ flow = flow_start(sample)
                     /\ F.tick # NOTHING /\ F.first_arrival # sample.arrival
                  \/ /\ MovedOn(flow, bound, F, sample)
                     /\ G \in SUBSET HeardType /\ Logged(flow, G)
    BY DEF Added
  <1>0. \A d \in Measured(sample) :
          /\ delay[d] \in Nat /\ truth[d] \in Int
          /\ queue[d] = IF F.tick = NOTHING THEN NOTHING ELSE Queue(flow, sample, d)
    BY DEF Entered
  <1> DEFINE P == Progressed(F, sample)
             now == sample.arrival \div WINDOW
  <1>1. /\ P \in MeasuredFlowType
        /\ P.key = F.key /\ P.first_arrival = F.first_arrival /\ P.tick = F.tick
        /\ P.floor = F.floor /\ P.windows = F.windows
        /\ P.last_accepted = sample.arrival /\ P.last_tsval = sample.tsval
        /\ P.ticks = F.ticks + Step(sample.tsval, F.last_tsval)
    BY ProgressedFacts
  <1>2. /\ F.last_accepted \in Nat /\ sample.arrival \in Nat /\ F.first_arrival \in Nat
        /\ F.last_accepted <= sample.arrival /\ F.first_arrival <= F.last_accepted
        /\ (F.tick # NOTHING => F.first_arrival < F.last_accepted)
    BY DEF Accepts, MeasuredFlowType, SampleType, Logged
  <1>3. F.last_accepted \div WINDOW <= now /\ F.last_accepted \div WINDOW \in Nat /\ now \in Nat
    BY <1>2, WindowsRise
  <1>4. \A d \in Directions : /\ Exact(F.windows[d], Shown(H, d))
                              /\ F.windows[d].index \in Nat /\ F.windows[d].index <= now
    <2> SUFFICES ASSUME NEW d \in Directions
                 PROVE  /\ Exact(F.windows[d], Shown(H, d))
                        /\ F.windows[d].index \in Nat /\ F.windows[d].index <= now
      OBVIOUS
    <2>1. F.windows[d].index \in Nat BY DEF MeasuredFlowType, WindowType
    <2>2. Exact(F.windows[d], Shown(H, d)) /\ F.windows[d].index <= F.last_accepted \div WINDOW
      BY DEF Logged
    <2> HIDE DEF now
    <2> QED BY <1>3, <2>1, <2>2
  <1>5. Measured(sample) \in SUBSET Directions BY DEF Measured, Directions
  <1>6. F.key # NOTHING BY EstimatorBounds
  <1> HIDE DEF P
  <1>7. CASE F.tick = NOTHING
    <2>1. flow = Learning(bound, P, sample) BY <1>7 DEF flow_add, P
    <2>2. /\ flow \in MeasuredFlowType /\ flow.key = P.key
          /\ flow.first_arrival = P.first_arrival /\ flow.last_accepted = P.last_accepted
          /\ flow.windows = P.windows /\ flow.ticks = P.ticks /\ flow.last_tsval = P.last_tsval
          /\ flow.tick = fit_tick(P, sample.arrival - P.first_arrival)
          /\ flow.floor = flow_measure(bound, P, StandardTicks, sample).floor
      <3>1. Learned(flow, bound, P, sample) BY <1>1, <2>1, LearningFacts
      <3> QED BY <3>1 DEF Learned
    <2>3. sample.arrival - P.first_arrival \in Int BY <1>1, <1>2
    <2>4. flow.tick # NOTHING => sample.arrival - P.first_arrival >= TICK_SPAN
      BY <1>1, <2>2, <2>3, FitFacts
    <2> DEFINE entry(d) == [d |-> d, window |-> now, delay |-> delay[d], queue |-> queue[d],
                            truth |-> truth[d]]
    <2>5. G = H \cup {entry(d) : d \in Measured(sample)} BY DEF Entries
    <2>6. \A d \in Measured(sample) : entry(d) \in HeardType /\ entry(d).queue = NOTHING
      BY <1>0, <1>3, <1>5, <1>7 DEF HeardType
    <2> HIDE DEF entry
    <2>7. G \in SUBSET HeardType /\ \A d \in Directions : Shown(G, d) = Shown(H, d)
      BY <2>5, <2>6 DEF Shown
    <2>8. Logged(flow, G)
      <3>1. flow.first_arrival <= flow.last_accepted
            /\ (flow.tick # NOTHING => flow.first_arrival < flow.last_accepted)
        BY <1>1, <1>2, <2>2, <2>4, EstimatorBounds
      <3> QED BY <1>1, <1>4, <1>6, <2>2, <2>7, <3>1 DEF Logged
    <2>9. MovedOn(flow, bound, F, sample) BY <1>1, <1>7, <2>2 DEF MovedOn, P
    <2> QED BY <1>1, <2>2, <2>7, <2>8, <2>9
  <1>8. CASE F.tick # NOTHING
    <2> DEFINE M == flow_measure(bound, P, {P.tick}, sample)
    <2>1. /\ M \in MeasuredFlowType
          /\ M.key = P.key /\ M.first_arrival = P.first_arrival /\ M.tick = P.tick
          /\ M.last_accepted = P.last_accepted /\ M.windows = P.windows
          /\ M.ticks = P.ticks /\ M.last_tsval = P.last_tsval
      <3>1. OnlyFloors(M, P) BY <1>1, MeasureKeeps
      <3> QED BY <3>1 DEF OnlyFloors
    <2>2. flow = IF Implausible(M, sample) THEN flow_start(sample) ELSE Windowed(M, sample)
      BY <1>1, <1>8 DEF flow_add, Known, P
    <2>3. P.tick \in StandardTicks BY <1>1, <1>8 DEF MeasuredFlowType
    <2>4. \A d \in Measured(sample) : Queue(M, sample, d) \in Nat
      BY <1>1, <2>3, QueuesMeasured
    <2> HIDE DEF M
    <2>5. CASE Implausible(M, sample)
      <3>1. flow = flow_start(sample) BY <2>2, <2>5
      <3>2. F.first_arrival # sample.arrival BY <1>2, <1>8
      <3> QED BY <1>8, <3>1, <3>2, StartsLogged
    <2>6. CASE ~Implausible(M, sample)
      <3>1. flow = Windowed(M, sample) BY <2>2, <2>6
      <3>2. Logged(M, H)
        <4>1. M.first_arrival <= M.last_accepted /\ M.first_arrival < M.last_accepted
          BY <1>1, <1>2, <1>8, <2>1
        <4> QED BY <1>1, <1>4, <1>6, <2>1, <4>1 DEF Logged
      <3>3. \A d \in Directions : M.windows[d].index <= sample.arrival \div WINDOW
        BY <1>1, <1>4, <2>1
      <3>4. M.key \in FlowKeys /\ M.tick # NOTHING /\ M.last_accepted = sample.arrival
        BY <1>1, <1>8, <2>1
      <3>5. \A d \in Measured(sample) : Queue(flow, sample, d) = Queue(M, sample, d)
        <4>1. flow.tick = M.tick /\ flow.first_arrival = M.first_arrival
              /\ flow.ticks = M.ticks /\ flow.floor = M.floor
          BY <2>1, <3>1 DEF Windowed, MeasuredFlowType
        <4> QED BY <4>1 DEF Queue, Value
      <3>6. \A d \in Measured(sample) : /\ delay[d] \in Nat /\ truth[d] \in Int
                                        /\ queue[d] = Queue(M, sample, d) /\ queue[d] \in Nat
        BY <1>0, <1>8, <2>4, <3>5
      <3>7. WindowedTrue(flow, M, G)
        BY <2>1, <3>1, <3>2, <3>3, <3>4, <3>6, WindowedFacts
      <3>8. MovedOn(flow, bound, F, sample)
        BY <1>1, <1>8, <2>1, <3>7 DEF WindowedTrue, MovedOn, M, P
      <3> QED BY <1>1, <2>1, <3>7, <3>8 DEF WindowedTrue
    <2> QED BY <2>5, <2>6
  <1> QED BY <1>7, <1>8

-----------------------------------------------------------------------------
\* The slot of a flow is its own; else an unused one; else one that accepted a
\* sample longest ago (flow_for).
LEMMA SlotForFacts ==
  ASSUME NEW flows \in [Slots -> MeasuredFlowType], NEW key \in FlowKeys,
         NEW slot, slot = SlotFor(flows, key)
  PROVE  /\ slot \in Slots
         /\ \/ flows[slot].key = key
            \/ flows[slot].key = NOTHING
            \/ \A r \in Slots : flows[slot].last_accepted <= flows[r].last_accepted
  <1> DEFINE own == {s \in Slots : flows[s].key = key}
             unused == {s \in Slots : flows[s].key = NOTHING}
             oldest == {s \in Slots : \A r \in Slots :
                          flows[s].last_accepted <= flows[r].last_accepted}
             among == IF own # {} THEN own ELSE IF unused # {} THEN unused ELSE oldest
             times == {flows[r].last_accepted : r \in Slots}
  <1>1. slot = Min(among) BY DEF SlotFor
  <1>2. oldest # {}
    <2>1. times \in SUBSET Nat BY DEF MeasuredFlowType
    <2>2. times # {} BY EstimatorBounds
    <2> HIDE DEF times
    <2>3. Min(times) \in times /\ \A t \in times : Min(times) <= t BY <2>1, <2>2, MinIs
    <2>4. PICK s \in Slots : Min(times) = flows[s].last_accepted BY <2>3 DEF times
    <2>5. \A r \in Slots : flows[r].last_accepted \in times BY DEF times
    <2>6. \A r \in Slots : flows[s].last_accepted <= flows[r].last_accepted
      BY <2>3, <2>4, <2>5
    <2> QED BY <2>4, <2>6
  <1>3. among # {} /\ among \in SUBSET Nat /\ among \in SUBSET Slots
    BY <1>2, EstimatorBounds
  <1> HIDE DEF among
  <1>4. slot \in among BY <1>1, <1>3, MinIs
  <1> QED BY <1>3, <1>4 DEF among

\* The delays of a sample, and how much of them is above the least heard so far.
DelaysOf(sample, sent) ==
  [d \in Directions |-> IF d = "down" THEN sample.arrival - sent ELSE sent - sample.departure]
DelaysIn(H, d) == {h.delay : h \in {g \in H : g.d = d}}
TruthsOf(H, delay) ==
  [d \in Directions |-> delay[d] - Min({delay[d]} \cup DelaysIn(H, d))]
QueuesShown(flow, sample, unknown) ==
  [d \in Directions |-> IF unknown THEN NOTHING ELSE Queue(flow, sample, d)]

\* What becomes of a flow F, of which H was heard, when its sample comes.
Outcome(bound, F, H, sample, sent, flow, G) ==
  \/ ~Accepts(F, sample) /\ flow = F /\ G = H
  \/ flow = flow_start(sample) /\ G = {} /\ Accepts(F, sample)
  \/ /\ Accepts(F, sample) /\ MovedOn(flow, bound, F, sample)
     /\ G = H \cup Entries(sample, DelaysOf(sample, sent),
                           QueuesShown(flow, sample, F.tick = NOTHING),
                           TruthsOf(H, DelaysOf(sample, sent)))

\* A delay of a sample, those heard before it, and what of it is above the least.
DelaysTrue(H, sample, sent, delay, d) ==
  /\ d \in Directions /\ delay[d] \in Delays /\ delay[d] \in Nat
  /\ DelaysIn(H, d) \in SUBSET Nat
  /\ TruthsOf(H, delay)[d] = delay[d] - Min({delay[d]} \cup DelaysIn(H, d))
  /\ TruthsOf(H, delay)[d] \in Int

\* The delays of what a sample measures are those the network chose.
LEMMA DelaysFacts ==
  ASSUME NEW sample \in SampleType, NEW sent \in Nat, NEW H \in SUBSET HeardType,
         sample.arrival - sent \in Delays,
         sample.departure # NOTHING => sent - sample.departure \in Delays,
         NEW d \in Measured(sample), NEW delay, delay = DelaysOf(sample, sent)
  PROVE  DelaysTrue(H, sample, sent, delay, d)
  <1>1. d \in Directions /\ (d # "down" => sample.departure # NOTHING)
    BY DEF Measured, Directions
  <1>2. delay[d] = IF d = "down" THEN sample.arrival - sent ELSE sent - sample.departure
    BY <1>1 DEF DelaysOf
  <1>3. delay[d] \in Delays /\ delay[d] \in Nat BY <1>1, <1>2, EstimatorBounds
  <1>4. DelaysIn(H, d) \in SUBSET Nat BY DEF DelaysIn, HeardType
  <1> DEFINE A == {delay[d]} \cup DelaysIn(H, d)
  <1>5. A \in SUBSET Nat /\ A # {} BY <1>3, <1>4
  <1>6. TruthsOf(H, delay)[d] = delay[d] - Min(A) BY <1>1 DEF TruthsOf
  <1> HIDE DEF A
  <1>7. Min(A) \in A BY <1>5, MinIs
  <1>8. Min(A) \in Nat BY <1>5, <1>7
  <1> QED BY <1>1, <1>3, <1>4, <1>6, <1>8 DEF A, DelaysTrue

\* What a sample does to the table: one slot goes on, for the flow the sample is of.
SampledCase(slot, sample, sent, F, H, flow, G) ==
  /\ slot \in Slots /\ slot = SlotFor(estimator.flows, sample.key)
  /\ sample \in SampleType /\ sent \in Nat /\ sample.arrival - sent \in Delays
  /\ sample.departure # NOTHING => sent - sample.departure \in Delays
  /\ sample.tsval = RemoteTsval(sample.key, sent) /\ network.now <= sample.arrival
  /\ network' = [network EXCEPT !.now = sample.arrival, !.samples = network.samples + 1]
  /\ estimator' = [estimator EXCEPT !.flows = [estimator.flows EXCEPT ![slot] = flow]]
  /\ heard' = [heard EXCEPT ![slot] = G]
  /\ \/ F = estimator.flows[slot] /\ H = heard[slot] /\ F.key = sample.key
     \/ F = flow_start(sample) /\ H = {} /\ estimator.flows[slot].key # sample.key
  /\ Outcome(estimator.bound, F, H, sample, sent, flow, G)
  /\ flow \in MeasuredFlowType /\ G \in SUBSET HeardType /\ Logged(flow, G)
  /\ flow.key = sample.key /\ flow.last_accepted <= sample.arrival

\* A flow accepts the sample it starts with.
LEMMA StartAccepts ==
  ASSUME NEW sample \in SampleType
  PROVE  Accepts(flow_start(sample), sample) /\ Step(sample.tsval, sample.tsval) = 0
  <1>1. flow_start(sample).last_tsval = sample.tsval
        /\ flow_start(sample).last_accepted = sample.arrival
    BY StartsLogged
  <1>2. sample.tsval \in Int /\ sample.arrival \in Nat BY DEF SampleType
  <1> DEFINE T == TSVALS
  <1>3. T \in Nat /\ T >= 2 BY EstimatorBounds
  <1> HIDE DEF T
  <1>4. (T % T) = 0 /\ T \div 2 > 0 BY <1>3
  <1>5. sample.tsval + T - sample.tsval = T BY <1>2, <1>3
  <1>6. Step(sample.tsval, sample.tsval) = 0 BY <1>3, <1>4, <1>5 DEF Step, T
  <1> QED BY <1>1, <1>2, <1>6 DEF Accepts

\* Every sample is one of these cases.
LEMMA SampledCases ==
  ASSUME TableInv, NEW key \in FlowKeys, NEW gap \in Gaps, NEW down \in Delays,
         NEW up \in Delays \cup {NOTHING}, Sampled(key, gap, down, up)
  PROVE  \E slot, sample, sent, F, H, flow, G :
            SampledCase(slot, sample, sent, F, H, flow, G)
  <1> DEFINE arrival == network.now + gap
             sent == arrival - down
             sample == [key |-> key, arrival |-> arrival, tsval |-> RemoteTsval(key, sent),
                        departure |-> IF up = NOTHING THEN NOTHING ELSE sent - up]
             flows == flow_for(estimator.flows, sample)
             slot == SlotFor(estimator.flows, key)
             flow == flow_add(estimator.bound, flows[slot], sample)
             restarted == Accepts(flows[slot], sample) /\ flow.first_arrival = arrival
                          /\ flow.ticks = 0 /\ flows[slot].first_arrival # arrival
             started == estimator.flows[slot].key # key
             F == flows[slot]
             H == IF started THEN {} ELSE heard[slot]
             bound == estimator.bound
             delay == DelaysOf(sample, sent)
             queue == QueuesShown(flow, sample, F.tick = NOTHING)
             truth == TruthsOf(H, delay)
             entries == Entries(sample, delay, queue, truth)
             G == IF restarted THEN {}
                  ELSE IF Accepts(F, sample) THEN H \cup entries ELSE H
  <1>1. /\ estimator.bound \in {NO_BOUND} \cup QueueBounds
        /\ estimator.flows \in [Slots -> MeasuredFlowType]
        /\ network \in [periods : [FlowKeys -> StandardTicks], now : Nat, samples : Nat]
        /\ heard \in [Slots -> SUBSET HeardType]
    BY DEF TableInv, EstimatorTypeOK
  <1>2. /\ sent >= 0 /\ (up # NOTHING => sent - up >= 0)
        /\ network' = [network EXCEPT !.now = arrival, !.samples = network.samples + 1]
        /\ estimator' = [estimator EXCEPT !.flows = [flows EXCEPT ![slot] = flow]]
        /\ heard' = IF restarted THEN [heard EXCEPT ![slot] = {}]
                    ELSE IF Accepts(flows[slot], sample)
                    THEN Heard(slot, flow, sample, sent, started) ELSE heard
    BY DEF Sampled
  <1>3. gap \in Nat /\ down \in Nat /\ (up # NOTHING => up \in Delays /\ up \in Nat)
        /\ arrival \in Nat /\ sent \in Nat /\ network.now <= arrival
        /\ (up # NOTHING => sent - up \in Nat)
    BY <1>1, <1>2, EstimatorBounds
  <1>4. RemoteTsval(key, sent) \in Int
    <2> DEFINE n == sent \div network.periods[key]
    <2>1. network.periods[key] \in Nat \ {0} BY <1>1, EstimatorBounds
    <2>2. n \in Int BY <1>3, <2>1
    <2> HIDE DEF n
    <2> QED BY <2>2, EstimatorBounds DEF RemoteTsval, INITIAL_TSVAL, n
  <1>5. /\ sample \in SampleType /\ sample.key = key /\ sample.arrival = arrival
        /\ sample.tsval = RemoteTsval(key, sent)
        /\ sample.departure = IF up = NOTHING THEN NOTHING ELSE sent - up
    BY <1>3, <1>4 DEF SampleType
  <1>6. sample.arrival - sent \in Delays
        /\ (sample.departure # NOTHING => sent - sample.departure \in Delays)
    <2>1. arrival - sent = down BY <1>1, <1>3
    <2>2. up # NOTHING => sent - (sent - up) = up BY <1>3
    <2> QED BY <1>5, <2>1, <2>2
  <1> HIDE DEF sample, sent, arrival
  <1>7. slot \in Slots BY <1>1, SlotForFacts
  <1>8. flows = IF started THEN [estimator.flows EXCEPT ![slot] = flow_start(sample)]
                ELSE estimator.flows
    BY <1>5 DEF flow_for
  <1> HIDE DEF slot
  <1>9. \/ ~started /\ F = estimator.flows[slot] /\ H = heard[slot] /\ F.key = sample.key
        \/ started /\ F = flow_start(sample) /\ H = {} /\ estimator.flows[slot].key # sample.key
    BY <1>1, <1>5, <1>7, <1>8
  <1>10. estimator' = [estimator EXCEPT !.flows = [estimator.flows EXCEPT ![slot] = flow]]
    <2>1. [flows EXCEPT ![slot] = flow] = [estimator.flows EXCEPT ![slot] = flow]
      <3> HIDE DEF flow
      <3> QED BY <1>1, <1>7, <1>8
    <2> HIDE DEF flow, flows
    <2> QED BY <1>2, <2>1
  <1>11. /\ F \in MeasuredFlowType /\ H \in SUBSET HeardType /\ Logged(F, H)
         /\ F.key = sample.key /\ F.last_accepted <= sample.arrival
    <2>1. Logged(estimator.flows[slot], heard[slot])
          /\ estimator.flows[slot].last_accepted <= network.now
      BY <1>7 DEF TableInv
    <2>2. estimator.flows[slot] \in MeasuredFlowType /\ heard[slot] \in SUBSET HeardType
      BY <1>1, <1>7
    <2>3. estimator.flows[slot].last_accepted \in Nat BY <2>2 DEF MeasuredFlowType
    <2>4. ~started => F.last_accepted <= sample.arrival BY <1>1, <1>3, <1>5, <1>9, <2>1, <2>3
    <2>5. sample.arrival <= sample.arrival BY <1>3, <1>5
    <2> HIDE DEF F, H
    <2> QED BY <1>5, <1>9, <2>1, <2>2, <2>4, <2>5, StartsLogged
  <1>12. started => Accepts(F, sample)
    <2> HIDE DEF F, H, started
    <2> QED BY <1>5, <1>9, StartAccepts
  <1>13. F.tick = NOTHING <=> (estimator.flows[slot].tick = NOTHING \/ started)
    <2> HIDE DEF F, H, started
    <2> QED BY <1>5, <1>9, StartsLogged
  <1>14. Heard(slot, flow, sample, sent, started) = [heard EXCEPT ![slot] = H \cup entries]
    <2> DEFINE unknown == estimator.flows[slot].tick = NOTHING \/ started
               del(d) == IF d = "down" THEN sample.arrival - sent ELSE sent - sample.departure
               que(d) == IF unknown THEN NOTHING ELSE Queue(flow, sample, d)
               tru(d) == del(d) - Min({del(d)} \cup {h.delay : h \in {g \in H : g.d = d}})
               E == {[d |-> d, window |-> sample.arrival \div WINDOW, delay |-> del(d),
                      queue |-> que(d), truth |-> tru(d)] : d \in Measured(sample)}
    <2>1. Heard(slot, flow, sample, sent, started) = [heard EXCEPT ![slot] = H \cup E]
      <3> HIDE DEF flow, started, flows
      <3> QED BY DEF Heard
    <2>2. Measured(sample) \in SUBSET Directions BY DEF Measured, Directions
    <2> HIDE DEF F, H, started, flow
    <2>3. \A d \in Measured(sample) : del(d) = delay[d] /\ que(d) = queue[d] /\ tru(d) = truth[d]
      BY <1>13, <2>2 DEF DelaysOf, TruthsOf, QueuesShown, DelaysIn
    <2> HIDE DEF del, que, tru, delay, queue, truth
    <2>4. E = entries BY <2>3 DEF Entries
    <2> QED BY <2>1, <2>4
  <1>15. \A d \in Measured(sample) : /\ delay[d] \in Nat /\ truth[d] \in Int
                                     /\ queue[d] = IF F.tick = NOTHING THEN NOTHING
                                                   ELSE Queue(flow, sample, d)
    <2>1. Measured(sample) \in SUBSET Directions BY DEF Measured, Directions
    <2> HIDE DEF F, H, flow
    <2>2. \A d \in Measured(sample) : DelaysTrue(H, sample, sent, delay, d)
      BY <1>3, <1>5, <1>6, <1>11, DelaysFacts
    <2> HIDE DEF delay
    <2> QED BY <2>1, <2>2 DEF QueuesShown, DelaysTrue
  <1>16. CASE ~Accepts(F, sample)
    <2>1. ~started BY <1>12, <1>16
    <2>2. flow = F BY <1>16 DEF flow_add
    <2>3. heard' = heard /\ G = H BY <1>2, <1>16
    <2>4. heard' = [heard EXCEPT ![slot] = G] BY <1>1, <1>7, <1>9, <2>1, <2>3
    <2> HIDE DEF F, H, flow, G, started
    <2>5. Outcome(bound, F, H, sample, sent, flow, G) BY <1>16, <2>2, <2>3 DEF Outcome
    <2>6. SampledCase(slot, sample, sent, F, H, flow, G)
      BY <1>2, <1>3, <1>5, <1>6, <1>7, <1>9, <1>10, <1>11, <2>2, <2>3, <2>4, <2>5
      DEF SampledCase, slot
    <2> QED BY <2>6
  <1>17. CASE Accepts(F, sample)
    <2> DEFINE after == H \cup entries
    <2> HIDE DEF delay, truth, queue, entries
    <2>1. /\ flow \in MeasuredFlowType /\ flow.key = F.key
          /\ flow.last_accepted = sample.arrival
          /\ \/ /\ flow = flow_start(sample)
                /\ F.tick # NOTHING /\ F.first_arrival # sample.arrival
             \/ /\ MovedOn(flow, bound, F, sample)
                /\ after \in SUBSET HeardType /\ Logged(flow, after)
      <3>1. F.key \in FlowKeys /\ sample.key = F.key BY <1>5, <1>11
      <3>2. flow = flow_add(bound, F, sample) OBVIOUS
      <3>3. after = H \cup Entries(sample, delay, queue, truth) BY DEF entries
      <3>4. bound \in {NO_BOUND} \cup QueueBounds BY <1>1
      <3>5. /\ F \in MeasuredFlowType /\ H \in SUBSET HeardType /\ Logged(F, H)
            /\ sample \in SampleType /\ Accepts(F, sample)
        BY <1>5, <1>11, <1>17
      <3> HIDE DEF F, H, flow, after, bound, G
      <3>6. Entered(sample, F, flow, delay, queue, truth) BY <1>15 DEF Entered
      <3>7. Added(flow, bound, F, sample, after)
        BY ONLY <3>1, <3>2, <3>3, <3>4, <3>5, <3>6, AddedLogged
      <3> QED BY <3>7 DEF Added
    <2>2. flow.last_accepted <= sample.arrival BY <1>3, <1>5, <2>1
    <2>3. CASE restarted
      <3>1. flow = flow_start(sample)
        <4>1. ~MovedOn(flow, bound, F, sample) BY <1>5, <2>3 DEF MovedOn
        <4> HIDE DEF F, flow
        <4> QED BY <2>1, <4>1
      <3>2. G = {} /\ heard' = [heard EXCEPT ![slot] = G] BY <1>2, <2>3
      <3> HIDE DEF F, H, flow, G, started, restarted, flows
      <3>3. Outcome(bound, F, H, sample, sent, flow, G) BY <1>17, <3>1, <3>2 DEF Outcome
      <3>4. Logged(flow, G) /\ G \in SUBSET HeardType BY <1>5, <3>1, <3>2, StartsLogged
      <3>5. SampledCase(slot, sample, sent, F, H, flow, G)
        BY <1>2, <1>3, <1>5, <1>6, <1>7, <1>9, <1>10, <1>11, <2>1, <2>2, <3>2, <3>3, <3>4
        DEF SampledCase, slot
      <3> QED BY <3>5
    <2>4. CASE ~restarted
      <3>1. flow # flow_start(sample) \/ F.first_arrival = sample.arrival
        <4>1. flow = flow_start(sample) => flow.first_arrival = sample.arrival /\ flow.ticks = 0
          <5> HIDE DEF flow
          <5> QED BY <1>5, StartsLogged
        <4> QED BY <1>5, <1>17, <2>4, <4>1
      <3>2. MovedOn(flow, bound, F, sample) /\ after \in SUBSET HeardType /\ Logged(flow, after)
        <4> HIDE DEF F, flow
        <4> QED BY <2>1, <3>1
      <3>3. G = after /\ heard' = [heard EXCEPT ![slot] = G]
        BY <1>2, <1>14, <1>17, <2>4
      <3> HIDE DEF F, H, flow, G, started, restarted, flows
      <3>4. Outcome(bound, F, H, sample, sent, flow, G)
        BY <1>17, <3>2, <3>3 DEF Outcome, entries, delay, truth, queue
      <3>5. SampledCase(slot, sample, sent, F, H, flow, G)
        BY <1>2, <1>3, <1>5, <1>6, <1>7, <1>9, <1>10, <1>11, <2>1, <2>2, <3>2, <3>3, <3>4
        DEF SampledCase, slot
      <3> QED BY <3>5
    <2> QED BY <2>3, <2>4
  <1> QED BY <1>16, <1>17

\* The table starts empty.
LEMMA EstimatorStarts ==
  EstimatorInit => TableInv
  <1> SUFFICES ASSUME EstimatorInit PROVE TableInv
    OBVIOUS
  <1>1. /\ estimator = [bound |-> NO_BOUND, flows |-> [s \in Slots |-> UnusedFlow]]
        /\ network \in [periods : [FlowKeys -> StandardTicks], now : {0}, samples : {0}]
        /\ heard = [s \in Slots |-> {}]
    BY DEF EstimatorInit
  <1>2. UnusedFlow.last_accepted = 0 BY DEF UnusedFlow
  <1>3. EstimatorTypeOK BY <1>1, StartsLogged DEF EstimatorTypeOK
  <1>4. \A s \in Slots : /\ Logged(estimator.flows[s], heard[s])
                         /\ estimator.flows[s].last_accepted <= network.now
    <2>1. network.now = 0 BY <1>1
    <2>2. \A s \in Slots : estimator.flows[s] = UnusedFlow /\ heard[s] = {} BY <1>1
    <2>3. Logged(UnusedFlow, {}) /\ UnusedFlow.last_accepted <= 0 BY <1>2, StartsLogged
    <2> QED BY <2>1, <2>2, <2>3
  <1> QED BY <1>3, <1>4 DEF TableInv

\* What a sample leaves of the table, the network and the log.
SampledLeaves(slot, sample, flow, G) ==
  /\ TableInv' /\ estimator'.bound = estimator.bound
  /\ network'.periods = network.periods /\ network'.now = sample.arrival
  /\ estimator'.flows[slot] = flow /\ heard'[slot] = G
  /\ \A s \in Slots \ {slot} :
       estimator'.flows[s] = estimator.flows[s] /\ heard'[s] = heard[s]

\* A sample keeps the table, the network and the log typed, and its slot logged.
LEMMA SampledTable ==
  ASSUME TableInv, NEW slot, NEW sample, NEW sent, NEW F, NEW H, NEW flow, NEW G,
         SampledCase(slot, sample, sent, F, H, flow, G)
  PROVE  SampledLeaves(slot, sample, flow, G)
  <1>1. /\ estimator \in [bound : {NO_BOUND} \cup QueueBounds,
                          flows : [Slots -> MeasuredFlowType]]
        /\ network \in [periods : [FlowKeys -> StandardTicks], now : Nat, samples : Nat]
        /\ heard \in [Slots -> SUBSET HeardType]
    BY DEF TableInv, EstimatorTypeOK
  <1>2. /\ slot \in Slots /\ sample \in SampleType /\ network.now <= sample.arrival
        /\ network' = [network EXCEPT !.now = sample.arrival, !.samples = network.samples + 1]
        /\ estimator' = [estimator EXCEPT !.flows = [estimator.flows EXCEPT ![slot] = flow]]
        /\ heard' = [heard EXCEPT ![slot] = G]
        /\ flow \in MeasuredFlowType /\ G \in SUBSET HeardType /\ Logged(flow, G)
        /\ flow.last_accepted <= sample.arrival
    BY DEF SampledCase
  <1>3. sample.arrival \in Nat BY <1>2 DEF SampleType
  <1> DEFINE flows == [estimator.flows EXCEPT ![slot] = flow]
  <1>4. flows \in [Slots -> MeasuredFlowType]
        /\ \A s \in Slots : flows[s] = IF s = slot THEN flow ELSE estimator.flows[s]
    BY <1>1, <1>2
  <1>5. /\ network' \in [periods : [FlowKeys -> StandardTicks], now : Nat, samples : Nat]
        /\ network'.periods = network.periods /\ network'.now = sample.arrival
    <2> DEFINE now == sample.arrival
               samples == network.samples + 1
    <2>1. network' = [network EXCEPT !.now = now, !.samples = samples] BY <1>2
    <2>2. now \in Nat /\ samples \in Nat BY <1>1, <1>3
    <2> HIDE DEF now, samples
    <2>3. /\ network' \in [periods : [FlowKeys -> StandardTicks], now : Nat, samples : Nat]
          /\ network'.periods = network.periods /\ network'.now = now
      BY <1>1, <2>1, <2>2
    <2> QED BY <2>3 DEF now
  <1>6. /\ heard' \in [Slots -> SUBSET HeardType]
        /\ \A s \in Slots : heard'[s] = IF s = slot THEN G ELSE heard[s]
    BY <1>1, <1>2
  <1> HIDE DEF flows
  <1>7. /\ estimator' \in [bound : {NO_BOUND} \cup QueueBounds,
                           flows : [Slots -> MeasuredFlowType]]
        /\ estimator'.bound = estimator.bound /\ estimator'.flows = flows
    BY <1>1, <1>2, <1>4 DEF flows
  <1>8. ASSUME NEW s \in Slots
        PROVE  /\ Logged(estimator'.flows[s], heard'[s])
               /\ estimator'.flows[s].last_accepted <= network'.now
    <2>1. CASE s = slot BY <1>2, <1>4, <1>5, <1>6, <1>7, <2>1
    <2>2. CASE s # slot
      <3>1. Logged(estimator.flows[s], heard[s])
            /\ estimator.flows[s].last_accepted <= network.now
        BY DEF TableInv
      <3>2. estimator.flows[s].last_accepted \in Nat /\ network.now \in Nat
        BY <1>1 DEF MeasuredFlowType
      <3>3. estimator'.flows[s] = estimator.flows[s] /\ heard'[s] = heard[s]
            /\ network'.now = sample.arrival
        BY <1>4, <1>5, <1>6, <1>7, <2>2
      <3> QED BY <1>2, <1>3, <3>1, <3>2, <3>3
    <2> QED BY <2>1, <2>2
  <1>9. TableInv'
    <2>1. EstimatorTypeOK' BY <1>5, <1>6, <1>7 DEF EstimatorTypeOK
    <2> QED BY <1>8, <2>1 DEF TableInv
  <1> QED BY <1>2, <1>4, <1>5, <1>6, <1>7, <1>9 DEF SampledLeaves

\* What the estimator does: a bound is set, a sample comes, or nothing happens.
LEMMA EstimatorSteps ==
  ASSUME TableInv, [EstimatorNext]_estimatorVars
  PROVE  \/ /\ UNCHANGED <<network, heard>> /\ estimator'.flows = estimator.flows
            /\ estimator' \in [bound : {NO_BOUND} \cup QueueBounds,
                               flows : [Slots -> MeasuredFlowType]]
            /\ estimator'.bound = estimator.bound \/ estimator'.bound \in QueueBounds
         \/ \E slot, sample, sent, F, H, flow, G :
               SampledCase(slot, sample, sent, F, H, flow, G)
  <1>1. estimator \in [bound : {NO_BOUND} \cup QueueBounds, flows : [Slots -> MeasuredFlowType]]
    BY DEF TableInv, EstimatorTypeOK
  <1>2. CASE \E bound \in QueueBounds : SetBound(bound)
    <2>1. PICK bound \in QueueBounds : SetBound(bound) BY <1>2
    <2> QED BY <1>1, <2>1 DEF SetBound
  <1>3. CASE \E key \in FlowKeys, gap \in Gaps, down \in Delays, up \in Delays \cup {NOTHING} :
               Sampled(key, gap, down, up)
    BY <1>3, SampledCases
  <1>4. CASE UNCHANGED estimatorVars
    BY <1>1, <1>4 DEF estimatorVars
  <1> QED BY <1>2, <1>3, <1>4 DEF EstimatorNext

\* Every step keeps the table.
LEMMA TableKept ==
  ASSUME TableInv, [EstimatorNext]_estimatorVars
  PROVE  TableInv'
  <1>1. CASE /\ UNCHANGED <<network, heard>> /\ estimator'.flows = estimator.flows
             /\ estimator' \in [bound : {NO_BOUND} \cup QueueBounds,
                                flows : [Slots -> MeasuredFlowType]]
    BY <1>1 DEF TableInv, EstimatorTypeOK
  <1>2. CASE \E slot, sample, sent, F, H, flow, G :
                SampledCase(slot, sample, sent, F, H, flow, G)
    BY <1>2, SampledTable DEF SampledLeaves
  <1> QED BY <1>1, <1>2, EstimatorSteps

\* The table of flows is typed, every slot's times are in order, and its windows
\* hold the least queues of what was logged of its flow (tcpdelay_estimator_add).
THEOREM TableInvariance == EstimatorSpec => []TableInv
  <1>1. TableInv /\ [EstimatorNext]_estimatorVars => TableInv' BY TableKept
  <1> QED BY <1>1, EstimatorStarts, PTL DEF EstimatorSpec

\* What of a slot's log counts in a direction at a time.
Counted(s, d, now) ==
  {h \in heard[s] : /\ h.d = d /\ h.queue # NOTHING
                    /\ h.window \in {(now \div WINDOW) - 1, now \div WINDOW}}

\* What a slot's windows show at a time is what its log gives for it.
LEMMA SlotShows ==
  ASSUME TableInv, NEW s \in Slots, NEW d \in Directions, NEW now \in Nat, network.now <= now
  PROVE  window_result(estimator.flows[s].windows[d], now) =
           IF Counted(s, d, now) = {} THEN NOTHING
           ELSE Min({h.queue : h \in Counted(s, d, now)})
  <1> DEFINE counted == Counted(s, d, now)
             f == estimator.flows[s]
             H == Shown(heard[s], d)
             w == f.windows[d]
  <1>1. /\ f \in MeasuredFlowType /\ heard[s] \in SUBSET HeardType /\ network.now \in Nat
        /\ Logged(f, heard[s]) /\ f.last_accepted <= network.now
    BY DEF TableInv, EstimatorTypeOK
  <1> HIDE DEF f
  <1>2. /\ w \in WindowType /\ f.last_accepted \in Nat
        /\ Exact(w, H) /\ w.index <= f.last_accepted \div WINDOW
    BY <1>1 DEF MeasuredFlowType, Logged
  <1>3. H \in SUBSET HeardType /\ \A h \in H : h.queue \in Nat
    BY <1>1 DEF Shown, HeardType
  <1>4. w.index <= now \div WINDOW
    <2>1. f.last_accepted <= now BY <1>1, <1>2
    <2>2. /\ f.last_accepted \div WINDOW <= now \div WINDOW
          /\ f.last_accepted \div WINDOW \in Nat /\ now \div WINDOW \in Nat
      BY <1>2, <2>1, WindowsRise
    <2>3. w.index \in Nat BY <1>2 DEF WindowType
    <2> QED BY <1>2, <2>2, <2>3
  <1>5. counted = {h \in H : h.window \in {(now \div WINDOW) - 1, now \div WINDOW}}
    BY DEF Shown, Counted
  <1> HIDE DEF w, H, counted
  <1>6. window_result(w, now) = IF counted = {} THEN NOTHING ELSE Min({h.queue : h \in counted})
    BY <1>2, <1>3, <1>4, <1>5, WindowShows
  <1> QED BY <1>6 DEF w, f, counted

\* The table's windows are what WindowsExact says.
LEMMA TableExact ==
  TableInv => WindowsExact
  <1> SUFFICES ASSUME TableInv, NEW s \in Slots, NEW d \in Directions,
                      NEW now \in network.now .. network.now + 2 * WINDOW
               PROVE  LET index == now \div WINDOW
                          counted == {h \in heard[s]: /\ h.d = d /\ h.queue # NOTHING
                                                      /\ h.window \in {index - 1, index}}
                      IN window_result(estimator.flows[s].windows[d], now) =
                           IF counted = {} THEN NOTHING ELSE Min({h.queue: h \in counted})
    BY DEF WindowsExact
  <1>1. network.now \in Nat BY DEF TableInv, EstimatorTypeOK
  <1>2. now \in Nat /\ network.now <= now BY <1>1, EstimatorBounds
  <1>3. window_result(estimator.flows[s].windows[d], now) =
          IF Counted(s, d, now) = {} THEN NOTHING
          ELSE Min({h.queue : h \in Counted(s, d, now)})
    BY <1>2, SlotShows
  <1> QED BY <1>3 DEF Counted

\* A step evicts no flow whose queue can still be used, while another is staler.
LEMMA FreshStays ==
  ASSUME TableInv, [EstimatorNext]_estimatorVars, NEW s \in Slots,
         estimator'.flows[s].key # estimator.flows[s].key, s \in Fresh(network'.now)
  PROVE  \A r \in Slots : estimator.flows[r].last_accepted \div WINDOW
                            >= network'.now \div WINDOW - 1
  <1>1. PICK slot, sample, sent, F, H, flow, G : SampledCase(slot, sample, sent, F, H, flow, G)
    BY EstimatorSteps
  <1>2. SampledLeaves(slot, sample, flow, G) BY <1>1, SampledTable
  <1>3. /\ slot = s /\ network'.now = sample.arrival
        /\ estimator'.flows[s].key = sample.key /\ sample \in SampleType
        /\ slot = SlotFor(estimator.flows, sample.key) /\ network.now <= sample.arrival
    <2>1. slot = s BY <1>2 DEF SampledLeaves
    <2>2. network'.now = sample.arrival /\ estimator'.flows[s] = flow
      BY <1>2, <2>1 DEF SampledLeaves
    <2> QED BY <1>1, <2>1, <2>2 DEF SampledCase
  <1> DEFINE now == sample.arrival
             index == now \div WINDOW
             f == estimator.flows[s]
             w == f.windows["down"]
             counted == Counted(s, "down", now)
  <1>4. now \in Nat /\ sample.key \in FlowKeys BY <1>3 DEF SampleType
  <1>5. /\ estimator.flows \in [Slots -> MeasuredFlowType] /\ heard[s] \in SUBSET HeardType
        /\ Logged(f, heard[s])
    BY DEF TableInv, EstimatorTypeOK
  <1>6. counted # {}
    <2>1. window_result(w, now) # NOTHING BY <1>3 DEF Fresh
    <2>2. "down" \in Directions BY DEF Directions
    <2>3. window_result(w, now) = IF counted = {} THEN NOTHING ELSE Min({h.queue : h \in counted})
      BY <1>3, <1>4, <2>2, SlotShows
    <2> QED BY <2>1, <2>3
  <1>7. PICK h \in Shown(heard[s], "down") : h.window \in {index - 1, index}
    BY <1>6 DEF Shown, Counted
  <1>8. /\ h.window <= w.index /\ w.index <= f.last_accepted \div WINDOW
        /\ h.window \in Nat /\ w.index \in Nat /\ index \in Nat
        /\ f.last_accepted \in Nat /\ f.last_accepted \div WINDOW \in Nat
    <2>1. Exact(w, Shown(heard[s], "down")) /\ w.index <= f.last_accepted \div WINDOW
      BY <1>5 DEF Logged, Directions
    <2>2. f \in MeasuredFlowType BY <1>5
    <2>3. w.index \in Nat /\ f.last_accepted \in Nat
      BY <2>2 DEF MeasuredFlowType, WindowType, Directions
    <2>4. f.last_accepted \div WINDOW \in Nat /\ index \in Nat BY <1>4, <2>3, WindowsRise
    <2>5. h.window \in Nat BY <1>5 DEF Shown, HeardType
    <2>6. h.window <= w.index BY <2>1 DEF Exact
    <2> QED BY <2>1, <2>3, <2>4, <2>5, <2>6
  <1>9. f.last_accepted \div WINDOW >= index - 1 BY <1>7, <1>8
  <1>10. f.key # NOTHING
    <2>1. heard[s] # {} BY <1>6 DEF Counted
    <2> QED BY <1>5, <2>1 DEF Logged
  <1>11. \A r \in Slots : f.last_accepted <= estimator.flows[r].last_accepted
    <2>1. f.key # sample.key BY <1>3
    <2> QED BY <1>3, <1>4, <1>5, <1>10, <2>1, SlotForFacts
  <1>12. ASSUME NEW r \in Slots
         PROVE  estimator.flows[r].last_accepted \div WINDOW >= index - 1
    <2> DEFINE g == estimator.flows[r]
    <2>1. g.last_accepted \in Nat BY <1>5 DEF MeasuredFlowType
    <2>2. /\ f.last_accepted \div WINDOW <= g.last_accepted \div WINDOW
          /\ g.last_accepted \div WINDOW \in Nat
      BY <1>8, <1>11, <2>1, WindowsRise
    <2> HIDE DEF f, g, index
    <2> QED BY <1>8, <1>9, <2>2 DEF g
  <1> QED BY <1>3, <1>12

\* At any time the result windows of every slot hold the least queues logged of its
\* flow, and a flow whose queue can still be used keeps its slot as long as another
\* is staler (window_add, window_result, flow_for).
THEOREM WindowsAreExact == EstimatorSpec => []WindowsExact /\ FreshKept
  <1>1. TableInv /\ [EstimatorNext]_estimatorVars
          => [\A s \in Slots :
                (estimator'.flows[s].key # estimator.flows[s].key /\ s \in Fresh(network'.now))
                  => \A r \in Slots : estimator.flows[r].last_accepted \div WINDOW
                                        >= network'.now \div WINDOW - 1]_estimatorVars
    BY FreshStays
  <1>2. EstimatorSpec => []WindowsExact
    BY TableExact, TableInvariance, PTL
  <1>3. EstimatorSpec => FreshKept
    BY <1>1, TableInvariance, PTL DEF EstimatorSpec, FreshKept
  <1> QED BY <1>2, <1>3

-----------------------------------------------------------------------------
(* Estimator: the remote clock and the floors.                              *)

\* A remainder is known by where it lies.
LEMMA RemainderIs ==
  ASSUME NEW m \in Nat, m > 0, NEW q \in Int, NEW r \in 0 .. m - 1
  PROVE  (m * q + r) % m = r
  <1> DEFINE x == m * q + r
             k == (x \div m) - q
  <1>1. x \in Int /\ x \div m \in Int /\ x % m \in 0 .. m - 1
        /\ x = m * (x \div m) + (x % m)
    OBVIOUS
  <1>2. k \in Int /\ m * k = r - (x % m)
    <2>1. \A a, b \in Int : m * (a - b) = m * a - m * b OBVIOUS
    <2> QED BY <1>1, <2>1
  <1>3. r - (x % m) < m /\ r - (x % m) > -m BY <1>1
  <1>4. ~(k >= 1)
    <2>1. \A a \in Int : a >= 1 => m * a >= m OBVIOUS
    <2> HIDE DEF k
    <2> QED BY <1>1, <1>2, <1>3, <2>1
  <1>5. ~(k <= -1)
    <2>1. \A a \in Int : a <= -1 => m * a <= -m OBVIOUS
    <2> HIDE DEF k
    <2> QED BY <1>1, <1>2, <1>3, <2>1
  <1>6. k = 0 BY <1>2, <1>4, <1>5
  <1>7. m * 0 = 0 OBVIOUS
  <1> QED BY <1>1, <1>2, <1>6, <1>7

\* Multiples of the modulus do not count.
LEMMA RemainderKeeps ==
  ASSUME NEW m \in Nat, m > 0, NEW x \in Int, NEW k \in Int
  PROVE  (x + m * k) % m = x % m
  <1> DEFINE r == x % m
             q == x \div m
             n == q + k
  <1>1. q \in Int /\ r \in 0 .. m - 1 /\ x = m * q + r /\ n \in Int
    OBVIOUS
  <1>2. x + m * k = m * n + r
    <2>1. \A a, b \in Int : m * (a + b) = m * a + m * b OBVIOUS
    <2> HIDE DEF r, q
    <2>2. m * n = m * q + m * k BY <1>1, <2>1
    <2> HIDE DEF n
    <2>3. \A a, b, c, d \in Int : a = b + c => b + d + c = a + d OBVIOUS
    <2> QED BY <1>1, <2>2, <2>3
  <1> HIDE DEF r, n
  <1>3. (m * n + r) % m = r BY <1>1, RemainderIs
  <1> QED BY <1>2, <1>3 DEF r

\* The difference of two timestamps is that of the clock, when it is less than half
\* of what a timestamp can tell (struct tcpdelay_sample, RFC 7323).
LEMMA StepIs ==
  ASSUME NEW a \in Int, NEW b \in Int, a - b < TSVALS \div 2, b - a < TSVALS \div 2
  PROVE  Step(a % TSVALS, b % TSVALS) = a - b
  <1> DEFINE T == TSVALS
             h == T \div 2
             ra == a % T
             rb == b % T
             x == ra + T - rb
             qa == a \div T
             qb == b \div T
  <1>1. T \in Nat /\ T >= 2 /\ h \in Nat /\ h >= 1 /\ 2 * h <= T
    <2>1. T \in Nat /\ T >= 2 BY EstimatorBounds
    <2> HIDE DEF T
    <2> QED BY <2>1
  <1>2. a - b < h /\ b - a < h OBVIOUS
  <1> HIDE DEF T, h
  <1>3. /\ ra \in 0 .. T - 1 /\ rb \in 0 .. T - 1 /\ qa \in Int /\ qb \in Int
        /\ a = T * qa + ra /\ b = T * qb + rb
    BY <1>1
  <1> DEFINE k == qb - qa + 1
             k1 == qb - qa
  <1>4. x \in Int /\ k \in Int /\ k1 \in Int BY <1>1, <1>3
  <1>5. x = (a - b) + T * k /\ x = (a - b + T) + T * k1
    <2> HIDE DEF ra, rb, qa, qb
    <2>1. \A i, j \in Int : T * (i - j) = T * i - T * j /\ T * (i - j + 1) = T * i - T * j + T
      BY <1>1
    <2>2. T * k = T * qb - T * qa + T /\ T * k1 = T * qb - T * qa BY <1>3, <2>1
    <2> DEFINE u == T * qa
               v == T * qb
    <2>3. u \in Int /\ v \in Int BY <1>1, <1>3
    <2> HIDE DEF u, v, k, k1
    <2>4. a = u + ra /\ b = v + rb /\ T * k = v - u + T /\ T * k1 = v - u
      BY <1>3, <2>2 DEF u, v
    <2> QED BY <1>1, <1>3, <2>3, <2>4
  <1> HIDE DEF ra, rb, k, k1, x
  <1>6. CASE a - b >= 0
    <2> DEFINE d == a - b
    <2>1. d \in 0 .. T - 1 BY <1>1, <1>2, <1>6
    <2> HIDE DEF d
    <2>2. (d + T * k) % T = d % T BY <1>1, <1>4, <2>1, RemainderKeeps
    <2>3. d % T = d BY <1>1, <2>1
    <2>4. (x % T) = d BY <1>5, <2>2, <2>3 DEF d
    <2>5. Step(ra, rb) = IF (x % T) >= h THEN (x % T) - T ELSE (x % T) BY DEF Step, x, T, h
    <2>6. d < h /\ d \in Int BY <1>2, <2>1 DEF d
    <2>7. Step(ra, rb) = d BY <1>1, <2>4, <2>5, <2>6
    <2> QED BY <2>7 DEF ra, rb, d, T
  <1>7. CASE a - b < 0
    <2> DEFINE d == a - b + T
    <2>1. d \in 0 .. T - 1 BY <1>1, <1>2, <1>7
    <2> HIDE DEF d
    <2>2. (d + T * k1) % T = d % T BY <1>1, <1>4, <2>1, RemainderKeeps
    <2>3. d % T = d BY <1>1, <2>1
    <2>4. (x % T) = d BY <1>5, <2>2, <2>3 DEF d
    <2>5. Step(ra, rb) = IF (x % T) >= h THEN (x % T) - T ELSE (x % T) BY DEF Step, x, T, h
    <2>6. d >= h /\ d \in Int /\ d - T = a - b BY <1>1, <1>2, <2>1 DEF d
    <2>7. Step(ra, rb) = a - b BY <1>1, <2>4, <2>5, <2>6
    <2> QED BY <2>7 DEF ra, rb, T
  <1> QED BY <1>6, <1>7

\* How many ticks of a clock are between two times that are not far apart.
LEMMA TicksBetween ==
  ASSUME NEW p \in Nat \ {0}, NEW s \in Nat, NEW l \in Nat, NEW h \in Nat,
         s - l + p <= p * h, l - s + p <= p * h
  PROVE  /\ s \div p \in Int /\ l \div p \in Int
         /\ (s \div p) - (l \div p) < h /\ (l \div p) - (s \div p) < h
  <1> DEFINE x == s \div p
             y == l \div p
             rx == s % p
             ry == l % p
  <1>1. /\ x \in Nat /\ y \in Nat /\ rx \in 0 .. p - 1 /\ ry \in 0 .. p - 1
        /\ s = p * x + rx /\ l = p * y + ry
    OBVIOUS
  <1> HIDE DEF x, y, rx, ry
  <1>2. \A i, j \in Int : p * (i - j) = p * i - p * j OBVIOUS
  <1>3. \A i, j \in Int : i >= j => p * i >= p * j
    <2>1. \A i, j \in Int : i >= j => p * (i - j) >= 0 OBVIOUS
    <2> QED BY <1>2, <2>1
  <1> DEFINE px == p * x
             py == p * y
             ph == p * h
  <1>4. px \in Int /\ py \in Int /\ ph \in Int BY <1>1
  <1>5. /\ p * (x - y) = px - py /\ p * (y - x) = py - px
        /\ s = px + rx /\ l = py + ry /\ s - l + p <= ph /\ l - s + p <= ph
    BY <1>1, <1>2
  <1>6. (x - y >= h => p * (x - y) >= ph) /\ (y - x >= h => p * (y - x) >= ph)
    BY <1>1, <1>3
  <1> HIDE DEF px, py, ph
  <1>7. ~(x - y >= h)
    <2>1. px - py < ph BY <1>1, <1>4, <1>5
    <2> QED BY <1>4, <1>5, <1>6, <2>1
  <1>8. ~(y - x >= h)
    <2>1. py - px < ph BY <1>1, <1>4, <1>5
    <2> QED BY <1>4, <1>5, <1>6, <2>1
  <1> QED BY <1>1, <1>7, <1>8 DEF x, y

\* Only the true period fits what a flow of some span and as many ticks measures.
FitsAlone ==
  \A p, t \in StandardTicks, d, e \in Delays, span, n \in Nat :
    LET period == span \div n
    IN (/\ span >= TICK_SPAN /\ n # 0
        /\ (span - n * p) - (d - e) \in (1 - p) .. (p - 1)
        /\ (IF period > t THEN period - t ELSE t - period) <= (t * TICK_TOLERANCE) \div 100)
       => t = p

\* What a remote clock's rounding adds in a direction, and what a flow's first
\* sample does.
Slack(d, p) == IF d = "down" THEN 0 .. p - 1 ELSE (1 - p) .. 0
Offset(first, arrival, p, d) ==
  IF d = "down" THEN p * (first \div p) - arrival ELSE arrival - p * (first \div p)

\* A flow's ticks are those between what was sent first and last, and its period,
\* once known, is the true one.
Paced(f, p, first, last) ==
  /\ f.first_arrival - first \in Delays /\ f.last_accepted - last \in Delays
  /\ f.last_tsval = ((last \div p) + INITIAL_TSVAL) % TSVALS
  /\ f.ticks = (last \div p) - (first \div p)
  /\ f.tick \in {NOTHING, p}

\* The floors of the true period are the least delay heard, up to a tick.
FloorsNear(f, H, p, first) ==
  \A d \in Directions :
    /\ f.floor[d][p].valid <=> DelaysIn(H, d) # {}
    /\ DelaysIn(H, d) # {} =>
         (f.floor[d][p].value - Offset(first, f.first_arrival, p, d)) - Min(DelaysIn(H, d))
           \in Slack(d, p)

\* The queues heard are the true ones, up to a tick.
QueuesNear(H, p) ==
  \A h \in H : h.queue = NOTHING \/ h.queue - h.truth \in (1 - p) .. (p - 1)

Clocked(f, H, bound, p) ==
  \E first, last \in Nat :
    /\ Paced(f, p, first, last)
    /\ bound = NO_BOUND => FloorsNear(f, H, p, first) /\ QueuesNear(H, p)

ClockInv ==
  \A s \in Slots : estimator.flows[s].key # NOTHING =>
    Clocked(estimator.flows[s], heard[s], estimator.bound,
            network.periods[estimator.flows[s].key])

\* A time is its ticks and what is left of them.
LEMMA TicksOf ==
  ASSUME NEW p \in Nat \ {0}, NEW s \in Nat
  PROVE  /\ s \div p \in Nat /\ s % p \in 0 .. p - 1 /\ p * (s \div p) \in Nat
         /\ s = p * (s \div p) + (s % p)
  <1>1. s \div p \in Nat /\ s % p \in 0 .. p - 1 /\ s = p * (s \div p) + (s % p)
    OBVIOUS
  <1>2. \A i \in Nat : p * i \in Nat OBVIOUS
  <1> QED BY <1>1, <1>2

\* A value is the delay, but for the rounding and the first sample.
ValueNear(P, p, sample, first, sent, d) ==
  \E r \in Slack(d, p) :
     Value(P, p, sample, d)
       = DelaysOf(sample, sent)[d] + r + Offset(first, P.first_arrival, p, d)

\* The value a floor is compared with is near the delay.
LEMMA ValueIs ==
  ASSUME NEW p \in Nat \ {0}, NEW P \in MeasuredFlowType, NEW sample \in SampleType,
         NEW first \in Nat, NEW sent \in Nat,
         P.ticks = (sent \div p) - (first \div p), NEW d \in Measured(sample)
  PROVE  ValueNear(P, p, sample, first, sent, d)
  <1> DEFINE x == sent \div p
             y == first \div p
             X == p * x
             Y == p * y
             r == sent % p
             a == sample.arrival
             b == P.first_arrival
             c == sample.departure
             delay == DelaysOf(sample, sent)[d]
  <1>1. /\ x \in Nat /\ y \in Nat /\ X \in Nat /\ Y \in Nat /\ r \in 0 .. p - 1 /\ sent = X + r
    BY TicksOf
  <1>2. a \in Nat /\ b \in Nat /\ (d # "down" => c \in Nat) /\ d \in Directions
    BY DEF SampleType, MeasuredFlowType, Measured, Directions
  <1>3. delay = IF d = "down" THEN a - sent ELSE sent - c
    BY <1>2 DEF DelaysOf
  <1>4. P.ticks * p = X - Y
    <2>1. \A i, j \in Nat : (i - j) * p = p * i - p * j OBVIOUS
    <2> HIDE DEF x, y
    <2>2. (x - y) * p = p * x - p * y BY <1>1, <2>1
    <2> QED BY <2>2 DEF x, y
  <1>5. Value(P, p, sample, d) = IF d = "down" THEN (a - b) - (X - Y) ELSE (X - Y) - (c - b)
    BY <1>4 DEF Value
  <1>6. Offset(first, P.first_arrival, p, d) = IF d = "down" THEN Y - b ELSE b - Y
    BY DEF Offset
  <1> HIDE DEF x, y, X, Y, r, a, b, c, delay
  <1>7. CASE d = "down"
    <2>1. Value(P, p, sample, d) = delay + r + Offset(first, P.first_arrival, p, d)
      BY <1>1, <1>2, <1>3, <1>5, <1>6, <1>7
    <2>2. r \in Slack(d, p) BY <1>1, <1>7 DEF Slack
    <2> QED BY <2>1, <2>2 DEF delay, ValueNear
  <1>8. CASE d # "down"
    <2> DEFINE n == -r
    <2>1. n \in (1 - p) .. 0 /\ n = 0 - r BY <1>1
    <2> HIDE DEF n
    <2>2. Value(P, p, sample, d) = delay + n + Offset(first, P.first_arrival, p, d)
      <3>1. /\ delay = sent - c /\ Value(P, p, sample, d) = (X - Y) - (c - b)
            /\ Offset(first, P.first_arrival, p, d) = b - Y
        BY <1>3, <1>5, <1>6, <1>8
      <3>2. c \in Nat /\ b \in Nat /\ X \in Nat /\ Y \in Nat /\ r \in Nat BY <1>1, <1>2, <1>8
      <3>3. (X - Y) - (c - b) = (sent - c) + n + (b - Y) BY <1>1, <2>1, <3>2
      <3> QED BY <3>1, <3>3
    <2>3. n \in Slack(d, p) BY <1>8, <2>1 DEF Slack
    <2> QED BY <2>2, <2>3 DEF delay, ValueNear
  <1> QED BY <1>7, <1>8

\* Without a bound a floor stays the least delay up to a tick, and what is above it
\* is the queue there was.
LEMMA FloorNear ==
  ASSUME NEW p \in Nat \ {0}, NEW d \in Directions, NEW floor \in FloorType,
         NEW D \in SUBSET Nat, NEW offset \in Int, floor.valid <=> D # {},
         D # {} => (floor.value - offset) - Min(D) \in Slack(d, p),
         NEW delay \in Nat, NEW r \in Slack(d, p), NEW value, value = delay + r + offset,
         NEW new, new = floor_update(NO_BOUND, floor, value)
  PROVE  /\ new.valid /\ new.value \in Int
         /\ (new.value - offset) - Min({delay} \cup D) \in Slack(d, p)
         /\ (value - new.value) - (delay - Min({delay} \cup D)) \in (1 - p) .. (p - 1)
  <1> DEFINE lo == IF d = "down" THEN 0 ELSE 1 - p
             S == Slack(d, p)
             A == {delay} \cup D
             m == Min(A)
             v == IF ~floor.valid \/ value < floor.value THEN value ELSE floor.value
  <1>1. lo \in Int /\ S = lo .. lo + p - 1 BY DEF Slack
  <1>2. r \in S /\ r \in Int /\ value \in Int /\ floor.value \in Int
    BY <1>1 DEF FloorType
  <1>3. new = [valid |-> TRUE, value |-> v] BY DEF floor_update
  <1> HIDE DEF v
  <1>4. new.valid /\ new.value = v BY <1>3
  <1>5. A \in SUBSET Nat /\ A # {} OBVIOUS
  <1> HIDE DEF A, S, lo
  <1>6. m \in A /\ \A q \in A : m <= q BY <1>5, MinIs
  <1> HIDE DEF m
  <1>7. m \in Nat /\ m <= delay BY <1>5, <1>6 DEF A
  <1>8. v \in Int /\ (v - offset) - m \in S
    <2>1. CASE D = {}
      <3>1. v = value BY <2>1 DEF v
      <3>2. m = delay BY <1>6, <2>1 DEF A
      <3>3. (value - offset) - delay = r BY <1>2
      <3> QED BY <1>2, <3>1, <3>2, <3>3
    <2>2. CASE D # {}
      <3> DEFINE n == Min(D)
                 x == (floor.value - offset) - n
      <3>1. n \in D /\ (\A q \in D : n <= q) BY <2>2, MinIs
      <3>2. n \in Nat /\ x \in S BY <2>2, <3>1 DEF S
      <3>3. m = IF delay < n THEN delay ELSE n
        <4> HIDE DEF n
        <4>1. n \in A /\ delay \in A BY <3>1 DEF A
        <4>2. m = delay \/ m \in D BY <1>6 DEF A
        <4>3. m <= n /\ (m \in D => n <= m) BY <1>6, <3>1, <4>1
        <4> QED BY <1>7, <3>2, <4>2, <4>3
      <3>4. v = IF value < floor.value THEN value ELSE floor.value BY <2>2 DEF v
      <3>5. floor.value = n + x + offset /\ x \in Int BY <1>1, <1>2, <3>2
      <3> HIDE DEF n, x
      <3> QED BY <1>1, <1>2, <3>2, <3>3, <3>4, <3>5
    <2> QED BY <2>1, <2>2
  <1>9. (value - v) - (delay - m) \in (1 - p) .. (p - 1)
    <2> DEFINE x == (v - offset) - m
    <2>1. x \in lo .. lo + p - 1 /\ r \in lo .. lo + p - 1 BY <1>1, <1>2, <1>8
    <2>2. (value - v) - (delay - m) = r - x BY <1>2, <1>7, <1>8
    <2> HIDE DEF x
    <2> QED BY <1>1, <2>1, <2>2
  <1> QED BY <1>4, <1>8, <1>9 DEF S, m, A

\* What a sample that is accepted adds to a flow's ticks is what the clock did.
LEMMA MovesPaced ==
  ASSUME FitsAlone, NEW p \in StandardTicks, NEW F \in MeasuredFlowType,
         NEW first \in Nat, NEW last \in Nat, Paced(F, p, first, last),
         NEW sample \in SampleType, NEW sent \in Nat, sample.arrival - sent \in Delays,
         sample.tsval = ((sent \div p) + INITIAL_TSVAL) % TSVALS,
         sent - last + p <= p * (TSVALS \div 2), last - sent + p <= p * (TSVALS \div 2),
         Accepts(F, sample), NEW bound, NEW flow, MovedOn(flow, bound, F, sample)
  PROVE  /\ Paced(flow, p, first, sent)
         /\ Progressed(F, sample).ticks = (sent \div p) - (first \div p)
  <1> DEFINE P == Progressed(F, sample)
             x == sent \div p
             y == last \div p
             z == first \div p
             I == INITIAL_TSVAL
             n == P.ticks
  <1>1. /\ p \in Nat \ {0} /\ TSVALS \in Nat /\ TSVALS \div 2 \in Nat /\ I \in Int
        /\ TICK_SPAN \in Nat \ {0}
    <2> DEFINE T == TSVALS
    <2>1. T \in Nat BY EstimatorBounds
    <2> HIDE DEF T
    <2>2. T \div 2 \in Nat BY <2>1
    <2> QED BY <2>1, <2>2, EstimatorBounds DEF INITIAL_TSVAL, T
  <1>2. /\ x \in Nat /\ y \in Nat /\ z \in Nat BY <1>1, TicksOf
  <1>3. x - y < TSVALS \div 2 /\ y - x < TSVALS \div 2
    <2> DEFINE h == TSVALS \div 2
    <2>1. h \in Nat /\ sent - last + p <= p * h /\ last - sent + p <= p * h BY <1>1
    <2> HIDE DEF h
    <2>2. x - y < h /\ y - x < h BY <1>1, <2>1, TicksBetween
    <2> QED BY <2>2 DEF h
  <1>4. Step(sample.tsval, F.last_tsval) = x - y
    <2> DEFINE a == x + I
               b == y + I
    <2>1. sample.tsval = a % TSVALS /\ F.last_tsval = b % TSVALS BY DEF Paced
    <2> HIDE DEF x, y, I
    <2>2. a \in Int /\ b \in Int /\ a - b = x - y /\ b - a = y - x BY <1>1, <1>2
    <2> HIDE DEF a, b
    <2>3. Step(a % TSVALS, b % TSVALS) = a - b BY <1>3, <2>2, StepIs
    <2> QED BY <2>1, <2>2, <2>3
  <1>5. F.ticks = y - z BY DEF Paced
  <1>6. /\ P \in MeasuredFlowType /\ P.first_arrival = F.first_arrival
        /\ n = F.ticks + Step(sample.tsval, F.last_tsval)
    BY ProgressedFacts
  <1>7. n = x - z /\ n \in Nat
    <2>1. n \in Nat BY <1>6 DEF MeasuredFlowType
    <2> HIDE DEF n, x, y, z
    <2> QED BY <1>2, <1>4, <1>5, <1>6, <2>1
  <1>8. flow.tick \in {NOTHING, p}
    <2> DEFINE span == sample.arrival - F.first_arrival
               t == fit_tick(P, span)
    <2>1. /\ flow.tick = IF F.tick = NOTHING THEN t ELSE F.tick
          /\ F.tick \in {NOTHING, p}
      BY DEF MovedOn, Paced
    <2>2. sample.arrival \in Nat /\ F.first_arrival \in Nat /\ span \in Int
      BY DEF SampleType, MeasuredFlowType
    <2> HIDE DEF P, t
    <2>3. ASSUME t # NOTHING PROVE t = p
      <3> DEFINE d == sample.arrival - sent
                 e == F.first_arrival - first
                 period == span \div n
      <3>1. /\ t \in StandardTicks /\ span >= TICK_SPAN /\ n # 0
            /\ (IF period > t THEN period - t ELSE t - period) <= (t * TICK_TOLERANCE) \div 100
        BY <1>6, <2>2, <2>3, FitFacts DEF t
      <3>2. d \in Delays /\ e \in Delays BY DEF Paced
      <3>3. (span - n * p) - (d - e) \in (1 - p) .. (p - 1)
        <4> DEFINE rx == sent % p
                   rz == first % p
                   X == p * x
                   Z == p * z
        <4>1. /\ X \in Nat /\ Z \in Nat /\ rx \in 0 .. p - 1 /\ rz \in 0 .. p - 1
              /\ sent = X + rx /\ first = Z + rz
          BY <1>1, TicksOf
        <4>2. n * p = X - Z
          <5>1. \A i, j \in Nat : (i - j) * p = p * i - p * j BY <1>1
          <5> HIDE DEF x, z, n
          <5> QED BY <1>2, <1>7, <5>1
        <4> HIDE DEF rx, rz, X, Z, n
        <4>3. (span - (X - Z)) - (d - e) = rx - rz BY <2>2, <4>1
        <4> QED BY <1>1, <4>1, <4>2, <4>3
      <3>4. span \in Nat BY <1>1, <2>2, <3>1
      <3> HIDE DEF span, d, e, n
      <3> QED BY <1>7, <3>1, <3>2, <3>3, <3>4 DEF FitsAlone
    <2> QED BY <2>1, <2>3
  <1>9. /\ flow.first_arrival = F.first_arrival /\ flow.last_accepted = sample.arrival
        /\ flow.last_tsval = sample.tsval
        /\ flow.ticks = F.ticks + Step(sample.tsval, F.last_tsval)
    BY DEF MovedOn
  <1>10. Paced(flow, p, first, sent)
    <2>1. flow.first_arrival - first \in Delays BY <1>9 DEF Paced
    <2> QED BY <1>6, <1>7, <1>8, <1>9, <2>1 DEF Paced
  <1> QED BY <1>7, <1>10

\* The delays heard with a sample's.
DelaysGrown(H, sample, delay, G, d) ==
  DelaysIn(G, d) = IF d \in Measured(sample) THEN {delay[d]} \cup DelaysIn(H, d)
                   ELSE DelaysIn(H, d)

\* What is heard adds a delay in every direction it measures.
LEMMA DelaysGrow ==
  ASSUME NEW sample, NEW delay, NEW queue, NEW truth, NEW H, NEW d, NEW G,
         G = H \cup Entries(sample, delay, queue, truth)
  PROVE  DelaysGrown(H, sample, delay, G, d)
  <1> DEFINE entry(e) == [d |-> e, window |-> sample.arrival \div WINDOW, delay |-> delay[e],
                          queue |-> queue[e], truth |-> truth[e]]
  <1>1. G = H \cup {entry(e) : e \in Measured(sample)} BY DEF Entries
  <1>2. \A e : entry(e).d = e /\ entry(e).delay = delay[e] OBVIOUS
  <1>3. DelaysIn(G, d) = IF d \in Measured(sample) THEN {delay[d]} \cup DelaysIn(H, d)
                         ELSE DelaysIn(H, d)
    <2> HIDE DEF entry
    <2> QED BY <1>1, <1>2 DEF DelaysIn
  <1> QED BY <1>3 DEF DelaysGrown

\* What measuring leaves of the floors.
FloorsMeasured(M, bound, P, ticks, sample) ==
  \A d \in Directions, t \in StandardTicks :
    M.floor[d][t] = IF t \in ticks /\ d \in Measured(sample)
                    THEN floor_update(bound, P.floor[d][t], Value(P, t, sample, d))
                    ELSE P.floor[d][t]

\* Measuring updates the floors of its periods, in the directions of the sample.
LEMMA MeasureFloors ==
  ASSUME NEW bound \in {NO_BOUND} \cup QueueBounds, NEW P \in MeasuredFlowType,
         NEW ticks, NEW sample \in SampleType,
         NEW M, M = flow_measure(bound, P, ticks, sample)
  PROVE  FloorsMeasured(M, bound, P, ticks, sample)
  BY MeasureFacts DEF FloorsMeasured

\* The floors and the queues stay near the truth when a sample is accepted.
LEMMA MovesNear ==
  ASSUME NEW p \in StandardTicks, NEW F \in MeasuredFlowType, NEW H \in SUBSET HeardType,
         NEW first \in Nat, FloorsNear(F, H, p, first), QueuesNear(H, p),
         F.tick \in {NOTHING, p}, NEW sample \in SampleType, NEW sent \in Nat,
         sample.arrival - sent \in Delays,
         sample.departure # NOTHING => sent - sample.departure \in Delays,
         NEW P, P = Progressed(F, sample), P.ticks = (sent \div p) - (first \div p),
         Accepts(F, sample), NEW flow, MovedOn(flow, NO_BOUND, F, sample),
         NEW delay, delay = DelaysOf(sample, sent),
         NEW G, G = H \cup Entries(sample, delay, QueuesShown(flow, sample, F.tick = NOTHING),
                                   TruthsOf(H, delay))
  PROVE  FloorsNear(flow, G, p, first) /\ QueuesNear(G, p)
  <1>1. /\ sample \in SampleType /\ sent \in Nat /\ H \in SUBSET HeardType
        /\ sample.arrival - sent \in Delays
        /\ sample.departure # NOTHING => sent - sample.departure \in Delays
        /\ delay = DelaysOf(sample, sent)
    OBVIOUS
  <1>2. p \in Nat \ {0} /\ (F.tick # NOTHING => p = F.tick) BY EstimatorBounds
  <1>3. /\ P \in MeasuredFlowType /\ P.first_arrival = F.first_arrival /\ P.floor = F.floor
        /\ P.ticks = F.ticks + Step(sample.tsval, F.last_tsval)
    BY ProgressedFacts
  <1>4. ASSUME NEW d \in Measured(sample)
        PROVE  /\ d \in Directions /\ delay[d] \in Nat /\ DelaysIn(H, d) \in SUBSET Nat
               /\ TruthsOf(H, delay)[d] = delay[d] - Min({delay[d]} \cup DelaysIn(H, d))
    <2>1. d \in Measured(sample) OBVIOUS
    <2>2. DelaysTrue(H, sample, sent, delay, d) BY ONLY <1>1, <2>1, DelaysFacts
    <2> QED BY <2>2 DEF DelaysTrue
  <1>5. ASSUME NEW d \in Measured(sample)
        PROVE  \E r \in Slack(d, p) :
                 Value(P, p, sample, d) = delay[d] + r + Offset(first, P.first_arrival, p, d)
    <2>1. d \in Measured(sample) /\ first \in Nat /\ P.ticks = (sent \div p) - (first \div p)
      OBVIOUS
    <2>2. p \in Nat \ {0} BY <1>2
    <2>3. ValueNear(P, p, sample, first, sent, d) BY ONLY <1>1, <1>3, <2>1, <2>2, ValueIs
    <2> QED BY <1>1, <2>3 DEF ValueNear
  <1>6. ASSUME NEW d PROVE DelaysGrown(H, sample, delay, G, d)
    BY DelaysGrow
  <1> DEFINE ticks == IF F.tick = NOTHING THEN StandardTicks ELSE {F.tick}
             M == flow_measure(NO_BOUND, P, ticks, sample)
             queue == QueuesShown(flow, sample, F.tick = NOTHING)
             truth == TruthsOf(H, delay)
             offset(d) == Offset(first, F.first_arrival, p, d)
             value(d) == Value(P, p, sample, d)
             new(d) == flow.floor[d][p]
             old(d) == F.floor[d][p]
             least(d) == Min({delay[d]} \cup DelaysIn(H, d))
  <1>7. \A d \in Directions :
          new(d) = IF d \in Measured(sample) THEN floor_update(NO_BOUND, old(d), value(d))
                   ELSE old(d)
    <2>1. flow.floor = M.floor BY DEF MovedOn
    <2>2. NO_BOUND \in {NO_BOUND} \cup QueueBounds /\ p \in ticks BY <1>2
    <2>3. M = flow_measure(NO_BOUND, P, ticks, sample) OBVIOUS
    <2> HIDE DEF ticks, M, queue, truth, offset, least
    <2>4. FloorsMeasured(M, NO_BOUND, P, ticks, sample)
      BY <1>3, <2>2, <2>3, MeasureFloors
    <2>5. \A d \in Directions :
            M.floor[d][p] = IF p \in ticks /\ d \in Measured(sample)
                            THEN floor_update(NO_BOUND, P.floor[d][p], Value(P, p, sample, d))
                            ELSE P.floor[d][p]
      BY <2>4 DEF FloorsMeasured
    <2> QED BY <1>3, <2>1, <2>2, <2>5
  <1>8. flow.first_arrival = F.first_arrival /\ flow.ticks = P.ticks BY <1>3 DEF MovedOn
  <1>9. ASSUME NEW d \in Measured(sample)
        PROVE  /\ d \in Directions /\ new(d).valid
               /\ (new(d).value - offset(d)) - least(d) \in Slack(d, p)
               /\ (value(d) - new(d).value) - truth[d] \in (1 - p) .. (p - 1)
    <2> DEFINE D == DelaysIn(H, d)
               x == delay[d]
    <2>1. /\ d \in Directions /\ x \in Nat /\ D \in SUBSET Nat
          /\ truth[d] = x - Min({x} \cup D)
      BY <1>4
    <2>2. PICK r \in Slack(d, p) : value(d) = x + r + Offset(first, P.first_arrival, p, d)
      BY <1>5
    <2>3. offset(d) \in Int
      <3>1. p * (first \div p) \in Nat BY <1>2, TicksOf
      <3>2. F.first_arrival \in Nat BY DEF MeasuredFlowType
      <3> QED BY <3>1, <3>2 DEF Offset
    <2>4. /\ old(d) \in FloorType /\ (old(d).valid <=> D # {})
          /\ D # {} => (old(d).value - offset(d)) - Min(D) \in Slack(d, p)
      BY <2>1 DEF FloorsNear, MeasuredFlowType
    <2>5. new(d) = floor_update(NO_BOUND, old(d), value(d)) BY <1>7, <2>1
    <2>6. value(d) = x + r + offset(d) BY <1>3, <2>2
    <2> HIDE DEF D, x, offset, value, old, new, truth
    <2>7. /\ new(d).valid
          /\ (new(d).value - offset(d)) - Min({x} \cup D) \in Slack(d, p)
          /\ (value(d) - new(d).value) - (x - Min({x} \cup D)) \in (1 - p) .. (p - 1)
      <3>1. p \in Nat \ {0} BY <1>2
      <3> DEFINE o == offset(d)
                 v == value(d)
                 n == new(d)
                 f == old(d)
      <3>2. /\ r \in Slack(d, p) /\ o \in Int /\ f \in FloorType /\ v = x + r + o
            /\ n = floor_update(NO_BOUND, f, v) /\ (f.valid <=> D # {})
            /\ D # {} => (f.value - o) - Min(D) \in Slack(d, p)
        BY <2>2, <2>3, <2>4, <2>5, <2>6
      <3> HIDE DEF o, v, n, f
      <3>3. /\ n.valid /\ (n.value - o) - Min({x} \cup D) \in Slack(d, p)
            /\ (v - n.value) - (x - Min({x} \cup D)) \in (1 - p) .. (p - 1)
        BY ONLY <2>1, <3>1, <3>2, FloorNear
      <3> QED BY <3>3 DEF o, v, n, f
    <2> QED BY <2>1, <2>7 DEF D, x
  <1>10. ASSUME NEW d
        PROVE  DelaysIn(G, d) = IF d \in Measured(sample)
                                THEN {delay[d]} \cup DelaysIn(H, d) ELSE DelaysIn(H, d)
    BY <1>6 DEF DelaysGrown
  <1>11. FloorsNear(flow, G, p, first)
    <2> SUFFICES ASSUME NEW d \in Directions
                 PROVE  /\ new(d).valid <=> DelaysIn(G, d) # {}
                        /\ DelaysIn(G, d) # {} =>
                             (new(d).value - offset(d)) - Min(DelaysIn(G, d)) \in Slack(d, p)
      BY <1>8 DEF FloorsNear
    <2>1. CASE d \in Measured(sample)
      <3>1. DelaysIn(G, d) = {delay[d]} \cup DelaysIn(H, d) BY <1>10, <2>1
      <3> HIDE DEF new, offset
      <3> QED BY <1>9, <2>1, <3>1
    <2>2. CASE d \notin Measured(sample)
      <3>1. DelaysIn(G, d) = DelaysIn(H, d) BY <1>10, <2>2
      <3>2. new(d) = old(d) BY <1>7, <2>2
      <3>3. /\ old(d).valid <=> DelaysIn(H, d) # {}
            /\ DelaysIn(H, d) # {} =>
                 (old(d).value - offset(d)) - Min(DelaysIn(H, d)) \in Slack(d, p)
        BY DEF FloorsNear
      <3> HIDE DEF new, old, offset
      <3> QED BY <3>1, <3>2, <3>3
    <2> QED BY <2>1, <2>2
  <1>12. QueuesNear(G, p)
    <2> DEFINE entry(d) == [d |-> d, window |-> sample.arrival \div WINDOW, delay |-> delay[d],
                            queue |-> queue[d], truth |-> truth[d]]
    <2>1. G = H \cup {entry(d) : d \in Measured(sample)} BY DEF Entries
    <2>2. ASSUME NEW d \in Measured(sample), queue[d] # NOTHING
          PROVE  queue[d] - truth[d] \in (1 - p) .. (p - 1)
      <3>1. d \in Directions BY <1>9
      <3>2. F.tick # NOTHING /\ queue[d] = Queue(flow, sample, d)
        BY <2>2, <3>1 DEF QueuesShown
      <3>3. F.tick = p BY <3>2
      <3>4. flow.tick = p BY <3>2, <3>3 DEF MovedOn
      <3>5. Value(flow, p, sample, d) = value(d) BY <1>3, <1>8 DEF Value
      <3>6. queue[d] = value(d) - new(d).value BY <3>2, <3>4, <3>5 DEF Queue
      <3> HIDE DEF queue, truth, value, new
      <3> QED BY <1>9, <3>6
    <2>3. \A d : entry(d).queue = queue[d] /\ entry(d).truth = truth[d] OBVIOUS
    <2> HIDE DEF entry, queue, truth
    <2> QED BY <2>1, <2>2, <2>3 DEF QueuesNear
  <1> QED BY <1>11, <1>12

\* A flow that goes on accepts a sample within half the range of its remote clock.
Timely ==
  \A s \in Slots, d \in Delays :
    LET flow == estimator.flows[s]
        p == network.periods[flow.key]
        then == estimator'.flows[s]
    IN flow.key \in FlowKeys /\ then.key = flow.key =>
         (then.last_accepted - flow.last_accepted) + d + p <= p * (TSVALS \div 2)

\* A flow that starts with a sample was sent it first and last.
LEMMA StartPaced ==
  ASSUME NEW p \in StandardTicks, NEW sample \in SampleType, NEW sent \in Nat,
         sample.arrival - sent \in Delays,
         sample.tsval = ((sent \div p) + INITIAL_TSVAL) % TSVALS,
         NEW flow, flow = flow_start(sample)
  PROVE  /\ Paced(flow, p, sent, sent) /\ FloorsNear(flow, {}, p, sent) /\ QueuesNear({}, p)
         /\ sent - sent + p <= p * (TSVALS \div 2)
  <1>1. /\ flow.first_arrival = sample.arrival /\ flow.last_accepted = sample.arrival
        /\ flow.last_tsval = sample.tsval /\ flow.ticks = 0 /\ flow.tick = NOTHING
        /\ flow.floor = [d \in Directions |-> [t \in StandardTicks |-> UnknownFloor]]
    BY StartsLogged
  <1>2. p \in Nat \ {0} BY EstimatorBounds
  <1>3. sent \div p \in Nat BY <1>2
  <1>4. Paced(flow, p, sent, sent)
    <2> DEFINE x == sent \div p
    <2> HIDE DEF x
    <2>1. x - x = 0 BY <1>3 DEF x
    <2> QED BY <1>1, <2>1 DEF Paced, x
  <1>5. \A d \in Directions : ~flow.floor[d][p].valid /\ DelaysIn({}, d) = {}
    BY <1>1 DEF UnknownFloor, DelaysIn
  <1>6. FloorsNear(flow, {}, p, sent) BY <1>5 DEF FloorsNear
  <1>7. QueuesNear({}, p) BY DEF QueuesNear
  <1>8. sent - sent + p <= p * (TSVALS \div 2)
    <2> DEFINE h == TSVALS \div 2
    <2>1. h \in Nat /\ h >= 1
      <3> DEFINE T == TSVALS
      <3>1. T \in Nat /\ T >= 2 BY EstimatorBounds
      <3> HIDE DEF T
      <3>2. T \div 2 \in Nat /\ T \div 2 >= 1 BY <3>1
      <3> QED BY <3>2 DEF T
    <2> HIDE DEF h
    <2>2. \A i \in Nat : i >= 1 => p <= p * i BY <1>2
    <2>3. p <= p * h BY <2>1, <2>2
    <2>4. p * h \in Nat /\ sent - sent + p = p BY <1>2, <2>1
    <2> QED BY <2>3, <2>4 DEF h
  <1> QED BY <1>4, <1>6, <1>7, <1>8

\* What a sample leaves of its flow keeps the remote clock's pace.
LEMMA OutcomeClocked ==
  ASSUME FitsAlone, NEW p \in StandardTicks, NEW F \in MeasuredFlowType,
         NEW H \in SUBSET HeardType, NEW bound \in {NO_BOUND} \cup QueueBounds,
         NEW first \in Nat, NEW last \in Nat, Paced(F, p, first, last),
         bound = NO_BOUND => FloorsNear(F, H, p, first) /\ QueuesNear(H, p),
         NEW sample \in SampleType, NEW sent \in Nat, sample.arrival - sent \in Delays,
         sample.departure # NOTHING => sent - sample.departure \in Delays,
         sample.tsval = ((sent \div p) + INITIAL_TSVAL) % TSVALS,
         NEW flow, NEW G, Outcome(bound, F, H, sample, sent, flow, G),
         MovedOn(flow, bound, F, sample) /\ Accepts(F, sample) =>
           /\ sent - last + p <= p * (TSVALS \div 2)
           /\ last - sent + p <= p * (TSVALS \div 2)
  PROVE  Clocked(flow, G, bound, p)
  <1>1. CASE flow = F /\ G = H
    BY <1>1 DEF Clocked
  <1>2. CASE flow = flow_start(sample) /\ G = {}
    BY <1>2, StartPaced DEF Clocked
  <1>3. CASE /\ Accepts(F, sample) /\ MovedOn(flow, bound, F, sample)
             /\ G = H \cup Entries(sample, DelaysOf(sample, sent),
                                   QueuesShown(flow, sample, F.tick = NOTHING),
                                   TruthsOf(H, DelaysOf(sample, sent)))
    <2> DEFINE P == Progressed(F, sample)
    <2>1. Paced(flow, p, first, sent) /\ P.ticks = (sent \div p) - (first \div p)
      BY <1>3, MovesPaced
    <2>2. F.tick \in {NOTHING, p} BY DEF Paced
    <2>3. ASSUME bound = NO_BOUND PROVE FloorsNear(flow, G, p, first) /\ QueuesNear(G, p)
      <3>1. MovedOn(flow, NO_BOUND, F, sample) BY <1>3, <2>3
      <3>2. FloorsNear(F, H, p, first) /\ QueuesNear(H, p) BY <2>3
      <3> DEFINE delay == DelaysOf(sample, sent)
      <3>3. G = H \cup Entries(sample, delay, QueuesShown(flow, sample, F.tick = NOTHING),
                               TruthsOf(H, delay))
        BY <1>3
      <3>4. P = Progressed(F, sample) /\ delay = DelaysOf(sample, sent) OBVIOUS
      <3> HIDE DEF P, delay
      <3> QED BY <1>3, <2>1, <2>2, <3>1, <3>2, <3>3, <3>4, MovesNear
    <2> QED BY <2>1, <2>3 DEF Clocked
  <1> QED BY <1>1, <1>2, <1>3 DEF Outcome

\* A timely sample comes within half the range of the clock.
LEMMA TimelyFacts ==
  ASSUME NEW p \in Nat, NEW h \in Nat, NEW then \in Nat, NEW a \in Nat, then <= a,
         NEW last \in Nat, NEW sent \in Nat, then - last \in Delays, a - sent \in Delays,
         \A d \in Delays : (a - then) + d + p <= p * h
  PROVE  sent - last + p <= p * h /\ last - sent + p <= p * h
  <1> DEFINE d == then - last
             e == a - sent
             n == p * h
  <1>1. d \in Nat /\ e \in Nat /\ d \in Delays /\ e \in Delays /\ n \in Nat
    BY EstimatorBounds
  <1>2. (a - then) + d + p <= n /\ (a - then) + e + p <= n BY <1>1
  <1>3. sent - last = (a - then) + d - e /\ last - sent = e - d - (a - then) OBVIOUS
  <1> HIDE DEF d, e, n
  <1>4. sent - last + p <= n /\ last - sent + p <= n BY <1>1, <1>2, <1>3
  <1> QED BY <1>4 DEF n

\* The clocks of all flows are kept by every timely step.
LEMMA ClockKept ==
  ASSUME FitsAlone, TableInv, ClockInv, [EstimatorNext]_estimatorVars,
         Timely \/ UNCHANGED estimatorVars
  PROVE  ClockInv'
  <1>1. /\ estimator.bound \in {NO_BOUND} \cup QueueBounds
        /\ estimator.flows \in [Slots -> MeasuredFlowType]
        /\ network \in [periods : [FlowKeys -> StandardTicks], now : Nat, samples : Nat]
        /\ heard \in [Slots -> SUBSET HeardType]
    BY DEF TableInv, EstimatorTypeOK
  <1>2. CASE /\ UNCHANGED <<network, heard>> /\ estimator'.flows = estimator.flows
             /\ estimator'.bound = estimator.bound \/ estimator'.bound \in QueueBounds
    <2>1. estimator'.bound = NO_BOUND => estimator.bound = NO_BOUND
      BY <1>2, EstimatorBounds
    <2>2. \A f, H, p : Clocked(f, H, estimator.bound, p) => Clocked(f, H, estimator'.bound, p)
      BY <2>1 DEF Clocked
    <2> QED BY <1>2, <2>2 DEF ClockInv
  <1>3. ASSUME NEW slot, NEW sample, NEW sent, NEW F, NEW H, NEW flow, NEW G,
               SampledCase(slot, sample, sent, F, H, flow, G)
        PROVE  ClockInv'
    <2> DEFINE bound == estimator.bound
               p == network.periods[sample.key]
               h == TSVALS \div 2
    <2>1. SampledLeaves(slot, sample, flow, G) BY <1>3, SampledTable
    <2>2. /\ slot \in Slots /\ sample \in SampleType /\ sent \in Nat
          /\ sample.arrival - sent \in Delays
          /\ sample.departure # NOTHING => sent - sample.departure \in Delays
          /\ sample.tsval = RemoteTsval(sample.key, sent) /\ network.now <= sample.arrival
          /\ \/ F = estimator.flows[slot] /\ H = heard[slot] /\ F.key = sample.key
             \/ F = flow_start(sample) /\ H = {} /\ estimator.flows[slot].key # sample.key
          /\ Outcome(bound, F, H, sample, sent, flow, G) /\ flow.key = sample.key
      BY <1>3 DEF SampledCase
    <2>3. sample.key \in FlowKeys /\ sample.key # NOTHING /\ sample.arrival \in Nat
          /\ p \in StandardTicks /\ p \in Nat
      BY <1>1, <2>2, EstimatorBounds DEF SampleType
    <2>4. h \in Nat
      <3> DEFINE T == TSVALS
      <3>1. T \in Nat BY EstimatorBounds
      <3> HIDE DEF T
      <3>2. T \div 2 \in Nat BY <3>1
      <3> QED BY <3>2 DEF T
    <2>5. sample.tsval = ((sent \div p) + INITIAL_TSVAL) % TSVALS BY <2>2 DEF RemoteTsval
    <2> HIDE DEF p, h
    <2>6. Clocked(flow, G, bound, p)
      <3>1. CASE F = estimator.flows[slot] /\ H = heard[slot] /\ F.key = sample.key
        <4>1. F \in MeasuredFlowType /\ H \in SUBSET HeardType BY <1>1, <2>2, <3>1
        <4>2. Clocked(F, H, bound, p) BY <2>2, <2>3, <3>1 DEF ClockInv, p
        <4>3. PICK first \in Nat, last \in Nat :
                /\ Paced(F, p, first, last)
                /\ bound = NO_BOUND => FloorsNear(F, H, p, first) /\ QueuesNear(H, p)
          BY <4>2 DEF Clocked
        <4>4. F.last_accepted \in Nat /\ F.last_accepted <= sample.arrival
          <5>1. F.last_accepted <= network.now BY <2>2, <3>1 DEF TableInv
          <5>2. F.last_accepted \in Nat BY <4>1 DEF MeasuredFlowType
          <5> QED BY <1>1, <2>2, <2>3, <5>1, <5>2
        <4>5. ASSUME MovedOn(flow, bound, F, sample)
              PROVE  sent - last + p <= p * h /\ last - sent + p <= p * h
          <5>1. flow.last_accepted = sample.arrival BY <4>5 DEF MovedOn
          <5>2. estimator'.flows[slot] = flow BY <2>1 DEF SampledLeaves
          <5>3. CASE Timely
            <6>1. \A d \in Delays : (sample.arrival - F.last_accepted) + d + p <= p * h
              BY <2>2, <2>3, <3>1, <5>1, <5>2, <5>3 DEF Timely, p, h
            <6>2. F.last_accepted - last \in Delays BY <4>3 DEF Paced
            <6> QED BY <2>2, <2>3, <2>4, <4>4, <6>1, <6>2, TimelyFacts
          <5>4. CASE UNCHANGED estimatorVars
            <6>1. network'.samples = network.samples + 1 /\ network' = network
              BY <1>1, <1>3, <5>4 DEF SampledCase, estimatorVars
            <6>2. network.samples \in Nat BY <1>1
            <6> QED BY <6>1, <6>2
          <5> QED BY <5>3, <5>4
        <4> QED BY <1>1, <2>2, <2>3, <2>5, <4>1, <4>3, <4>5, OutcomeClocked DEF h
      <3>2. CASE F = flow_start(sample) /\ H = {}
        <4>1. F \in MeasuredFlowType BY <2>2, <3>2, StartsLogged
        <4>2. /\ Paced(F, p, sent, sent) /\ FloorsNear(F, H, p, sent) /\ QueuesNear(H, p)
              /\ sent - sent + p <= p * h
          BY <2>2, <2>3, <2>5, <3>2, StartPaced DEF h
        <4>3. H \in SUBSET HeardType BY <3>2
        <4> QED BY <1>1, <2>2, <2>3, <2>5, <4>1, <4>2, <4>3, OutcomeClocked DEF h
      <3> QED BY <2>2, <3>1, <3>2
    <2>7. ASSUME NEW s \in Slots, estimator'.flows[s].key # NOTHING
          PROVE  Clocked(estimator'.flows[s], heard'[s], estimator'.bound,
                         network'.periods[estimator'.flows[s].key])
      <3>1. estimator'.bound = bound /\ network'.periods = network.periods
        BY <2>1 DEF SampledLeaves
      <3>2. CASE s = slot
        <4>1. estimator'.flows[s] = flow /\ heard'[s] = G BY <2>1, <3>2 DEF SampledLeaves
        <4> HIDE DEF bound
        <4> QED BY <2>2, <2>6, <3>1, <4>1 DEF p
      <3>3. CASE s # slot
        <4>1. estimator'.flows[s] = estimator.flows[s] /\ heard'[s] = heard[s]
          BY <2>1, <3>3 DEF SampledLeaves
        <4> QED BY <2>7, <3>1, <4>1 DEF ClockInv
      <3> QED BY <3>2, <3>3
    <2> QED BY <2>7 DEF ClockInv
  <1> QED BY <1>2, <1>3, EstimatorSteps

\* No flow is in the table at first.
LEMMA ClockStarts ==
  EstimatorInit => ClockInv
  <1> SUFFICES ASSUME EstimatorInit PROVE ClockInv
    OBVIOUS
  <1>1. \A s \in Slots : estimator.flows[s] = UnusedFlow BY DEF EstimatorInit
  <1>2. UnusedFlow.key = NOTHING BY DEF UnusedFlow
  <1> QED BY <1>1, <1>2 DEF ClockInv

\* The clocks give QueuesTrue.
LEMMA ClockTrue ==
  ClockInv => QueuesTrue
  <1> SUFFICES ASSUME ClockInv, NEW s \in Slots, estimator.flows[s].key # NOTHING
               PROVE  LET period == network.periods[estimator.flows[s].key]
                      IN /\ estimator.flows[s].tick \in {NOTHING, period}
                         /\ estimator.bound = NO_BOUND =>
                              \A h \in heard[s]:
                                \/ h.queue = NOTHING
                                \/ h.queue - h.truth \in (1 - period)..(period - 1)
    BY DEF QueuesTrue
  <1> DEFINE f == estimator.flows[s]
             p == network.periods[f.key]
  <1>1. Clocked(f, heard[s], estimator.bound, p) BY DEF ClockInv
  <1> HIDE DEF p
  <1>2. f.tick \in {NOTHING, p} /\ (estimator.bound = NO_BOUND => QueuesNear(heard[s], p))
    BY <1>1 DEF Clocked, Paced
  <1> QED BY <1>2 DEF QueuesNear, p

\* The queues are true as well, as long as only the true period fits and no flow falls
\* silent for half the range of its remote clock (tcpdelay_estimator_add, fit_tick).
THEOREM EstimatorIsTrue ==
  FitsAlone /\ EstimatorSpec /\ [][Timely]_estimatorVars => EstimatorTrue
  <1> SUFFICES ASSUME FitsAlone
               PROVE  EstimatorSpec /\ [][Timely]_estimatorVars => EstimatorTrue
    OBVIOUS
  <1>1. TableInv /\ ClockInv /\ [EstimatorNext]_estimatorVars /\ [Timely]_estimatorVars
          => ClockInv'
    BY ClockKept
  <1>2. EstimatorSpec /\ [][Timely]_estimatorVars => []ClockInv
    BY <1>1, ClockStarts, TableInvariance, PTL DEF EstimatorSpec
  <1>3. EstimatorSpec /\ [][Timely]_estimatorVars => [](WindowsExact /\ QueuesTrue)
    BY <1>2, ClockTrue, WindowsAreExact, PTL
  <1> QED BY <1>3, WindowsAreExact DEF EstimatorTrue
=============================================================================
