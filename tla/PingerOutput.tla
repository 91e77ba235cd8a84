---------------------------- MODULE PingerOutput ----------------------------
(***************************************************************************)
(* How the output of one pinger process reaches the daemon                  *)
(* (daemon/child_pingers.c, pingers_process_line() and latency_next_line()): *)
(* the process writes to a pipe, the event loop reads what is there into    *)
(* the stream's buffer, in whatever pieces it comes, and the handler takes  *)
(* the lines off it.  What a line says is the subject of PingerLines: here  *)
(* it is a reply when it starts with "r".                                   *)
(***************************************************************************)
EXTENDS Integers, Sequences, SequencesExt

CONSTANTS
  LATENCY_OUTPUT_SIZE,  \* bytes of a line with its newline
  MaxWritten            \* bounds what the pinger writes

ASSUME OutputAssumption == {LATENCY_OUTPUT_SIZE, MaxWritten} \subseteq Nat \ {0}

VARIABLES
  pipe,      \* method of the pinger, whether it runs, and what it wrote that is unread
  stream,    \* the ustream: buffer, whether it is read or blocked, and the timer of
             \* the failure it has met
  heard,     \* the lines that became samples
  written    \* history: all that the pinger wrote

outputVars == <<pipe, stream, heard, written>>

Bytes == {"r", "x", "\r", "\n"}

OutputInit ==
  /\ pipe \in [method : {"FPING", "IRTT"}, running : {TRUE}, unread : {<<>>}]
  /\ stream = [buffer |-> <<>>, reading |-> TRUE, blocked |-> FALSE, failed |-> FALSE]
  /\ heard = <<>>
  /\ written = <<>>

-----------------------------------------------------------------------------
\* A carriage return before the newline is not part of the line.
WithoutReturn(line) ==
  IF line # <<>> /\ Last(line) = "\r" THEN Front(line) ELSE line

\* The newline is looked for in the first LATENCY_OUTPUT_SIZE bytes.
latency_next_line(data) ==
  LET newline == SelectInSeq(SubSeq(data, 1, Min({Len(data), LATENCY_OUTPUT_SIZE})),
                             LAMBDA b : b = "\n")
  IN  CASE newline # 0 ->
             [result |-> "READY", consumed |-> newline,
              line |-> WithoutReturn(SubSeq(data, 1, newline - 1))]
        [] newline = 0 ->
             [result |-> IF Len(data) < LATENCY_OUTPUT_SIZE THEN "INCOMPLETE"
                                                            ELSE "TOO_LONG"]

\* latency_handle_line: fping writes replies only, IRTT a header and statistics too.
latency_handle_line(line) ==
  IF line # <<>> /\ Head(line) = "r" THEN "SUCCESS"
  ELSE IF pipe.method = "FPING" THEN "ERROR" ELSE "PENDING"

\* The targets that a pinger is given are the daemon's reflectors, so that a
\* sample always finds its slot.
pingers_process_line(line) == latency_handle_line(line) # "ERROR"

\* handle_pinger_output gives up: the session fails from the loop.
SessionFails(s) == [s EXCEPT !.blocked = TRUE, !.failed = TRUE]

\* handle_pinger_output, with the lines heard so far: until no line is whole.
RECURSIVE handle_pinger_output(_, _)
handle_pinger_output(s, lines) ==
  LET next == latency_next_line(s.buffer)
      rest == [s EXCEPT !.buffer = SubSeq(@, next.consumed + 1, Len(@))]
      sampled == latency_handle_line(next.line) = "SUCCESS"
  IN  CASE next.result = "INCOMPLETE" -> [stream |-> s, heard |-> lines]
        [] next.result = "TOO_LONG" -> [stream |-> SessionFails(s), heard |-> lines]
        [] next.result = "READY" ->
             IF pingers_process_line(next.line)
             THEN handle_pinger_output(
                    rest, IF sampled THEN Append(lines, next.line) ELSE lines)
             ELSE [stream |-> SessionFails(rest), heard |-> lines]

\* The stream reads count bytes and calls the handler; a blocked one does neither.
Polled(count) ==
  IF stream.blocked \/ count = 0 THEN [stream |-> stream, heard |-> heard]
  ELSE handle_pinger_output(
         [stream EXCEPT !.buffer = @ \o SubSeq(pipe.unread, 1, count)], heard)

Took(polled, count) ==
  /\ heard' = polled.heard
  /\ pipe' = [pipe EXCEPT !.unread =
                IF stream.blocked THEN @ ELSE SubSeq(@, count + 1, Len(@))]

-----------------------------------------------------------------------------
PingerWrites(byte) ==
  /\ pipe.running /\ Len(written) < MaxWritten
  /\ pipe' = [pipe EXCEPT !.unread = Append(@, byte)]
  /\ written' = Append(written, byte)
  /\ UNCHANGED <<stream, heard>>

\* The loop finds the pipe readable and reads some of it.
OutputReadable(count) ==
  /\ stream.reading /\ ~stream.blocked /\ count \in 1 .. Len(pipe.unread)
  /\ LET polled == Polled(count)
     IN  stream' = polled.stream /\ Took(polled, count)
  /\ UNCHANGED written

PingerExits ==
  /\ pipe.running
  /\ pipe' = [pipe EXCEPT !.running = FALSE]
  /\ UNCHANGED <<stream, heard, written>>

\* Mutant: the exit frees the stream with what is in the pipe still unread.
ExitRead_freed == [stream |-> stream, heard |-> heard]

\* handle_pinger_exit first delivers the output written just before.
ExitRead == Polled(Len(pipe.unread))

PingerReaped ==
  /\ ~pipe.running /\ stream.reading
  /\ LET polled == ExitRead
     IN  /\ stream' = [polled.stream EXCEPT !.reading = FALSE]
         /\ Took(polled, Len(pipe.unread))
  /\ UNCHANGED written

\* handle_pinger_state: the end of output, which the exit may come after.
OutputEnded ==
  /\ ~pipe.running /\ pipe.unread = <<>> /\ stream.reading
  /\ stream' = [stream EXCEPT !.reading = FALSE]
  /\ UNCHANGED <<pipe, heard, written>>

OutputNext ==
  \/ \E byte \in Bytes : PingerWrites(byte)
  \/ \E count \in 1 .. MaxWritten : OutputReadable(count)
  \/ PingerExits \/ PingerReaped \/ OutputEnded

OutputSpec == OutputInit /\ [][OutputNext]_outputVars

-----------------------------------------------------------------------------
(* Properties                                                               *)

\* The whole lines of a text, each cut out between two newlines.
Newlines(text) == {i \in DOMAIN text : text[i] = "\n"}
Lines(text) ==
  LET ends == SetToSortSeq(Newlines(text), <)
      start(k) == IF k = 1 THEN 1 ELSE ends[k - 1] + 1
  IN  [k \in DOMAIN ends |-> SubSeq(text, start(k), ends[k])]
Content(line) == WithoutReturn(Front(line))
Unended(text) ==
  LET lines == Lines(text) IN SubSeq(text, Len(FlattenSeq(lines)) + 1, Len(text))

Takes(line) ==
  /\ Len(line) <= LATENCY_OUTPUT_SIZE
  /\ pingers_process_line(Content(line))

\* However the output is cut into reads, and although a process may exit with
\* some of it unread, the daemon hears each reply once, whole and in order, up to
\* the first line that the method cannot have written; it fails exactly when it
\* has met one, or a beginning that is too long to become one.
LinesWhole ==
  LET received == SubSeq(written, 1, Len(written) - Len(pipe.unread))
      lines == Lines(received)
      bad == SelectInSeq(lines, LAMBDA line : ~Takes(line))
      taken == IF bad = 0 THEN lines ELSE SubSeq(lines, 1, bad - 1)
      replies == SelectSeq([k \in DOMAIN taken |-> Content(taken[k])],
                           LAMBDA line : latency_handle_line(line) = "SUCCESS")
  IN  /\ heard = replies
      /\ stream.failed <=> bad # 0 \/ Len(Unended(received)) >= LATENCY_OUTPUT_SIZE
      /\ ~stream.reading /\ ~stream.failed => pipe.unread = <<>>
=============================================================================
