---------------------------- MODULE PingerLines ----------------------------
(***************************************************************************)
(* The lines of fping and IRTT that latency/parser.c reads, and what the    *)
(* methods (latency/fping.c, irtt.c) take them for.  A line of fping is its *)
(* fields, a line of IRTT the tokens "name=value" it lists; the text around *)
(* them is left out.  A value is a text of Decimals, or NO_NUMBER where the *)
(* field is missing or holds something else.                                *)
(***************************************************************************)
EXTENDS Decimals, SequencesExt

CONSTANT U32_MAX  \* UINT32_MAX

MICROSECONDS_PER_MILLISECOND == NANOSECONDS_PER_MICROSECOND

\* What no parser takes.
NO_NUMBER == [whole |-> U64_MAX + 1, digits |-> <<>>, unit |-> 1]

NoSample(result) == [result |-> result]

-----------------------------------------------------------------------------
(* fping                                                                    *)

\* The part every reply shares: clock, sequence, and a round trip unless the
\* probe timed out.
parse_fping_reply(line) ==
  IF parse_timestamp(line.clock) = REFUSED \/ parse_unsigned(line.sequence) = REFUSED
  THEN "INVALID"
  ELSE IF line.timed_out THEN "TIMEOUT"
  ELSE IF parse_round_trip(line.round_trip) = REFUSED THEN "INVALID" ELSE "SAMPLE"

Sample(line, download, upload, rollover) ==
  [result |-> "SAMPLE", download |-> download, upload |-> upload,
   timestamp_us |-> parse_timestamp(line.clock), sequence |-> line.sequence,
   rollover |-> rollover]

\* The round trip's half for each direction.
parse_fping_line(line) ==
  LET result == parse_fping_reply(line)
      half == half_round_trip(parse_round_trip(line.round_trip))
  IN  IF result # "SAMPLE" THEN NoSample(result) ELSE Sample(line, half, half, FALSE)

\* All four stamps, in the order fping writes them.
parse_icmp_timestamp(stamps) ==
  Len(stamps) = 4 /\ \A i \in 1 .. 4 : stamps[i] <= U32_MAX

parse_icmp_timestamps(line) ==
  LET originate == line.stamps[1]
      receive == line.stamps[2]
      transmit == line.stamps[3]
      local_receive == line.stamps[4]
  IN  IF ~parse_icmp_timestamp(line.stamps) THEN NoSample("INVALID")
      ELSE Sample(line, (local_receive - transmit) * MICROSECONDS_PER_MILLISECOND,
                  (receive - originate) * MICROSECONDS_PER_MILLISECOND, TRUE)

parse_fping_timestamp_line(line) ==
  LET result == parse_fping_reply(line)
  IN  IF result # "SAMPLE" THEN NoSample(result) ELSE parse_icmp_timestamps(line)

\* fping writes nothing else: an invalid line fails the session.
probe_result(parsed) ==
  CASE parsed = "INVALID" -> "ERROR"
    [] parsed = "SAMPLE" -> "SUCCESS"
    [] parsed = "TIMEOUT" -> "TIMEOUT"

-----------------------------------------------------------------------------
(* IRTT                                                                     *)

\* The first token with exactly this name.
irtt_value(tokens, name) ==
  LET index == SelectInSeq(tokens, LAMBDA token : token.name = name)
  IN  IF index = 0 THEN NO_NUMBER ELSE tokens[index].value

\* A reply has its sequence and both delays.
parse_irtt_line(tokens) ==
  LET Duration(value) == parse_irtt_duration(value, value.unit)
      sequence == parse_unsigned(irtt_value(tokens, "seq").whole)
      download == Duration(irtt_value(tokens, "rd"))
      upload == Duration(irtt_value(tokens, "sd"))
  IN  IF REFUSED \in {sequence, download, upload} THEN NoSample("INVALID")
      ELSE [result |-> "SAMPLE", download |-> download, upload |-> upload,
            sequence |-> sequence, rollover |-> FALSE]

\* Any other line is one of a header or of statistics.  A reply needs the time now.
irtt_parse(tokens, reads_clock) ==
  IF parse_irtt_line(tokens).result = "INVALID" THEN "PENDING"
  ELSE IF reads_clock THEN "SUCCESS" ELSE "ERROR"
=============================================================================
