----------------------------- MODULE SynOptions -----------------------------
(***************************************************************************)
(* The TCP options of a SYN, as the egress program and the socket filter   *)
(* read and change them (tcpdelay.bpf.c): a quick scan says whether a SYN  *)
(* may hold a timestamp, a full parser looks for it, and a SYN without one *)
(* gets NOP, NOP and a timestamp behind its options.                       *)
(*                                                                         *)
(* Options are the bytes of the header; what a value holds is left open,   *)
(* as it may look like a timestamp to the scan.                            *)
(***************************************************************************)
EXTENDS Integers, SequencesExt

CONSTANTS
  OPTIONS_MAX,     \* TCP_OPTIONS_MAX
  HEADER_BYTES,    \* TCP_HEADER_BYTES
  HEADER_MAX       \* TCP_HEADER_MAX_BYTES

ASSUME OptionsAssumption ==
  /\ {OPTIONS_MAX, HEADER_BYTES, HEADER_MAX} \subseteq Nat
  /\ HEADER_MAX = HEADER_BYTES + OPTIONS_MAX

END == 0
NOP == 1
TIMESTAMP == 8
TIMESTAMP_LENGTH == 10

\* No timestamp; options that end early or are malformed.
NONE == -1
ENDS == -2

\* timestamp_index() behind its quick check of the usual layout.  Indices are
\* the code's, from zero; a byte past the options is zero.
Walk(options) ==
  LET Byte(i) == IF i < Len(options) THEN options[i + 1] ELSE 0
      from[i \in 0 .. OPTIONS_MAX + 255] ==
        IF i >= Len(options) \/ i >= OPTIONS_MAX - 1 THEN NONE
        ELSE IF Byte(i) = END THEN ENDS
        ELSE IF Byte(i) = NOP THEN from[i + 1]
        ELSE IF Byte(i + 1) < 2 THEN ENDS
        ELSE IF Byte(i) = TIMESTAMP /\ Byte(i + 1) = TIMESTAMP_LENGTH
        THEN IF i + TIMESTAMP_LENGTH <= Len(options) THEN i ELSE ENDS
        ELSE from[i + Byte(i + 1)]
  IN  from[0]

\* What a SYN gets: TS(tsval, 0), aligned by two NOPs.
Layout == <<NOP, NOP, TIMESTAMP, TIMESTAMP_LENGTH>>
Added(tsval) == Layout \o tsval \o <<0, 0, 0, 0>>
ADDED_BYTES == 12

timestamp_index(options) ==
  IF Len(options) >= ADDED_BYTES /\ IsPrefix(Layout, options) THEN 2 ELSE Walk(options)

\* The value and echo of the timestamp, or nothing.
find_timestamp(options) ==
  LET index == timestamp_index(options)
  IN  IF index < 0 \/ index > OPTIONS_MAX - TIMESTAMP_LENGTH THEN <<>>
      ELSE SubSeq(options, index + 3, index + TIMESTAMP_LENGTH)

\* The kind and the length of a timestamp side by side, anywhere.
inject_options_may_timestamp(options) ==
  \E i \in 1 .. Len(options) - 1:
    i < OPTIONS_MAX /\ options[i] = TIMESTAMP /\ options[i + 1] = TIMESTAMP_LENGTH

\* Mutant: no look at the room that is left.
inject_syn_eligible_any(options, data) ==
  /\ Len(options) <= OPTIONS_MAX /\ data = 0
  /\ ~inject_options_may_timestamp(options)

\* A SYN that may get a timestamp: none in its options, no data, and room.
inject_syn_eligible(options, data) ==
  /\ Len(options) <= OPTIONS_MAX /\ data = 0
  /\ ~inject_options_may_timestamp(options)
  /\ HEADER_BYTES + Len(options) + ADDED_BYTES <= HEADER_MAX

\* append_timestamp(): the options behind which the timestamp went, and the
\* data offset, whose four bits count words.
append_timestamp(options, tsval) ==
  LET appended == options \o Added(tsval)
  IN  [options |-> appended, offset |-> ((HEADER_BYTES + Len(appended)) \div 4) % 16]
=============================================================================
