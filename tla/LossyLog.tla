------------------------------ MODULE LossyLog ------------------------------
(***************************************************************************)
(* What the log writer promises (the comment at logging/writer.c:25-33),    *)
(* whatever the storage does: what the main thread asks for is carried out  *)
(* in order and once, except that older entries may be skipped for a newer  *)
(* one.  Skipped messages are counted, and the count is reported where they *)
(* went missing; skipped requests are carried out there, as one export and  *)
(* then one reset.                                                         *)
(***************************************************************************)
EXTENDS Naturals, Sequences, FiniteSets

VARIABLES
  asked,     \* the kind of each entry asked for, in order
  settled,   \* how many of them are carried out, counted or collapsed
  out        \* what reached the log file, the terminal and syslog, in order

Kinds == {"LINE", "SYSLOG", "EXPORT", "RESET"}

Ask(kind) ==
  /\ asked' = Append(asked, kind)
  /\ UNCHANGED <<settled, out>>

\* How many of the entries first..last are of a kind.
Count(first, last, kind) == Cardinality({i \in first .. last : asked[i] = kind})

Once(kind, times) == IF times > 0 THEN <<[kind |-> kind]>> ELSE <<>>

\* The overwriting note, where a message is missing.
Note(lines, syslog) ==
  IF lines + syslog > 0
  THEN <<[kind |-> "NOTE", lines |-> lines, syslog |-> syslog]>> ELSE <<>>

Skipped(first, last) ==
  Once("EXPORT", Count(first, last, "EXPORT"))
    \o Once("RESET", Count(first, last, "RESET"))
    \o Note(Count(first, last, "LINE"), Count(first, last, "SYSLOG"))

\* Entry id is carried out, after what was skipped before it.
Settle(id) ==
  /\ id \in settled + 1 .. Len(asked)
  /\ out' = out \o Skipped(settled + 1, id - 1)
                \o <<[kind |-> asked[id], id |-> id]>>
  /\ settled' = id
  /\ UNCHANGED asked

Init == asked = <<>> /\ settled = 0 /\ out = <<>>

Next ==
  \/ \E kind \in Kinds : Ask(kind)
  \/ \E id \in 1 .. Len(asked) : Settle(id)

Spec == Init /\ [][Next]_<<asked, settled, out>>
=============================================================================
