------------------------------ MODULE LogWriter ------------------------------
(***************************************************************************)
(* logging/writer.c: the thread that does all writing to the log file, the  *)
(* terminal and syslog.  The main thread only queues entries, under a lock, *)
(* into a ring of LOG_QUEUE_BYTES, and overwrites the oldest when it is     *)
(* full; the writer takes them one at a time and writes with the lock       *)
(* released, for as long as the storage takes.                             *)
(*                                                                         *)
(* The ring is the sequence of its entries, each with the bytes it takes.   *)
(* The text of an entry is left out: entries are numbered as they are asked *)
(* for.                                                                    *)
(***************************************************************************)
EXTENDS Naturals, Sequences, FiniteSets

CONSTANTS
  LOG_QUEUE_BYTES,
  LOG_QUEUE_WAKE_BYTES,
  EntryBytes,       \* sizes of a line or a syslog message in the queue
  RequestBytes,     \* the size of a request, which has no text
  Immediate,        \* no buffer timeout, or a terminal: every line wakes
  MaxAsked          \* bound on the entries asked for

VARIABLES
  asked,            \* history: the kind of each entry asked for
  settled,          \* history: the last entry written
  out,              \* history: what was written, in order
  queue,            \* the ring
  overwritten,      \* overwritten since the writer last took an entry
  hand,             \* the writer's local copies, while it writes
  pc,               \* where the writer is
  signal,           \* the writer's wait has been signalled
  stop,             \* a stop has been asked for
  main              \* the main thread: using the writer, or done with it

vars == <<asked, settled, out, queue, overwritten, hand, pc, signal, stop, main>>

ASSUME WriterAssumption ==
  /\ {LOG_QUEUE_BYTES, LOG_QUEUE_WAKE_BYTES, RequestBytes, MaxAsked} \subseteq Nat
  /\ EntryBytes \subseteq 1 .. LOG_QUEUE_BYTES
  /\ RequestBytes \in 1 .. LOG_QUEUE_BYTES
  /\ Immediate \in BOOLEAN

Log == INSTANCE LossyLog WITH asked <- asked, settled <- settled, out <- out

Kinds == {"LINE", "SYSLOG", "EXPORT", "RESET"}
Requests == {"EXPORT", "RESET"}

NOTHING_OVERWRITTEN ==
  [lines |-> 0, syslog |-> 0, export |-> FALSE, reset |-> FALSE]
NO_ENTRY == [id |-> 0, kind |-> "LINE"]
EMPTY_HAND == [entry |-> NO_ENTRY, overwritten |-> NOTHING_OVERWRITTEN]

\* state->used.
Used(q) ==
  LET used[i \in 0 .. Len(q)] == IF i = 0 THEN 0 ELSE used[i - 1] + q[i].bytes
  IN  used[Len(q)]

-----------------------------------------------------------------------------
(* The main thread.                                                         *)

\* Mutant: an overwritten request is forgotten.
overwrite_oldest_requests(o, lost) ==
  [lines |-> o.lines + Cardinality({i \in DOMAIN lost : lost[i].kind = "LINE"}),
   syslog |-> o.syslog + Cardinality({i \in DOMAIN lost : lost[i].kind = "SYSLOG"}),
   export |-> o.export, reset |-> o.reset]

\* overwrite_oldest for each of the entries that make room.
overwrite_oldest(o, lost) ==
  [lines |-> o.lines + Cardinality({i \in DOMAIN lost : lost[i].kind = "LINE"}),
   syslog |-> o.syslog + Cardinality({i \in DOMAIN lost : lost[i].kind = "SYSLOG"}),
   export |-> o.export \/ \E i \in DOMAIN lost : lost[i].kind = "EXPORT",
   reset |-> o.reset \/ \E i \in DOMAIN lost : lost[i].kind = "RESET"]

\* How many of the oldest entries are overwritten for an entry.
MakesRoom(n, bytes) ==
  /\ Used(SubSeq(queue, n + 1, Len(queue))) + bytes <= LOG_QUEUE_BYTES
  /\ n > 0 => Used(SubSeq(queue, n, Len(queue))) + bytes > LOG_QUEUE_BYTES

entry_wakes_writer(kind, used) ==
  kind # "LINE" \/ Immediate \/ used >= LOG_QUEUE_WAKE_BYTES

writer_queue(kind, bytes) ==
  /\ main = "USING" /\ Len(asked) < MaxAsked
  /\ \E n \in 0 .. Len(queue) :
       /\ MakesRoom(n, bytes)
       /\ overwritten' = overwrite_oldest(overwritten, SubSeq(queue, 1, n))
       /\ queue' = Append(SubSeq(queue, n + 1, Len(queue)),
                          [id |-> Len(asked) + 1, kind |-> kind, bytes |-> bytes])
  /\ asked' = Append(asked, kind)
  /\ signal' = (\/ signal
                \/ pc = "WAITING" /\ entry_wakes_writer(kind, Used(queue')))
  /\ UNCHANGED <<settled, out, hand, pc, stop, main>>

\* writer_stop, up to the wait for the thread.
AskStop ==
  /\ main = "USING"
  /\ main' = "STOPPING" /\ stop' = TRUE
  /\ signal' = (signal \/ pc = "WAITING")
  /\ UNCHANGED <<asked, settled, out, queue, overwritten, hand, pc>>

\* thread_join_within: the thread has ended, or it has not within
\* LOG_WRITER_STOP_US and is left to the process exit.
Join ==
  /\ main = "STOPPING"
  /\ \/ pc = "ENDED" /\ main' = "JOINED"
     \/ main' = "LEFT"
  /\ UNCHANGED <<asked, settled, out, queue, overwritten, hand, pc, signal, stop>>

\* The exit that follows, without closing anything a writer still uses.
Exit ==
  /\ main = "LEFT" /\ main' = "EXITED"
  /\ UNCHANGED <<asked, settled, out, queue, overwritten, hand, pc, signal, stop>>

-----------------------------------------------------------------------------
(* The writer thread.                                                       *)

\* What the writer copies under the lock: the counts first, which are older
\* than the entry it takes.
TakeEntry ==
  /\ hand' = [entry |-> IF queue = <<>> THEN NO_ENTRY
                        ELSE [id |-> Head(queue).id, kind |-> Head(queue).kind],
              overwritten |-> overwritten]
  /\ queue' = IF queue = <<>> THEN queue ELSE Tail(queue)
  /\ overwritten' = NOTHING_OVERWRITTEN
  /\ pc' = "WRITING"

\* Nothing is left and a stop was asked for.
ends(q) == q = <<>> /\ stop

\* The top of the loop, with the lock held.
LoopTop ==
  /\ pc = "LOOKING" /\ main # "EXITED"
  /\ \/ /\ ends(queue)
        /\ pc' = "ENDED" /\ UNCHANGED <<queue, overwritten, hand>>
     \/ /\ ~ends(queue) /\ queue = <<>>
        /\ pc' = "WAITING" /\ UNCHANGED <<queue, overwritten, hand>>
     \/ ~ends(queue) /\ queue # <<>> /\ TakeEntry
  /\ UNCHANGED <<asked, settled, out, signal, stop, main>>

\* Mutant: the wait has no end.
wait_ends_signalled(signalled) == signalled

\* wait_for_entry returns: signalled, or the idle time is over.
wait_ends(signalled) == TRUE

WaitEnds ==
  /\ pc = "WAITING" /\ main # "EXITED"
  /\ wait_ends(signal)
  /\ TakeEntry
  /\ signal' = FALSE
  /\ UNCHANGED <<asked, settled, out, stop, main>>

\* What one round of the loop writes, with the lock released.
Written(h) ==
  (IF h.overwritten.export THEN <<[kind |-> "EXPORT"]>> ELSE <<>>)
    \o (IF h.overwritten.reset THEN <<[kind |-> "RESET"]>> ELSE <<>>)
    \o Log!Note(h.overwritten.lines, h.overwritten.syslog)
    \o (IF h.entry = NO_ENTRY THEN <<>>
        ELSE <<[kind |-> h.entry.kind, id |-> h.entry.id]>>)

\* Only this thread writes, so what it writes before the lock is one step.
Write ==
  /\ pc = "WRITING" /\ main # "EXITED"
  /\ out' = out \o Written(hand)
  /\ settled' = IF hand.entry = NO_ENTRY THEN settled ELSE hand.entry.id
  /\ hand' = EMPTY_HAND
  /\ pc' = "LOOKING"
  /\ UNCHANGED <<asked, queue, overwritten, signal, stop, main>>

Init ==
  /\ asked = <<>> /\ settled = 0 /\ out = <<>>
  /\ queue = <<>> /\ overwritten = NOTHING_OVERWRITTEN
  /\ hand = EMPTY_HAND /\ pc = "LOOKING"
  /\ signal = FALSE /\ stop = FALSE /\ main = "USING"

Main ==
  \/ \E kind \in {"LINE", "SYSLOG"}, bytes \in EntryBytes : writer_queue(kind, bytes)
  \/ \E kind \in Requests : writer_queue(kind, RequestBytes)
  \/ AskStop
  \/ Join
  \/ Exit

Writer == LoopTop \/ WaitEnds \/ Write

Next == Main \/ Writer

Spec == Init /\ [][Next]_vars

\* The thread is scheduled, its wait is timed, and no write blocks for ever.
WriterFairness ==
  WF_vars(LoopTop) /\ WF_vars(WaitEnds) /\ WF_vars(Write)

FairSpec == Spec /\ WriterFairness

-----------------------------------------------------------------------------
(* Properties                                                               *)

Overwritten ==
  [lines : 0 .. MaxAsked, syslog : 0 .. MaxAsked,
   export : BOOLEAN, reset : BOOLEAN]

\* The state is well-formed, and the queue never holds more than the ring.
TypeOK ==
  /\ asked \in Seq(Kinds) /\ Len(asked) <= MaxAsked
  /\ settled \in 0 .. MaxAsked
  /\ queue \in Seq([id : 1 .. MaxAsked, kind : Kinds,
                    bytes : EntryBytes \cup {RequestBytes}])
  /\ Used(queue) <= LOG_QUEUE_BYTES
  /\ overwritten \in Overwritten
  /\ hand \in [entry : [id : 0 .. MaxAsked, kind : Kinds],
               overwritten : Overwritten]
  /\ pc \in {"LOOKING", "WAITING", "WRITING", "ENDED"}
  /\ {signal, stop} \subseteq BOOLEAN
  /\ main \in {"USING", "STOPPING", "JOINED", "LEFT", "EXITED"}

\* logging/writer.c:25-33: the writer keeps the promise of LossyLog.
KeepsPromise == Log!Spec

\* A writer that was joined has left nothing: every entry asked for is written,
\* counted or, as a request, carried out.
JoinedIsSettled ==
  main = "JOINED" =>
    /\ settled = Len(asked)
    /\ overwritten = NOTHING_OVERWRITTEN /\ hand = EMPTY_HAND

\* Every entry, or what became of it, is written in the end, unless the process
\* has to leave without the writer; a writer that was joined has left nothing.
Settles ==
  /\ [](TypeOK /\ JoinedIsSettled)
  /\ \A i \in 1 .. MaxAsked :
       Len(asked) >= i ~> settled >= i \/ main \in {"LEFT", "EXITED"}
=============================================================================
