------------------------------- MODULE LogFile -------------------------------
(***************************************************************************)
(* The log file (logging/file.c), as the writer thread keeps it: lines go  *)
(* through a stdio buffer into the active file, which rotation copies over *)
(* the previous file and then empties; an export copies both; a reset      *)
(* empties both.  Copies fail half way when the storage is full, and the   *)
(* process is killed between any two steps and started again by its        *)
(* supervisor, appending to the active file.                               *)
(*                                                                         *)
(* Lines are numbered; HEADER stands for the saved record headers.         *)
(***************************************************************************)
EXTENDS Naturals, Sequences, SequencesExt

CONSTANTS
  LogMaximumSize,  \* log_maximum_size_bytes, in lines; 0 for no limit
  Buffered,        \* log_buffer_timeout_us is not 0
  MaxLines,        \* bounds the lines written
  MaxLogFailures   \* bounds failures and kills

ASSUME LogFileAssumption ==
  {LogMaximumSize, MaxLines, MaxLogFailures} \subseteq Nat /\ Buffered \in BOOLEAN

VARIABLES
  log_file,  \* the stream: open, its buffer, log_size_bytes; maintenance step
  active,    \* what the active file holds on storage
  previous,  \* what the previous file holds
  export,    \* the latest export: its lines, and whether it succeeded
  logged     \* history: lines, and which must be where

logVars == <<log_file, active, previous, export, logged>>

HEADER == 0
Lines(file) == ToSet(file) \ {HEADER}

OpenedFile(size) ==
  [open |-> TRUE, buffer |-> << >>, size |-> size, step |-> "IDLE"]

LogFileInit ==
  /\ log_file = OpenedFile(0)
  /\ active = << >>
  /\ previous = << >>
  /\ export = [lines |-> << >>, good |-> FALSE]
  /\ logged = [last |-> 0, current |-> {}, ended |-> {}, failures |-> 0]
-----------------------------------------------------------------------------
Idle == log_file.open /\ log_file.step = "IDLE"

Failing(fails) ==
  /\ logged.failures + (IF fails THEN 1 ELSE 0) <= MaxLogFailures
Failed(fails) == logged.failures + (IF fails THEN 1 ELSE 0)

\* A copy into a file that gzopen() has emptied: all, or what fitted.
Copies(lines) == {SubSeq(lines, 1, k): k \in 0..Len(lines)}

\* file_sink_line(), which rotates when the size is past its maximum; the
\* writer's own notes are lines too.
Sink(line) ==
  /\ Idle
  /\ line = logged.last + 1 /\ line <= MaxLines
  /\ log_file' = [log_file EXCEPT
       !.buffer = IF Buffered THEN Append(@, line) ELSE << >>,
       !.size = @ + 1,
       !.step = IF LogMaximumSize > 0 /\ log_file.size + 1 > LogMaximumSize
                THEN "ROTATE" ELSE "IDLE"]
  /\ active' = IF Buffered THEN active
               ELSE active \o log_file.buffer \o <<line>>
  /\ logged' = [logged EXCEPT !.last = line, !.current = @ \cup {line}]
  /\ UNCHANGED <<previous, export>>

\* fflush(): by file_tick()'s buffer timer, or by stdio as the buffer fills.
Flush ==
  /\ Idle /\ log_file.buffer # << >>
  /\ active' = active \o log_file.buffer
  /\ log_file' = [log_file EXCEPT !.buffer = << >>]
  /\ UNCHANGED <<previous, export, logged>>

\* file_tick(): the file is older than its maximum age, at any time.
RotateByAge ==
  /\ Idle
  /\ log_file.size > 0
  /\ log_file' = [log_file EXCEPT !.step = "ROTATE"]
  /\ UNCHANGED <<active, previous, export, logged>>

(* rotate_log_file(): flush, empty the previous file, copy the active one  *)
(* into it and, when that was whole, empty the active one.                 *)

RotateOpen ==
  /\ log_file.open /\ log_file.step = "ROTATE"
  /\ active' = active \o log_file.buffer
  /\ previous' = << >>
  /\ log_file' = [log_file EXCEPT !.buffer = << >>, !.step = "COPY"]
  /\ logged' = [logged EXCEPT !.ended = {}]
  /\ UNCHANGED export

\* Mutant: the active file is emptied whether or not its copy is whole.
RotateCopy_unchecked(fails) ==
  /\ log_file.open /\ log_file.step = "COPY"
  /\ Failing(fails)
  /\ previous' \in IF fails THEN Copies(active) ELSE {active}
  /\ log_file' = [log_file EXCEPT !.step = "TRUNCATE"]
  /\ logged' = [logged EXCEPT !.failures = Failed(fails)]
  /\ UNCHANGED <<active, export>>

RotateCopy(fails) ==
  /\ log_file.open /\ log_file.step = "COPY"
  /\ Failing(fails)
  /\ previous' \in IF fails THEN Copies(active) ELSE {active}
  /\ log_file' = [log_file EXCEPT !.step = IF fails THEN "IDLE" ELSE "TRUNCATE"]
  /\ logged' = [logged EXCEPT !.failures = Failed(fails)]
  /\ UNCHANGED <<active, export>>

\* truncate_log_file() after a rotation: flush, empty, and the headers again.
RotateTruncate ==
  /\ log_file.open /\ log_file.step = "TRUNCATE"
  /\ active' = <<HEADER>>
  /\ log_file' = [log_file EXCEPT !.buffer = << >>, !.size = 1, !.step = "IDLE"]
  /\ logged' = [logged EXCEPT !.current = {}, !.ended = logged.current]
  /\ UNCHANGED <<previous, export>>

(* log_export_file(): flush, then the previous file and the active one; no *)
(* previous file is no error.                                              *)
Exported == previous \o active \o log_file.buffer

Export(fails) ==
  /\ Idle /\ Failing(fails)
  /\ active' = active \o log_file.buffer
  /\ log_file' = [log_file EXCEPT !.buffer = << >>]
  /\ \E copy \in IF fails THEN Copies(Exported) ELSE {Exported}:
       export' = [lines |-> copy, good |-> ~fails]
  /\ logged' = [logged EXCEPT !.failures = Failed(fails)]
  /\ UNCHANGED previous

(* log_reset_file(): the previous file is emptied, then the active one.    *)
ResetPrevious ==
  /\ Idle /\ log_file.size > 0
  /\ previous' = << >>
  /\ log_file' = [log_file EXCEPT !.step = "RESET"]
  /\ logged' = [logged EXCEPT !.ended = {}]
  /\ UNCHANGED <<active, export>>

ResetTruncate ==
  /\ log_file.open /\ log_file.step = "RESET"
  /\ active' = <<HEADER>>
  /\ log_file' = [log_file EXCEPT !.buffer = << >>, !.size = 1, !.step = "IDLE"]
  /\ logged' = [logged EXCEPT !.current = {}]
  /\ UNCHANGED <<previous, export>>

\* The process is killed: what is in the buffer is gone, the files stay.
LogKilled ==
  /\ log_file.open /\ Failing(TRUE)
  /\ log_file' = [log_file EXCEPT !.open = FALSE, !.buffer = << >>, !.step = "IDLE"]
  /\ logged' = [logged EXCEPT !.failures = @ + 1,
                              !.current = @ \ Lines(log_file.buffer)]
  /\ UNCHANGED <<active, previous, export>>

\* log_set_file() of the next start appends; main() then writes the headers.
LogOpened ==
  /\ ~log_file.open
  /\ log_file' = [OpenedFile(Len(active) + 1) EXCEPT
                    !.buffer = IF Buffered THEN <<HEADER>> ELSE << >>]
  /\ active' = IF Buffered THEN active ELSE Append(active, HEADER)
  /\ UNCHANGED <<previous, export, logged>>

LogFileNext ==
  \/ \E line \in 1..MaxLines: Sink(line)
  \/ Flush
  \/ RotateByAge
  \/ RotateOpen
  \/ \E fails \in BOOLEAN: RotateCopy(fails)
  \/ RotateTruncate
  \/ \E fails \in BOOLEAN: Export(fails)
  \/ ResetPrevious
  \/ ResetTruncate
  \/ LogKilled
  \/ LogOpened

LogFileSpec == LogFileInit /\ [][LogFileNext]_logVars
-----------------------------------------------------------------------------
(* Rotation loses nothing of the file it ends: what was logged since the   *)
(* last rotation or reset is in the active file or on its way there, ...   *)
CurrentKept == logged.current \subseteq Lines(active) \cup Lines(log_file.buffer)

(* ... and what the last rotation ended is in the previous file until the  *)
(* next begins; whatever copies fail and wherever the process is killed,   *)
(* only the buffer is lost.                                                *)
EndedKept == logged.ended \subseteq Lines(previous)

(* An export that succeeds holds all the log keeps, in the order it was    *)
(* written; a line is in it twice only when a rotation that did not finish *)
(* has copied it and not yet emptied the active file.                      *)
ExportComplete ==
  [][(export' # export /\ export'.good) =>
       /\ logged.current \cup logged.ended \subseteq Lines(export'.lines)
       /\ \A i, j \in 1..Len(export'.lines):
            LET a == export'.lines[i]
                b == export'.lines[j]
            IN (i < j /\ a # HEADER /\ b # HEADER /\ a >= b)
                 => {a, b} \subseteq logged.current
                    /\ a \in Lines(previous)]_logVars

\* What is kept is kept, and what is exported of it is all.
LogKept == [](CurrentKept /\ EndedKept) /\ ExportComplete
=============================================================================
