-------------------------------- MODULE Tcp --------------------------------
(***************************************************************************)
(* The daemon's side of the TCP measurement (daemon/tcp.c with             *)
(* tcpdelay/capture.c and injector.c): a packet socket with a BPF filter   *)
(* on the upload interface, the ring buffer and the counters the filter    *)
(* writes, the estimator the records are added to, and the injector that   *)
(* follows the capture.  The kernel recreates the interface, replaces its  *)
(* CAKE and changes the accounting under the daemon, which learns of it    *)
(* later and opens the capture by the interface's name.                    *)
(*                                                                         *)
(* A record is the index of the interface it was taken on: what the        *)
(* estimator computes of records is modelled in Estimator, what the filter *)
(* writes in TcpSampling.  Rates are kept as <<bytes, elapsed>>.             *)
(***************************************************************************)
EXTENDS Integers, Sequences, SequencesExt

CONSTANTS
  TCPDELAY_ACK_RATE_INTERVAL, \* the least time between two byte counts
  RingRecords,                \* records the ring buffer has room for
  UploadModels,               \* CAKE accountings (overhead, mpu, ATM, raw)
  MaxTcpTime,                 \* bounds the clock
  MaxKernelChanges,           \* bounds recreations and replacements
  MaxPackets,                 \* bounds the packets that leave
  MaxRecords,                 \* bounds the records the filter writes
  MaxTcpFailures              \* bounds the calls that fail

ASSUME TcpAssumption ==
  /\ TCPDELAY_ACK_RATE_INTERVAL \in Nat \ {0}
  /\ RingRecords \in Nat \ {0}
  /\ UploadModels # {}
  /\ {MaxTcpTime, MaxKernelChanges, MaxPackets, MaxRecords, MaxTcpFailures}
       \subseteq Nat

VARIABLES
  device,    \* the kernel's upload interface: its index, CAKE and accounting
  upload,    \* what the links know of it: daemon->links.directions[UPLOAD]
  tcp,       \* daemon->tcp, without capture and injector
  capture,   \* the program, the socket, its accounting, ring, counters, estimator
  injector,  \* the index the egress program is attached to, or 0
  left,      \* history: packets gone since the byte counters were last read
  tcp_clock  \* the time, what the bounds count, and whether the controller has
             \* run with the present observation

tcpVars == <<device, upload, tcp, capture, injector, left, tcp_clock>>

NoCounters == [acks |-> 0, upload |-> 0, unaccounted |-> 0, ring_full |-> 0]
NothingLeft(now) == [acks |-> 0, upload |-> 0, odd |-> 0, since |-> now]
NO_DEVICE == [index |-> 0, cake |-> FALSE, handle |-> 0, model |-> 0]

\* struct daemon_tcp after tcp_init().
tcp_init ==
  [open |-> FALSE, index |-> 0, handle |-> 0, failed_index |-> 0,
   dropped_records |-> 0, ack_sampled |-> FALSE, ack_rate_valid |-> FALSE,
   ack_degraded |-> FALSE, ack_sampled_us |-> 0, acks |-> 0, upload |-> 0,
   unaccounted |-> 0, ack_rate |-> <<0, 0>>, upload_rate |-> <<0, 0>>]

capture_init ==
  [loaded |-> FALSE, index |-> 0, model |-> 0, ring |-> << >>,
   counters |-> NoCounters, samples |-> {}]

\* tcpdelay_capture_load(): the object stays loaded; one that cannot be loaded,
\* or lacks a map or a program, leaves nothing.
load_program(c, loads) ==
  IF loads THEN [c EXCEPT !.loaded = TRUE] ELSE capture_init

tcpdelay_capture_load(c, loads) == IF c.loaded THEN c ELSE load_program(c, loads)

\* tcp_start(): loads the program, or goes on without; opens no socket.
TcpInit ==
  /\ device \in [index: {1}, cake: {TRUE}, handle: {1}, model: UploadModels]
  /\ upload = NO_DEVICE
  /\ tcp = tcp_init
  /\ \E loads \in BOOLEAN: capture = tcpdelay_capture_load(capture_init, loads)
  /\ injector = 0
  /\ left = NothingLeft(0)
  /\ tcp_clock = [now |-> 0, changes |-> 0, packets |-> 0, records |-> 0,
                  failures |-> 0, current |-> FALSE]
-----------------------------------------------------------------------------
(* The daemon's state as a record s of the parts its functions change.     *)

Daemon == [tcp |-> tcp, capture |-> capture, injector |-> injector]

tcpdelay_capture_close(c) == [c EXCEPT !.index = 0]

tcpdelay_injector_detach(index) == 0

\* detach_injector()
detach_injector(index) ==
  IF index = 0 THEN index ELSE tcpdelay_injector_detach(index)

\* tcp_close(): also detaches the injector.  The ring, the counters and the
\* estimator keep what they hold; failed_index and the qdisc stay.
tcp_close(s) ==
  IF ~s.tcp.open
  THEN s
  ELSE [tcp |-> [s.tcp EXCEPT !.open = FALSE, !.ack_sampled = FALSE,
                              !.ack_rate_valid = FALSE],
        capture |-> tcpdelay_capture_close(s.capture),
        injector |-> detach_injector(s.injector)]

\* Mutant: only CAKE's handle is compared, and a new interface gets the same.
capture_outdated_by_handle(s) ==
  s.tcp.handle # upload.handle \/ s.capture.model # upload.model

capture_outdated(s) ==
  \/ s.tcp.index # upload.index
  \/ s.tcp.handle # upload.handle
  \/ s.capture.model # upload.model

(* tcpdelay_capture_open() once the program is loaded: the name is looked  *)
(* up now, whatever index the links know.  Records left in the ring are    *)
(* consumed into the estimator, which is then cleared.                     *)

\* reset_counters(), with the ring and the estimator.
Cleared(c) == [c EXCEPT !.ring = << >>, !.counters = NoCounters, !.samples = {}]

attach_socket(c) == [c EXCEPT !.index = device.index]

tcpdelay_capture_open(c, opens) ==
  LET settings == [tcpdelay_capture_close(c) EXCEPT !.model = upload.model]
  IN CASE ~c.loaded -> c
       [] c.loaded /\ device.index = 0 -> settings
       [] c.loaded /\ device.index # 0 ->
            IF opens THEN attach_socket(Cleared(settings)) ELSE Cleared(settings)

\* Of the capture's object, by name again, and never a second time.
tcpdelay_injector_attach(index, c, attaches) ==
  IF c.loaded /\ attaches THEN device.index ELSE tcpdelay_injector_detach(index)

\* open_capture(), where fails names the call that does: the interface is left
\* alone then until it has another index.  A failure to attach the injector is
\* only logged.
open_capture(s, fails) ==
  LET c == tcpdelay_capture_open(tcpdelay_capture_load(s.capture, fails # "load"),
                                 fails # "open")
  IN
  IF c.index # 0
  THEN [tcp |-> [s.tcp EXCEPT
                   !.open = TRUE, !.index = upload.index,
                   !.handle = upload.handle, !.failed_index = 0,
                   !.dropped_records = 0, !.ack_sampled = FALSE,
                   !.ack_rate_valid = FALSE, !.ack_degraded = FALSE,
                   !.unaccounted = 0],
        capture |-> c,
        injector |-> tcpdelay_injector_attach(s.injector, c, fails # "attach")]
  ELSE [s EXCEPT !.tcp.failed_index = upload.index, !.capture = c]

\* capture_ready() up to the decision to open: a capture of another qdisc or
\* accounting is closed first.
Closed(s) ==
  IF ~upload.cake \/ (s.tcp.open /\ capture_outdated(s)) THEN tcp_close(s) ELSE s

MayOpen(s) == upload.cake /\ ~s.tcp.open /\ s.tcp.failed_index # upload.index

Ready(s, fails) == IF MayOpen(s) THEN open_capture(s, fails) ELSE s

\* Each record the ring holds is a sample of the estimator.
add_records(samples, ring) == samples \cup ToSet(ring)

tcpdelay_capture_drain(c) ==
  [c EXCEPT !.ring = << >>, !.samples = add_records(@, c.ring)]

\* drain(): a ring that cannot be read closes the capture for this index.
drain(s, reads) ==
  IF reads
  THEN [s EXCEPT !.capture = tcpdelay_capture_drain(@)]
  ELSE [tcp_close(s) EXCEPT !.tcp.failed_index = s.tcp.index]

\* report_dropped_records(), at most once a minute: whether now is abstracted.
report_dropped_records(s, counted) ==
  IF counted /\ s.capture.counters.ring_full > s.tcp.dropped_records
  THEN [s EXCEPT !.tcp.dropped_records = s.capture.counters.ring_full]
  ELSE s

(* measure_ack_rate(): the bytes since the last count over the time since  *)
(* it.  Counters that cannot be read drop the baseline; a packet without   *)
(* a charge makes the interval's rate unknown, not the baseline.           *)
Rates(t, c, now) ==
  LET degraded == \/ c.unaccounted # t.unaccounted
                  \/ t.ack_sampled /\ (c.acks < t.acks \/ c.upload < t.upload)
      valid == t.ack_sampled /\ ~degraded
      elapsed == now - t.ack_sampled_us
  IN [t EXCEPT
        !.ack_rate_valid = valid,
        !.ack_rate = IF valid THEN <<c.acks - t.acks, elapsed>> ELSE @,
        !.upload_rate = IF valid THEN <<c.upload - t.upload, elapsed>> ELSE @,
        !.ack_degraded = IF degraded \/ valid THEN degraded ELSE @,
        !.acks = c.acks, !.upload = c.upload, !.unaccounted = c.unaccounted,
        !.ack_sampled_us = now, !.ack_sampled = TRUE]

RatesDue(t, now) == now >= t.ack_sampled_us + TCPDELAY_ACK_RATE_INTERVAL

\* Mutant: a count that fails moves the time and keeps the baseline.
measure_ack_rate_keeping(t, c, now, reads) ==
  IF ~RatesDue(t, now) THEN t
  ELSE IF reads THEN Rates(t, c, now)
  ELSE [t EXCEPT !.ack_rate_valid = FALSE, !.ack_degraded = TRUE,
                 !.ack_sampled_us = now]

measure_ack_rate(t, c, now, reads) ==
  IF ~RatesDue(t, now) THEN t
  ELSE IF reads THEN Rates(t, c, now)
  ELSE [t EXCEPT !.ack_rate_valid = FALSE, !.ack_sampled = FALSE,
                 !.ack_degraded = TRUE, !.ack_sampled_us = now]
-----------------------------------------------------------------------------
(* Actions of the daemon.                                                  *)

SetDaemon(s) ==
  /\ tcp' = s.tcp
  /\ capture' = s.capture
  /\ injector' = s.injector

Spent(fails, ran) ==
  LET failed == IF fails = "none" THEN 0 ELSE 1
  IN /\ tcp_clock.failures + failed <= MaxTcpFailures
     /\ tcp_clock' = [tcp_clock EXCEPT !.failures = @ + failed,
                                       !.current = @ \/ ran]

\* measure_ack_rate() read the counters: what left before is now counted.
Counted(s) ==
  left' = IF s.tcp.open /\ RatesDue(s.tcp, tcp_clock.now)
          THEN NothingLeft(tcp_clock.now) ELSE left

(* tcp_observe() in each run of the controller: opens, reopens or closes   *)
(* the capture, drains the ring and measures; at most one call fails.      *)
TcpObserve(fails) ==
  LET ready == Ready(Closed(Daemon), fails)
      drained == IF ready.tcp.open THEN drain(ready, fails # "ring") ELSE ready
      counts == fails # "counters"
      done == IF drained.tcp.open THEN report_dropped_records(drained, counts) ELSE drained
  IN
  /\ IF done.tcp.open
     THEN SetDaemon([done EXCEPT !.tcp =
            measure_ack_rate(@, done.capture.counters, tcp_clock.now, counts)])
     ELSE SetDaemon(done)
  /\ Counted(done)
  /\ Spent(fails, TRUE)
  /\ UNCHANGED <<device, upload>>

\* tcp_drain() in the traffic tick.
TcpDrain(fails) ==
  /\ SetDaemon(IF ~upload.cake THEN tcp_close(Daemon)
               ELSE IF tcp.open THEN drain(Daemon, fails # "ring") ELSE Daemon)
  /\ Spent(fails, FALSE)
  /\ UNCHANGED <<device, upload, left>>

\* The links' observation of the upload interface (Links).
UploadObserved ==
  /\ upload # device
  /\ upload' = device
  /\ tcp_clock' = [tcp_clock EXCEPT !.current = FALSE]
  /\ UNCHANGED <<device, tcp, capture, injector, left>>
-----------------------------------------------------------------------------
(* The kernel: other programs change the interface, packets leave, answers *)
(* arrive.                                                                 *)

Change(new) ==
  /\ tcp_clock.changes < MaxKernelChanges
  /\ device' = new
  /\ tcp_clock' = [tcp_clock EXCEPT !.changes = @ + 1]
  /\ UNCHANGED <<upload, tcp, capture, injector, left>>

\* The interface is recreated with the next index; CAKE gets its first handle.
DeviceRecreated ==
  \E m \in UploadModels:
    Change([index |-> tcp_clock.changes + 2, cake |-> TRUE, handle |-> 1, model |-> m])

CakeReplaced ==
  /\ device.index # 0
  /\ \E m \in UploadModels:
       Change([device EXCEPT !.cake = TRUE, !.handle = @ + 1, !.model = m])

CakeRemoved == device.cake /\ Change([device EXCEPT !.cake = FALSE])

DeviceRemoved == device.index # 0 /\ Change(NO_DEVICE)

\* The filter sees what leaves the interface its socket is bound to.
Filtered == capture.index # 0 /\ capture.index = device.index

\* outgoing_bytes(): what CAKE charges a packet, which may be unknown.
Charged(kind) == IF kind = "odd" THEN 0 ELSE 1

\* A packet leaves: a pure ACK, other data, or one without a known charge.
PacketLeaves(kind) ==
  /\ device.index # 0
  /\ tcp_clock.packets < MaxPackets
  /\ tcp_clock' = [tcp_clock EXCEPT !.packets = @ + 1]
  /\ LET ack == IF kind = "ack" THEN 1 ELSE 0
         byte == Charged(kind)
         odd == IF kind = "odd" THEN 1 ELSE 0
     IN /\ capture' = IF Filtered
                      THEN [capture EXCEPT !.counters.acks = @ + ack,
                                           !.counters.upload = @ + byte,
                                           !.counters.unaccounted = @ + odd]
                      ELSE capture
        /\ left' = IF Filtered \/ ~tcp.open
                   THEN [left EXCEPT !.acks = @ + ack, !.upload = @ + byte,
                                     !.odd = @ + odd]
                   ELSE left
  /\ UNCHANGED <<device, upload, tcp, injector>>

\* An answer arrives: a record, or a record lost to a full ring.
RecordWritten ==
  /\ Filtered
  /\ tcp_clock.records < MaxRecords
  /\ tcp_clock' = [tcp_clock EXCEPT !.records = @ + 1]
  /\ capture' = IF Len(capture.ring) < RingRecords
                THEN [capture EXCEPT !.ring = Append(@, capture.index)]
                ELSE [capture EXCEPT !.counters.ring_full = @ + 1]
  /\ UNCHANGED <<device, upload, tcp, injector, left>>

TcpTime ==
  /\ tcp_clock.now < MaxTcpTime
  /\ tcp_clock' = [tcp_clock EXCEPT !.now = @ + 1]
  /\ UNCHANGED <<device, upload, tcp, capture, injector, left>>

TcpNext ==
  \/ \E fails \in {"none", "load", "open", "attach", "ring", "counters"}: TcpObserve(fails)
  \/ \E fails \in {"none", "ring"}: TcpDrain(fails)
  \/ UploadObserved
  \/ DeviceRecreated
  \/ CakeReplaced
  \/ CakeRemoved
  \/ DeviceRemoved
  \/ \E kind \in {"ack", "data", "odd"}: PacketLeaves(kind)
  \/ RecordWritten
  \/ TcpTime

TcpSpec == TcpInit /\ [][TcpNext]_tcpVars
-----------------------------------------------------------------------------
(* The estimator of an open capture holds records of the interface the     *)
(* capture is bound to, whatever was left in the ring or in the estimator  *)
(* by a capture that closed without draining.                              *)
NoStaleRecords == tcp.open => capture.samples \subseteq {capture.index}

(* A rate the controller limits the download by is that of all that left   *)
(* in the time it names: no packet without a charge is in it, and neither  *)
(* a reopened capture nor counters that could not be read shift its start. *)
AckRateTrue ==
  [][LET elapsed == tcp_clock.now - left.since
     IN tcp'.ack_rate_valid /\ tcp'.ack_sampled_us # tcp.ack_sampled_us =>
          /\ left.odd = 0
          /\ tcp'.ack_rate = <<left.acks, elapsed>>
          /\ tcp'.upload_rate = <<left.upload, elapsed>>]_tcpVars

(* The injector never outlives the capture, whose filter settles its       *)
(* handshakes; and once the controller has run with an observation that is *)
(* still true, an open capture and its injector are on that interface,     *)
(* with that accounting, although both are opened by name.                 *)
OnTheInterface ==
  /\ injector # 0 => tcp.open
  /\ (tcp.open /\ tcp_clock.current /\ upload = device) =>
       /\ capture.index = device.index
       /\ capture.model = device.model
       /\ injector \in {0, device.index}

\* The capture, its records and the injector are those of the interface and the
\* accounting that CAKE has now, whatever was replaced below them (capture_outdated,
\* open_capture, tcp_close).
CaptureTrue == NoStaleRecords /\ OnTheInterface
=============================================================================
