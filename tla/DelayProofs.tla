----------------------------- MODULE DelayProofs -----------------------------
(***************************************************************************)
(* What the daemon measures delay with, for any number of CPUs, packets,     *)
(* records, connections, probes and failures: the filter's records name       *)
(* departures that happened, whatever the CPUs' order; the capture, its       *)
(* records, its rates and its injector are those of the interface that CAKE   *)
(* is on; a server that has refused a timestamp is left alone for a day and a *)
(* learned one suits its client; and a probe of the daemon's own ends once,   *)
(* in a sample of its own reply or unanswered.                                *)
(***************************************************************************)
EXTENDS NativePinger, Tcp, TcpSampling, TcpInject, SequenceTheorems,
        FiniteSetTheorems, WellFoundedInduction, TLAPS

(* TcpSampling: the filter on several CPUs.                                 *)

Moment == 0 .. MaxFilterTime
FlowType == [outgoing : Int, departed : Int, incoming : Int, echo : Int, sampled : Int]
CpuType == [step : {"REST", "OUT", "IN"}, tsval : Int, echo : Int, now : Int,
            known : BOOLEAN, echoed : Int]

SamplingTypeOK ==
  /\ flow \in FlowType
  /\ departures \in [OurTsvals -> {NONE} \cup Moment]
  /\ record \in [arrival : Int, departure : Int, echo : Int]
  /\ cpu \in [CPUs -> CpuType]
  /\ ktime \in Moment

\* A departure that is recorded, or about to be, is one that happened.
DeparturesHappened ==
  /\ \A t \in OurTsvals : departures[t] # NONE =>
       <<t, departures[t]>> \in gone /\ departures[t] <= ktime
  /\ \A c \in CPUs : cpu[c].step = "OUT" =>
       cpu[c].tsval \in OurTsvals /\ <<cpu[c].tsval, cpu[c].now>> \in gone

\* A CPU in the middle of a packet has read the clock at most one unit ago, so that
\* no departure it finds is later than that.
ClockFresh ==
  \A c \in CPUs : cpu[c].step # "REST" =>
    /\ cpu[c].now \in Moment /\ cpu[c].now <= ktime /\ ktime <= cpu[c].now + 1
    /\ cpu[c].step = "IN" => cpu[c].echo \in OurTsvals \cup {0}

SamplingInv == SamplingTypeOK /\ DeparturesHappened /\ ClockFresh /\ DeparturesTrue

\* The mark of an empty field is no moment of the clock.
LEMMA NoneIsNoMoment == NONE \notin Moment /\ NONE \in Int /\ Moment \subseteq Int
  BY SamplingAssumption DEF NONE, Moment

\* A step of one CPU that leaves the clock alone.
LEMMA CpuStep ==
  ASSUME SamplingInv, NEW c \in CPUs, NEW step \in CpuType, Go(c, step), ktime' = ktime,
         gone \subseteq gone',
         step.step # "REST" =>
           /\ step.now = ktime
           /\ step.step = "IN" => step.echo \in OurTsvals \cup {0}
           /\ step.step = "OUT" => step.tsval \in OurTsvals /\ <<step.tsval, ktime>> \in gone'
  PROVE  /\ cpu' \in [CPUs -> CpuType] /\ ClockFresh'
         /\ \A b \in CPUs : cpu'[b].step = "OUT" =>
              cpu'[b].tsval \in OurTsvals /\ <<cpu'[b].tsval, cpu'[b].now>> \in gone'
  <1>1. /\ cpu' = [cpu EXCEPT ![c] = step] /\ cpu \in [CPUs -> CpuType]
        /\ ktime \in Moment
    BY DEF Go, SamplingInv, SamplingTypeOK
  <1>2. \A b \in CPUs : cpu'[b] = IF b = c THEN step ELSE cpu[b]
    BY <1>1
  <1>3. ktime <= ktime /\ ktime <= ktime + 1
    BY <1>1, NoneIsNoMoment
  <1>4. ClockFresh'
    BY <1>1, <1>2, <1>3 DEF SamplingInv, ClockFresh
  <1> QED
    BY <1>1, <1>2, <1>4 DEF SamplingInv, DeparturesHappened

\* A processor at rest has the type of a processor.
LEMMA RestingTyped == Resting \in CpuType /\ Resting.step = "REST"
  BY NoneIsNoMoment DEF Resting, CpuType

\* A flow no packet was seen of has the type of a flow.
LEMMA NoStateTyped == NoState \in FlowType
  BY NoneIsNoMoment DEF NoState, FlowType

\* A flow stays a flow whatever its fields are set to.
LEMMA FlowsTyped ==
  ASSUME NEW f \in FlowType, NEW o \in Int, NEW d \in Int, NEW i \in Int, NEW e \in Int,
         NEW s \in Int
  PROVE  [f EXCEPT !.outgoing = o, !.departed = d, !.incoming = i, !.echo = e,
                   !.sampled = s] \in FlowType
  BY DEF FlowType

\* The outgoing filter reading its flow keeps the invariant.
LEMMA OutgoingReadStep ==
  ASSUME SamplingInv, NEW c \in CPUs, NEW tsval \in OurTsvals, OutgoingRead(c, tsval)
  PROVE  SamplingInv'
  <1> DEFINE out == [Resting EXCEPT !.step = "OUT", !.tsval = tsval, !.now = ktime,
                                    !.known = Exists(flow)]
             step == IF flow.outgoing = tsval THEN Resting ELSE out
  <1>1. /\ gone' = gone \cup {<<tsval, ktime>>} /\ Go(c, step)
        /\ UNCHANGED <<flow, departures, record, ktime>>
    BY DEF OutgoingRead
  <1>2. ktime \in Moment /\ ktime \in Int /\ tsval \in Int
    BY NoneIsNoMoment, SamplingAssumption DEF SamplingInv, SamplingTypeOK
  <1>3. out \in CpuType /\ out.step = "OUT" /\ out.tsval = tsval /\ out.now = ktime
    BY <1>2, RestingTyped DEF CpuType, Exists
  <1> HIDE DEF out
  <1>4. /\ cpu' \in [CPUs -> CpuType] /\ ClockFresh'
        /\ \A b \in CPUs : cpu'[b].step = "OUT" =>
             cpu'[b].tsval \in OurTsvals /\ <<cpu'[b].tsval, cpu'[b].now>> \in gone'
    BY <1>1, <1>3, RestingTyped, CpuStep
  <1>5. SamplingTypeOK' /\ DeparturesHappened' /\ DeparturesTrue'
    BY <1>1, <1>4 DEF SamplingInv, SamplingTypeOK, DeparturesHappened, DeparturesTrue
  <1> QED
    BY <1>4, <1>5 DEF SamplingInv

\* The outgoing filter writing its flow keeps the invariant.
LEMMA OutgoingWriteStep ==
  ASSUME SamplingInv, NEW c \in CPUs, OutgoingWrite(c)
  PROVE  SamplingInv'
  <1> DEFINE recorded == \/ ~cpu[c].known
                         \/ Since(cpu[c].now, flow.departed) >= SAMPLE_INTERVAL
             made == [NoState EXCEPT !.outgoing = cpu[c].tsval,
                        !.departed = cpu[c].now, !.incoming = 0, !.echo = 0,
                        !.sampled = 0]
             moved == [flow EXCEPT !.outgoing = cpu[c].tsval,
                         !.departed = IF recorded THEN cpu[c].now ELSE @]
  <1>1. /\ cpu[c].step = "OUT" /\ Go(c, Resting)
        /\ departures' = IF recorded THEN Departed(c) ELSE departures
        /\ flow' = IF ~cpu[c].known THEN IF Exists(flow) THEN flow ELSE made ELSE moved
        /\ UNCHANGED <<record, ktime, gone>>
    BY DEF OutgoingWrite
  <1>2. /\ cpu[c].tsval \in OurTsvals /\ cpu[c].tsval \in Int
        /\ cpu[c].now \in Moment /\ cpu[c].now \in Int
        /\ <<cpu[c].tsval, cpu[c].now>> \in gone /\ cpu[c].now <= ktime
        /\ departures \in [OurTsvals -> {NONE} \cup Moment] /\ flow \in FlowType
    BY <1>1, NoneIsNoMoment, SamplingAssumption
       DEF SamplingInv, SamplingTypeOK, DeparturesHappened, ClockFresh
  <1>3. flow' \in FlowType
    <2>1. made \in FlowType
      <3>1. 0 \in Int
        OBVIOUS
      <3> QED
        BY <1>2, <3>1, NoStateTyped, FlowsTyped, Zenon
    <2>2. moved \in FlowType
      BY <1>2 DEF FlowType
    <2> QED
      BY <1>1, <1>2, <2>1, <2>2
  <1>4. /\ departures' \in [OurTsvals -> {NONE} \cup Moment]
        /\ \A t \in OurTsvals : departures'[t] # NONE =>
             <<t, departures'[t]>> \in gone /\ departures'[t] <= ktime
    <2> DEFINE value == IF departures[cpu[c].tsval] = NONE THEN cpu[c].now
                        ELSE departures[cpu[c].tsval]
    <2>1. Departed(c) = [departures EXCEPT ![cpu[c].tsval] = value]
      BY DEF Departed
    <2>2. \A t \in OurTsvals : departures[t] # NONE =>
            <<t, departures[t]>> \in gone /\ departures[t] <= ktime
      BY DEF SamplingInv, DeparturesHappened
    <2>3. value \in Moment \cup {NONE} /\ <<cpu[c].tsval, value>> \in gone
          /\ value <= ktime
      BY <1>2, <2>2
    <2> HIDE DEF value
    <2> QED
      BY <1>1, <1>2, <2>1, <2>2, <2>3
  <1>5. /\ cpu' \in [CPUs -> CpuType] /\ ClockFresh'
        /\ \A b \in CPUs : cpu'[b].step = "OUT" =>
             cpu'[b].tsval \in OurTsvals /\ <<cpu'[b].tsval, cpu'[b].now>> \in gone'
    BY <1>1, RestingTyped, CpuStep
  <1>6. SamplingTypeOK' /\ DeparturesHappened' /\ DeparturesTrue'
    BY <1>1, <1>3, <1>4, <1>5
       DEF SamplingInv, SamplingTypeOK, DeparturesHappened, DeparturesTrue
  <1> QED
    BY <1>5, <1>6 DEF SamplingInv

\* The incoming filter reading its flow keeps the invariant.
LEMMA IncomingReadStep ==
  ASSUME SamplingInv, NEW c \in CPUs, NEW tsval \in RemoteTsvals,
         NEW echo \in OurTsvals \cup {0}, IncomingRead(c, tsval, echo)
  PROVE  SamplingInv'
  <1> DEFINE in == [Resting EXCEPT !.step = "IN", !.tsval = tsval, !.echo = echo,
                                   !.now = ktime, !.known = Exists(flow),
                                   !.echoed = flow.echo]
             step == IF flow.incoming = tsval /\ flow.echo = echo THEN Resting ELSE in
  <1>1. Go(c, step) /\ UNCHANGED <<flow, departures, record, ktime, gone>>
    BY DEF IncomingRead
  <1>2. /\ ktime \in Int /\ tsval \in Int /\ echo \in Int /\ flow.echo \in Int
    BY NoneIsNoMoment, SamplingAssumption DEF SamplingInv, SamplingTypeOK, FlowType
  <1>3. in \in CpuType /\ in.step = "IN" /\ in.echo = echo /\ in.now = ktime
    BY <1>2, RestingTyped DEF CpuType, Exists
  <1> HIDE DEF in
  <1>4. /\ cpu' \in [CPUs -> CpuType] /\ ClockFresh'
        /\ \A b \in CPUs : cpu'[b].step = "OUT" =>
             cpu'[b].tsval \in OurTsvals /\ <<cpu'[b].tsval, cpu'[b].now>> \in gone'
    BY <1>1, <1>3, RestingTyped, CpuStep
  <1>5. SamplingTypeOK' /\ DeparturesHappened' /\ DeparturesTrue'
    BY <1>1, <1>4 DEF SamplingInv, SamplingTypeOK, DeparturesHappened, DeparturesTrue
  <1> QED
    BY <1>4, <1>5 DEF SamplingInv

\* The record's departure is the one recorded for the timestamp echoed, which no
\* CPU can have recorded later than the clock now reads.
LEMMA IncomingWriteStep ==
  ASSUME SamplingInv, NEW c \in CPUs, IncomingWrite(c)
  PROVE  SamplingInv'
  <1> DEFINE departure == IF Looked(c) THEN EchoedDeparture(c) ELSE NONE
             created == [NoState EXCEPT !.outgoing = 0, !.departed = 0,
                           !.incoming = cpu[c].tsval, !.echo = cpu[c].echo,
                           !.sampled = cpu[c].now]
             sampled == \/ ~cpu[c].known \/ departure # NONE
                        \/ Since(cpu[c].now, flow.sampled) >= SAMPLE_INTERVAL
             moved == [flow EXCEPT !.incoming = cpu[c].tsval, !.echo = cpu[c].echo,
                                   !.sampled = IF sampled THEN cpu[c].now ELSE @]
             new == [arrival |-> cpu[c].now, departure |-> departure, echo |-> cpu[c].echo]
  <1>1. /\ cpu[c].step = "IN" /\ Go(c, Resting)
        /\ flow' = IF ~cpu[c].known THEN IF Exists(flow) THEN flow ELSE created ELSE moved
        /\ record' = IF sampled THEN new ELSE record
        /\ UNCHANGED <<departures, ktime, gone>>
    BY DEF IncomingWrite
  <1>2. /\ cpu[c].now \in Moment /\ cpu[c].now \in Int /\ ktime <= cpu[c].now + 1
        /\ cpu[c].echo \in OurTsvals \cup {0} /\ cpu[c].echo \in Int
        /\ cpu[c].tsval \in Int /\ flow \in FlowType
        /\ departures \in [OurTsvals -> {NONE} \cup Moment]
    BY <1>1, NoneIsNoMoment, SamplingAssumption
       DEF SamplingInv, SamplingTypeOK, ClockFresh, CpuType
  <1>3. /\ departure \in {NONE} \cup Moment
        /\ departure # NONE =>
             <<cpu[c].echo, departure>> \in gone /\ departure <= cpu[c].now + 1
    <2> SUFFICES ASSUME departure # NONE
                 PROVE  /\ departure \in {NONE} \cup Moment
                        /\ <<cpu[c].echo, departure>> \in gone
                        /\ departure <= cpu[c].now + 1
      OBVIOUS
    <2>1. departure = departures[cpu[c].echo] /\ cpu[c].echo \in OurTsvals
      BY <1>2 DEF Looked, EchoedDeparture
    <2>2. <<cpu[c].echo, departure>> \in gone /\ departure <= ktime
      BY <2>1 DEF SamplingInv, DeparturesHappened
    <2>3. departure \in Moment
      BY <1>2, <2>1
    <2> HIDE DEF departure
    <2> QED
      BY <2>2, <2>3, <1>2, NoneIsNoMoment DEF SamplingInv, SamplingTypeOK
  <1>4. created \in FlowType
    <2>1. 0 \in Int
      OBVIOUS
    <2> QED
      BY <1>2, <2>1, NoStateTyped, FlowsTyped, Zenon
  <1>5. moved \in FlowType
    <2> DEFINE time == IF sampled THEN cpu[c].now ELSE flow.sampled
    <2>1. time \in Int
      BY <1>2 DEF FlowType
    <2>2. moved = [flow EXCEPT !.incoming = cpu[c].tsval, !.echo = cpu[c].echo,
                               !.sampled = time]
      OBVIOUS
    <2> HIDE DEF time, moved
    <2> QED
      BY <1>2, <2>1, <2>2 DEF FlowType
  <1> HIDE DEF departure, created, moved
  <1>6. flow' \in FlowType
    BY <1>1, <1>2, <1>4, <1>5
  <1>7. /\ new \in [arrival : Int, departure : Int, echo : Int]
        /\ new.arrival = cpu[c].now /\ new.departure = departure
        /\ new.echo = cpu[c].echo
    BY <1>2, <1>3, NoneIsNoMoment
  <1> HIDE DEF new, sampled
  <1>8. record' \in [arrival : Int, departure : Int, echo : Int] /\ DeparturesTrue'
    <2>1. CASE record' = new
      BY <2>1, <1>1, <1>3, <1>7 DEF DeparturesTrue
    <2>2. CASE record' = record
      BY <2>2, <1>1 DEF SamplingInv, SamplingTypeOK, DeparturesTrue
    <2> QED
      BY <1>1, <2>1, <2>2
  <1>9. /\ cpu' \in [CPUs -> CpuType] /\ ClockFresh'
        /\ \A b \in CPUs : cpu'[b].step = "OUT" =>
             cpu'[b].tsval \in OurTsvals /\ <<cpu'[b].tsval, cpu'[b].now>> \in gone'
    BY <1>1, RestingTyped, CpuStep
  <1>10. SamplingTypeOK' /\ DeparturesHappened'
    BY <1>1, <1>6, <1>8, <1>9 DEF SamplingInv, SamplingTypeOK, DeparturesHappened
  <1> QED
    BY <1>8, <1>9, <1>10 DEF SamplingInv

\* The passing of time keeps the invariant.
LEMMA FilterTimeStep ==
  ASSUME SamplingInv, FilterTime
  PROVE  SamplingInv'
  <1>1. /\ ktime < MaxFilterTime /\ ktime' = ktime + 1 /\ ktime \in Moment
        /\ \A c \in CPUs : cpu[c] = Resting \/ cpu[c].now = ktime
        /\ UNCHANGED <<flow, departures, record, cpu, gone>>
        /\ departures \in [OurTsvals -> {NONE} \cup Moment]
    BY DEF FilterTime, SamplingInv, SamplingTypeOK
  <1>2. ktime' \in Moment /\ ktime \in Int /\ ktime <= ktime'
    BY <1>1, SamplingAssumption DEF Moment
  <1>3. ClockFresh'
    <2> SUFFICES ASSUME NEW c \in CPUs, cpu[c].step # "REST"
                 PROVE  /\ cpu[c].now \in Moment /\ cpu[c].now <= ktime'
                        /\ ktime' <= cpu[c].now + 1
                        /\ cpu[c].step = "IN" => cpu[c].echo \in OurTsvals \cup {0}
      BY <1>1 DEF ClockFresh
    <2>1. cpu[c].now = ktime
      BY <1>1, RestingTyped
    <2> QED
      BY <1>1, <1>2, <2>1 DEF SamplingInv, ClockFresh
  <1>4. DeparturesHappened'
    <2>1. \A t \in OurTsvals : departures[t] # NONE => departures[t] <= ktime'
      <3> SUFFICES ASSUME NEW t \in OurTsvals, departures[t] # NONE
                   PROVE  departures[t] <= ktime'
        OBVIOUS
      <3>1. departures[t] \in Int /\ departures[t] <= ktime
        BY <1>1, NoneIsNoMoment DEF SamplingInv, DeparturesHappened
      <3> QED
        BY <3>1, <1>1, <1>2
    <2> QED
      BY <1>1, <2>1 DEF SamplingInv, DeparturesHappened
  <1>5. SamplingTypeOK' /\ DeparturesTrue'
    BY <1>1, <1>2 DEF SamplingInv, SamplingTypeOK, DeparturesTrue
  <1> QED
    BY <1>3, <1>4, <1>5 DEF SamplingInv

\* The invariant holds before the first packet.
LEMMA SamplingStart ==
  ASSUME SamplingInit
  PROVE  SamplingInv
  <1>1. /\ flow = NoState /\ departures = [t \in OurTsvals |-> NONE] /\ record = NoRecord
        /\ cpu = [c \in CPUs |-> Resting] /\ ktime = 0
    BY DEF SamplingInit
  <1>2. 0 \in Moment
    BY SamplingAssumption DEF Moment
  <1>3. NoRecord \in [arrival : Int, departure : Int, echo : Int] /\ NoRecord.departure = NONE
    BY NoneIsNoMoment DEF NoRecord
  <1>4. SamplingTypeOK
    BY <1>1, <1>2, <1>3, RestingTyped, NoStateTyped DEF SamplingTypeOK
  <1> QED
    BY <1>1, <1>3, <1>4, RestingTyped
       DEF SamplingInv, DeparturesHappened, ClockFresh, DeparturesTrue

\* Every step of the filters, and every stutter, keeps the invariant.
LEMMA SamplingStep ==
  ASSUME SamplingInv, [SamplingNext]_samplingVars
  PROVE  SamplingInv'
  <1>1. CASE SamplingNext
    BY <1>1, OutgoingReadStep, OutgoingWriteStep, IncomingReadStep, IncomingWriteStep,
       FilterTimeStep DEF SamplingNext
  <1>2. CASE UNCHANGED samplingVars
    BY <1>2 DEF samplingVars, SamplingInv, SamplingTypeOK, DeparturesHappened, ClockFresh,
                DeparturesTrue
  <1> QED
    BY <1>1, <1>2

\* The inductive invariant of the filter: what is recorded, or about to be, left
\* with the timestamp it is recorded under, and no later than the clock now reads.
THEOREM SamplingInvariance == SamplingSpec => []SamplingInv
  BY SamplingStart, SamplingStep, PTL DEF SamplingSpec

\* DeparturesTrue, for any number of CPUs and any timestamps: a record's departure is
\* a time at which a packet with the echoed timestamp left, and not later than the
\* reply by more than a run of the filter (outgoing and incoming).
THEOREM DeparturesHappen == SamplingSpec => []DeparturesTrue
  <1>1. SamplingInv => DeparturesTrue
    BY DEF SamplingInv
  <1> QED
    BY SamplingInvariance, <1>1, PTL
-----------------------------------------------------------------------------
(* Tcp: the daemon's side of the measurement.                                *)

Models == UploadModels \cup {0}
DeviceType == [index : Nat, cake : BOOLEAN, handle : Nat, model : Models]
TcpType ==
  [open : BOOLEAN, index : Nat, handle : Nat, failed_index : Nat, dropped_records : Nat,
   ack_sampled : BOOLEAN, ack_rate_valid : BOOLEAN, ack_degraded : BOOLEAN,
   ack_sampled_us : Nat, acks : Nat, upload : Nat, unaccounted : Nat,
   ack_rate : Int \X Int, upload_rate : Int \X Int]
CountersType == [acks : Nat, upload : Nat, unaccounted : Nat, ring_full : Nat]
CaptureType ==
  [loaded : BOOLEAN, index : Nat, model : Models, ring : Seq(Nat),
   counters : CountersType, samples : SUBSET Nat]
DaemonType == [tcp : TcpType, capture : CaptureType, injector : Nat]
LeftType == [acks : Nat, upload : Nat, odd : Nat, since : Nat]
ClockType == [now : Nat, changes : Nat, packets : Nat, records : Nat, failures : Nat,
              current : BOOLEAN]

\* Interfaces get ever higher indices, the links' view of one is no newer than the
\* interface itself, and CAKE is on an interface.
InterfacesOrdered ==
  /\ device \in DeviceType /\ upload \in DeviceType
  /\ left \in LeftType /\ tcp_clock \in ClockType
  /\ device.cake => device.index # 0
  /\ upload.cake => upload.index # 0
  /\ device.index <= tcp_clock.changes + 1 /\ upload.index <= tcp_clock.changes + 1
  /\ device.index # 0 => upload.index <= device.index

\* What a capture that is open is bound to, and that all it holds comes from there;
\* a closed one is bound to nothing.
BoundTo(s) ==
  IF s.tcp.open
  THEN /\ s.tcp.index # 0 /\ s.tcp.index <= s.capture.index
       /\ s.capture.index <= tcp_clock.changes + 1
       /\ device.index # 0 => s.capture.index <= device.index
       /\ s.capture.samples \subseteq {s.capture.index}
       /\ ToSet(s.capture.ring) \subseteq {s.capture.index}
       /\ s.injector \in {0, s.capture.index}
  ELSE s.capture.index = 0 /\ s.injector = 0

\* The counters are ahead of the baseline by what left since it was taken.
BaselineTrue(s) ==
  s.tcp.open /\ s.tcp.ack_sampled =>
    /\ s.capture.counters.acks = s.tcp.acks + left.acks
    /\ s.capture.counters.upload = s.tcp.upload + left.upload
    /\ s.capture.counters.unaccounted = s.tcp.unaccounted + left.odd
    /\ left.since = s.tcp.ack_sampled_us

Sound(s) == s \in DaemonType /\ BoundTo(s) /\ BaselineTrue(s)

\* An open capture is of the qdisc and the accounting the links know.
Fits(s) == s.tcp.open => upload.cake /\ ~capture_outdated(s)

TcpInv ==
  /\ InterfacesOrdered
  /\ Sound(Daemon)
  /\ tcp_clock.current => Fits(Daemon)

\* The daemon's functions are of a state s of any kind that is sound: each is shown to
\* keep it sound and, with the links' view unchanged, fitting.
LEMMA TcpCloseSound ==
  ASSUME NEW s, Sound(s)
  PROVE  /\ Sound(tcp_close(s)) /\ ~tcp_close(s).tcp.open
         /\ tcp_close(s).tcp.ack_sampled_us = s.tcp.ack_sampled_us
         /\ tcp_close(s).tcp.index = s.tcp.index
  <1>1. s \in DaemonType /\ s.tcp \in TcpType /\ s.capture \in CaptureType
        /\ s.tcp.open \in BOOLEAN
    BY DEF Sound, DaemonType, TcpType
  <1>2. CASE ~s.tcp.open
    BY <1>2 DEF tcp_close
  <1>3. CASE s.tcp.open
    <2> DEFINE t == [s.tcp EXCEPT !.open = FALSE, !.ack_sampled = FALSE,
                                  !.ack_rate_valid = FALSE]
               c == [s.capture EXCEPT !.index = 0]
    <2>1. /\ t \in TcpType /\ ~t.open /\ t.ack_sampled_us = s.tcp.ack_sampled_us
          /\ t.index = s.tcp.index
      BY <1>1 DEF TcpType
    <2>2. c \in CaptureType /\ c.index = 0
      BY <1>1 DEF CaptureType
    <2>3. s.injector \in Nat /\ detach_injector(s.injector) = 0
      BY <1>1 DEF DaemonType, detach_injector, tcpdelay_injector_detach
    <2>4. tcp_close(s) = [tcp |-> t, capture |-> c, injector |-> 0]
      BY <1>3, <2>3 DEF tcp_close, tcpdelay_capture_close
    <2> HIDE DEF t, c
    <2> QED
      BY <2>1, <2>2, <2>4 DEF Sound, DaemonType, BoundTo, BaselineTrue
  <1> QED
    BY <1>1, <1>2, <1>3

\* Closing the capture leaves it sound, and the moment of the last sample as it is.
LEMMA ClosedSound ==
  ASSUME NEW s, Sound(s)
  PROVE  /\ Sound(Closed(s)) /\ Fits(Closed(s))
         /\ Closed(s).tcp.ack_sampled_us = s.tcp.ack_sampled_us
  <1>1. CASE ~upload.cake \/ (s.tcp.open /\ capture_outdated(s))
    BY <1>1, TcpCloseSound DEF Closed, Fits
  <1>2. CASE ~(~upload.cake \/ (s.tcp.open /\ capture_outdated(s)))
    BY <1>2 DEF Closed, Fits
  <1> QED
    BY <1>1, <1>2

\* An initial capture has its type and is of no interface.
LEMMA CaptureInitTyped ==
  capture_init \in CaptureType /\ capture_init.index = 0 /\ NoCounters \in CountersType
  <1>1. NoCounters \in CountersType
    BY DEF NoCounters, CountersType
  <1>2. << >> \in Seq(Nat)
    OBVIOUS
  <1> QED
    BY <1>1, <1>2 DEF capture_init, CaptureType, Models

\* Loading the filter keeps the type of a capture of no interface.
LEMMA CaptureLoaded ==
  ASSUME NEW c \in CaptureType, c.index = 0, NEW loads \in BOOLEAN
  PROVE  /\ tcpdelay_capture_load(c, loads) \in CaptureType
         /\ tcpdelay_capture_load(c, loads).index = 0
  <1> DEFINE l == [c EXCEPT !.loaded = TRUE]
  <1>1. l \in CaptureType /\ l.index = 0
    BY DEF CaptureType
  <1>2. \/ tcpdelay_capture_load(c, loads) = c
        \/ tcpdelay_capture_load(c, loads) = l
        \/ tcpdelay_capture_load(c, loads) = capture_init
    BY DEF tcpdelay_capture_load, load_program
  <1> HIDE DEF l
  <1> QED
    BY <1>1, <1>2, CaptureInitTyped

\* tcpdelay_capture_open(): a capture that opens is bound to the interface of that
\* name and holds nothing; one that does not is bound to none.
LEMMA CaptureOpened ==
  ASSUME InterfacesOrdered, NEW c \in CaptureType, c.index = 0, NEW opens \in BOOLEAN,
         NEW r, r = tcpdelay_capture_open(c, opens)
  PROVE  /\ r \in CaptureType
         /\ r.index # 0 =>
              /\ r.index = device.index /\ r.model = upload.model
              /\ r.ring = << >> /\ r.samples = {} /\ r.loaded
  <1> DEFINE closed == [c EXCEPT !.index = 0]
             settings == [closed EXCEPT !.model = upload.model]
             cleared == [settings EXCEPT !.ring = << >>, !.counters = NoCounters,
                                         !.samples = {}]
             bound == [cleared EXCEPT !.index = device.index]
  <1>1. device.index \in Nat /\ upload.model \in Models
    BY DEF InterfacesOrdered, DeviceType
  <1>2. c.loaded \in BOOLEAN
    BY DEF CaptureType
  <1>3. closed \in CaptureType /\ closed.index = 0 /\ closed.loaded = c.loaded
    BY DEF CaptureType
  <1> HIDE DEF closed
  <1>4. /\ settings \in CaptureType /\ settings.index = 0 /\ settings.loaded = c.loaded
        /\ settings.model = upload.model
    BY <1>1, <1>3 DEF CaptureType
  <1> HIDE DEF settings
  <1>5. << >> \in Seq(Nat) /\ {} \in SUBSET Nat
    OBVIOUS
  <1>6. /\ cleared \in CaptureType /\ cleared.index = 0 /\ cleared.loaded = c.loaded
        /\ cleared.model = upload.model /\ cleared.ring = << >> /\ cleared.samples = {}
    BY <1>4, <1>5, CaptureInitTyped DEF CaptureType
  <1>7. Cleared(settings) = cleared
    BY DEF Cleared
  <1> HIDE DEF cleared
  <1>8. /\ bound \in CaptureType /\ bound.index = device.index /\ bound.loaded = c.loaded
        /\ bound.model = upload.model /\ bound.ring = << >> /\ bound.samples = {}
    BY <1>1, <1>6 DEF CaptureType
  <1>9. attach_socket(cleared) = bound
    BY DEF attach_socket
  <1> HIDE DEF bound
  <1>10. CASE ~c.loaded
    <2>1. r = c
      BY <1>10 DEF tcpdelay_capture_open
    <2> QED
      BY <2>1
  <1>11. CASE c.loaded /\ device.index = 0
    <2>1. r = settings
      BY <1>11 DEF tcpdelay_capture_open, tcpdelay_capture_close, settings, closed
    <2> QED
      BY <2>1, <1>4
  <1>12. CASE c.loaded /\ device.index # 0
    <2>1. r = IF opens THEN attach_socket(Cleared(settings)) ELSE Cleared(settings)
      BY <1>12 DEF tcpdelay_capture_open, tcpdelay_capture_close, settings, closed
    <2> QED
      BY <2>1, <1>6, <1>7, <1>8, <1>9, <1>12
  <1> QED
    BY <1>2, <1>10, <1>11, <1>12

\* open_capture(), of a capture that is closed, over CAKE.
LEMMA OpenSound ==
  ASSUME InterfacesOrdered, NEW s, Sound(s), upload.cake, ~s.tcp.open, NEW fails
  PROVE  /\ Sound(open_capture(s, fails)) /\ Fits(open_capture(s, fails))
         /\ open_capture(s, fails).tcp.ack_sampled_us = s.tcp.ack_sampled_us
  <1> DEFINE l == tcpdelay_capture_load(s.capture, fails # "load")
             c == tcpdelay_capture_open(l, fails # "open")
             opened == [s.tcp EXCEPT
                          !.open = TRUE, !.index = upload.index,
                          !.handle = upload.handle, !.failed_index = 0,
                          !.dropped_records = 0, !.ack_sampled = FALSE,
                          !.ack_rate_valid = FALSE, !.ack_degraded = FALSE,
                          !.unaccounted = 0]
             i == tcpdelay_injector_attach(s.injector, c, fails # "attach")
             failed == [s.tcp EXCEPT !.failed_index = upload.index]
             kept == [s EXCEPT !.tcp = failed, !.capture = c]
  <1>1. /\ s \in DaemonType /\ s.tcp \in TcpType /\ s.capture \in CaptureType
        /\ s.capture.index = 0 /\ s.injector = 0
    BY DEF Sound, DaemonType, BoundTo
  <1>2. /\ upload.index \in Nat /\ upload.handle \in Nat /\ device.index \in Nat
        /\ upload.index # 0 /\ device.index <= tcp_clock.changes + 1
        /\ device.index # 0 => upload.index <= device.index
    BY DEF InterfacesOrdered, DeviceType
  <1>3. (fails # "load") \in BOOLEAN /\ (fails # "open") \in BOOLEAN
    OBVIOUS
  <1>4. l \in CaptureType /\ l.index = 0
    BY <1>1, <1>3, CaptureLoaded
  <1> HIDE DEF l
  <1>5. /\ c \in CaptureType
        /\ c.index # 0 => /\ c.index = device.index /\ c.model = upload.model
                          /\ c.ring = << >> /\ c.samples = {}
    BY <1>3, <1>4, CaptureOpened
  <1>6. open_capture(s, fails) = IF c.index # 0
                                 THEN [tcp |-> opened, capture |-> c, injector |-> i]
                                 ELSE kept
    BY DEF open_capture, l
  <1> HIDE DEF c
  <1>7. /\ opened \in TcpType /\ opened.open /\ ~opened.ack_sampled
        /\ opened.index = upload.index /\ opened.handle = upload.handle
        /\ opened.ack_sampled_us = s.tcp.ack_sampled_us
    BY <1>1, <1>2 DEF TcpType
  <1>8. i \in Nat /\ i \in {0, device.index}
    BY <1>2 DEF tcpdelay_injector_attach, tcpdelay_injector_detach
  <1>9. failed \in TcpType /\ ~failed.open /\ failed.ack_sampled_us = s.tcp.ack_sampled_us
    BY <1>1, <1>2 DEF TcpType
  <1> HIDE DEF opened, i, failed
  <1>10. /\ kept \in DaemonType
         /\ kept.tcp = failed /\ kept.capture = c /\ kept.injector = 0
    BY <1>1, <1>5, <1>9 DEF DaemonType
  <1> HIDE DEF kept
  <1>11. CASE c.index # 0
    <2> DEFINE o == [tcp |-> opened, capture |-> c, injector |-> i]
    <2>1. o.tcp = opened /\ o.capture = c /\ o.injector = i /\ o \in DaemonType
      BY <1>5, <1>7, <1>8 DEF DaemonType
    <2>2. ToSet(<< >>) = {}
      BY DEF ToSet
    <2> HIDE DEF o
    <2>3. BoundTo(o)
      BY <1>2, <1>5, <1>7, <1>8, <1>11, <2>1, <2>2 DEF BoundTo
    <2>4. BaselineTrue(o)
      BY <1>7, <2>1 DEF BaselineTrue
    <2>5. Fits(o)
      BY <1>5, <1>7, <1>11, <2>1 DEF Fits, capture_outdated
    <2>6. open_capture(s, fails) = o
      BY <1>6, <1>11 DEF o
    <2> QED
      BY <1>7, <2>1, <2>3, <2>4, <2>5, <2>6 DEF Sound
  <1>12. CASE c.index = 0
    <2> QED
      BY <1>6, <1>9, <1>10, <1>12 DEF Sound, BoundTo, BaselineTrue, Fits
  <1> QED
    BY <1>11, <1>12

\* tcpdelay_ready leaves the capture sound and on the device the kernel has.
LEMMA ReadySound ==
  ASSUME InterfacesOrdered, NEW s, Sound(s), Fits(s), NEW fails
  PROVE  /\ Sound(Ready(s, fails)) /\ Fits(Ready(s, fails))
         /\ Ready(s, fails).tcp.ack_sampled_us = s.tcp.ack_sampled_us
  BY OpenSound DEF Ready, MayOpen

\* drain() of an open capture: the records it adds are of its interface.
LEMMA DrainSound ==
  ASSUME NEW s, Sound(s), s.tcp.open, NEW reads \in BOOLEAN
  PROVE  /\ Sound(drain(s, reads)) /\ (Fits(s) => Fits(drain(s, reads)))
         /\ drain(s, reads).tcp.ack_sampled_us = s.tcp.ack_sampled_us
  <1>1. /\ s \in DaemonType /\ s.tcp \in TcpType /\ s.capture \in CaptureType
        /\ s.injector \in Nat
    BY DEF Sound, DaemonType
  <1>2. CASE reads
    <2> DEFINE samples == s.capture.samples \cup ToSet(s.capture.ring)
               c == [s.capture EXCEPT !.ring = << >>, !.samples = samples]
               r == [s EXCEPT !.capture = c]
    <2>1. samples \subseteq {s.capture.index} /\ s.capture.index \in Nat
      BY <1>1 DEF Sound, BoundTo, CaptureType
    <2> HIDE DEF samples
    <2>2. << >> \in Seq(Nat) /\ samples \in SUBSET Nat /\ ToSet(<< >>) = {}
      BY <2>1 DEF ToSet
    <2>3. /\ c \in CaptureType /\ c.ring = << >> /\ c.samples = samples
          /\ c.index = s.capture.index /\ c.counters = s.capture.counters
          /\ c.model = s.capture.model
      BY <1>1, <2>2 DEF CaptureType
    <2>4. drain(s, reads) = r
      BY <1>2 DEF drain, tcpdelay_capture_drain, add_records, samples
    <2> HIDE DEF c
    <2>5. r \in DaemonType /\ r.tcp = s.tcp /\ r.capture = c /\ r.injector = s.injector
      BY <1>1, <2>3 DEF DaemonType
    <2> HIDE DEF r
    <2>6. BoundTo(r)
      BY <2>1, <2>2, <2>3, <2>5 DEF Sound, BoundTo
    <2>7. BaselineTrue(r)
      BY <2>3, <2>5 DEF Sound, BaselineTrue
    <2>8. Fits(s) => Fits(r)
      BY <2>3, <2>5 DEF Fits, capture_outdated
    <2> QED
      BY <2>4, <2>5, <2>6, <2>7, <2>8 DEF Sound
  <1>3. CASE ~reads
    <2> DEFINE e == tcp_close(s)
               t == [e.tcp EXCEPT !.failed_index = s.tcp.index]
               r == [e EXCEPT !.tcp = t]
    <2>1. /\ Sound(e) /\ ~e.tcp.open /\ e.tcp.ack_sampled_us = s.tcp.ack_sampled_us
          /\ s.tcp.index \in Nat
      BY <1>1, TcpCloseSound DEF TcpType
    <2>2. drain(s, reads) = [e EXCEPT !.tcp.failed_index = s.tcp.index]
      BY <1>3 DEF drain
    <2> HIDE DEF e
    <2>3. /\ e \in DaemonType /\ e.tcp \in TcpType /\ e.capture.index = 0
          /\ e.injector = 0
      BY <2>1 DEF Sound, DaemonType, BoundTo
    <2>4. /\ t \in TcpType /\ ~t.open /\ t.ack_sampled_us = s.tcp.ack_sampled_us
      BY <2>1, <2>3 DEF TcpType
    <2>5. drain(s, reads) = r
      BY <2>2
    <2> HIDE DEF t
    <2>6. r \in DaemonType /\ r.tcp = t /\ r.capture = e.capture /\ r.injector = 0
      BY <2>3, <2>4 DEF DaemonType
    <2> HIDE DEF r
    <2> QED
      BY <2>3, <2>4, <2>5, <2>6 DEF Sound, BoundTo, BaselineTrue, Fits
  <1> QED
    BY <1>2, <1>3

\* report_dropped_records leaves the capture sound.
LEMMA ReportSound ==
  ASSUME NEW s, Sound(s), Fits(s), NEW mismatch \in BOOLEAN
  PROVE  /\ Sound(report_dropped_records(s, mismatch))
         /\ Fits(report_dropped_records(s, mismatch))
         /\ report_dropped_records(s, mismatch).tcp.ack_sampled_us = s.tcp.ack_sampled_us
         /\ report_dropped_records(s, mismatch).tcp.open = s.tcp.open
  <1> DEFINE t == [s.tcp EXCEPT !.dropped_records = s.capture.counters.ring_full]
             r == [s EXCEPT !.tcp = t]
  <1>1. /\ s \in DaemonType /\ s.tcp \in TcpType /\ s.capture.counters.ring_full \in Nat
    BY DEF Sound, DaemonType, CaptureType, CountersType
  <1>2. report_dropped_records(s, mismatch) \in {s, r}
    BY DEF report_dropped_records
  <1>3. /\ t \in TcpType /\ t.open = s.tcp.open /\ t.index = s.tcp.index
        /\ t.handle = s.tcp.handle /\ t.ack_sampled = s.tcp.ack_sampled
        /\ t.ack_sampled_us = s.tcp.ack_sampled_us /\ t.acks = s.tcp.acks
        /\ t.upload = s.tcp.upload /\ t.unaccounted = s.tcp.unaccounted
    BY <1>1 DEF TcpType
  <1> HIDE DEF t
  <1>4. r \in DaemonType /\ r.tcp = t /\ r.capture = s.capture /\ r.injector = s.injector
    BY <1>1, <1>3 DEF DaemonType
  <1> HIDE DEF r
  <1>5. Sound(r) /\ Fits(r)
    BY <1>3, <1>4 DEF Sound, BoundTo, BaselineTrue, Fits, capture_outdated
  <1> QED
    BY <1>2, <1>3, <1>4, <1>5

\* Rates(): the baseline moves to the counters, and a rate is valid only between two
\* counts with every packet charged.
LEMMA RatesOf ==
  ASSUME NEW t \in TcpType, NEW c \in CountersType, NEW now \in Nat,
         NEW r, r = Rates(t, c, now)
  PROVE  /\ r \in TcpType /\ r.open = t.open /\ r.index = t.index /\ r.handle = t.handle
         /\ r.acks = c.acks /\ r.upload = c.upload /\ r.unaccounted = c.unaccounted
         /\ r.ack_sampled_us = now /\ r.ack_sampled
         /\ r.ack_rate_valid =>
              /\ t.ack_sampled /\ c.unaccounted = t.unaccounted
              /\ r.ack_rate = <<c.acks - t.acks, now - t.ack_sampled_us>>
              /\ r.upload_rate = <<c.upload - t.upload, now - t.ack_sampled_us>>
  <1> DEFINE degraded == \/ c.unaccounted # t.unaccounted
                         \/ t.ack_sampled /\ (c.acks < t.acks \/ c.upload < t.upload)
             valid == t.ack_sampled /\ ~degraded
             elapsed == now - t.ack_sampled_us
             acked == IF valid THEN <<c.acks - t.acks, elapsed>> ELSE t.ack_rate
             sent == IF valid THEN <<c.upload - t.upload, elapsed>> ELSE t.upload_rate
             poor == IF degraded \/ valid THEN degraded ELSE t.ack_degraded
  <1>1. /\ t.ack_sampled \in BOOLEAN /\ t.ack_degraded \in BOOLEAN
        /\ t.ack_sampled_us \in Nat /\ t.acks \in Nat /\ t.upload \in Nat
        /\ t.ack_rate \in Int \X Int /\ t.upload_rate \in Int \X Int
        /\ c.acks \in Nat /\ c.upload \in Nat /\ c.unaccounted \in Nat
    BY DEF TcpType, CountersType
  <1>2. degraded \in BOOLEAN /\ valid \in BOOLEAN
    BY <1>1, Zenon
  <1>3. valid => /\ t.ack_sampled /\ c.unaccounted = t.unaccounted
                 /\ acked = <<c.acks - t.acks, now - t.ack_sampled_us>>
                 /\ sent = <<c.upload - t.upload, now - t.ack_sampled_us>>
    OBVIOUS
  <1>4. elapsed \in Int /\ c.acks - t.acks \in Int /\ c.upload - t.upload \in Int
    BY <1>1
  <1>5. r = [t EXCEPT !.ack_rate_valid = valid, !.ack_rate = acked, !.upload_rate = sent,
                      !.ack_degraded = poor, !.acks = c.acks, !.upload = c.upload,
                      !.unaccounted = c.unaccounted, !.ack_sampled_us = now,
                      !.ack_sampled = TRUE]
    BY DEF Rates
  <1> HIDE DEF degraded, valid, elapsed
  <1>6. acked \in Int \X Int /\ sent \in Int \X Int /\ poor \in BOOLEAN
    BY <1>1, <1>2, <1>4
  <1> HIDE DEF acked, sent, poor
  <1>7. r \in TcpType
    BY <1>1, <1>2, <1>5, <1>6 DEF TcpType
  <1>8. /\ r.open = t.open /\ r.index = t.index /\ r.handle = t.handle
        /\ r.acks = c.acks /\ r.upload = c.upload /\ r.unaccounted = c.unaccounted
    BY <1>5 DEF TcpType
  <1>9. /\ r.ack_sampled_us = now /\ r.ack_sampled /\ r.ack_rate_valid = valid
        /\ r.ack_rate = acked /\ r.upload_rate = sent
    BY <1>5 DEF TcpType
  <1>10. r.ack_rate_valid =>
           /\ t.ack_sampled /\ c.unaccounted = t.unaccounted
           /\ r.ack_rate = <<c.acks - t.acks, now - t.ack_sampled_us>>
           /\ r.upload_rate = <<c.upload - t.upload, now - t.ack_sampled_us>>
    BY <1>3, <1>9, Zenon
  <1> QED
    BY <1>7, <1>8, <1>9, <1>10, Zenon

\* measure_ack_rate: without a due sample nothing changes; a valid rate is the
\* difference of two samples of the same capture.
LEMMA Measured ==
  ASSUME NEW t \in TcpType, NEW c \in CountersType, NEW now \in Nat,
         NEW reads \in BOOLEAN, NEW r, r = measure_ack_rate(t, c, now, reads)
  PROVE  /\ r \in TcpType /\ r.open = t.open /\ r.index = t.index /\ r.handle = t.handle
         /\ ~RatesDue(t, now) => r = t
         /\ RatesDue(t, now) =>
              /\ r.ack_sampled =>
                   /\ r.acks = c.acks /\ r.upload = c.upload
                   /\ r.unaccounted = c.unaccounted /\ r.ack_sampled_us = now
              /\ r.ack_rate_valid =>
                   /\ t.ack_sampled /\ c.unaccounted = t.unaccounted
                   /\ r.ack_rate = <<c.acks - t.acks, now - t.ack_sampled_us>>
                   /\ r.upload_rate = <<c.upload - t.upload, now - t.ack_sampled_us>>
  <1> DEFINE lost == [t EXCEPT !.ack_rate_valid = FALSE, !.ack_sampled = FALSE,
                               !.ack_degraded = TRUE, !.ack_sampled_us = now]
  <1>1. CASE ~RatesDue(t, now)
    BY <1>1 DEF measure_ack_rate
  <1>2. CASE RatesDue(t, now) /\ reads
    <2>1. r = Rates(t, c, now)
      BY <1>2 DEF measure_ack_rate
    <2>2. /\ r \in TcpType /\ r.open = t.open /\ r.index = t.index
          /\ r.handle = t.handle /\ r.acks = c.acks /\ r.upload = c.upload
          /\ r.unaccounted = c.unaccounted /\ r.ack_sampled_us = now
          /\ r.ack_rate_valid =>
               /\ t.ack_sampled /\ c.unaccounted = t.unaccounted
               /\ r.ack_rate = <<c.acks - t.acks, now - t.ack_sampled_us>>
               /\ r.upload_rate = <<c.upload - t.upload, now - t.ack_sampled_us>>
      BY <2>1, RatesOf, SMTT(30)
    <2> QED
      BY <1>2, <2>2, Zenon
  <1>3. CASE RatesDue(t, now) /\ ~reads
    <2>1. r = lost
      BY <1>3 DEF measure_ack_rate
    <2>2. /\ lost \in TcpType /\ lost.open = t.open /\ lost.index = t.index
          /\ lost.handle = t.handle /\ ~lost.ack_sampled /\ ~lost.ack_rate_valid
      BY DEF TcpType
    <2> HIDE DEF lost
    <2> QED
      BY <1>3, <2>1, <2>2
  <1> QED
    BY <1>1, <1>2, <1>3

-----------------------------------------------------------------------------
\* What AckRateTrue says of a step.
RateTrue ==
  LET elapsed == tcp_clock.now - left.since
  IN tcp'.ack_rate_valid /\ tcp'.ack_sampled_us # tcp.ack_sampled_us =>
       /\ left.odd = 0
       /\ tcp'.ack_rate = <<left.acks, elapsed>>
       /\ tcp'.upload_rate = <<left.upload, elapsed>>

\* A step of the daemon: the interfaces stay, and no bound but the failures moves.
LEMMA DaemonStep ==
  ASSUME TcpInv, NEW s \in DaemonType, BoundTo(s), SetDaemon(s), UNCHANGED <<device, upload>>,
         NEW fails, NEW ran \in BOOLEAN, Spent(fails, ran)
  PROVE  /\ Daemon' = s
         /\ tcp_clock' \in ClockType /\ tcp_clock'.changes = tcp_clock.changes
         /\ left' \in LeftType => InterfacesOrdered'
         /\ BoundTo(Daemon)'
         /\ Fits(Daemon)' <=> Fits(s)
         /\ tcp_clock'.current => tcp_clock.current \/ ran
  <1> DEFINE failed == IF fails = "none" THEN 0 ELSE 1
             current == tcp_clock.current \/ ran
             failures == tcp_clock.failures + failed
             clock == [tcp_clock EXCEPT !.failures = failures, !.current = current]
  <1>2. tcp' = s.tcp /\ capture' = s.capture /\ injector' = s.injector
    BY DEF SetDaemon
  <1>3. s = [tcp |-> s.tcp, capture |-> s.capture, injector |-> s.injector]
    BY DEF DaemonType
  <1>4. Daemon' = s
    BY <1>2, <1>3 DEF Daemon
  <1>5. tcp_clock' = clock /\ tcp_clock \in ClockType /\ failed \in Nat
    BY DEF Spent, TcpInv, InterfacesOrdered
  <1> HIDE DEF failed
  <1>10. tcp_clock.current \in BOOLEAN /\ failures \in Nat
    BY <1>5 DEF ClockType
  <1>11. current \in BOOLEAN
    BY <1>10, Zenon
  <1>12. current => tcp_clock.current \/ ran
    OBVIOUS
  <1> HIDE DEF failures, current
  <1>6. /\ clock \in ClockType /\ clock.changes = tcp_clock.changes
        /\ clock.current => tcp_clock.current \/ ran
    BY <1>5, <1>10, <1>11, <1>12 DEF ClockType
  <1> HIDE DEF clock
  <1>7. left' \in LeftType => InterfacesOrdered'
    BY <1>5, <1>6 DEF TcpInv, InterfacesOrdered
  <1>8. BoundTo(Daemon)'
    BY <1>2, <1>5, <1>6 DEF BoundTo, Daemon
  <1>9. Fits(Daemon)' <=> Fits(s)
    BY <1>2 DEF Fits, Daemon, capture_outdated
  <1> QED
    BY <1>4, <1>5, <1>6, <1>7, <1>8, <1>9

\* One drain of the loop keeps the invariant, and its rates are true.
LEMMA TcpDrainStep ==
  ASSUME TcpInv, NEW fails, TcpDrain(fails)
  PROVE  TcpInv' /\ RateTrue
  <1> DEFINE s == IF ~upload.cake THEN tcp_close(Daemon)
                  ELSE IF tcp.open THEN drain(Daemon, fails # "ring") ELSE Daemon
  <1>1. /\ SetDaemon(s) /\ Spent(fails, FALSE) /\ UNCHANGED <<device, upload, left>>
    BY DEF TcpDrain
  <1>2. /\ Sound(Daemon) /\ (tcp_clock.current => Fits(Daemon)) /\ InterfacesOrdered
        /\ (fails # "ring") \in BOOLEAN /\ Daemon.tcp = tcp
    BY DEF TcpInv, Daemon
  <1>3. /\ Sound(s) /\ (Fits(Daemon) => Fits(s))
        /\ s.tcp.ack_sampled_us = tcp.ack_sampled_us
    <2>1. CASE ~upload.cake
      BY <1>2, <2>1, TcpCloseSound DEF Fits
    <2>2. CASE upload.cake /\ tcp.open
      BY <1>2, <2>2, DrainSound
    <2>3. CASE upload.cake /\ ~tcp.open
      BY <1>2, <2>3
    <2> QED
      BY <2>1, <2>2, <2>3
  <1> HIDE DEF s
  <1>4. /\ Daemon' = s /\ (left' \in LeftType => InterfacesOrdered') /\ BoundTo(Daemon)'
        /\ Fits(Daemon)' <=> Fits(s)
        /\ tcp_clock'.current => tcp_clock.current
    BY <1>1, <1>3, DaemonStep DEF Sound
  <1>5. InterfacesOrdered'
    BY <1>1, <1>2, <1>4 DEF InterfacesOrdered
  <1>6. BaselineTrue(Daemon)'
    BY <1>1, <1>3 DEF SetDaemon, Daemon, Sound, BaselineTrue
  <1>7. Daemon' \in DaemonType
    BY <1>3, <1>4 DEF Sound
  <1>8. RateTrue
    BY <1>1, <1>3 DEF RateTrue, SetDaemon
  <1> QED
    BY <1>2, <1>3, <1>4, <1>5, <1>6, <1>7, <1>8 DEF TcpInv, Sound

\* The controller's run: whatever is open afterwards fits, and a rate it measures is of
\* all that left since the baseline.
LEMMA TcpObserveStep ==
  ASSUME TcpInv, NEW fails, TcpObserve(fails)
  PROVE  TcpInv' /\ RateTrue
  <1> DEFINE ready == Ready(Closed(Daemon), fails)
             reads == fails # "ring"
             counts == fails # "counters"
             drained == IF ready.tcp.open THEN drain(ready, reads) ELSE ready
             done == IF drained.tcp.open THEN report_dropped_records(drained, counts)
                     ELSE drained
             m == measure_ack_rate(done.tcp, done.capture.counters, tcp_clock.now, counts)
             measured == [done EXCEPT !.tcp = m]
             s == IF done.tcp.open THEN measured ELSE done
  <1>1. /\ SetDaemon(s) /\ Counted(done) /\ Spent(fails, TRUE)
        /\ UNCHANGED <<device, upload>>
    BY DEF TcpObserve
  <1>2. /\ Sound(Daemon) /\ InterfacesOrdered /\ Daemon.tcp = tcp
        /\ tcp_clock.now \in Nat /\ left \in LeftType
    BY DEF TcpInv, Daemon, InterfacesOrdered, ClockType
  <1>3. reads \in BOOLEAN /\ counts \in BOOLEAN
    OBVIOUS
  <1> HIDE DEF reads, counts
  <1>4. Sound(ready) /\ Fits(ready) /\ ready.tcp.ack_sampled_us = tcp.ack_sampled_us
    BY <1>2, ClosedSound, ReadySound
  <1> HIDE DEF ready
  <1>5. Sound(drained) /\ Fits(drained) /\ drained.tcp.ack_sampled_us = tcp.ack_sampled_us
    BY <1>3, <1>4, DrainSound
  <1> HIDE DEF drained
  <1>6. Sound(done) /\ Fits(done) /\ done.tcp.ack_sampled_us = tcp.ack_sampled_us
    BY <1>3, <1>5, ReportSound
  <1> HIDE DEF done
  <1>7. /\ done \in DaemonType /\ done.tcp \in TcpType
        /\ done.capture.counters \in CountersType /\ done.tcp.open \in BOOLEAN
    BY <1>6 DEF Sound, DaemonType, CaptureType, TcpType
  <1>8. /\ m \in TcpType /\ m.open = done.tcp.open /\ m.index = done.tcp.index
        /\ m.handle = done.tcp.handle
        /\ ~RatesDue(done.tcp, tcp_clock.now) => m = done.tcp
        /\ RatesDue(done.tcp, tcp_clock.now) =>
             /\ m.ack_sampled =>
                  /\ m.acks = done.capture.counters.acks
                  /\ m.upload = done.capture.counters.upload
                  /\ m.unaccounted = done.capture.counters.unaccounted
                  /\ m.ack_sampled_us = tcp_clock.now
             /\ m.ack_rate_valid =>
                  /\ done.tcp.ack_sampled
                  /\ done.capture.counters.unaccounted = done.tcp.unaccounted
                  /\ m.ack_rate = <<done.capture.counters.acks - done.tcp.acks,
                                    tcp_clock.now - done.tcp.ack_sampled_us>>
                  /\ m.upload_rate = <<done.capture.counters.upload - done.tcp.upload,
                                       tcp_clock.now - done.tcp.ack_sampled_us>>
    <2> DEFINE t == done.tcp
               c == done.capture.counters
               now == tcp_clock.now
    <2>1. /\ t \in TcpType /\ c \in CountersType /\ now \in Nat
          /\ m = measure_ack_rate(t, c, now, counts)
      BY <1>2, <1>7
    <2> HIDE DEF t, c, now, m
    <2>2. /\ m \in TcpType /\ m.open = t.open /\ m.index = t.index
          /\ m.handle = t.handle
          /\ ~RatesDue(t, now) => m = t
          /\ RatesDue(t, now) =>
               /\ m.ack_sampled =>
                    /\ m.acks = c.acks /\ m.upload = c.upload
                    /\ m.unaccounted = c.unaccounted /\ m.ack_sampled_us = now
               /\ m.ack_rate_valid =>
                    /\ t.ack_sampled /\ c.unaccounted = t.unaccounted
                    /\ m.ack_rate = <<c.acks - t.acks, now - t.ack_sampled_us>>
                    /\ m.upload_rate = <<c.upload - t.upload, now - t.ack_sampled_us>>
      BY <1>3, <2>1, Measured, SMTT(30)
    <2> QED
      BY <2>2 DEF t, c, now
  <1> HIDE DEF m
  <1>9. /\ measured \in DaemonType /\ measured.tcp = m
        /\ measured.capture = done.capture /\ measured.injector = done.injector
    BY <1>7, <1>8 DEF DaemonType
  <1> HIDE DEF measured
  <1>10. /\ s \in DaemonType /\ s.capture = done.capture /\ s.injector = done.injector
         /\ s.tcp.open = done.tcp.open /\ s.tcp.index = done.tcp.index
         /\ s.tcp.handle = done.tcp.handle
         /\ s.tcp = IF done.tcp.open THEN m ELSE done.tcp
    BY <1>7, <1>8, <1>9
  <1> HIDE DEF s
  <1>11. BoundTo(s) /\ Fits(s)
    BY <1>6, <1>10 DEF Sound, BoundTo, Fits, capture_outdated
  <1>12. tcp' = s.tcp /\ capture' = s.capture /\ injector' = s.injector
    BY <1>1 DEF SetDaemon
  <1> DEFINE c == done.capture.counters
  <1>13. /\ done.tcp.open /\ done.tcp.ack_sampled =>
              /\ c.acks = done.tcp.acks + left.acks
              /\ c.upload = done.tcp.upload + left.upload
              /\ c.unaccounted = done.tcp.unaccounted + left.odd
              /\ left.since = done.tcp.ack_sampled_us
         /\ left' = IF done.tcp.open /\ RatesDue(done.tcp, tcp_clock.now)
                    THEN NothingLeft(tcp_clock.now) ELSE left
    BY <1>1, <1>6 DEF Sound, BaselineTrue, Counted
  <1>14. left' \in LeftType
    BY <1>2, <1>13 DEF NothingLeft, LeftType
  <1>15. /\ Daemon' = s /\ InterfacesOrdered' /\ BoundTo(Daemon)' /\ Fits(Daemon)'
    BY <1>1, <1>10, <1>11, <1>14, DaemonStep
  <1>16. BaselineTrue(Daemon)'
    <2> SUFFICES ASSUME tcp'.open, tcp'.ack_sampled
                 PROVE  /\ capture'.counters.acks = tcp'.acks + left'.acks
                        /\ capture'.counters.upload = tcp'.upload + left'.upload
                        /\ capture'.counters.unaccounted = tcp'.unaccounted + left'.odd
                        /\ left'.since = tcp'.ack_sampled_us
      BY DEF BaselineTrue, Daemon
    <2>1. done.tcp.open /\ tcp' = m /\ capture' = done.capture
      BY <1>10, <1>12
    <2>2. CASE RatesDue(done.tcp, tcp_clock.now)
      <3>1. /\ m.acks = c.acks /\ m.upload = c.upload /\ m.unaccounted = c.unaccounted
            /\ m.ack_sampled_us = tcp_clock.now
        BY <1>8, <2>1, <2>2
      <3>2. /\ left'.acks = 0 /\ left'.upload = 0 /\ left'.odd = 0
            /\ left'.since = tcp_clock.now
        BY <1>13, <2>1, <2>2 DEF NothingLeft
      <3>3. c.acks \in Nat /\ c.upload \in Nat /\ c.unaccounted \in Nat
        BY <1>7 DEF CountersType
      <3> QED
        BY <2>1, <3>1, <3>2, <3>3
    <2>3. CASE ~RatesDue(done.tcp, tcp_clock.now)
      BY <1>8, <1>13, <2>1, <2>3
    <2> QED
      BY <2>2, <2>3
  <1>17. RateTrue
    <2> SUFFICES ASSUME tcp'.ack_rate_valid, tcp'.ack_sampled_us # tcp.ack_sampled_us
                 PROVE  /\ left.odd = 0
                        /\ tcp'.ack_rate = <<left.acks, tcp_clock.now - left.since>>
                        /\ tcp'.upload_rate = <<left.upload, tcp_clock.now - left.since>>
      BY DEF RateTrue
    <2>1. done.tcp.open /\ tcp' = m /\ RatesDue(done.tcp, tcp_clock.now)
      BY <1>6, <1>8, <1>10, <1>12
    <2>2. /\ done.tcp.ack_sampled /\ c.unaccounted = done.tcp.unaccounted
          /\ m.ack_rate = <<c.acks - done.tcp.acks, tcp_clock.now - done.tcp.ack_sampled_us>>
          /\ m.upload_rate = <<c.upload - done.tcp.upload,
                               tcp_clock.now - done.tcp.ack_sampled_us>>
      BY <1>8, <2>1
    <2>3. /\ done.tcp.acks \in Nat /\ done.tcp.upload \in Nat
          /\ done.tcp.unaccounted \in Nat
          /\ left.acks \in Nat /\ left.upload \in Nat /\ left.odd \in Nat
      BY <1>2, <1>7 DEF TcpType, LeftType
    <2>4. /\ c.acks = done.tcp.acks + left.acks
          /\ c.upload = done.tcp.upload + left.upload
          /\ c.unaccounted = done.tcp.unaccounted + left.odd
          /\ left.since = done.tcp.ack_sampled_us
      BY <1>13, <2>1, <2>2
    <2>5. /\ c.acks - done.tcp.acks = left.acks
          /\ c.upload - done.tcp.upload = left.upload /\ left.odd = 0
      BY <2>2, <2>3, <2>4
    <2> QED
      BY <2>1, <2>2, <2>4, <2>5
  <1> QED
    BY <1>10, <1>15, <1>16, <1>17 DEF TcpInv, Sound

\* A step of the kernel or the clock, which leaves the daemon alone.
LEMMA SurroundingsStep ==
  ASSUME TcpInv, InterfacesOrdered', UNCHANGED <<tcp, capture, injector, left>>,
         device'.index # 0 => \/ device'.index = device.index
                              \/ device'.index = tcp_clock.changes + 2,
         tcp_clock'.changes >= tcp_clock.changes,
         tcp_clock'.current => tcp_clock.current /\ upload' = upload
  PROVE  TcpInv' /\ RateTrue
  <1>1. Sound(Daemon) /\ InterfacesOrdered /\ (tcp_clock.current => Fits(Daemon))
    BY DEF TcpInv
  <1>2. /\ capture.index \in Nat /\ tcp_clock.changes \in Nat /\ tcp_clock'.changes \in Nat
        /\ device.index \in Nat
    BY <1>1 DEF Sound, DaemonType, CaptureType, Daemon, InterfacesOrdered, ClockType,
                DeviceType
  <1>3. BoundTo(Daemon)'
    <2>1. CASE tcp.open
      <3>1. /\ capture.index <= tcp_clock.changes + 1
            /\ device.index # 0 => capture.index <= device.index
        BY <1>1, <2>1 DEF Sound, BoundTo, Daemon
      <3>2. /\ capture.index <= tcp_clock'.changes + 1
            /\ device'.index # 0 => capture.index <= device'.index
        BY <1>2, <3>1
      <3> QED
        BY <1>1, <2>1, <3>2 DEF Sound, BoundTo, Daemon
    <2>2. CASE ~tcp.open
      BY <1>1, <2>2 DEF Sound, BoundTo, Daemon
    <2> QED
      BY <2>1, <2>2
  <1>4. Daemon' = Daemon /\ BaselineTrue(Daemon)'
    BY <1>1 DEF Sound, BaselineTrue, Daemon
  <1>5. tcp_clock'.current => Fits(Daemon)'
    BY <1>1 DEF Fits, Daemon, capture_outdated
  <1> QED
    BY <1>1, <1>3, <1>4, <1>5 DEF TcpInv, Sound, RateTrue

\* Any change of the device by the kernel keeps the invariant.
LEMMA ChangeStep ==
  ASSUME TcpInv, NEW new \in DeviceType, Change(new), new.cake => new.index # 0,
         \/ new.index = 0
         \/ new.index = device.index
         \/ new.index = tcp_clock.changes + 2
  PROVE  TcpInv' /\ RateTrue
  <1> DEFINE clock == [tcp_clock EXCEPT !.changes = @ + 1]
  <1>1. /\ device' = new /\ tcp_clock' = clock
        /\ UNCHANGED <<upload, tcp, capture, injector, left>>
    BY DEF Change
  <1>2. InterfacesOrdered /\ tcp_clock \in ClockType
    BY DEF TcpInv, InterfacesOrdered
  <1>3. /\ clock \in ClockType /\ clock.changes = tcp_clock.changes + 1
        /\ clock.current = tcp_clock.current
    BY <1>2 DEF ClockType
  <1> HIDE DEF clock
  <1>4. /\ tcp_clock.changes \in Nat /\ device.index \in Nat /\ upload.index \in Nat
        /\ new.index \in Nat
    BY <1>2 DEF InterfacesOrdered, ClockType, DeviceType
  <1>5. /\ new.index <= clock.changes + 1 /\ upload.index <= clock.changes + 1
        /\ new.index # 0 => upload.index <= new.index
    BY <1>2, <1>3, <1>4 DEF InterfacesOrdered
  <1>6. InterfacesOrdered'
    BY <1>1, <1>2, <1>3, <1>5 DEF InterfacesOrdered
  <1>7. tcp_clock'.changes >= tcp_clock.changes
    BY <1>1, <1>3, <1>4
  <1> QED
    BY <1>1, <1>3, <1>6, <1>7, SurroundingsStep

\* The four changes of the device keep the invariant.
LEMMA KernelChangeStep ==
  ASSUME TcpInv, DeviceRecreated \/ CakeReplaced \/ CakeRemoved \/ DeviceRemoved
  PROVE  TcpInv' /\ RateTrue
  <1>1. device \in DeviceType /\ tcp_clock.changes \in Nat
    BY DEF TcpInv, InterfacesOrdered, ClockType
  <1>2. CASE DeviceRecreated
    <2>1. PICK m \in UploadModels :
            Change([index |-> tcp_clock.changes + 2, cake |-> TRUE, handle |-> 1,
                    model |-> m])
      BY <1>2 DEF DeviceRecreated
    <2> DEFINE new == [index |-> tcp_clock.changes + 2, cake |-> TRUE, handle |-> 1,
                       model |-> m]
    <2>2. new \in DeviceType /\ new.index = tcp_clock.changes + 2 /\ new.index # 0
      BY <1>1 DEF DeviceType, Models
    <2> HIDE DEF new
    <2>3. Change(new)
      BY <2>1 DEF new
    <2> QED
      BY <2>2, <2>3, ChangeStep
  <1>3. CASE CakeReplaced
    <2>1. PICK m \in UploadModels :
            Change([device EXCEPT !.cake = TRUE, !.handle = @ + 1, !.model = m])
      BY <1>3 DEF CakeReplaced
    <2> DEFINE handle == device.handle + 1
               new == [device EXCEPT !.cake = TRUE, !.handle = handle, !.model = m]
    <2>2. /\ handle \in Nat
          /\ m \in Models
          /\ device.index # 0
      <3>1. handle \in Nat
        BY <1>1 DEF DeviceType
      <3>2. m \in Models
        BY DEF Models
      <3>3. device.index # 0
        BY <1>3 DEF CakeReplaced
      <3> QED
        BY <3>1, <3>2, <3>3
    <2>3. Change(new)
      BY <2>1
    <2> HIDE DEF handle
    <2>4. new \in DeviceType /\ new.index = device.index /\ new.index # 0
      BY <1>1, <2>2 DEF DeviceType
    <2> HIDE DEF new
    <2> QED
      BY <2>3, <2>4, ChangeStep
  <1>4. CASE CakeRemoved
    <2> DEFINE new == [device EXCEPT !.cake = FALSE]
    <2>1. new \in DeviceType /\ new.index = device.index /\ ~new.cake
      BY <1>1 DEF DeviceType
    <2> HIDE DEF new
    <2>2. Change(new)
      BY <1>4 DEF CakeRemoved, new
    <2> QED
      BY <2>1, <2>2, ChangeStep
  <1>5. CASE DeviceRemoved
    <2>1. NO_DEVICE \in DeviceType /\ NO_DEVICE.index = 0 /\ ~NO_DEVICE.cake
      BY DEF NO_DEVICE, DeviceType, Models
    <2> QED
      BY <1>5, <2>1, ChangeStep DEF DeviceRemoved
  <1> QED
    BY <1>2, <1>3, <1>4, <1>5

\* Accounted upload keeps the invariant.
LEMMA UploadObservedStep ==
  ASSUME TcpInv, UploadObserved
  PROVE  TcpInv' /\ RateTrue
  <1> DEFINE clock == [tcp_clock EXCEPT !.current = FALSE]
  <1>1. /\ upload' = device /\ tcp_clock' = clock
        /\ UNCHANGED <<device, tcp, capture, injector, left>>
    BY DEF UploadObserved
  <1>2. InterfacesOrdered /\ tcp_clock \in ClockType
    BY DEF TcpInv, InterfacesOrdered
  <1>3. clock \in ClockType /\ clock.changes = tcp_clock.changes /\ ~clock.current
    BY <1>2 DEF ClockType
  <1> HIDE DEF clock
  <1>4. tcp_clock.changes \in Nat /\ device.index \in Nat
    BY <1>2 DEF InterfacesOrdered, ClockType, DeviceType
  <1>5. InterfacesOrdered'
    BY <1>1, <1>2, <1>3, <1>4 DEF InterfacesOrdered
  <1> QED
    BY <1>1, <1>3, <1>4, <1>5, SurroundingsStep

\* The passing of time keeps the invariant.
LEMMA TcpTimeStep ==
  ASSUME TcpInv, TcpTime
  PROVE  TcpInv' /\ RateTrue
  <1> DEFINE clock == [tcp_clock EXCEPT !.now = @ + 1]
  <1>1. tcp_clock' = clock /\ UNCHANGED <<device, upload, tcp, capture, injector, left>>
    BY DEF TcpTime
  <1>2. InterfacesOrdered /\ tcp_clock \in ClockType
    BY DEF TcpInv, InterfacesOrdered
  <1>3. /\ clock \in ClockType /\ clock.changes = tcp_clock.changes
        /\ clock.current = tcp_clock.current /\ tcp_clock.changes \in Nat
    BY <1>2 DEF ClockType
  <1> HIDE DEF clock
  <1>4. InterfacesOrdered'
    BY <1>1, <1>2, <1>3 DEF InterfacesOrdered
  <1> QED
    BY <1>1, <1>3, <1>4, SurroundingsStep

\* A packet that leaves is counted by the filter and by the history alike, or by neither
\* while a capture is open.
LEMMA PacketLeavesStep ==
  ASSUME TcpInv, NEW kind, PacketLeaves(kind)
  PROVE  TcpInv' /\ RateTrue
  <1> DEFINE ack == IF kind = "ack" THEN 1 ELSE 0
             byte == Charged(kind)
             odd == IF kind = "odd" THEN 1 ELSE 0
             old == capture.counters
             acks == old.acks + ack
             bytes == old.upload + byte
             odds == old.unaccounted + odd
             counters == [old EXCEPT !.acks = acks, !.upload = bytes, !.unaccounted = odds]
             kept == [capture EXCEPT !.counters = counters]
             left_acks == left.acks + ack
             left_bytes == left.upload + byte
             left_odds == left.odd + odd
             more == [left EXCEPT !.acks = left_acks, !.upload = left_bytes,
                                  !.odd = left_odds]
             clock == [tcp_clock EXCEPT !.packets = @ + 1]
  <1>1. /\ tcp_clock' = clock /\ UNCHANGED <<device, upload, tcp, injector>>
        /\ capture' = IF Filtered THEN kept ELSE capture
        /\ left' = IF Filtered \/ ~tcp.open THEN more ELSE left
    BY DEF PacketLeaves
  <1>2. /\ InterfacesOrdered /\ tcp_clock \in ClockType /\ left \in LeftType
        /\ Sound(Daemon) /\ tcp \in TcpType /\ capture \in CaptureType /\ injector \in Nat
        /\ tcp_clock.current => Fits(Daemon)
    BY DEF TcpInv, InterfacesOrdered, Sound, DaemonType, Daemon
  <1>3. ack \in Nat /\ byte \in Nat /\ odd \in Nat
    BY DEF Charged
  <1>4. old \in CountersType /\ tcp.open \in BOOLEAN
    BY <1>2 DEF CaptureType, TcpType
  <1> HIDE DEF ack, byte, odd, old
  <1>15. acks \in Nat /\ bytes \in Nat /\ odds \in Nat
    BY <1>3, <1>4 DEF CountersType
  <1>16. left_acks \in Nat /\ left_bytes \in Nat /\ left_odds \in Nat
    BY <1>2, <1>3 DEF LeftType
  <1> HIDE DEF acks, bytes, odds, left_acks, left_bytes, left_odds
  <1>5. /\ clock \in ClockType /\ clock.changes = tcp_clock.changes
        /\ clock.current = tcp_clock.current
    BY <1>2 DEF ClockType
  <1>6. /\ more \in LeftType /\ more.acks = left_acks
        /\ more.upload = left_bytes /\ more.odd = left_odds
        /\ more.since = left.since
    BY <1>2, <1>16 DEF LeftType
  <1>7. /\ counters \in CountersType /\ counters.acks = acks
        /\ counters.upload = bytes /\ counters.unaccounted = odds
    BY <1>4, <1>15 DEF CountersType
  <1> HIDE DEF clock, more, counters
  <1>8. /\ kept \in CaptureType /\ kept.counters = counters
        /\ kept.index = capture.index /\ kept.model = capture.model
        /\ kept.ring = capture.ring /\ kept.samples = capture.samples
    BY <1>2, <1>7 DEF CaptureType
  <1> HIDE DEF kept
  <1>9. /\ capture' \in CaptureType /\ left' \in LeftType
        /\ capture'.index = capture.index /\ capture'.model = capture.model
        /\ capture'.ring = capture.ring /\ capture'.samples = capture.samples
    BY <1>1, <1>2, <1>6, <1>8
  <1>10. InterfacesOrdered'
    BY <1>1, <1>2, <1>5, <1>9 DEF InterfacesOrdered
  <1>11. Daemon' \in DaemonType
    BY <1>1, <1>2, <1>9 DEF DaemonType, Daemon
  <1>12. BoundTo(Daemon)'
    BY <1>1, <1>2, <1>5, <1>9 DEF Sound, BoundTo, Daemon
  <1>13. BaselineTrue(Daemon)'
    <2> SUFFICES ASSUME tcp.open, tcp.ack_sampled
                 PROVE  /\ capture'.counters.acks = tcp.acks + left'.acks
                        /\ capture'.counters.upload = tcp.upload + left'.upload
                        /\ capture'.counters.unaccounted = tcp.unaccounted + left'.odd
                        /\ left'.since = tcp.ack_sampled_us
      BY <1>1 DEF BaselineTrue, Daemon
    <2>1. /\ old.acks = tcp.acks + left.acks /\ old.upload = tcp.upload + left.upload
          /\ old.unaccounted = tcp.unaccounted + left.odd
          /\ left.since = tcp.ack_sampled_us
      BY <1>2 DEF Sound, BaselineTrue, Daemon, old
    <2>2. CASE Filtered
      <3>1. capture'.counters = counters /\ left' = more
        BY <1>1, <1>8, <2>2
      <3>2. /\ tcp.acks \in Nat /\ tcp.upload \in Nat /\ tcp.unaccounted \in Nat
            /\ left.acks \in Nat /\ left.upload \in Nat /\ left.odd \in Nat
        BY <1>2 DEF TcpType, LeftType
      <3> QED
        BY <1>3, <1>6, <1>7, <2>1, <3>1, <3>2
           DEF acks, bytes, odds, left_acks, left_bytes, left_odds
    <2>3. CASE ~Filtered
      BY <1>1, <2>1, <2>3 DEF old
    <2> QED
      BY <2>2, <2>3
  <1>14. tcp_clock'.current => Fits(Daemon)'
    BY <1>1, <1>2, <1>5, <1>9 DEF Fits, Daemon, capture_outdated
  <1> QED
    BY <1>1, <1>10, <1>11, <1>12, <1>13, <1>14 DEF TcpInv, Sound, RateTrue

\* A record of the kernel keeps the invariant.
LEMMA RecordWrittenStep ==
  ASSUME TcpInv, RecordWritten
  PROVE  TcpInv' /\ RateTrue
  <1> DEFINE ring == Append(capture.ring, capture.index)
             full == [capture.counters EXCEPT !.ring_full = @ + 1]
             written == [capture EXCEPT !.ring = ring]
             lost == [capture EXCEPT !.counters = full]
             clock == [tcp_clock EXCEPT !.records = @ + 1]
  <1>1. /\ tcp_clock' = clock /\ UNCHANGED <<device, upload, tcp, injector, left>>
        /\ capture' = written \/ capture' = lost
    BY DEF RecordWritten
  <1>2. /\ InterfacesOrdered /\ tcp_clock \in ClockType
        /\ Sound(Daemon) /\ tcp \in TcpType /\ capture \in CaptureType /\ injector \in Nat
        /\ tcp_clock.current => Fits(Daemon)
    BY DEF TcpInv, InterfacesOrdered, Sound, DaemonType, Daemon
  <1>3. /\ capture.ring \in Seq(Nat) /\ capture.index \in Nat
        /\ capture.counters \in CountersType
    BY <1>2 DEF CaptureType
  <1>4. /\ clock \in ClockType /\ clock.changes = tcp_clock.changes
        /\ clock.current = tcp_clock.current
    BY <1>2 DEF ClockType
  <1>5. ring \in Seq(Nat) /\ ToSet(ring) = ToSet(capture.ring) \cup {capture.index}
    <2> DEFINE q == capture.ring
    <2> HIDE DEF q
    <2>1. q \in Seq(Nat)
      BY <1>3 DEF q
    <2>2. /\ Append(q, capture.index) \in Seq(Nat)
          /\ Len(Append(q, capture.index)) = Len(q) + 1
          /\ \A i \in 1 .. Len(q) : Append(q, capture.index)[i] = q[i]
          /\ Append(q, capture.index)[Len(q) + 1] = capture.index
      BY <1>3, <2>1, AppendProperties
    <2>3. Len(q) \in Nat /\ DOMAIN q = 1 .. Len(q)
          /\ DOMAIN Append(q, capture.index) = 1 .. (Len(q) + 1)
      BY <2>1, <2>2, LenProperties
    <2>4. ToSet(Append(q, capture.index)) = ToSet(q) \cup {capture.index}
      BY <2>2, <2>3 DEF ToSet
    <2> QED
      BY <2>2, <2>4 DEF q
  <1>6. /\ full \in CountersType /\ full.acks = capture.counters.acks
        /\ full.upload = capture.counters.upload
        /\ full.unaccounted = capture.counters.unaccounted
    BY <1>3 DEF CountersType
  <1> HIDE DEF clock, ring, full
  <1>7. /\ written \in CaptureType /\ written.ring = ring
        /\ written.counters = capture.counters /\ written.index = capture.index
        /\ written.model = capture.model /\ written.samples = capture.samples
    BY <1>2, <1>5 DEF CaptureType
  <1>8. /\ lost \in CaptureType /\ lost.ring = capture.ring
        /\ lost.counters = full /\ lost.index = capture.index
        /\ lost.model = capture.model /\ lost.samples = capture.samples
    BY <1>2, <1>6 DEF CaptureType
  <1> HIDE DEF written, lost
  <1>9. /\ capture' \in CaptureType
        /\ capture'.index = capture.index /\ capture'.model = capture.model
        /\ capture'.samples = capture.samples
        /\ ToSet(capture'.ring) \subseteq ToSet(capture.ring) \cup {capture.index}
        /\ capture'.counters.acks = capture.counters.acks
        /\ capture'.counters.upload = capture.counters.upload
        /\ capture'.counters.unaccounted = capture.counters.unaccounted
    BY <1>1, <1>5, <1>6, <1>7, <1>8
  <1>10. InterfacesOrdered'
    BY <1>1, <1>2, <1>4 DEF InterfacesOrdered
  <1>11. Daemon' \in DaemonType
    BY <1>1, <1>2, <1>9 DEF DaemonType, Daemon
  <1>12. BoundTo(Daemon)'
    BY <1>1, <1>2, <1>4, <1>9 DEF Sound, BoundTo, Daemon
  <1>13. BaselineTrue(Daemon)'
    BY <1>1, <1>2, <1>9 DEF Sound, BaselineTrue, Daemon
  <1>14. tcp_clock'.current => Fits(Daemon)'
    BY <1>1, <1>2, <1>4, <1>9 DEF Fits, Daemon, capture_outdated
  <1> QED
    BY <1>1, <1>10, <1>11, <1>12, <1>13, <1>14 DEF TcpInv, Sound, RateTrue

\* The invariant holds before the capture opens.
LEMMA TcpStart ==
  ASSUME TcpInit
  PROVE  TcpInv
  <1>1. PICK loads \in BOOLEAN : capture = tcpdelay_capture_load(capture_init, loads)
    BY DEF TcpInit
  <1>2. capture \in CaptureType /\ capture.index = 0
    BY <1>1, CaptureInitTyped, CaptureLoaded
  <1>3. /\ tcp_init \in TcpType /\ ~tcp_init.open
    <2>1. <<0, 0>> \in Int \X Int
      OBVIOUS
    <2> QED
      BY <2>1 DEF tcp_init, TcpType
  <1>4. Sound(Daemon) /\ Fits(Daemon)
    BY <1>2, <1>3 DEF TcpInit, Sound, DaemonType, Daemon, BoundTo, BaselineTrue, Fits
  <1>5. InterfacesOrdered
    <2>1. /\ device \in DeviceType /\ device.cake /\ device.index = 1
      <3>1. device \in [index : {1}, cake : {TRUE}, handle : {1}, model : UploadModels]
        BY DEF TcpInit
      <3>2. UploadModels \subseteq Models
        BY DEF Models
      <3>3. device.cake /\ device.index = 1 /\ device.handle = 1 /\ device.model \in Models
        BY <3>1, <3>2
      <3>4. PICK m \in Models :
              device = [index |-> 1, cake |-> TRUE, handle |-> 1, model |-> m]
        BY <3>1, <3>3
      <3>5. [index |-> 1, cake |-> TRUE, handle |-> 1, model |-> m] \in DeviceType
        BY DEF DeviceType
      <3> QED
        BY <3>3, <3>4, <3>5, Zenon
    <2>2. upload \in DeviceType /\ ~upload.cake /\ upload.index = 0
      BY DEF TcpInit, NO_DEVICE, DeviceType, Models
    <2>3. left \in LeftType
      BY DEF TcpInit, NothingLeft, LeftType
    <2>4. tcp_clock \in ClockType /\ tcp_clock.changes = 0
      BY DEF TcpInit, ClockType
    <2> QED
      BY <2>1, <2>2, <2>3, <2>4 DEF InterfacesOrdered
  <1> QED
    BY <1>4, <1>5 DEF TcpInv

\* Every step of the capture keeps the invariant, and changes its rates truly.
LEMMA TcpStep ==
  ASSUME TcpInv, [TcpNext]_tcpVars
  PROVE  TcpInv' /\ [RateTrue]_tcpVars
  <1>1. CASE TcpNext
    BY <1>1, TcpObserveStep, TcpDrainStep, UploadObservedStep, KernelChangeStep,
       PacketLeavesStep, RecordWrittenStep, TcpTimeStep DEF TcpNext
  <1>2. CASE UNCHANGED tcpVars
    BY <1>2 DEF tcpVars, TcpInv, InterfacesOrdered, Sound, BoundTo, BaselineTrue, Fits,
                capture_outdated, Daemon
  <1> QED
    BY <1>1, <1>2

\* The inductive invariant of the capture: interfaces get ever higher indices and the
\* links know none before it exists; what a capture holds comes from the interface it
\* is bound to; its counters are ahead of the baseline by what left since; and the
\* controller's run leaves a capture of the qdisc the links know.
THEOREM TcpInvariance == TcpSpec => []TcpInv
  BY TcpStart, TcpStep, PTL DEF TcpSpec

\* CaptureTrue, for any number of changes, packets, records and failures: once the
\* controller has run with an observation that is still true, a capture that was opened
\* by name is of that interface, with its accounting, its records and its injector.
THEOREM CaptureIsTrue == TcpSpec => []CaptureTrue
  <1>1. ASSUME TcpInv
        PROVE  CaptureTrue
    <2>1. Sound(Daemon) /\ InterfacesOrdered /\ (tcp_clock.current => Fits(Daemon))
      BY <1>1 DEF TcpInv
    <2>2. NoStaleRecords /\ (injector # 0 => tcp.open)
      BY <2>1 DEF Sound, BoundTo, Daemon, NoStaleRecords
    <2>3. ASSUME tcp.open, tcp_clock.current, upload = device
          PROVE  /\ capture.index = device.index /\ capture.model = device.model
                 /\ injector \in {0, device.index}
      <3>1. /\ device.cake /\ tcp.index = device.index /\ capture.model = device.model
            /\ device.index # 0 /\ device.index \in Nat /\ capture.index \in Nat
        BY <2>1, <2>3 DEF Fits, capture_outdated, Daemon, InterfacesOrdered, DeviceType,
                          Sound, DaemonType, CaptureType
      <3>2. /\ tcp.index <= capture.index /\ capture.index <= device.index
            /\ injector \in {0, capture.index}
        BY <2>1, <2>3, <3>1 DEF Sound, BoundTo, Daemon
      <3> QED
        BY <3>1, <3>2
    <2> QED
      BY <2>2, <2>3 DEF CaptureTrue, OnTheInterface
  <1> QED
    BY TcpInvariance, <1>1, PTL

\* AckRateTrue, for any number of packets and failed reads: a valid rate is that of all
\* that left between the two counts it names.
THEOREM RatesAreTrue == TcpSpec => AckRateTrue
  BY TcpInvariance, TcpStep, PTL DEF TcpSpec, AckRateTrue, RateTrue
(* NativePinger: the probes.                                                *)

ProbeType == [serial : Nat, target : Target, sent : Nat, pending : BOOLEAN]
NativeType ==
  [open : BOOLEAN, mode : {"ECHO", "TIMESTAMP"}, token : Nat,
   requests : [0 .. capacity - 1 -> ProbeType],
   next_serial : Nat, expired_serial : Nat, timeout_count : Nat, next_target : Target,
   next_send : Nat, target_next : [Target -> Nat], send_failed : [Target -> BOOLEAN]]

\* The serials that are not over, and where the ring has them.
InRing(n) == n.expired_serial .. n.next_serial - 1
Entry(n, k) == n.requests[request_slot(k)]
Waiting(n) == {k \in InRing(n) : Entry(n, k).pending}

AskedBy(n, a) == {q \in a : q.token = n.token}
SampledBy(n, s) == {x \in s : x.token = n.token}

\* The ring has room for what is not over, keeps each serial in its place as it was
\* asked, and waits for nothing else.
RingTrue(n, a) ==
  /\ n.expired_serial <= n.next_serial /\ n.next_serial - n.expired_serial <= capacity
  /\ \A k \in InRing(n) :
       /\ Entry(n, k).serial = k
       /\ \E q \in AskedBy(n, a) : /\ q.serial = k /\ q.target = Entry(n, k).target
                                   /\ q.sent = Entry(n, k).sent
  /\ \A p \in 0 .. capacity - 1 :
       n.requests[p].pending => /\ n.requests[p].serial \in InRing(n)
                                /\ request_slot(n.requests[p].serial) = p

\* Every request is followed by a spacing for each one after it, but for less than one
\* spacing that it may have been late itself.
Spread(n) ==
  \A k \in InRing(n) : Entry(n, k).sent + (n.next_serial - k - 1) * Spacing < n.next_send

AskedSound(n, a) ==
  /\ IsFiniteSet(a)
  /\ \A q \in a : /\ q.token \in Nat /\ q.token <= n.token
                  /\ q.serial \in Nat /\ q.sent \in Nat /\ q.target \in Target
  /\ \A q \in AskedBy(n, a) :
       /\ q.serial < n.next_serial /\ q.sent < n.next_send
       /\ q.sent + Period < n.target_next[q.target] + Spacing
  /\ \A q, r \in AskedBy(n, a) :
       /\ q.serial = r.serial => q = r
       /\ q.serial < r.serial => q.sent < r.sent
       /\ q.target = r.target /\ q.serial < r.serial => r.sent - q.sent > Period - Spacing

SampledSound(n, s) ==
  /\ IsFiniteSet(s)
  /\ \A x \in s : /\ x.token \in Nat /\ x.token <= n.token /\ x.serial \in Nat
                  /\ x.reply.token = x.token /\ x.reply.serial = x.serial
                  /\ x.source = x.reply.target
  /\ \A x, y \in s : x.token = y.token /\ x.serial = y.serial => x = y
  /\ \A x \in SampledBy(n, s) : x.serial < n.next_serial /\ x.serial \notin Waiting(n)

Settled(n, a, s) ==
  Cardinality(AskedBy(n, a)) =
    Cardinality(SampledBy(n, s)) + n.timeout_count + Cardinality(Waiting(n))

SoundProbes(n, a, s) ==
  /\ n \in NativeType /\ RingTrue(n, a) /\ Spread(n)
  /\ AskedSound(n, a) /\ SampledSound(n, s) /\ Settled(n, a, s)

NativeInv == probe_now \in Nat /\ SoundProbes(native, asked, sampled_from)

\* The bounds of the pinger as arithmetic the provers can use.
LEMMA ProbeBounds ==
  /\ TargetCount \in Nat \ {0} /\ Spacing \in Nat \ {0} /\ Period \in Nat
  /\ Period >= Spacing /\ ResponseTimeout \in Nat /\ SequenceNumbers \in Nat \ {0}
  /\ ResponseTimeout \div Spacing \in Nat
  /\ capacity \in Nat \ {0} /\ capacity = ResponseTimeout \div Spacing + 2
  /\ 0 \in Target /\ Target \subseteq Nat
  /\ \A t \in Target : (t + 1) % TargetCount \in Target
  /\ \A k \in Nat : request_slot(k) \in 0 .. capacity - 1
  <1>1. /\ TargetCount \in Nat \ {0} /\ Spacing \in Nat \ {0} /\ Period \in Nat
        /\ Period >= Spacing * TargetCount /\ ResponseTimeout \in Nat
        /\ SequenceNumbers \in Nat /\ SequenceNumbers > ResponseTimeout \div Spacing + 2
    BY NativeAssumption
  <1>2. ResponseTimeout \div Spacing \in Nat
    BY <1>1
  <1>3. Period >= Spacing
    <2>1. Spacing * TargetCount >= Spacing
      BY <1>1
    <2>2. Spacing * TargetCount \in Nat
      BY <1>1
    <2> QED
      BY <1>1, <2>1, <2>2
  <1>4. capacity \in Nat \ {0} /\ capacity = ResponseTimeout \div Spacing + 2
    BY <1>2 DEF capacity
  <1>5. \A k \in Nat : request_slot(k) \in 0 .. capacity - 1
    BY <1>4 DEF request_slot
  <1>6. 0 \in Target /\ Target \subseteq Nat /\ \A t \in Target : (t + 1) % TargetCount \in Target
    BY <1>1 DEF Target
  <1> QED
    BY <1>1, <1>2, <1>3, <1>4, <1>5, <1>6

\* request_slot(), of serials less than the capacity apart.
LEMMA SlotsDiffer ==
  ASSUME NEW a \in Nat, NEW b \in Nat, a < b, b - a < capacity
  PROVE  request_slot(a) # request_slot(b)
  <1> SUFFICES ASSUME a % capacity = b % capacity PROVE FALSE
    BY DEF request_slot
  <1> DEFINE c == capacity
             x == a \div c
             y == b \div c
             z == a % c
  <1>1. c \in Nat \ {0}
    BY ProbeBounds
  <1> HIDE DEF c
  <1>2. a = c * x + z /\ b = c * y + z /\ x \in Int /\ y \in Int /\ z \in Int
    BY <1>1 DEF c
  <1> HIDE DEF x, y, z
  <1> DEFINE d == y - x
  <1>3. b - a = c * d /\ d \in Int
    BY <1>1, <1>2
  <1> HIDE DEF d
  <1>4. CASE d <= 0
    <2>1. c * d <= 0
      BY <1>1, <1>3, <1>4
    <2> QED
      BY <1>3, <2>1
  <1>5. CASE d >= 1
    <2>1. c * d >= c
      BY <1>1, <1>3, <1>5
    <2> QED
      BY <1>1, <1>3, <2>1 DEF c
  <1> QED
    BY <1>3, <1>4, <1>5

\* As many spacings as fit in the response timeout.
LEMMA SpacingsFit ==
  ASSUME NEW m \in Int, m * Spacing < ResponseTimeout
  PROVE  m <= ResponseTimeout \div Spacing
  <1> DEFINE s == Spacing
             q == ResponseTimeout \div s
             z == ResponseTimeout % s
  <1>1. s \in Nat \ {0} /\ ResponseTimeout \in Nat
    BY ProbeBounds
  <1> HIDE DEF s
  <1>2. ResponseTimeout = s * q + z /\ q \in Int /\ z \in Int /\ z < s
    BY <1>1
  <1> HIDE DEF q, z
  <1>3. ASSUME m >= q + 1 PROVE FALSE
    <2> DEFINE d == m - (q + 1)
    <2>1. d \in Nat /\ m = q + 1 + d
      BY <1>2, <1>3
    <2> HIDE DEF d
    <2>2. m * s = s * q + s + d * s /\ d * s >= 0 /\ s * q \in Int /\ d * s \in Int
      BY <1>1, <1>2, <2>1
    <2>3. m * s < ResponseTimeout
      BY DEF s
    <2> QED
      BY <1>1, <1>2, <2>2, <2>3
  <1> QED
    BY <1>2, <1>3 DEF q, s

\* What icmp_send() keeps of a probe.
LEMMA ProbeSent ==
  ASSUME NEW n, NEW sends, NEW q, q = icmp_send(n, sends)
  PROVE  /\ q.token = n.token /\ q.serial = n.next_serial /\ q.sent = probe_now
         /\ q.target = n.next_target /\ q.left = sends
  BY DEF icmp_send, icmp_build

\* native_expire(): what is over is a first part of the ring, and what is left begins
\* with a request that is not due.
LEMMA Expired ==
  ASSUME probe_now \in Nat, NEW a, NEW s, NEW n, SoundProbes(n, a, s),
         NEW m, m = native_expire(n)
  PROVE  /\ SoundProbes(m, a, s)
         /\ m.open = n.open /\ m.token = n.token
         /\ m.expired_serial < m.next_serial =>
              probe_now < request_deadline(Entry(m, m.expired_serial))
  <1> DEFINE e == n.expired_serial
             x == n.next_serial
             late(k) == probe_now >= request_deadline(Entry(n, k))
             T == {k \in e .. x : k = x \/ ~late(k)}
             over == {k \in InRing(n) : \A j \in e .. k : late(j)}
             unanswered == {k \in over : Entry(n, k).pending}
             was == n.requests
             ring == [p \in DOMAIN was |->
                        IF \E k \in over : request_slot(k) = p
                        THEN [was[p] EXCEPT !.pending = FALSE] ELSE was[p]]
             timeouts == n.timeout_count + Cardinality(unanswered)
             first == n.expired_serial + Cardinality(over)
  <1>1. /\ n \in NativeType /\ RingTrue(n, a) /\ Spread(n)
        /\ AskedSound(n, a) /\ SampledSound(n, s) /\ Settled(n, a, s)
    BY DEF SoundProbes
  <1>2. /\ e \in Nat /\ x \in Nat /\ e <= x /\ x - e <= capacity /\ capacity \in Nat
        /\ was \in [0 .. capacity - 1 -> ProbeType] /\ n.timeout_count \in Nat
        /\ n.next_send \in Nat
    BY <1>1, ProbeBounds DEF NativeType, RingTrue
  <1>3. m = [n EXCEPT !.timeout_count = timeouts, !.expired_serial = first, !.requests = ring]
    BY DEF native_expire, InRing, Entry
  <1>4. \A k \in InRing(n) : /\ k \in Nat /\ request_slot(k) \in 0 .. capacity - 1
                             /\ Entry(n, k) \in ProbeType /\ Entry(n, k).serial = k
                             /\ request_deadline(Entry(n, k)) \in Nat
    <2> TAKE k \in InRing(n)
    <2>1. k \in Nat
      BY <1>2 DEF InRing
    <2>2. request_slot(k) \in 0 .. capacity - 1
      BY <2>1, ProbeBounds
    <2>3. Entry(n, k) \in ProbeType
      BY <1>2, <2>2 DEF Entry
    <2>4. Entry(n, k).serial = k
      BY <1>1 DEF RingTrue
    <2>5. request_deadline(Entry(n, k)) \in Nat
      BY <2>3, ProbeBounds DEF request_deadline, ProbeType
    <2> QED
      BY <2>1, <2>2, <2>3, <2>4, <2>5
  <1>5. PICK f \in T : \A k \in T : ~(<<k, f>> \in OpToRel(<, Nat))
    <2>1. T \in SUBSET Nat /\ x \in T
      BY <1>2
    <2> HIDE DEF T
    <2> QED
      BY <2>1, NatLessThanWellFounded, WFMin
  <1>6. f \in Nat /\ e <= f /\ f <= x /\ (f = x \/ ~late(f)) /\ \A k \in e .. f - 1 : late(k)
    <2>1. f \in Nat /\ e <= f /\ f <= x /\ (f = x \/ ~late(f))
      <3>1. f \in e .. x /\ (f = x \/ ~late(f))
        OBVIOUS
      <3> HIDE DEF late, T
      <3> QED
        BY <1>2, <3>1
    <2>2. ASSUME NEW k \in e .. f - 1
          PROVE  late(k)
      <3>1. k \in Nat /\ k < f /\ k \in e .. x
        BY <1>2, <2>1
      <3>2. <<k, f>> \in OpToRel(<, Nat)
        BY <2>1, <3>1 DEF OpToRel
      <3>3. k \notin T
        BY <1>5, <3>2
      <3> HIDE DEF late
      <3> QED
        BY <3>1, <3>3
    <2> QED
      BY <2>1, <2>2
  <1> HIDE DEF T, late
  <1>7. over = e .. f - 1
    <2>1. ASSUME NEW k \in over
          PROVE  k \in e .. f - 1
      <3>1. k \in e .. x - 1 /\ \A j \in e .. k : late(j)
        BY DEF InRing
      <3>2. k >= f => late(f) /\ f # x
        BY <1>2, <1>6, <3>1
      <3> QED
        BY <1>2, <1>6, <3>1, <3>2
    <2>2. ASSUME NEW k \in e .. f - 1
          PROVE  k \in over
      <3>1. k \in InRing(n) /\ \A j \in e .. k : j \in e .. f - 1
        BY <1>2, <1>6 DEF InRing
      <3> QED
        BY <1>6, <3>1
    <2> QED
      BY <2>1, <2>2
  <1>8. over \in SUBSET InRing(n)
    OBVIOUS
  <1> HIDE DEF over
  <1>9. Cardinality(over) = f - e /\ IsFiniteSet(over)
    <2> DEFINE z == f - 1
    <2>1. e \in Int /\ z \in Int /\ over = e .. z
      BY <1>2, <1>6, <1>7
    <2>2. IsFiniteSet(e .. z) /\ Cardinality(e .. z) = IF e > z THEN 0 ELSE z - e + 1
      <3> HIDE DEF z, e
      <3> QED
        BY <2>1, FS_Interval
    <2>3. e \in Nat /\ f \in Nat /\ e <= f /\ z = f - 1
      BY <1>2, <1>6
    <2> HIDE DEF z, e
    <2>4. (IF e > z THEN 0 ELSE z - e + 1) = f - e
      BY <2>3
    <2> QED
      BY <2>1, <2>2, <2>4
  <1>10. first = f
    BY <1>2, <1>6, <1>9
  <1>11. IsFiniteSet(unanswered) /\ Cardinality(unanswered) \in Nat
    BY <1>9, FS_Subset, FS_CardinalityType
  <1>12. timeouts \in Nat
    BY <1>2, <1>11
  <1>13. /\ ring \in [0 .. capacity - 1 -> ProbeType]
         /\ \A p \in 0 .. capacity - 1 :
              /\ ring[p].serial = was[p].serial /\ ring[p].target = was[p].target
              /\ ring[p].sent = was[p].sent
              /\ ring[p].pending =
                   (was[p].pending /\ ~(\E k \in over : request_slot(k) = p))
    <2> SUFFICES ASSUME NEW p \in 0 .. capacity - 1
                 PROVE  /\ ring[p] \in ProbeType
                        /\ ring[p].serial = was[p].serial /\ ring[p].target = was[p].target
                        /\ ring[p].sent = was[p].sent
                        /\ ring[p].pending =
                             (was[p].pending /\ ~(\E k \in over : request_slot(k) = p))
      BY <1>2
    <2>1. was[p] \in ProbeType /\ DOMAIN was = 0 .. capacity - 1
      BY <1>2
    <2> DEFINE w == [was[p] EXCEPT !.pending = FALSE]
    <2>2. /\ w \in ProbeType /\ w.serial = was[p].serial /\ w.target = was[p].target
          /\ w.sent = was[p].sent /\ w.pending = FALSE
      BY <2>1 DEF ProbeType
    <2>3. ring[p] = IF \E k \in over : request_slot(k) = p THEN w ELSE was[p]
      BY <2>1
    <2>4. was[p].pending \in BOOLEAN
      BY <2>1 DEF ProbeType
    <2> HIDE DEF w, ring
    <2>5. CASE \E k \in over : request_slot(k) = p
      BY <2>2, <2>3, <2>5
    <2>6. CASE ~\E k \in over : request_slot(k) = p
      BY <2>1, <2>3, <2>4, <2>6
    <2> QED
      BY <2>5, <2>6
  <1> HIDE DEF ring, timeouts, first, unanswered
  <1>14. /\ m \in NativeType /\ m.expired_serial = f /\ m.requests = ring
         /\ m.timeout_count = timeouts /\ m.next_serial = x /\ m.next_send = n.next_send
         /\ m.token = n.token /\ m.target_next = n.target_next /\ m.open = n.open
    BY <1>1, <1>3, <1>6, <1>10, <1>12, <1>13 DEF NativeType
  <1>15. InRing(m) = f .. x - 1 /\ InRing(n) = e .. x - 1 /\ InRing(m) \in SUBSET InRing(n)
    BY <1>2, <1>6, <1>14 DEF InRing
  <1>16. \A k \in InRing(n) :
           /\ Entry(m, k).serial = k /\ Entry(m, k).target = Entry(n, k).target
           /\ Entry(m, k).sent = Entry(n, k).sent
    <2> TAKE k \in InRing(n)
    <2>1. Entry(m, k) = ring[request_slot(k)] /\ Entry(n, k) = was[request_slot(k)]
      BY <1>14 DEF Entry
    <2> QED
      BY <1>4, <1>13, <2>1
  <1>17. \A k \in InRing(m) : Entry(m, k).pending = Entry(n, k).pending
    <2> TAKE k \in InRing(m)
    <2>1. Entry(m, k) = ring[request_slot(k)] /\ Entry(n, k) = was[request_slot(k)]
      BY <1>14 DEF Entry
    <2>2. ASSUME NEW l \in over, request_slot(l) = request_slot(k)
          PROVE  FALSE
      <3>1. l \in InRing(n) /\ k \in InRing(n) /\ Entry(n, l) = Entry(n, k)
        BY <1>8, <1>15, <2>2 DEF Entry
      <3>2. l = k
        BY <1>4, <3>1
      <3> QED
        BY <1>2, <1>6, <1>7, <1>15, <3>2
    <2>3. k \in InRing(n)
      BY <1>15
    <2>4. was[request_slot(k)].pending \in BOOLEAN
      BY <1>4, <2>1, <2>3 DEF ProbeType
    <2> QED
      BY <1>4, <1>13, <2>1, <2>2, <2>3, <2>4
  <1>18. RingTrue(m, a)
    <2>1. m.expired_serial <= m.next_serial /\ m.next_serial - m.expired_serial <= capacity
      BY <1>2, <1>6, <1>14
    <2>2. \A k \in InRing(m) :
            /\ Entry(m, k).serial = k
            /\ \E q \in AskedBy(m, a) : /\ q.serial = k /\ q.target = Entry(m, k).target
                                        /\ q.sent = Entry(m, k).sent
      BY <1>1, <1>14, <1>15, <1>16 DEF RingTrue, AskedBy
    <2>3. ASSUME NEW p \in 0 .. capacity - 1, m.requests[p].pending
          PROVE  m.requests[p].serial \in InRing(m) /\ request_slot(m.requests[p].serial) = p
      <3> DEFINE k == was[p].serial
      <3>1. was[p].pending /\ ~(\E l \in over : request_slot(l) = p) /\ ring[p].serial = k
        BY <1>13, <1>14, <2>3
      <3>2. k \in InRing(n) /\ request_slot(k) = p
        BY <1>1, <3>1 DEF RingTrue
      <3>3. k \notin over
        BY <3>1, <3>2
      <3> HIDE DEF k
      <3>4. k \in InRing(m)
        BY <1>2, <1>6, <1>7, <1>15, <3>2, <3>3
      <3> QED
        BY <1>14, <3>1, <3>2, <3>4
    <2> QED
      BY <2>1, <2>2, <2>3 DEF RingTrue
  <1>19. Spread(m)
    BY <1>1, <1>14, <1>15, <1>16 DEF Spread
  <1>20. AskedSound(m, a)
    BY <1>1, <1>14 DEF AskedSound, AskedBy
  <1>21. Waiting(m) \in SUBSET Waiting(n)
    BY <1>15, <1>17 DEF Waiting
  <1>22. SampledSound(m, s)
    BY <1>1, <1>14, <1>21 DEF SampledSound, SampledBy
  <1>23. Settled(m, a, s)
    <2>1. Waiting(n) = Waiting(m) \cup unanswered /\ Waiting(m) \cap unanswered = {}
      <3>1. InRing(n) = InRing(m) \cup over /\ InRing(m) \cap over = {}
        BY <1>2, <1>6, <1>7, <1>15
      <3> QED
        BY <1>17, <3>1 DEF Waiting, unanswered
    <2>2. IsFiniteSet(Waiting(m))
      <3>1. IsFiniteSet(InRing(m))
        BY <1>2, <1>6, <1>15, FS_Interval
      <3>2. Waiting(m) \in SUBSET InRing(m)
        BY DEF Waiting
      <3> QED
        BY <3>1, <3>2, FS_Subset
    <2>3. Cardinality(Waiting(n)) = Cardinality(Waiting(m)) + Cardinality(unanswered)
      <3> DEFINE W == Waiting(m)
                 V == Waiting(n)
      <3>1. V = W \cup unanswered /\ W \cap unanswered = {} /\ IsFiniteSet(W)
        BY <2>1, <2>2
      <3> HIDE DEF W, V
      <3>2. Cardinality(W \cap unanswered) = 0
        BY <3>1, FS_EmptySet
      <3>3. Cardinality(W) \in Nat
        BY <3>1, FS_CardinalityType
      <3>4. Cardinality(V)
              = Cardinality(W) + Cardinality(unanswered) - Cardinality(W \cap unanswered)
        BY <1>11, <3>1, FS_Union
      <3>5. Cardinality(V) = Cardinality(W) + Cardinality(unanswered)
        BY <1>11, <3>2, <3>3, <3>4
      <3> QED
        BY <3>5 DEF V, W
    <2>4. AskedBy(m, a) = AskedBy(n, a) /\ SampledBy(m, s) = SampledBy(n, s)
      BY <1>14 DEF AskedBy, SampledBy
    <2>5. Cardinality(Waiting(m)) \in Nat /\ Cardinality(SampledBy(n, s)) \in Nat
      <3>1. IsFiniteSet(s) /\ SampledBy(n, s) \in SUBSET s
        BY <1>1 DEF SampledSound, SampledBy
      <3>2. IsFiniteSet(SampledBy(n, s))
        BY <3>1, FS_Subset
      <3> QED
        BY <2>2, <3>2, FS_CardinalityType
    <2>6. timeouts = n.timeout_count + Cardinality(unanswered)
      BY DEF timeouts
    <2>7. Cardinality(AskedBy(n, a)) =
            Cardinality(SampledBy(n, s)) + n.timeout_count + Cardinality(Waiting(n))
      BY <1>1 DEF Settled
    <2>8. Cardinality(AskedBy(n, a)) =
            Cardinality(SampledBy(n, s)) + m.timeout_count + Cardinality(Waiting(m))
      BY <1>2, <1>11, <1>14, <2>3, <2>5, <2>6, <2>7
    <2> QED
      BY <2>4, <2>8 DEF Settled
  <1>24. SoundProbes(m, a, s)
    BY <1>14, <1>18, <1>19, <1>20, <1>22, <1>23 DEF SoundProbes
  <1>25. m.expired_serial < m.next_serial =>
           probe_now < request_deadline(Entry(m, m.expired_serial))
    <2> SUFFICES ASSUME f < x
                 PROVE  probe_now < request_deadline(Entry(m, f))
      BY <1>14
    <2>1. f \in InRing(n) /\ ~(probe_now >= request_deadline(Entry(n, f)))
      BY <1>2, <1>6, <1>15 DEF late
    <2>2. request_deadline(Entry(m, f)) = request_deadline(Entry(n, f))
      BY <1>16, <2>1 DEF request_deadline
    <2> QED
      BY <1>4, <2>1, <2>2
  <1> QED
    BY <1>14, <1>24, <1>25

\* Sent(): there is room, because what is left in the ring was asked less than a response
\* timeout ago and a spacing apart.
LEMMA ProbeGone ==
  ASSUME probe_now \in Nat, NEW a, NEW s, NEW n, SoundProbes(n, a, s),
         n.expired_serial < n.next_serial =>
           probe_now < request_deadline(Entry(n, n.expired_serial)),
         Due(n), NEW sends \in BOOLEAN, NEW m, m = Sent(n, sends),
         NEW b, b = a \cup {icmp_send(n, sends)}
  PROVE  SoundProbes(m, b, s)
  <1> DEFINE e == n.expired_serial
             x == n.next_serial
             t == n.next_target
             u == (t + 1) % TargetCount
             due == ScheduledFrom(n)
             turns == [n.target_next EXCEPT ![t] = due + Period]
             later == LaterOf(due + Spacing, turns[u])
             probe == [serial |-> x, target |-> t, sent |-> probe_now, pending |-> sends]
             slot == request_slot(x)
             ring == [n.requests EXCEPT ![slot] = probe]
             timeouts == n.timeout_count + IF sends THEN 0 ELSE 1
             failed == [n.send_failed EXCEPT ![t] = ~sends]
             q == icmp_send(n, sends)
  <1>1. /\ n \in NativeType /\ RingTrue(n, a) /\ Spread(n)
        /\ AskedSound(n, a) /\ SampledSound(n, s) /\ Settled(n, a, s)
    BY DEF SoundProbes
  <1>2. /\ e \in Nat /\ x \in Nat /\ e <= x
        /\ n.requests \in [0 .. capacity - 1 -> ProbeType] /\ n.timeout_count \in Nat
        /\ n.next_send \in Nat /\ t \in Target /\ n.token \in Nat
        /\ n.target_next \in [Target -> Nat] /\ n.send_failed \in [Target -> BOOLEAN]
    BY <1>1 DEF NativeType, RingTrue
  <1>3. /\ capacity \in Nat \ {0} /\ capacity = ResponseTimeout \div Spacing + 2
        /\ ResponseTimeout \in Nat /\ ResponseTimeout \div Spacing \in Nat
        /\ Spacing \in Nat \ {0} /\ Period \in Nat /\ Period >= Spacing
        /\ u \in Target /\ Target \subseteq Nat /\ slot \in 0 .. capacity - 1
    BY <1>2, ProbeBounds
  <1>4. probe_now >= n.next_send /\ probe_now >= n.target_next[t]
    BY DEF Due
  <1>5. due \in Nat /\ due >= n.next_send /\ due <= probe_now /\ probe_now < due + Spacing
    BY <1>2, <1>3, <1>4 DEF ScheduledFrom
  <1> HIDE DEF due
  <1>6. /\ turns \in [Target -> Nat] /\ turns[t] = due + Period
        /\ \A v \in Target : v # t => turns[v] = n.target_next[v]
    BY <1>2, <1>3, <1>5
  <1> HIDE DEF turns
  <1>7. later \in Nat /\ later >= due + Spacing /\ later > probe_now
    <2> DEFINE f == due + Spacing
               g == turns[u]
    <2>1. f \in Nat /\ g \in Nat /\ f > probe_now /\ later = LaterOf(f, g)
      <3>1. f \in Nat /\ f > probe_now
        BY <1>3, <1>5
      <3>2. u \in Target
        BY <1>3
      <3> HIDE DEF u
      <3>3. g \in Nat
        BY <1>6, <3>2
      <3>4. later = LaterOf(f, g)
        OBVIOUS
      <3> QED
        BY <3>1, <3>3, <3>4
    <2> HIDE DEF f, g, later
    <2>2. later \in Nat /\ later >= f /\ later > probe_now
      BY <2>1 DEF LaterOf
    <2> QED
      BY <2>2 DEF f
  <1>8. probe \in ProbeType
    BY <1>2 DEF ProbeType
  <1>9. /\ probe.serial = x /\ probe.target = t /\ probe.sent = probe_now
        /\ probe.pending = sends
    OBVIOUS
  <1>10. /\ q.token = n.token /\ q.serial = x /\ q.sent = probe_now /\ q.target = t
    BY ProbeSent
  <1>11. /\ ring \in [0 .. capacity - 1 -> ProbeType] /\ ring[slot] = probe
         /\ \A p \in 0 .. capacity - 1 : p # slot => ring[p] = n.requests[p]
    BY <1>2, <1>3, <1>8
  <1>12. timeouts \in Nat /\ failed \in [Target -> BOOLEAN]
    BY <1>2
  <1>13. m = [n EXCEPT !.requests = ring, !.timeout_count = timeouts, !.send_failed = failed,
                       !.target_next = turns, !.next_serial = x + 1, !.next_target = u,
                       !.next_send = later]
    BY DEF Sent, turns, due
  <1> HIDE DEF probe, q, ring, timeouts, failed, later, u
  <1>14. /\ m \in NativeType /\ m.expired_serial = e /\ m.next_serial = x + 1
         /\ m.requests = ring /\ m.timeout_count = timeouts /\ m.next_send = later
         /\ m.target_next = turns /\ m.token = n.token
    <2> DEFINE y == x + 1
    <2>1. m = [n EXCEPT !.requests = ring, !.timeout_count = timeouts, !.send_failed = failed,
                        !.target_next = turns, !.next_serial = y, !.next_target = u,
                        !.next_send = later]
      BY <1>13
    <2>2. /\ y \in Nat /\ u \in Target /\ later \in Nat /\ turns \in [Target -> Nat]
          /\ ring \in [0 .. capacity - 1 -> ProbeType]
      BY <1>2, <1>3, <1>6, <1>7, <1>11
    <2> HIDE DEF y
    <2>3. m \in NativeType
      BY <1>1, <1>12, <2>1, <2>2 DEF NativeType
    <2>4. /\ m.expired_serial = e /\ m.next_serial = y /\ m.requests = ring
          /\ m.timeout_count = timeouts /\ m.next_send = later /\ m.target_next = turns
          /\ m.token = n.token
      BY <1>1, <2>1 DEF NativeType
    <2> QED
      BY <2>3, <2>4 DEF y
  <1>15. \A k \in InRing(n) :
           /\ k \in Nat /\ e <= k /\ k < x /\ request_slot(k) \in 0 .. capacity - 1
           /\ Entry(n, k) \in ProbeType /\ Entry(n, k).sent \in Nat
    <2> TAKE k \in InRing(n)
    <2>1. k \in Nat /\ e <= k /\ k < x
      BY <1>2 DEF InRing
    <2>2. request_slot(k) \in 0 .. capacity - 1
      BY <2>1, ProbeBounds
    <2>3. Entry(n, k) \in ProbeType
      BY <1>2, <2>2 DEF Entry
    <2> QED
      BY <2>1, <2>2, <2>3 DEF ProbeType
  <1>16. x - e <= capacity - 1
    <2>1. CASE e = x
      BY <1>2, <1>3, <2>1
    <2>2. CASE e < x
      <3> DEFINE sent == Entry(n, e).sent
                 y == (x - e - 1) * Spacing
      <3>1. e \in InRing(n)
        BY <1>2, <2>2 DEF InRing
      <3>2. sent \in Nat /\ y \in Int
        BY <1>2, <1>3, <1>15, <3>1
      <3>3. sent + y < n.next_send
        BY <1>1, <3>1 DEF Spread
      <3>4. probe_now < sent + ResponseTimeout
        BY <2>2 DEF request_deadline
      <3> HIDE DEF sent
      <3>5. y < ResponseTimeout
        <4> HIDE DEF y
        <4> QED
          BY <1>2, <1>3, <1>4, <3>2, <3>3, <3>4
      <3>6. x - e - 1 <= ResponseTimeout \div Spacing
        <4> DEFINE z == x - e - 1
        <4>1. z \in Int /\ z * Spacing < ResponseTimeout
          BY <1>2, <3>5
        <4> HIDE DEF z
        <4>2. z <= ResponseTimeout \div Spacing
          BY <4>1, SpacingsFit
        <4> QED
          BY <4>2 DEF z
      <3> QED
        BY <1>2, <1>3, <3>6
    <2> QED
      BY <1>2, <2>1, <2>2
  <1>17. \A k \in InRing(n) : request_slot(k) # slot
    BY <1>2, <1>3, <1>15, <1>16, SlotsDiffer
  <1>18. InRing(m) = InRing(n) \cup {x} /\ x \notin InRing(n)
    BY <1>2, <1>14 DEF InRing
  <1>19. (\A k \in InRing(n) : Entry(m, k) = Entry(n, k)) /\ Entry(m, x) = probe
    BY <1>11, <1>14, <1>15, <1>17 DEF Entry
  <1>20. AskedBy(m, b) = AskedBy(n, a) \cup {q}
    BY <1>10, <1>14 DEF AskedBy, q
  <1>21. RingTrue(m, b)
    <2>1. m.expired_serial <= m.next_serial /\ m.next_serial - m.expired_serial <= capacity
      BY <1>2, <1>3, <1>14, <1>16
    <2>2. ASSUME NEW k \in InRing(m)
          PROVE  /\ Entry(m, k).serial = k
                 /\ \E r \in AskedBy(m, b) : /\ r.serial = k /\ r.target = Entry(m, k).target
                                             /\ r.sent = Entry(m, k).sent
      <3>1. CASE k = x
        BY <1>9, <1>10, <1>19, <1>20, <3>1
      <3>2. CASE k \in InRing(n)
        BY <1>1, <1>19, <1>20, <3>2 DEF RingTrue
      <3> QED
        BY <1>18, <3>1, <3>2
    <2>3. ASSUME NEW p \in 0 .. capacity - 1, m.requests[p].pending
          PROVE  m.requests[p].serial \in InRing(m) /\ request_slot(m.requests[p].serial) = p
      <3>1. CASE p = slot
        BY <1>9, <1>11, <1>14, <1>18, <3>1
      <3>2. CASE p # slot
        <4>1. m.requests[p] = n.requests[p]
          BY <1>11, <1>14, <3>2
        <4> QED
          BY <1>1, <1>18, <2>3, <4>1 DEF RingTrue
      <3> QED
        BY <3>1, <3>2
    <2> QED
      BY <2>1, <2>2, <2>3 DEF RingTrue
  <1>22. Spread(m)
    <2> SUFFICES ASSUME NEW k \in InRing(m)
                 PROVE  Entry(m, k).sent + (x - k) * Spacing < later
      BY <1>2, <1>14, <1>15, <1>18 DEF Spread
    <2>1. CASE k = x
      <3>1. Entry(m, k).sent = probe_now
        BY <1>9, <1>19, <2>1
      <3>2. x - k = 0 /\ 0 * Spacing = 0
        BY <1>2, <1>3, <2>1
      <3>3. (x - k) * Spacing = 0
        BY <3>2
      <3> QED
        BY <1>7, <3>1, <3>3
    <2>2. CASE k \in InRing(n)
      <3> DEFINE sent == Entry(n, k).sent
                 y == (x - k - 1) * Spacing
      <3>1. sent \in Nat /\ k \in Nat /\ Entry(m, k).sent = sent
        BY <1>15, <1>19, <2>2
      <3>2. sent + y < n.next_send
        BY <1>1, <2>2 DEF Spread
      <3>3. (x - k) * Spacing = y + Spacing /\ y \in Int
        <4> DEFINE z == x - k
        <4>1. z \in Int /\ x - k - 1 = z - 1
          BY <1>2, <3>1
        <4> HIDE DEF z
        <4>2. z * Spacing = (z - 1) * Spacing + Spacing /\ (z - 1) * Spacing \in Int
          BY <1>3, <4>1
        <4> QED
          BY <4>1, <4>2 DEF z
      <3> HIDE DEF sent, y
      <3> QED
        BY <1>2, <1>3, <1>5, <1>7, <3>1, <3>2, <3>3
    <2> QED
      BY <1>18, <2>1, <2>2
  <1>23. AskedSound(m, b)
    <2>1. IsFiniteSet(b)
      BY <1>1, FS_AddElement DEF AskedSound
    <2>2. \A r \in b : /\ r.token \in Nat /\ r.token <= m.token
                       /\ r.serial \in Nat /\ r.sent \in Nat /\ r.target \in Target
      <3>1. /\ q.token \in Nat /\ q.token <= m.token
            /\ q.serial \in Nat /\ q.sent \in Nat /\ q.target \in Target
        BY <1>2, <1>10, <1>14
      <3>2. b = a \cup {q}
        BY DEF q
      <3> QED
        BY <1>1, <1>14, <3>1, <3>2 DEF AskedSound
    <2>3. ASSUME NEW r \in AskedBy(n, a)
          PROVE  /\ r.serial \in Nat /\ r.sent \in Nat /\ r.target \in Target
                 /\ r.serial < x /\ r.sent < n.next_send
                 /\ r.sent + Period < n.target_next[r.target] + Spacing
      BY <1>1 DEF AskedSound, AskedBy
    <2>4. ASSUME NEW r \in AskedBy(n, a)
          PROVE  /\ r.serial < x + 1 /\ r.sent < later
                 /\ r.sent + Period < turns[r.target] + Spacing
      <3>1. r.serial < x + 1 /\ r.sent < later
        <4>1. r.serial < x + 1
          BY <1>2, <2>3
        <4>2. r.sent < due + Spacing
          BY <1>2, <1>3, <1>5, <2>3
        <4>3. r.sent < later
          BY <1>3, <1>5, <1>7, <2>3, <4>2
        <4> QED
          BY <4>1, <4>3
      <3>2. CASE r.target = t
        <4>1. turns[r.target] = due + Period
          BY <1>6, <3>2
        <4> QED
          BY <1>2, <1>3, <1>5, <2>3, <3>1, <4>1
      <3>3. CASE r.target # t
        <4>1. turns[r.target] = n.target_next[r.target]
          BY <1>6, <2>3, <3>3
        <4> QED
          BY <2>3, <3>1, <4>1
      <3> QED
        BY <3>2, <3>3
    <2>5. /\ q.serial < x + 1 /\ q.sent < later
          /\ q.sent + Period < turns[q.target] + Spacing
      BY <1>2, <1>3, <1>5, <1>6, <1>7, <1>10
    <2>6. \A r \in AskedBy(m, b) :
            /\ r.serial < m.next_serial /\ r.sent < m.next_send
            /\ r.sent + Period < m.target_next[r.target] + Spacing
      BY <1>14, <1>20, <2>4, <2>5
    <2>7. ASSUME NEW r \in AskedBy(n, a)
          PROVE  /\ r.serial < q.serial /\ r.sent < q.sent
                 /\ r.target = q.target => q.sent - r.sent > Period - Spacing
      <3>1. r.serial < q.serial /\ r.sent < q.sent
        BY <1>2, <1>4, <1>10, <2>3
      <3>2. ASSUME r.target = q.target
            PROVE  q.sent - r.sent > Period - Spacing
        <4>1. n.target_next[t] \in Nat /\ r.sent + Period < n.target_next[t] + Spacing
          BY <1>2, <1>10, <2>3, <3>2
        <4> QED
          BY <1>3, <1>4, <1>10, <2>3, <4>1
      <3> QED
        BY <3>1, <3>2
    <2>8. ASSUME NEW r \in AskedBy(m, b), NEW w \in AskedBy(m, b)
          PROVE  /\ r.serial = w.serial => r = w
                 /\ r.serial < w.serial => r.sent < w.sent
                 /\ r.target = w.target /\ r.serial < w.serial =>
                      w.sent - r.sent > Period - Spacing
      <3>1. CASE r \in AskedBy(n, a) /\ w \in AskedBy(n, a)
        BY <1>1, <3>1 DEF AskedSound
      <3>2. CASE r \in AskedBy(n, a) /\ w = q
        BY <1>2, <1>10, <2>3, <2>7, <3>2
      <3>3. CASE r = q /\ w \in AskedBy(n, a)
        <4>1. w.serial \in Nat /\ w.serial < x /\ r.serial = x
          BY <1>10, <2>3, <3>3
        <4> QED
          BY <1>2, <4>1
      <3>4. CASE r = q /\ w = q
        <4>1. r = w /\ ~(r.serial < w.serial)
          BY <1>2, <1>10, <3>4
        <4> QED
          BY <4>1
      <3> QED
        BY <1>20, <3>1, <3>2, <3>3, <3>4
    <2> QED
      BY <2>1, <2>2, <2>6, <2>8 DEF AskedSound
  <1>24. Waiting(m) = IF sends THEN Waiting(n) \cup {x} ELSE Waiting(n)
    <2>1. \A k \in InRing(n) : Entry(m, k).pending = Entry(n, k).pending
      BY <1>19
    <2>2. Entry(m, x).pending = sends
      BY <1>9, <1>19
    <2>3. CASE sends
      BY <1>18, <2>1, <2>2, <2>3 DEF Waiting
    <2>4. CASE ~sends
      BY <1>18, <2>1, <2>2, <2>4 DEF Waiting
    <2> QED
      BY <2>3, <2>4
  <1>25. SampledBy(m, s) = SampledBy(n, s)
    BY <1>14 DEF SampledBy
  <1>26. SampledSound(m, s)
    <2>1. ASSUME NEW y \in SampledBy(n, s)
          PROVE  y.serial < x + 1 /\ y.serial \notin Waiting(m)
      <3>1. y.serial \in Nat /\ y.serial < x /\ y.serial \notin Waiting(n)
        BY <1>1 DEF SampledSound, SampledBy
      <3> QED
        BY <1>2, <1>24, <3>1
    <2> QED
      BY <1>1, <1>14, <1>25, <2>1 DEF SampledSound
  <1>27. Settled(m, b, s)
    <2> DEFINE A == AskedBy(n, a)
               W == Waiting(n)
               S == SampledBy(n, s)
    <2>1. IsFiniteSet(A) /\ Cardinality(A) \in Nat /\ q \notin A
      <3>1. A \in SUBSET a /\ IsFiniteSet(a)
        BY <1>1 DEF AskedBy, AskedSound
      <3>2. q \notin A
        <4>1. \A r \in A : r.serial < x
          BY <1>1 DEF AskedSound
        <4> QED
          BY <1>2, <1>10, <4>1
      <3> QED
        BY <3>1, <3>2, FS_Subset, FS_CardinalityType
    <2>2. IsFiniteSet(W) /\ Cardinality(W) \in Nat /\ x \notin W
      <3> DEFINE z == x - 1
      <3>1. InRing(n) = e .. z /\ e \in Int /\ z \in Int
        BY <1>2 DEF InRing
      <3> HIDE DEF z
      <3>2. IsFiniteSet(InRing(n)) /\ W \in SUBSET InRing(n)
        BY <3>1, FS_Interval DEF Waiting
      <3> QED
        BY <1>18, <3>2, FS_Subset, FS_CardinalityType
    <2>3. Cardinality(S) \in Nat
      <3>1. S \in SUBSET s /\ IsFiniteSet(s)
        BY <1>1 DEF SampledBy, SampledSound
      <3> QED
        BY <3>1, FS_Subset, FS_CardinalityType
    <2>4. Cardinality(A) = Cardinality(S) + n.timeout_count + Cardinality(W)
      BY <1>1 DEF Settled
    <2> HIDE DEF A, W, S
    <2>5. Cardinality(A \cup {q}) = Cardinality(A) + 1
      BY <2>1, FS_AddElement
    <2>6. Cardinality(W \cup {x}) = Cardinality(W) + 1
      BY <2>2, FS_AddElement
    <2>7. CASE sends
      <3>1. timeouts = n.timeout_count
        BY <1>2, <2>7 DEF timeouts
      <3>2. Cardinality(A \cup {q}) =
              Cardinality(S) + timeouts + Cardinality(W \cup {x})
        <4> DEFINE c == Cardinality(S) + n.timeout_count
                   w == Cardinality(W)
        <4>1. c \in Nat /\ w \in Nat /\ Cardinality(A) = c + w
          BY <1>2, <2>2, <2>3, <2>4
        <4>2. c = Cardinality(S) + timeouts /\ Cardinality(W \cup {x}) = w + 1
          BY <2>6, <3>1
        <4> HIDE DEF c, w
        <4>3. Cardinality(A \cup {q}) = c + (w + 1)
          BY <2>5, <4>1
        <4> QED
          BY <4>2, <4>3
      <3> QED
        BY <1>14, <1>20, <1>24, <1>25, <2>7, <3>2 DEF Settled, A, W, S
    <2>8. CASE ~sends
      <3>1. timeouts = n.timeout_count + 1
        BY <1>2, <2>8 DEF timeouts
      <3>2. Cardinality(A \cup {q}) =
              Cardinality(S) + timeouts + Cardinality(W)
        BY <1>2, <2>1, <2>2, <2>3, <2>4, <2>5, <3>1
      <3> QED
        BY <1>14, <1>20, <1>24, <1>25, <2>8, <3>2 DEF Settled, A, W, S
    <2> QED
      BY <2>7, <2>8
  <1> QED
    BY <1>14, <1>21, <1>22, <1>23, <1>26, <1>27 DEF SoundProbes

\* A turn that is put off: the target's own turn is later than the session's.
LEMMA TurnPutOff ==
  ASSUME probe_now \in Nat, NEW a, NEW s, NEW n, SoundProbes(n, a, s),
         ~Due(n), probe_now >= n.next_send,
         NEW m, m = [n EXCEPT !.next_send = n.target_next[n.next_target]]
  PROVE  SoundProbes(m, a, s)
  <1> DEFINE later == n.target_next[n.next_target]
  <1>1. /\ n \in NativeType /\ RingTrue(n, a) /\ Spread(n)
        /\ AskedSound(n, a) /\ SampledSound(n, s) /\ Settled(n, a, s)
    BY DEF SoundProbes
  <1>2. later \in Nat /\ n.next_send \in Nat
    BY <1>1 DEF NativeType
  <1>3. later > n.next_send
    BY <1>2 DEF Due
  <1>4. m = [n EXCEPT !.next_send = later]
    OBVIOUS
  <1> HIDE DEF later
  <1>5. /\ m \in NativeType /\ m.next_send = later
        /\ m.expired_serial = n.expired_serial /\ m.next_serial = n.next_serial
        /\ m.requests = n.requests /\ m.timeout_count = n.timeout_count
        /\ m.target_next = n.target_next /\ m.token = n.token
    BY <1>1, <1>2, <1>4 DEF NativeType
  <1>6. RingTrue(m, a)
    BY <1>1, <1>5 DEF RingTrue, InRing, Entry, AskedBy
  <1>7. /\ Waiting(m) = Waiting(n)
        /\ AskedBy(m, a) = AskedBy(n, a) /\ SampledBy(m, s) = SampledBy(n, s)
    BY <1>5 DEF Waiting, InRing, Entry, AskedBy, SampledBy
  <1>8. SampledSound(m, s) /\ Settled(m, a, s)
    BY <1>1, <1>5, <1>7 DEF SampledSound, Settled
  <1>9. Spread(m)
    <2> SUFFICES ASSUME NEW k \in InRing(n)
                 PROVE  Entry(n, k).sent + (n.next_serial - k - 1) * Spacing < later
      BY <1>5 DEF Spread, InRing, Entry
    <2> DEFINE x == n.next_serial
               sent == Entry(n, k).sent
               y == (x - k - 1) * Spacing
    <2>1. sent + y < n.next_send
      BY <1>1 DEF Spread
    <2>2. k \in Nat /\ x \in Int
      BY <1>1 DEF InRing, NativeType
    <2>3. y \in Int
      BY <2>2, ProbeBounds
    <2>4. sent \in Nat
      <3>1. request_slot(k) \in 0 .. capacity - 1
        BY <2>2, ProbeBounds
      <3>2. Entry(n, k) \in ProbeType
        BY <1>1, <3>1 DEF Entry, NativeType
      <3> QED
        BY <3>2 DEF ProbeType
    <2> HIDE DEF sent, y
    <2>5. sent + y < later
      BY <1>2, <1>3, <2>1, <2>3, <2>4
    <2> QED
      BY <2>5 DEF sent, y
  <1>10. AskedSound(m, a)
    <2>1. ASSUME NEW q \in AskedBy(n, a)
          PROVE  q.sent < later
      <3>1. q.sent \in Nat /\ q.sent < n.next_send
        BY <1>1 DEF AskedSound, AskedBy
      <3> QED
        BY <1>2, <1>3, <3>1
    <2> QED
      BY <1>1, <1>5, <1>7, <2>1 DEF AskedSound
  <1> QED
    BY <1>5, <1>6, <1>8, <1>9, <1>10 DEF SoundProbes

\* The send timer keeps the invariant.
LEMMA NativeTickInv ==
  ASSUME NativeInv, NEW sends \in BOOLEAN, HandleNativeTick(sends)
  PROVE  NativeInv'
  <1> DEFINE n == native_expire(native)
             m == native_tick(n, sends)
             a == asked
             s == sampled_from
  <1>1. probe_now \in Nat /\ SoundProbes(native, a, s)
    BY DEF NativeInv
  <1>2. /\ native' = m /\ probe_now' = probe_now /\ sampled_from' = s
        /\ asked' = IF Due(n) THEN a \cup {icmp_send(n, sends)} ELSE a
    BY DEF HandleNativeTick
  <1>3. /\ SoundProbes(n, a, s)
        /\ n.expired_serial < n.next_serial =>
             probe_now < request_deadline(Entry(n, n.expired_serial))
    BY <1>1, Expired
  <1> HIDE DEF n
  <1>4. CASE Due(n)
    <2> DEFINE b == a \cup {icmp_send(n, sends)}
    <2>1. m = Sent(n, sends) /\ asked' = b
      BY <1>2, <1>4 DEF native_tick
    <2> HIDE DEF m, b
    <2>2. b = a \cup {icmp_send(n, sends)}
      BY DEF b
    <2>3. SoundProbes(m, b, s)
      BY <1>1, <1>3, <1>4, <2>1, <2>2, ProbeGone
    <2> QED
      BY <1>1, <1>2, <2>1, <2>3 DEF NativeInv
  <1>5. CASE ~Due(n) /\ probe_now >= n.next_send
    <2>1. m = [n EXCEPT !.next_send = n.target_next[n.next_target]] /\ asked' = a
      BY <1>2, <1>5 DEF native_tick
    <2> HIDE DEF m
    <2>2. SoundProbes(m, a, s)
      BY <1>1, <1>3, <1>5, <2>1, TurnPutOff
    <2> QED
      BY <1>1, <1>2, <2>1, <2>2 DEF NativeInv
  <1>6. CASE ~Due(n) /\ ~(probe_now >= n.next_send)
    <2>1. m = n /\ asked' = a
      BY <1>2, <1>6 DEF native_tick
    <2> HIDE DEF m
    <2> QED
      BY <1>1, <1>2, <1>3, <2>1 DEF NativeInv
  <1> QED
    BY <1>4, <1>5, <1>6

\* native_accept(): a reply that matches is to the request the ring has, and the first.
LEMMA NativeReplyInv ==
  ASSUME NativeInv, NEW request \in asked, NEW source \in Target,
         NEW received \in 0 .. probe_now, HandleNativeReply(request, source, received)
  PROVE  NativeInv'
  <1> DEFINE n == native
             a == asked
             s == sampled_from
             m == native'
             reply == icmp_parse(request, source, received)
  <1>1. /\ probe_now \in Nat /\ n \in NativeType /\ RingTrue(n, a) /\ Spread(n)
        /\ AskedSound(n, a) /\ SampledSound(n, s) /\ Settled(n, a, s)
    BY DEF NativeInv, SoundProbes
  <1>2. PICK serial \in AnsweredSerial(n, reply) :
          /\ MatchesRequest(n, reply, serial)
          /\ m = [n EXCEPT !.requests[request_slot(serial)].pending = FALSE]
          /\ sampled_from' = s \cup {[token |-> n.token, serial |-> serial, reply |-> request,
                                      source |-> source]}
    BY DEF HandleNativeReply
  <1> DEFINE slot == request_slot(serial)
             entry == n.requests[slot]
             over == [entry EXCEPT !.pending = FALSE]
             ring == [n.requests EXCEPT ![slot] = over]
             z == [token |-> n.token, serial |-> serial, reply |-> request, source |-> source]
  <1>3. /\ reply.token = request.token /\ reply.serial = request.serial
        /\ reply.sent = request.sent /\ reply.source = source
    BY DEF icmp_parse
  <1> HIDE DEF reply
  <1>4. /\ n.next_serial \in Nat /\ n.expired_serial \in Nat /\ n.token \in Nat
        /\ n.requests \in [0 .. capacity - 1 -> ProbeType] /\ n.timeout_count \in Nat
        /\ request.serial \in Nat /\ request.sent \in Nat
    BY <1>1 DEF NativeType, AskedSound
  <1>5. serial \in Nat
    <2> DEFINE last == n.next_serial - 1
               number == request.serial % SequenceNumbers
               age == (last + SequenceNumbers - number) % SequenceNumbers
    <2>4. AnsweredSerial(n, reply) = IF n.next_serial = 0 \/ age > last THEN {} ELSE {last - age}
      BY <1>3 DEF AnsweredSerial
    <2>5. number \in Int /\ last \in Int /\ SequenceNumbers \in Nat \ {0}
      <3> DEFINE k == request.serial
      <3>1. k \in Nat
        BY <1>4
      <3>2. SequenceNumbers \in Nat \ {0}
        BY ProbeBounds
      <3>3. last \in Int
        BY <1>4
      <3> HIDE DEF k, last
      <3>4. k % SequenceNumbers \in Int
        BY <3>1, <3>2
      <3> QED
        BY <3>2, <3>3, <3>4 DEF k
    <2>6. last + SequenceNumbers - number \in Int
      <3> HIDE DEF last, number
      <3> QED
        BY <2>5
    <2>7. age \in Int
      BY <2>5, <2>6
    <2>1. n.next_serial # 0 /\ age <= last /\ serial = last - age
      <3> HIDE DEF age, last
      <3>1. ~(n.next_serial = 0 \/ age > last) /\ serial = last - age
        BY <1>2, <2>4
      <3> QED
        BY <2>5, <2>7, <3>1
    <2>2. number \in Int /\ last \in Nat /\ SequenceNumbers \in Nat \ {0}
      BY <1>4, <2>1, <2>5
    <2> HIDE DEF last, number
    <2>3. age \in Nat
      BY <2>2
    <2> HIDE DEF age
    <2> QED
      BY <2>1, <2>2, <2>3
  <1>6. /\ slot \in 0 .. capacity - 1 /\ entry \in ProbeType
    BY <1>4, <1>5, ProbeBounds
  <1>7. /\ entry.pending /\ entry.serial = serial
        /\ entry.target = source /\ request.token = n.token
        /\ IF n.mode = "TIMESTAMP" THEN request.sent = entry.sent
                                   ELSE request.serial = serial
    BY <1>2, <1>3 DEF MatchesRequest
  <1>8. serial \in InRing(n) /\ serial \in Waiting(n)
    BY <1>1, <1>6, <1>7 DEF RingTrue, Waiting, Entry
  <1>9. request.serial = serial /\ request.target = source
    <2>1. PICK r \in AskedBy(n, a) : /\ r.serial = serial /\ r.target = entry.target
                                     /\ r.sent = entry.sent
      BY <1>1, <1>8 DEF RingTrue, Entry
    <2>2. request \in AskedBy(n, a)
      BY <1>7 DEF AskedBy
    <2>3. r.sent \in Nat
      BY <1>1 DEF AskedSound, AskedBy
    <2>4. /\ request.serial = r.serial => request = r
          /\ request.serial < r.serial => request.sent < r.sent
          /\ r.serial < request.serial => r.sent < request.sent
      BY <1>1, <2>1, <2>2 DEF AskedSound
    <2>5. request.serial = r.serial
      <3>1. CASE n.mode = "TIMESTAMP"
        <4>1. request.sent = r.sent
          BY <1>7, <2>1, <3>1
        <4> QED
          BY <1>4, <1>5, <2>1, <2>3, <2>4, <4>1
      <3>2. CASE n.mode # "TIMESTAMP"
        BY <1>7, <2>1, <3>2
      <3> QED
        BY <3>1, <3>2
    <2> QED
      BY <1>7, <2>1, <2>4, <2>5
  <1>10. /\ over \in ProbeType /\ over.serial = entry.serial /\ over.target = entry.target
         /\ over.sent = entry.sent /\ over.pending = FALSE
    <2> HIDE DEF entry
    <2> QED
      BY <1>6 DEF ProbeType
  <1>11. m = [n EXCEPT !.requests = ring]
    BY <1>2
  <1> HIDE DEF over, slot
  <1>12. /\ ring \in [0 .. capacity - 1 -> ProbeType] /\ ring[slot] = over
         /\ \A p \in 0 .. capacity - 1 : p # slot => ring[p] = n.requests[p]
    BY <1>4, <1>6, <1>10
  <1> HIDE DEF ring
  <1>13. /\ m \in NativeType /\ m.requests = ring
         /\ m.expired_serial = n.expired_serial /\ m.next_serial = n.next_serial
         /\ m.timeout_count = n.timeout_count /\ m.next_send = n.next_send
         /\ m.target_next = n.target_next /\ m.token = n.token
    <2> HIDE DEF m
    <2> QED
      BY <1>1, <1>11, <1>12 DEF NativeType
  <1> HIDE DEF m
  <1>14. InRing(m) = InRing(n) /\ AskedBy(m, a) = AskedBy(n, a)
    BY <1>13 DEF InRing, AskedBy
  <1>15. ASSUME NEW p \in 0 .. capacity - 1
         PROVE  /\ m.requests[p].serial = n.requests[p].serial
                /\ m.requests[p].target = n.requests[p].target
                /\ m.requests[p].sent = n.requests[p].sent
                /\ m.requests[p].pending = (n.requests[p].pending /\ p # slot)
    <2>1. CASE p = slot
      BY <1>10, <1>12, <1>13, <2>1
    <2>2. CASE p # slot
      <3>1. n.requests[p].pending \in BOOLEAN
        BY <1>4 DEF ProbeType
      <3> QED
        BY <1>12, <1>13, <2>2, <3>1
    <2> QED
      BY <2>1, <2>2
  <1>16. ASSUME NEW k \in InRing(n)
         PROVE  /\ Entry(m, k).serial = Entry(n, k).serial
                /\ Entry(m, k).target = Entry(n, k).target
                /\ Entry(m, k).sent = Entry(n, k).sent
                /\ Entry(m, k).pending = (Entry(n, k).pending /\ k # serial)
    <2>1. request_slot(k) \in 0 .. capacity - 1
      <3>1. k \in Nat
        BY <1>4 DEF InRing
      <3> QED
        BY <3>1, ProbeBounds
    <2>2. request_slot(k) = slot <=> k = serial
      <3>1. Entry(n, k).serial = k
        BY <1>1 DEF RingTrue
      <3>2. request_slot(k) = slot => k = serial
        BY <1>7, <3>1 DEF Entry
      <3> QED
        BY <3>2 DEF slot
    <2> QED
      BY <1>15, <2>1, <2>2 DEF Entry
  <1>17. RingTrue(m, a)
    <2>1. \A k \in InRing(m) :
            /\ Entry(m, k).serial = k
            /\ \E q \in AskedBy(m, a) : /\ q.serial = k /\ q.target = Entry(m, k).target
                                        /\ q.sent = Entry(m, k).sent
      BY <1>1, <1>14, <1>16 DEF RingTrue
    <2>2. \A p \in 0 .. capacity - 1 :
            m.requests[p].pending => /\ m.requests[p].serial \in InRing(m)
                                     /\ request_slot(m.requests[p].serial) = p
      BY <1>1, <1>14, <1>15 DEF RingTrue
    <2> QED
      BY <1>1, <1>13, <2>1, <2>2 DEF RingTrue
  <1>18. Spread(m)
    BY <1>1, <1>13, <1>14, <1>16 DEF Spread
  <1>19. AskedSound(m, a)
    BY <1>1, <1>13, <1>14 DEF AskedSound
  <1>20. Waiting(m) = Waiting(n) \ {serial}
    BY <1>14, <1>16 DEF Waiting
  <1>21. /\ z.token = n.token /\ z.serial = serial /\ z.reply = request /\ z.source = source
    OBVIOUS
  <1> DEFINE t == s \cup {z}
  <1>22. sampled_from' = t
    BY <1>2
  <1> HIDE DEF z
  <1>23. SampledBy(m, t) = SampledBy(n, s) \cup {z}
    BY <1>13, <1>21 DEF SampledBy
  <1>24. \A y \in s : y.token = n.token => y.serial # serial
    BY <1>1, <1>8 DEF SampledSound, SampledBy
  <1>25. SampledSound(m, t)
    <2>1. IsFiniteSet(t)
      BY <1>1, FS_AddElement DEF SampledSound
    <2>2. /\ z.token \in Nat /\ z.token <= m.token /\ z.serial \in Nat
          /\ z.reply.token = z.token /\ z.reply.serial = z.serial /\ z.source = z.reply.target
      BY <1>4, <1>5, <1>7, <1>9, <1>13, <1>21
    <2>3. \A x \in t : /\ x.token \in Nat /\ x.token <= m.token /\ x.serial \in Nat
                       /\ x.reply.token = x.token /\ x.reply.serial = x.serial
                       /\ x.source = x.reply.target
      BY <1>1, <1>13, <2>2 DEF SampledSound
    <2>4. \A x, y \in t : x.token = y.token /\ x.serial = y.serial => x = y
      BY <1>1, <1>21, <1>24 DEF SampledSound
    <2>5. \A x \in SampledBy(n, s) : x.serial < m.next_serial /\ x.serial \notin Waiting(m)
      BY <1>1, <1>13, <1>20 DEF SampledSound
    <2>6. z.serial < m.next_serial /\ z.serial \notin Waiting(m)
      <3>1. serial < n.next_serial
        BY <1>4, <1>8 DEF InRing
      <3> QED
        BY <1>13, <1>20, <1>21, <3>1
    <2> QED
      BY <1>23, <2>1, <2>3, <2>4, <2>5, <2>6 DEF SampledSound
  <1>26. Settled(m, a, t)
    <2> DEFINE W == Waiting(n)
               S == SampledBy(n, s)
    <2>1. IsFiniteSet(W)
      <3> DEFINE e == n.expired_serial
                 x == n.next_serial - 1
      <3>1. InRing(n) = e .. x /\ e \in Int /\ x \in Int
        BY <1>4 DEF InRing
      <3> HIDE DEF e, x
      <3>2. IsFiniteSet(InRing(n)) /\ W \in SUBSET InRing(n)
        BY <3>1, FS_Interval DEF Waiting
      <3> QED
        BY <3>2, FS_Subset
    <2>2. IsFiniteSet(S) /\ z \notin S
      <3>1. S \in SUBSET s /\ IsFiniteSet(s)
        BY <1>1 DEF SampledBy, SampledSound
      <3>2. z \notin S
        BY <1>21, <1>24 DEF SampledBy
      <3> QED
        BY <3>1, <3>2, FS_Subset
    <2>3. serial \in W
      BY <1>8
    <2>4. Cardinality(AskedBy(n, a)) = Cardinality(S) + n.timeout_count + Cardinality(W)
      BY <1>1 DEF Settled
    <2> HIDE DEF W, S
    <2>5. Cardinality(S \cup {z}) = Cardinality(S) + 1
      BY <2>2, FS_AddElement
    <2>6. Cardinality(W \ {serial}) = Cardinality(W) - 1
      BY <2>1, <2>3, FS_RemoveElement
    <2>7. Cardinality(S) \in Nat /\ Cardinality(W) \in Nat
      BY <2>1, <2>2, FS_CardinalityType
    <2>8. Cardinality(AskedBy(n, a)) =
            Cardinality(S \cup {z}) + n.timeout_count + Cardinality(W \ {serial})
      <3> DEFINE i == Cardinality(S)
                 j == Cardinality(W)
                 c == n.timeout_count
      <3>1. i \in Nat /\ j \in Nat /\ c \in Nat
        BY <1>4, <2>7
      <3>2. Cardinality(AskedBy(n, a)) = i + c + j
        BY <2>4
      <3> HIDE DEF i, j, c
      <3>3. i + c + j = (i + 1) + c + (j - 1)
        BY <3>1
      <3> QED
        BY <2>5, <2>6, <3>2, <3>3 DEF i, j, c
    <2> QED
      BY <1>13, <1>14, <1>20, <1>23, <2>8 DEF Settled, W, S
  <1>27. SoundProbes(m, a, t)
    BY <1>13, <1>17, <1>18, <1>19, <1>25, <1>26 DEF SoundProbes
  <1>28. asked' = a /\ probe_now' = probe_now
    BY DEF HandleNativeReply
  <1> QED
    BY <1>1, <1>22, <1>27, <1>28 DEF NativeInv, m

\* A session opened under a fresh token is sound beside the requests and the
\* samples of the sessions before it.
LEMMA NativeOpened ==
  ASSUME probe_now \in Nat, NEW mode \in {"ECHO", "TIMESTAMP"}, NEW token \in Nat,
         NEW a, IsFiniteSet(a),
         \A q \in a : /\ q.token \in Nat /\ q.token < token
                      /\ q.serial \in Nat /\ q.sent \in Nat /\ q.target \in Target,
         NEW s, IsFiniteSet(s),
         \A x \in s : /\ x.token \in Nat /\ x.token < token /\ x.serial \in Nat
                      /\ x.reply.token = x.token /\ x.reply.serial = x.serial
                      /\ x.source = x.reply.target,
         \A x, y \in s : x.token = y.token /\ x.serial = y.serial => x = y,
         NEW m, m = native_open(mode, token)
  PROVE  SoundProbes(m, a, s)
  <1> DEFINE ring == [k \in 0 .. capacity - 1 |-> NO_REQUEST]
             turns == [t \in Target |-> probe_now + t * Spacing]
             failed == [t \in Target |-> FALSE]
  <1>1. /\ ring \in [0 .. capacity - 1 -> ProbeType]
        /\ \A p \in 0 .. capacity - 1 : ring[p].pending = FALSE
    BY ProbeBounds DEF NO_REQUEST, ProbeType
  <1>2. turns \in [Target -> Nat] /\ failed \in [Target -> BOOLEAN]
    <2>1. \A t \in Target : probe_now + t * Spacing \in Nat
      BY ProbeBounds
    <2> QED
      BY <2>1
  <1>3. m = [open |-> TRUE, mode |-> mode, token |-> token, requests |-> ring,
             next_serial |-> 0, expired_serial |-> 0, timeout_count |-> 0, next_target |-> 0,
             next_send |-> probe_now, target_next |-> turns, send_failed |-> failed]
    BY DEF native_open
  <1> HIDE DEF ring, turns, failed
  <1>4. m \in NativeType
    <2>1. 0 \in Target
      BY ProbeBounds
    <2> QED
      BY <1>1, <1>2, <1>3, <2>1 DEF NativeType
  <1>5. /\ m.token = token /\ m.requests = ring /\ m.next_serial = 0
        /\ m.expired_serial = 0 /\ m.timeout_count = 0
    BY <1>3
  <1>6. InRing(m) = {} /\ Waiting(m) = {}
    BY <1>5 DEF InRing, Waiting
  <1>7. AskedBy(m, a) = {} /\ SampledBy(m, s) = {}
    BY <1>5 DEF AskedBy, SampledBy
  <1>8. RingTrue(m, a)
    <2>1. m.expired_serial <= m.next_serial /\ m.next_serial - m.expired_serial <= capacity
      BY <1>5, ProbeBounds
    <2>2. \A p \in 0 .. capacity - 1 : ~m.requests[p].pending
      BY <1>1, <1>5
    <2> QED
      BY <1>6, <2>1, <2>2 DEF RingTrue
  <1>9. Spread(m)
    BY <1>6 DEF Spread
  <1>10. AskedSound(m, a)
    BY <1>5, <1>7 DEF AskedSound
  <1>11. SampledSound(m, s)
    BY <1>5, <1>7 DEF SampledSound
  <1>12. Settled(m, a, s)
    BY <1>5, <1>6, <1>7, FS_EmptySet DEF Settled
  <1> QED
    BY <1>4, <1>8, <1>9, <1>10, <1>11, <1>12 DEF SoundProbes

\* Closing the session keeps the invariant.
LEMMA NativeCloseInv == NativeInv /\ NativeClose => NativeInv'
  <1> SUFFICES ASSUME NativeInv, NativeClose PROVE NativeInv'
    OBVIOUS
  <1> DEFINE n == native
             m == native'
             a == asked
             s == sampled_from
  <1>1. /\ probe_now \in Nat /\ n \in NativeType /\ RingTrue(n, a) /\ Spread(n)
        /\ AskedSound(n, a) /\ SampledSound(n, s) /\ Settled(n, a, s)
    BY DEF NativeInv, SoundProbes
  <1>2. m = [n EXCEPT !.open = FALSE] /\ UNCHANGED <<probe_now, asked, sampled_from>>
    BY DEF NativeClose
  <1> HIDE DEF m
  <1>3. /\ m \in NativeType /\ m.requests = n.requests
        /\ m.expired_serial = n.expired_serial /\ m.next_serial = n.next_serial
        /\ m.timeout_count = n.timeout_count /\ m.next_send = n.next_send
        /\ m.target_next = n.target_next /\ m.token = n.token
    BY <1>1, <1>2 DEF NativeType
  <1>4. /\ InRing(m) = InRing(n) /\ Waiting(m) = Waiting(n)
        /\ AskedBy(m, a) = AskedBy(n, a) /\ SampledBy(m, s) = SampledBy(n, s)
    BY <1>3 DEF InRing, Waiting, Entry, AskedBy, SampledBy
  <1>5. RingTrue(m, a) /\ Spread(m)
    BY <1>1, <1>3, <1>4 DEF RingTrue, Spread, Entry
  <1>6. AskedSound(m, a) /\ SampledSound(m, s) /\ Settled(m, a, s)
    BY <1>1, <1>3, <1>4 DEF AskedSound, SampledSound, Settled
  <1> QED
    BY <1>1, <1>2, <1>3, <1>5, <1>6 DEF NativeInv, SoundProbes, m

\* Opening the next session keeps the invariant.
LEMMA NativeReopenInv == NativeInv /\ NativeReopen => NativeInv'
  <1> SUFFICES ASSUME NativeInv, NativeReopen PROVE NativeInv'
    OBVIOUS
  <1> DEFINE m == native'
             a == asked
             s == sampled_from
             token == native.token + 1
  <1>1. /\ probe_now \in Nat /\ native \in NativeType
        /\ AskedSound(native, a) /\ SampledSound(native, s)
    BY DEF NativeInv, SoundProbes
  <1>2. m = native_open(native.mode, token) /\ UNCHANGED <<probe_now, asked, sampled_from>>
    BY DEF NativeReopen
  <1>3. /\ native.mode \in {"ECHO", "TIMESTAMP"} /\ token \in Nat
        /\ \A k \in Nat : k <= native.token => k < token
    BY <1>1 DEF NativeType
  <1> HIDE DEF m, token
  <1>4. /\ IsFiniteSet(a)
        /\ \A q \in a : /\ q.token \in Nat /\ q.token < token
                        /\ q.serial \in Nat /\ q.sent \in Nat /\ q.target \in Target
    BY <1>1, <1>3 DEF AskedSound
  <1>5. /\ IsFiniteSet(s)
        /\ \A x \in s : /\ x.token \in Nat /\ x.token < token /\ x.serial \in Nat
                        /\ x.reply.token = x.token /\ x.reply.serial = x.serial
                        /\ x.source = x.reply.target
        /\ \A x, y \in s : x.token = y.token /\ x.serial = y.serial => x = y
    BY <1>1, <1>3 DEF SampledSound
  <1>6. SoundProbes(m, a, s)
    BY <1>1, <1>2, <1>3, <1>4, <1>5, NativeOpened
  <1> QED
    BY <1>1, <1>2, <1>6 DEF NativeInv, m

\* The invariant holds when the first session opens.
LEMMA NativeStart == NativeInit => NativeInv
  <1> SUFFICES ASSUME NativeInit PROVE NativeInv
    OBVIOUS
  <1>1. PICK mode \in Modes : native = native_open(mode, 1)
    BY DEF NativeInit
  <1>2. probe_now \in Nat /\ asked = {} /\ sampled_from = {} /\ IsFiniteSet({})
    BY FS_EmptySet DEF NativeInit
  <1>3. mode \in {"ECHO", "TIMESTAMP"}
    BY NativeAssumption
  <1>4. SoundProbes(native, {}, {})
    BY <1>1, <1>2, <1>3, NativeOpened
  <1> QED
    BY <1>2, <1>4 DEF NativeInv

\* Every step of the pinger, and every stutter, keeps the invariant.
LEMMA NativeStep == NativeInv /\ [NativeNext]_nativeVars => NativeInv'
  <1> SUFFICES ASSUME NativeInv, [NativeNext]_nativeVars
               PROVE  NativeInv'
    OBVIOUS
  <1>1. CASE ProbeClock
    BY <1>1 DEF ProbeClock, NativeInv
  <1>2. CASE \E sends \in BOOLEAN : HandleNativeTick(sends)
    BY <1>2, NativeTickInv
  <1>3. CASE \E request \in asked, source \in Target, received \in 0 .. probe_now :
               HandleNativeReply(request, source, received)
    BY <1>3, NativeReplyInv
  <1>4. CASE NativeClose
    BY <1>4, NativeCloseInv
  <1>5. CASE NativeReopen
    BY <1>5, NativeReopenInv
  <1>6. CASE UNCHANGED nativeVars
    BY <1>6 DEF nativeVars, NativeInv
  <1> QED
    BY <1>1, <1>2, <1>3, <1>4, <1>5, <1>6 DEF NativeNext

\* The inductive invariant of the prober: the ring holds what is not over, each in the
\* place of its serial, a spacing apart, and every request is in one of three counts.
THEOREM NativeInvariance == NativeSpec => []NativeInv
  BY NativeStart, NativeStep, PTL DEF NativeSpec

\* SampledTruly, for any number of targets, any spacing, period and timeout, and any
\* replies: a sample is of the request its reply answers, asked of the host that sent
\* it in the same session, and no request gives two (native_accept).
THEOREM SamplesAreTrue == NativeSpec => []SampledTruly
  <1>1. NativeInv => SampledTruly
    BY DEF NativeInv, SoundProbes, SampledSound, SampledTruly
  <1> QED
    BY <1>1, NativeInvariance, PTL

\* The places of the ring that wait are as many as the serials that do.
LEMMA PlacesWaiting ==
  ASSUME NEW n \in NativeType, NEW a, RingTrue(n, a)
  PROVE  Cardinality({p \in DOMAIN n.requests : n.requests[p].pending}) =
           Cardinality(Waiting(n))
  <1> DEFINE P == {p \in DOMAIN n.requests : n.requests[p].pending}
             W == Waiting(n)
             f == [k \in W |-> request_slot(k)]
  <1>1. /\ n.requests \in [0 .. capacity - 1 -> ProbeType] /\ DOMAIN n.requests = 0 .. capacity - 1
        /\ n.expired_serial \in Nat /\ n.next_serial \in Nat
    BY DEF NativeType
  <1>2. \A k \in W : /\ k \in InRing(n) /\ k \in Nat /\ n.requests[request_slot(k)].serial = k
                     /\ n.requests[request_slot(k)].pending
    BY <1>1 DEF Waiting, RingTrue, Entry, InRing
  <1>3. ASSUME NEW k \in W
        PROVE  request_slot(k) \in P
    BY <1>1, <1>2, ProbeBounds
  <1>4. ASSUME NEW p \in P
        PROVE  \E k \in W : request_slot(k) = p
    <2>1. /\ n.requests[p].serial \in InRing(n)
          /\ request_slot(n.requests[p].serial) = p
      BY <1>1 DEF RingTrue
    <2>2. n.requests[p].serial \in W
      BY <2>1 DEF Waiting, Entry
    <2> QED
      BY <2>1, <2>2
  <1>5. IsFiniteSet(W)
    <2> DEFINE e == n.expired_serial
               x == n.next_serial - 1
    <2>1. InRing(n) = e .. x /\ e \in Int /\ x \in Int
      BY <1>1 DEF InRing
    <2> HIDE DEF e, x
    <2>2. IsFiniteSet(InRing(n)) /\ W \in SUBSET InRing(n)
      BY <2>1, FS_Interval DEF Waiting
    <2> QED
      BY <2>2, FS_Subset
  <1> HIDE DEF P, W
  <1>6. f \in [W -> P] /\ \A k \in W : f[k] = request_slot(k)
    BY <1>3
  <1>7. \A k, l \in W : f[k] = f[l] => k = l
    BY <1>2, <1>6
  <1>8. \A p \in P : \E k \in W : f[k] = p
    BY <1>4, <1>6
  <1> HIDE DEF f
  <1>9. f \in Bijection(W, P)
    <2>1. DOMAIN f = W
      BY <1>6
    <2>2. f \in Injection(W, P)
      BY <1>6, <1>7, <2>1 DEF Injection, IsInjective
    <2>3. f \in Surjection(W, P)
      BY <1>6, <1>8 DEF Surjection
    <2> QED
      BY <2>2, <2>3 DEF Bijection
  <1>10. ExistsBijection(W, P)
    BY <1>9 DEF ExistsBijection
  <1>11. Cardinality(P) = Cardinality(W)
    BY <1>5, <1>10, FS_Bijection
  <1> QED
    BY <1>11 DEF P, W

\* RequestsSound, however late the timer is: each request is answered, timed out or
\* still in the ring, and none leaves before its target's and its session's turn
\* (native_tick, native_expire).
THEOREM RequestsAreAccounted == NativeSpec => []RequestsSound
  <1>1. NativeInv => RequestsSound
    <2> SUFFICES ASSUME NativeInv PROVE RequestsSound
      OBVIOUS
    <2> DEFINE n == native
    <2>1. /\ n \in NativeType /\ RingTrue(n, asked)
          /\ AskedSound(n, asked) /\ Settled(n, asked, sampled_from)
      BY DEF NativeInv, SoundProbes
    <2>2. Requests = AskedBy(n, asked) /\ Samples = SampledBy(n, sampled_from)
      BY DEF Requests, Samples, AskedBy, SampledBy
    <2>3. RequestsSettled
      BY <2>1, <2>2, PlacesWaiting DEF Settled, RequestsSettled
    <2>4. CadenceKept
      BY <2>1, <2>2 DEF AskedSound, CadenceKept
    <2> QED
      BY <2>3, <2>4 DEF RequestsSound
  <1> QED
    BY <1>1, NativeInvariance, PTL

-----------------------------------------------------------------------------
(* TcpInject: what is known of a handshake, a server and a client.          *)

HandshakeType ==
  [sequence : Int, tsval : Int, state : {"NONE", "SENT", "RETRIED", "ECHOED", "CLOSED"},
   learned : BOOLEAN]
ConnectionType ==
  [phase : {"CLOSED", "SYN", "ANSWERED", "OPEN"}, sequence : Int,
   server_has : {"NOTHING", "STAMPED", "PLAIN", "CONNECTION"}, recent : Int,
   answered : BOOLEAN, echo : BOOLEAN, outcomes : SUBSET {"FAILED", "STALLED", "ACCEPTED"}]
FlowStateType ==
  [known : BOOLEAN, outgoing : Int, stamped : BOOLEAN, waiting : BOOLEAN, sequence : Int]
ClientType == [seen : Int, tsval : Int, stalled : BOOLEAN]
InjectCountersType == [injected : Int, skipped : Int, accepted : Int, stalled : Int]
WorldType ==
  [kind : ServerKinds, start : 0 .. ClientTsvals - 1, now : Nat, opened : Int, refused : Int]

InjectTypeOK ==
  /\ handshakes \in [Flows -> HandshakeType]
  /\ conn \in [Flows -> ConnectionType]
  /\ flow_states \in [Flows -> FlowStateType]
  /\ client \in ClientType
  /\ counted \in InjectCountersType
  /\ world \in WorldType
  /\ server \in Int

\* What is recorded of a flow's handshake fits its connection: an answer settles it;
\* one that may still work, and is the connection's, has not been seen to fail, or
\* is closed; what was accepted is not waited for.
Told(h, c, s, kind) ==
  /\ c.answered => h.state \notin {"SENT", "RETRIED"}
  /\ c.echo => /\ c.answered /\ kind = "TAKES"
               /\ c.server_has \in {"STAMPED", "CONNECTION"}
  /\ "ACCEPTED" \in c.outcomes => c.answered /\ ~s.waiting
  /\ (h.sequence = c.sequence /\ c.phase # "CLOSED" /\ c.outcomes = {}) =>
       \/ h.state \in {"SENT", "RETRIED"}
       \/ h.state = "ECHOED" /\ c.echo

HandshakesTold ==
  \A f \in Flows : Told(handshakes[f], conn[f], flow_states[f], world.kind)

\* A failure that was seen was noted for its server, then or later.
FailureNoted ==
  /\ server = NEVER \/ server \in 0 .. world.now
  /\ world.refused # NEVER => server # NEVER /\ world.refused \in 0 .. server

\* What was learned from the client is what its clock showed.
ClientKnown ==
  client.tsval # 0 =>
    /\ client.seen \in 0 .. world.now
    /\ client.tsval = (world.start + client.seen) % ClientTsvals

InjectInv == InjectTypeOK /\ HandshakesTold /\ FailureNoted /\ ClientKnown

\* No SYN was injected and nothing accepted.
Quiet ==
  /\ counted'.injected = counted.injected /\ counted'.accepted = counted.accepted
  /\ \A f \in Flows : handshakes'[f].sequence = handshakes[f].sequence

\* The markers of entries that are empty.
LEMMA InjectEmpty ==
  /\ NoHandshake \in HandshakeType /\ NoConnection \in ConnectionType
  /\ NoFlowState \in FlowStateType /\ NoClient \in ClientType
  /\ \A kind \in ServerKinds : Told(NoHandshake, NoConnection, NoFlowState, kind)
  BY DEF NoHandshake, NoConnection, NoFlowState, NoClient, HandshakeType, ConnectionType,
         FlowStateType, ClientType, Told, NEVER

\* Before the first SYN nothing is known.
LEMMA InjectInitInv == InjectInit => InjectInv
  <1> SUFFICES ASSUME InjectInit PROVE InjectInv OBVIOUS
  <1>1. world \in WorldType /\ world.refused = NEVER /\ world.kind \in ServerKinds
    BY InjectAssumption DEF InjectInit, WorldType, NEVER
  <1>2. InjectTypeOK
    BY <1>1, InjectEmpty DEF InjectInit, InjectTypeOK, InjectCountersType, NEVER
  <1>3. HandshakesTold BY <1>1, InjectEmpty DEF InjectInit, HandshakesTold
  <1>4. FailureNoted BY <1>1 DEF InjectInit, FailureNoted
  <1>5. ClientKnown BY DEF InjectInit, ClientKnown, NoClient
  <1> QED BY <1>2, <1>3, <1>4, <1>5 DEF InjectInv

\* A step of one flow that leaves the others alone.
LEMMA FlowStep ==
  ASSUME InjectInv, NEW f \in Flows, NEW h \in HandshakeType, NEW c \in ConnectionType,
         NEW s \in FlowStateType,
         handshakes' = [handshakes EXCEPT ![f] = h], conn' = [conn EXCEPT ![f] = c],
         flow_states' = [flow_states EXCEPT ![f] = s],
         world'.kind = world.kind, Told(h, c, s, world.kind)
  PROVE  /\ handshakes' \in [Flows -> HandshakeType]
         /\ conn' \in [Flows -> ConnectionType]
         /\ flow_states' \in [Flows -> FlowStateType]
         /\ HandshakesTold'
         /\ h.sequence = handshakes[f].sequence =>
              \A g \in Flows : handshakes'[g].sequence = handshakes[g].sequence
  <1>1. /\ handshakes \in [Flows -> HandshakeType]
        /\ conn \in [Flows -> ConnectionType]
        /\ flow_states \in [Flows -> FlowStateType]
        /\ \A g \in Flows : Told(handshakes[g], conn[g], flow_states[g], world.kind)
    BY DEF InjectInv, InjectTypeOK, HandshakesTold
  <1>2. \A g \in Flows : /\ handshakes'[g] = IF g = f THEN h ELSE handshakes[g]
                         /\ conn'[g] = IF g = f THEN c ELSE conn[g]
                         /\ flow_states'[g] = IF g = f THEN s ELSE flow_states[g]
    BY <1>1
  <1>3. HandshakesTold'
    <2> SUFFICES ASSUME NEW g \in Flows
                 PROVE  Told(handshakes'[g], conn'[g], flow_states'[g], world'.kind)
      BY DEF HandshakesTold
    <2>1. CASE g = f BY <1>2, <2>1
    <2>2. CASE g # f BY <1>1, <1>2, <2>2
    <2> QED BY <2>1, <2>2
  <1> QED BY <1>1, <1>2, <1>3

\* A handshake that may have failed: when it was seen to fail first, the server is
\* noted at that moment.
LEMMA RefusalStep ==
  ASSUME InjectInv, NEW f \in Flows, NEW shown \in BOOLEAN,
         world' = [world EXCEPT !.refused = Refusal(f, shown)],
         server' \in {server, world.now}, FirstFailure(f, shown) => server' = world.now
  PROVE  /\ world' \in WorldType /\ FailureNoted' /\ server' \in Int
         /\ world'.kind = world.kind /\ world'.now = world.now /\ world'.start = world.start
  <1> DEFINE refused == Refusal(f, shown)
  <1>1. /\ world \in WorldType /\ server \in Int /\ world.now \in Nat
        /\ server = NEVER \/ server \in 0 .. world.now
        /\ world.refused # NEVER => server # NEVER /\ world.refused \in 0 .. server
        /\ world.refused \in Int
    BY DEF InjectInv, InjectTypeOK, FailureNoted, WorldType
  <1>2. refused # world.refused => refused = world.now /\ server' = world.now
    BY DEF Refusal
  <1>3. refused \in Int BY <1>1, <1>2
  <1> HIDE DEF refused
  <1>4. /\ world' \in WorldType /\ world'.refused = refused /\ world'.now = world.now
        /\ world'.kind = world.kind /\ world'.start = world.start
    BY <1>1, <1>3 DEF WorldType, refused
  <1>5. NEVER \notin Nat /\ NEVER \in Int BY DEF NEVER
  <1>6. server' = NEVER \/ server' \in 0 .. world.now BY <1>1
  <1>7. refused # NEVER => server' # NEVER /\ refused \in 0 .. server'
    BY <1>1, <1>2, <1>5
  <1>8. FailureNoted' BY <1>4, <1>6, <1>7 DEF FailureNoted
  <1> QED BY <1>1, <1>4, <1>8

\* The parts of the invariant about one flow.
LEMMA FlowFacts ==
  ASSUME InjectInv, NEW f \in Flows
  PROVE  /\ handshakes[f] \in HandshakeType /\ conn[f] \in ConnectionType
         /\ flow_states[f] \in FlowStateType
         /\ Told(handshakes[f], conn[f], flow_states[f], world.kind)
         /\ handshakes = [handshakes EXCEPT ![f] = handshakes[f]]
         /\ conn = [conn EXCEPT ![f] = conn[f]]
         /\ flow_states = [flow_states EXCEPT ![f] = flow_states[f]]
         /\ Outcomes(f, TRUE) \in SUBSET {"FAILED", "STALLED", "ACCEPTED"}
         /\ Outcomes(f, FALSE) \in SUBSET {"FAILED", "STALLED", "ACCEPTED"}
  <1>1. /\ handshakes \in [Flows -> HandshakeType]
        /\ conn \in [Flows -> ConnectionType]
        /\ flow_states \in [Flows -> FlowStateType]
        /\ \A g \in Flows : Told(handshakes[g], conn[g], flow_states[g], world.kind)
    BY DEF InjectInv, InjectTypeOK, HandshakesTold
  <1>2. conn[f].outcomes \in SUBSET {"FAILED", "STALLED", "ACCEPTED"}
    BY <1>1 DEF ConnectionType
  <1>3. /\ handshakes = [handshakes EXCEPT ![f] = handshakes[f]]
        /\ conn = [conn EXCEPT ![f] = conn[f]]
        /\ flow_states = [flow_states EXCEPT ![f] = flow_states[f]]
    BY <1>1
  <1> QED BY <1>1, <1>2, <1>3 DEF Outcomes

\* What the filter keeps of a flow after a timestamp has left, and a connection
\* after its SYN has reached the server or not.
LEMMA StampedTyped ==
  ASSUME NEW s \in FlowStateType, NEW tsval \in Int, NEW syn \in BOOLEAN
  PROVE  /\ Stamped(s, tsval, syn) \in FlowStateType
         /\ Stamped(s, tsval, syn).waiting = s.waiting
  BY DEF Stamped, FlowStateType

\* A server that was rejected within a day is left alone; a learned timestamp is
\* injected only within a day of its moment.
LEMMA SkippedWithinADay ==
  ASSUME InjectInv
  PROVE  /\ ~server_skipped => world.refused = NEVER \/ world.now - world.refused >= DAY
         /\ client_tsval \in Int
         /\ (client.tsval # 0 /\ client_tsval = client.tsval
              /\ client.tsval \notin {TSVAL, STALLED_TSVAL})
              => world.now - client.seen < DAY
  <1>1. /\ world.now \in Nat /\ DAY \in Nat /\ server \in Int /\ world.refused \in Int
        /\ client \in ClientType /\ TSVAL \in Int /\ STALLED_TSVAL \in Int
    BY InjectAssumption DEF InjectInv, InjectTypeOK, WorldType
  <1>2. /\ server = NEVER \/ server \in 0 .. world.now
        /\ world.refused # NEVER => server # NEVER /\ world.refused \in 0 .. server
    BY DEF InjectInv, FailureNoted
  <1>3. ~server_skipped => world.refused = NEVER \/ world.now - world.refused >= DAY
    BY <1>1, <1>2 DEF server_skipped
  <1>4. client_tsval \in Int BY <1>1 DEF client_tsval, ClientType
  <1>5. (client.tsval # 0 /\ client_tsval = client.tsval
          /\ client.tsval \notin {TSVAL, STALLED_TSVAL})
          => world.now - client.seen < DAY
    <2>1. client.seen \in Int BY <1>1 DEF ClientType
    <2> QED BY <1>1, <2>1 DEF client_tsval
  <1> QED BY <1>3, <1>4, <1>5

\* A first SYN is injected, or its server is skipped.
LEMMA ClientSynInv ==
  ASSUME InjectInv, NEW f \in Flows, NEW sequence \in Sequences, NEW reaches \in BOOLEAN,
         ClientSyn(f, sequence, reaches)
  PROVE  /\ InjectInv'
         /\ counted'.accepted = counted.accepted
         /\ counted'.injected # counted.injected => ~server_skipped
         /\ \A g \in Flows : handshakes'[g].sequence # handshakes[g].sequence
              => handshakes'[g].tsval = client_tsval
  <1> DEFINE tsval == client_tsval
             skipped == server_skipped
             opened == [NoConnection EXCEPT !.phase = "SYN", !.sequence = sequence]
             sent == [sequence |-> sequence, tsval |-> tsval, state |-> "SENT",
                      learned |-> FALSE]
             h == IF skipped THEN handshakes[f] ELSE sent
             s == IF skipped THEN flow_states[f] ELSE Stamped(flow_states[f], tsval, TRUE)
             c == IF reaches THEN Reached(opened, ~skipped, tsval) ELSE opened
  <1>1. /\ handshakes[f] \in HandshakeType /\ flow_states[f] \in FlowStateType
        /\ handshakes = [handshakes EXCEPT ![f] = handshakes[f]]
        /\ flow_states = [flow_states EXCEPT ![f] = flow_states[f]]
        /\ handshakes \in [Flows -> HandshakeType]
        /\ counted \in InjectCountersType /\ world \in WorldType /\ tsval \in Int
        /\ sequence \in Int /\ skipped \in BOOLEAN
    BY FlowFacts, SkippedWithinADay, InjectAssumption
       DEF InjectInv, InjectTypeOK, server_skipped
  <1>2. /\ handshakes' = [handshakes EXCEPT ![f] = h]
        /\ flow_states' = [flow_states EXCEPT ![f] = s]
        /\ conn' = [conn EXCEPT ![f] = c]
        /\ sequence # handshakes[f].sequence
        /\ counted' = IF skipped THEN [counted EXCEPT !.skipped = @ + 1]
                      ELSE [counted EXCEPT !.injected = @ + 1]
        /\ world' = [world EXCEPT !.opened = @ + 1]
        /\ server' = server /\ client' = client
    BY <1>1 DEF ClientSyn
  <1> HIDE DEF tsval, skipped
  <1>3. /\ opened \in ConnectionType /\ opened.phase = "SYN" /\ opened.sequence = sequence
        /\ ~opened.answered /\ ~opened.echo /\ opened.outcomes = {}
    BY <1>1, InjectEmpty DEF NoConnection, ConnectionType
  <1> HIDE DEF opened
  <1>4. /\ c \in ConnectionType /\ c.sequence = sequence
        /\ ~c.answered /\ ~c.echo /\ c.outcomes = {}
    <2> DEFINE has == IF skipped THEN "PLAIN" ELSE "STAMPED"
               taken == [opened EXCEPT !.server_has = has, !.recent = tsval]
    <2>1. has \in {"STAMPED", "PLAIN"} OBVIOUS
    <2>2. c \in {taken, opened} BY DEF Reached
    <2> HIDE DEF has, c
    <2>3. /\ taken \in ConnectionType /\ taken.sequence = opened.sequence
          /\ taken.answered = opened.answered /\ taken.echo = opened.echo
          /\ taken.outcomes = opened.outcomes
      BY <1>1, <1>3, <2>1 DEF ConnectionType
    <2> HIDE DEF taken
    <2> QED BY <1>3, <2>2, <2>3
  <1>5. /\ h \in HandshakeType
        /\ h.sequence = sequence => h.state = "SENT"
        /\ h = handshakes[f] \/ h.tsval = tsval
    BY <1>1, <1>2 DEF HandshakeType
  <1>6. s \in FlowStateType BY <1>1, StampedTyped
  <1> HIDE DEF h, c, s
  <1>7. Told(h, c, s, world.kind) BY <1>4, <1>5 DEF Told
  <1>8. /\ world' \in WorldType /\ world'.kind = world.kind /\ world'.now = world.now
        /\ world'.refused = world.refused /\ world'.start = world.start
    <2> DEFINE count == world.opened + 1
    <2>1. count \in Int BY <1>1 DEF WorldType
    <2>2. world' = [world EXCEPT !.opened = count] BY <1>2
    <2> HIDE DEF count
    <2> QED BY <1>1, <2>1, <2>2 DEF WorldType
  <1>9. /\ handshakes' \in [Flows -> HandshakeType]
        /\ conn' \in [Flows -> ConnectionType]
        /\ flow_states' \in [Flows -> FlowStateType]
        /\ HandshakesTold'
    BY <1>2, <1>4, <1>5, <1>6, <1>7, <1>8, FlowStep
  <1>10. /\ counted' \in InjectCountersType /\ counted'.accepted = counted.accepted
         /\ counted'.injected # counted.injected => ~skipped
    BY <1>1, <1>2 DEF InjectCountersType
  <1>11. InjectTypeOK' BY <1>2, <1>8, <1>9, <1>10 DEF InjectInv, InjectTypeOK
  <1>12. FailureNoted' BY <1>2, <1>8 DEF InjectInv, FailureNoted
  <1>13. ClientKnown' BY <1>2, <1>8 DEF InjectInv, ClientKnown
  <1>14. \A g \in Flows : handshakes'[g].sequence # handshakes[g].sequence
              => handshakes'[g].tsval = tsval
    <2>1. \A g \in Flows : handshakes'[g] = IF g = f THEN h ELSE handshakes[g]
      BY <1>1, <1>2
    <2> QED BY <1>5, <2>1
  <1> QED BY <1>9, <1>10, <1>11, <1>12, <1>13, <1>14 DEF InjectInv, tsval, skipped
\* A handshake that is given up, as inject_skip_server() leaves it.
GivenUp(f) == [handshakes[f] EXCEPT !.state = "CLOSED"]

\* Its server is left alone from now on.
LEMMA SkipStep ==
  ASSUME InjectInv, NEW f \in Flows, Skip(f)
  PROVE  /\ handshakes' = [handshakes EXCEPT ![f] = GivenUp(f)]
         /\ GivenUp(f) \in HandshakeType /\ GivenUp(f).state = "CLOSED"
         /\ GivenUp(f).sequence = handshakes[f].sequence
         /\ server' = world.now /\ counted' \in InjectCountersType
         /\ counted'.injected = counted.injected /\ counted'.accepted = counted.accepted
  <1>1. /\ handshakes \in [Flows -> HandshakeType] /\ counted \in InjectCountersType
        /\ handshakes[f] \in HandshakeType
    BY DEF InjectInv, InjectTypeOK
  <1>2. handshakes' = [handshakes EXCEPT ![f] = GivenUp(f)]
    BY <1>1 DEF Skip, GivenUp
  <1>3. /\ GivenUp(f) \in HandshakeType /\ GivenUp(f).state = "CLOSED"
        /\ GivenUp(f).sequence = handshakes[f].sequence
    BY <1>1 DEF GivenUp, HandshakeType
  <1> DEFINE skips == counted.skipped + 1
  <1>4. skips \in Int BY <1>1 DEF InjectCountersType
  <1>5. counted' = [counted EXCEPT !.skipped = skips] /\ server' = world.now BY DEF Skip
  <1> HIDE DEF skips
  <1>6. /\ counted' \in InjectCountersType
        /\ counted'.injected = counted.injected /\ counted'.accepted = counted.accepted
    BY <1>1, <1>4, <1>5 DEF InjectCountersType
  <1> QED BY <1>2, <1>3, <1>5, <1>6

\* A step that may show a failure keeps the invariant when it notes what it shows.
LEMMA SettleStep ==
  ASSUME InjectInv, NEW f \in Flows, NEW h \in HandshakeType, NEW c \in ConnectionType,
         NEW s \in FlowStateType, NEW shown \in BOOLEAN,
         handshakes' = [handshakes EXCEPT ![f] = h], conn' = [conn EXCEPT ![f] = c],
         flow_states' = [flow_states EXCEPT ![f] = s],
         h.sequence = handshakes[f].sequence, Told(h, c, s, world.kind),
         world' = [world EXCEPT !.refused = Refusal(f, shown)],
         server' \in {server, world.now}, FirstFailure(f, shown) => server' = world.now,
         counted' \in InjectCountersType, counted'.injected = counted.injected,
         counted'.accepted = counted.accepted,
         client' \in ClientType, client'.tsval = client.tsval,
         client'.tsval # 0 => client'.seen = client.seen
  PROVE  InjectInv' /\ Quiet
  <1>1. /\ world' \in WorldType /\ FailureNoted' /\ server' \in Int
        /\ world'.kind = world.kind /\ world'.now = world.now /\ world'.start = world.start
    BY RefusalStep
  <1>2. /\ handshakes' \in [Flows -> HandshakeType]
        /\ conn' \in [Flows -> ConnectionType]
        /\ flow_states' \in [Flows -> FlowStateType]
        /\ HandshakesTold'
        /\ \A g \in Flows : handshakes'[g].sequence = handshakes[g].sequence
    BY <1>1, FlowStep
  <1>3. ClientKnown' BY <1>1 DEF InjectInv, ClientKnown
  <1>4. InjectTypeOK' BY <1>1, <1>2 DEF InjectTypeOK
  <1> QED BY <1>1, <1>2, <1>3, <1>4 DEF InjectInv, Quiet

\* A failure shown on a connection leaves a mark on it.
LEMMA OutcomeKept ==
  ASSUME InjectInv, NEW f \in Flows, NEW shown \in BOOLEAN
  PROVE  /\ Outcomes(f, shown) \in SUBSET {"FAILED", "STALLED", "ACCEPTED"}
         /\ "ACCEPTED" \in Outcomes(f, shown) => "ACCEPTED" \in conn[f].outcomes
         /\ Outcomes(f, shown) = {} => conn[f].outcomes = {} /\ ~FirstFailure(f, shown)
  <1>1. conn[f].outcomes \in SUBSET {"FAILED", "STALLED", "ACCEPTED"}
    BY FlowFacts DEF ConnectionType
  <1> QED BY <1>1 DEF Outcomes, FirstFailure

\* A SYN is sent again.
LEMMA ClientResynInv ==
  ASSUME InjectInv, NEW f \in Flows, NEW reaches \in BOOLEAN, ClientResyn(f, reaches)
  PROVE  InjectInv' /\ Quiet
  <1> DEFINE shown == conn[f].answered /\ conn[f].echo
             outcomes == Outcomes(f, shown)
             base == IF reaches THEN Reached(conn[f], FALSE, -1) ELSE conn[f]
             c == [base EXCEPT !.outcomes = outcomes]
             class == classify_syn(handshakes[f], conn[f].sequence)
             retried == [handshakes[f] EXCEPT !.state = "RETRIED"]
  <1>1. /\ handshakes \in [Flows -> HandshakeType] /\ conn \in [Flows -> ConnectionType]
        /\ handshakes[f] \in HandshakeType /\ conn[f] \in ConnectionType
        /\ flow_states[f] \in FlowStateType
        /\ Told(handshakes[f], conn[f], flow_states[f], world.kind)
        /\ flow_states = [flow_states EXCEPT ![f] = flow_states[f]]
        /\ handshakes = [handshakes EXCEPT ![f] = handshakes[f]]
        /\ client \in ClientType /\ counted \in InjectCountersType
    BY FlowFacts DEF InjectInv, InjectTypeOK
  <1>2. shown \in BOOLEAN /\ conn[f].echo \in BOOLEAN BY <1>1 DEF ConnectionType
  <1>3. /\ outcomes \in SUBSET {"FAILED", "STALLED", "ACCEPTED"}
        /\ "ACCEPTED" \in outcomes => "ACCEPTED" \in conn[f].outcomes
        /\ outcomes = {} => conn[f].outcomes = {} /\ ~FirstFailure(f, shown)
    BY <1>2, OutcomeKept
  <1>4. /\ base \in ConnectionType /\ base.sequence = conn[f].sequence
        /\ base.phase = conn[f].phase /\ base.answered = conn[f].answered
        /\ base.echo = conn[f].echo
        /\ base.server_has = conn[f].server_has \/ conn[f].server_has = "NOTHING"
    <2> DEFINE none == -1
               taken == [conn[f] EXCEPT !.server_has = "PLAIN", !.recent = none]
    <2>1. base # conn[f] => base = taken /\ conn[f].server_has = "NOTHING"
      BY DEF Reached
    <2>2. none \in Int OBVIOUS
    <2> HIDE DEF base, none
    <2>3. /\ taken \in ConnectionType /\ taken.sequence = conn[f].sequence
          /\ taken.phase = conn[f].phase /\ taken.answered = conn[f].answered
          /\ taken.echo = conn[f].echo
      BY <1>1, <2>2 DEF ConnectionType
    <2> HIDE DEF taken
    <2> QED BY <1>1, <2>1, <2>3
  <1>5. conn' = [conn EXCEPT ![f] = c] BY DEF ClientResyn
  <1>6. world' = [world EXCEPT !.refused = Refusal(f, shown)] BY DEF ClientResyn
  <1> HIDE DEF base, outcomes, shown
  <1>7. /\ c \in ConnectionType /\ c.sequence = conn[f].sequence
        /\ c.phase = conn[f].phase /\ c.answered = conn[f].answered
        /\ c.echo = conn[f].echo /\ c.outcomes = outcomes
        /\ c.echo => c.server_has \in {"STAMPED", "CONNECTION"}
    BY <1>1, <1>3, <1>4 DEF ConnectionType, Told
  <1> HIDE DEF c
  <1>8. /\ conn[f].phase = "SYN" /\ class # "NEW" /\ class \in {"RETRY", "REJECTED", "PASS"}
        /\ client' = client /\ flow_states' = flow_states
        /\ class = "RETRY" <=> handshakes[f].state = "SENT"
        /\ class = "REJECTED" <=> handshakes[f].state = "ECHOED"
        /\ handshakes[f].sequence = conn[f].sequence
    BY DEF ClientResyn, classify_syn
  <1>9. FirstFailure(f, shown) => conn[f].answered /\ conn[f].outcomes = {}
    BY DEF FirstFailure, shown
  <1>10. CASE class = "RETRY"
    <2>1. /\ handshakes' = [handshakes EXCEPT ![f] = retried]
          /\ server' = server /\ counted' = counted
      BY <1>1, <1>10 DEF ClientResyn
    <2>2. retried \in HandshakeType /\ retried.state = "RETRIED"
          /\ retried.sequence = handshakes[f].sequence
      BY <1>1 DEF HandshakeType
    <2> HIDE DEF retried
    <2>3. ~conn[f].answered BY <1>1, <1>8, <1>10 DEF Told
    <2>4. Told(retried, c, flow_states[f], world.kind)
      BY <1>1, <1>3, <1>7, <2>2, <2>3 DEF Told
    <2> QED BY <1>1, <1>2, <1>5, <1>6, <1>7, <1>8, <1>9, <2>1, <2>2, <2>3, <2>4, SettleStep
  <1>11. CASE class = "REJECTED"
    <2>1. Skip(f) BY <1>11 DEF ClientResyn
    <2>2. /\ handshakes' = [handshakes EXCEPT ![f] = GivenUp(f)]
          /\ GivenUp(f) \in HandshakeType /\ GivenUp(f).state = "CLOSED"
          /\ GivenUp(f).sequence = handshakes[f].sequence
          /\ server' = world.now /\ counted' \in InjectCountersType
          /\ counted'.injected = counted.injected /\ counted'.accepted = counted.accepted
      BY <2>1, SkipStep
    <2>3. outcomes # {}
      BY <1>1, <1>3, <1>8, <1>11 DEF Told, FirstFailure, Injected, shown
    <2>4. Told(GivenUp(f), c, flow_states[f], world.kind)
      BY <1>1, <1>3, <1>7, <2>2, <2>3 DEF Told
    <2> QED BY <1>1, <1>2, <1>5, <1>6, <1>7, <1>8, <2>2, <2>4, SettleStep
  <1>12. CASE class = "PASS"
    <2>1. handshakes' = handshakes /\ server' = server /\ counted' = counted
      BY <1>12 DEF ClientResyn
    <2>2. handshakes[f].state \notin {"SENT", "ECHOED"} BY <1>8, <1>12
    <2>3. ~FirstFailure(f, shown)
      BY <1>1, <1>8, <1>9, <2>2 DEF Told
    <2>4. Told(handshakes[f], c, flow_states[f], world.kind)
      BY <1>1, <1>3, <1>7, <1>8, <2>2 DEF Told
    <2>5. /\ handshakes' = [handshakes EXCEPT ![f] = handshakes[f]]
          /\ flow_states' = [flow_states EXCEPT ![f] = flow_states[f]]
      BY <1>1, <1>8, <2>1
    <2>6. /\ server' \in {server, world.now} /\ client' \in ClientType
          /\ client'.tsval = client.tsval /\ client'.seen = client.seen
          /\ counted' \in InjectCountersType /\ counted'.injected = counted.injected
          /\ counted'.accepted = counted.accepted
      BY <1>1, <1>8, <2>1
    <2> QED BY <1>1, <1>2, <1>5, <1>6, <1>7, <2>3, <2>4, <2>5, <2>6, SettleStep
  <1> QED BY <1>8, <1>10, <1>11, <1>12

\* The server answers a SYN.
LEMMA ServerSynAckInv ==
  ASSUME InjectInv, NEW f \in Flows, NEW delivered \in BOOLEAN, ServerSynAck(f, delivered)
  PROVE  InjectInv' /\ Quiet
  <1> DEFINE echo == Echoes(f)
             shown == ~echo
             answer == classify_answer(handshakes[f], echo)
             phase == IF delivered /\ conn[f].phase = "SYN" THEN "ANSWERED"
                      ELSE conn[f].phase
             outcomes == IF answer = "STALLED" THEN conn[f].outcomes \cup {"STALLED"}
                         ELSE Outcomes(f, shown)
             c == [conn[f] EXCEPT !.answered = TRUE, !.echo = echo, !.phase = phase,
                                  !.outcomes = outcomes]
  <1>1. /\ handshakes \in [Flows -> HandshakeType] /\ conn \in [Flows -> ConnectionType]
        /\ flow_states \in [Flows -> FlowStateType]
        /\ handshakes[f] \in HandshakeType /\ conn[f] \in ConnectionType
        /\ flow_states[f] \in FlowStateType
        /\ Told(handshakes[f], conn[f], flow_states[f], world.kind)
        /\ flow_states = [flow_states EXCEPT ![f] = flow_states[f]]
        /\ handshakes = [handshakes EXCEPT ![f] = handshakes[f]]
        /\ client \in ClientType /\ counted \in InjectCountersType
    BY FlowFacts DEF InjectInv, InjectTypeOK
  <1>2. /\ echo \in BOOLEAN /\ shown \in BOOLEAN /\ (echo => world.kind = "TAKES")
        /\ (echo => conn[f].server_has = "STAMPED")
        /\ (conn[f].echo => echo)
        /\ phase \in {"SYN", "ANSWERED", "OPEN"} /\ conn[f].phase # "CLOSED"
    BY <1>1 DEF Echoes, Answers, ServerSynAck, ConnectionType, Told
  <1>3. /\ Outcomes(f, shown) \in SUBSET {"FAILED", "STALLED", "ACCEPTED"}
        /\ "ACCEPTED" \in Outcomes(f, shown) => "ACCEPTED" \in conn[f].outcomes
        /\ Outcomes(f, shown) = {} => conn[f].outcomes = {} /\ ~FirstFailure(f, shown)
    BY <1>2, OutcomeKept
  <1>4. /\ conn' = [conn EXCEPT ![f] = c]
        /\ world' = [world EXCEPT !.refused = Refusal(f, shown)]
    BY <1>1 DEF ServerSynAck
  <1>5. conn[f].outcomes \in SUBSET {"FAILED", "STALLED", "ACCEPTED"}
    BY <1>1 DEF ConnectionType
  <1>6. /\ outcomes \in SUBSET {"FAILED", "STALLED", "ACCEPTED"}
        /\ "ACCEPTED" \in outcomes => "ACCEPTED" \in conn[f].outcomes
        /\ outcomes = {} => /\ conn[f].outcomes = {} /\ ~FirstFailure(f, shown)
                            /\ answer # "STALLED"
    <2>1. CASE answer = "STALLED" BY <1>5, <2>1
    <2>2. CASE answer # "STALLED" BY <1>3, <2>2
    <2> QED BY <2>1, <2>2
  <1> HIDE DEF echo, phase, outcomes
  <1>7. /\ c \in ConnectionType /\ c.sequence = conn[f].sequence
        /\ c.answered /\ c.echo = echo /\ c.outcomes = outcomes
        /\ c.server_has = conn[f].server_has
    BY <1>1, <1>2, <1>6 DEF ConnectionType
  <1>8. /\ handshakes[f].state = "SENT" => answer = IF echo THEN "ECHOED" ELSE "DECLINED"
        /\ handshakes[f].state = "RETRIED" => answer = IF echo THEN "ECHOED" ELSE "REJECTED"
        /\ handshakes[f].state = "ECHOED" => answer = "STALLED"
        /\ handshakes[f].state \in {"NONE", "CLOSED"} => answer = "NONE"
        /\ handshakes[f].state \in {"NONE", "SENT", "RETRIED", "ECHOED", "CLOSED"}
    BY <1>1 DEF classify_answer, HandshakeType
  <1> HIDE DEF c, answer
  <1>9. FirstFailure(f, shown) =>
          shown /\ handshakes[f].sequence = conn[f].sequence /\ conn[f].outcomes = {}
    BY DEF FirstFailure, Injected
  <1>10. CASE answer = "ECHOED"
    <2> DEFINE sequence == handshakes[f].sequence
               h == [handshakes[f] EXCEPT !.state = "ECHOED"]
               s == [flow_states[f] EXCEPT !.waiting = TRUE, !.sequence = sequence]
    <2>1. /\ handshakes' = [handshakes EXCEPT ![f] = h]
          /\ flow_states' = [flow_states EXCEPT ![f] = s]
          /\ server' = server /\ client' = client /\ counted' = counted
      BY <1>1, <1>10 DEF ServerSynAck, answer, echo
    <2>2. sequence \in Int BY <1>1 DEF HandshakeType
    <2>3. h \in HandshakeType /\ h.state = "ECHOED" /\ h.sequence = sequence
      BY <1>1 DEF HandshakeType
    <2> HIDE DEF sequence, h
    <2>4. s \in FlowStateType /\ s.waiting BY <1>1, <2>2 DEF FlowStateType
    <2> HIDE DEF s
    <2>5. echo /\ ~conn[f].answered BY <1>1, <1>8, <1>10 DEF Told
    <2>6. "ACCEPTED" \notin outcomes BY <1>1, <1>6, <2>5 DEF Told
    <2>7. Told(h, c, s, world.kind) BY <1>2, <1>7, <2>3, <2>5, <2>6 DEF Told
    <2>8. server' \in {server, world.now} /\ ~FirstFailure(f, shown)
      BY <1>9, <2>1, <2>5
    <2>9. /\ client' \in ClientType /\ client'.tsval = client.tsval
          /\ client'.seen = client.seen /\ counted' \in InjectCountersType
          /\ counted'.injected = counted.injected /\ counted'.accepted = counted.accepted
      BY <1>1, <2>1
    <2>10. h.sequence = handshakes[f].sequence BY <2>3 DEF sequence
    <2> HIDE DEF shown
    <2> QED BY <1>2, <1>4, <1>7, <2>1, <2>3, <2>4, <2>7, <2>8, <2>9, <2>10, SettleStep
  <1>11. CASE answer \in {"DECLINED", "REJECTED"}
    <2>1. Skip(f) /\ client' = client /\ flow_states' = flow_states
      BY <1>11 DEF ServerSynAck, answer, echo
    <2>2. /\ handshakes' = [handshakes EXCEPT ![f] = GivenUp(f)]
          /\ GivenUp(f) \in HandshakeType /\ GivenUp(f).state = "CLOSED"
          /\ GivenUp(f).sequence = handshakes[f].sequence
          /\ server' = world.now /\ counted' \in InjectCountersType
          /\ counted'.injected = counted.injected /\ counted'.accepted = counted.accepted
      BY <2>1, SkipStep
    <2>3. ~echo BY <1>8, <1>11
    <2>4. outcomes = {} => handshakes[f].sequence # conn[f].sequence
      BY <1>6, <2>3 DEF FirstFailure, Injected
    <2>5. Told(GivenUp(f), c, flow_states[f], world.kind)
      BY <1>1, <1>2, <1>6, <1>7, <2>2, <2>3, <2>4 DEF Told
    <2>6. flow_states' = [flow_states EXCEPT ![f] = flow_states[f]] BY <1>1, <2>1
    <2>7. /\ client' \in ClientType /\ client'.tsval = client.tsval
          /\ client'.seen = client.seen /\ server' \in {server, world.now}
      BY <1>1, <2>1, <2>2
    <2> HIDE DEF shown
    <2> QED BY <1>1, <1>2, <1>4, <1>7, <2>2, <2>5, <2>6, <2>7, SettleStep
  <1>12. CASE answer = "STALLED"
    <2>1. /\ handshakes' = [handshakes EXCEPT ![f] = GivenUp(f)]
          /\ server' = server /\ flow_states' = flow_states
      BY <1>1, <1>12 DEF ServerSynAck, answer, echo, GivenUp
    <2>10. inject_stall /\ counted' = [counted EXCEPT !.stalled = @ + 1]
      BY <1>12 DEF ServerSynAck, answer, echo
    <2>2. /\ GivenUp(f) \in HandshakeType /\ GivenUp(f).state = "CLOSED"
          /\ GivenUp(f).sequence = handshakes[f].sequence
      BY <1>1 DEF GivenUp, HandshakeType
    <2>3. /\ counted' \in InjectCountersType /\ counted'.injected = counted.injected
          /\ counted'.accepted = counted.accepted
      <3> DEFINE stalls == counted.stalled + 1
      <3>1. stalls \in Int BY <1>1 DEF InjectCountersType
      <3>2. counted' = [counted EXCEPT !.stalled = stalls] BY <2>10
      <3> HIDE DEF stalls
      <3> QED BY <1>1, <3>1, <3>2 DEF InjectCountersType
    <2>4. /\ client' \in ClientType /\ client'.tsval = client.tsval
          /\ client'.tsval # 0 => client'.seen = client.seen
      <3>1. world.now \in Int /\ NoClient \in ClientType /\ NoClient.tsval = 0
        BY InjectEmpty DEF InjectInv, InjectTypeOK, WorldType, NoClient
      <3>2. CASE client # NoClient
        BY <1>1, <2>10, <3>2 DEF inject_stall, ClientType
      <3>3. CASE client = NoClient
        BY <2>10, <3>1, <3>3 DEF inject_stall, ClientType
      <3> QED BY <3>2, <3>3
    <2>5. outcomes # {} BY <1>6, <1>12
    <2>6. ~FirstFailure(f, shown)
      BY <1>1, <1>2, <1>8, <1>9, <1>12 DEF Told
    <2>7. Told(GivenUp(f), c, flow_states[f], world.kind)
      BY <1>1, <1>2, <1>6, <1>7, <2>2, <2>5 DEF Told
    <2>8. flow_states' = [flow_states EXCEPT ![f] = flow_states[f]] BY <1>1, <2>1
    <2>9. server' \in {server, world.now} BY <2>1
    <2> HIDE DEF shown
    <2>11. flow_states[f] \in FlowStateType /\ c \in ConnectionType /\ shown \in BOOLEAN
      BY <1>1, <1>2, <1>7
    <2> DEFINE closed == GivenUp(f)
               s == flow_states[f]
    <2>12. closed \in HandshakeType /\ closed.sequence = handshakes[f].sequence
           /\ handshakes' = [handshakes EXCEPT ![f] = closed]
           /\ flow_states' = [flow_states EXCEPT ![f] = s] /\ s \in FlowStateType
           /\ Told(closed, c, s, world.kind)
      BY <2>1, <2>2, <2>7, <2>8, <2>11
    <2> HIDE DEF closed, s
    <2> QED BY <1>4, <2>3, <2>4, <2>6, <2>9, <2>11, <2>12, SettleStep
  <1>13. CASE answer = "NONE"
    <2>1. /\ handshakes' = handshakes /\ server' = server /\ client' = client
          /\ flow_states' = flow_states /\ counted' = counted
      BY <1>13 DEF ServerSynAck, answer, echo
    <2>2. handshakes[f].state \in {"NONE", "CLOSED"} BY <1>8, <1>13
    <2>3. ~FirstFailure(f, shown) BY <1>1, <1>2, <1>9, <2>2 DEF Told
    <2>4. Told(handshakes[f], c, flow_states[f], world.kind)
      BY <1>1, <1>2, <1>6, <1>7, <2>2 DEF Told
    <2>5. /\ handshakes' = [handshakes EXCEPT ![f] = handshakes[f]]
          /\ flow_states' = [flow_states EXCEPT ![f] = flow_states[f]]
      BY <1>1, <2>1
    <2>6. /\ server' \in {server, world.now} /\ client' \in ClientType
          /\ client'.tsval = client.tsval /\ client'.seen = client.seen
          /\ counted' \in InjectCountersType /\ counted'.injected = counted.injected
          /\ counted'.accepted = counted.accepted
      BY <1>1, <2>1
    <2> HIDE DEF shown
    <2> QED BY <1>1, <1>2, <1>4, <1>7, <2>3, <2>4, <2>5, <2>6, SettleStep
  <1>14. answer \in {"ECHOED", "DECLINED", "REJECTED", "STALLED", "NONE"} BY <1>8
  <1> QED BY <1>10, <1>11, <1>12, <1>13, <1>14

\* A connection is reset: its handshake is given up when it may still have worked.
LEMMA ResetStep ==
  ASSUME InjectInv, NEW f \in Flows, NEW open \in BOOLEAN, NEW c \in ConnectionType,
         IF open THEN Skip(f) ELSE UNCHANGED <<handshakes, server, counted>>,
         conn' = [conn EXCEPT ![f] = c],
         world' = [world EXCEPT !.refused = Refusal(f, TRUE)],
         client' = client, flow_states' = flow_states, FirstFailure(f, TRUE) => open,
         \A h \in HandshakeType :
           h.sequence = handshakes[f].sequence /\ (h.state = "CLOSED" \/ h = handshakes[f])
             => Told(h, c, flow_states[f], world.kind)
  PROVE  InjectInv' /\ Quiet
  <1>1. /\ handshakes[f] \in HandshakeType /\ flow_states[f] \in FlowStateType
        /\ flow_states = [flow_states EXCEPT ![f] = flow_states[f]]
        /\ handshakes = [handshakes EXCEPT ![f] = handshakes[f]]
        /\ client \in ClientType /\ counted \in InjectCountersType
    BY FlowFacts DEF InjectInv, InjectTypeOK
  <1> DEFINE h == IF open THEN GivenUp(f) ELSE handshakes[f]
             s == flow_states[f]
  <1>2. /\ h \in HandshakeType /\ h.sequence = handshakes[f].sequence
        /\ h.state = "CLOSED" \/ h = handshakes[f]
        /\ handshakes' = [handshakes EXCEPT ![f] = h]
        /\ server' \in {server, world.now} /\ (open => server' = world.now)
        /\ counted' \in InjectCountersType /\ counted'.injected = counted.injected
        /\ counted'.accepted = counted.accepted
    <2>1. CASE open BY <2>1, SkipStep
    <2>2. CASE ~open BY <1>1, <2>2
    <2> QED BY <2>1, <2>2
  <1> HIDE DEF h
  <1>3. Told(h, c, s, world.kind) BY <1>2
  <1>4. s \in FlowStateType /\ flow_states' = [flow_states EXCEPT ![f] = s]
    BY <1>1
  <1>5. FirstFailure(f, TRUE) => server' = world.now BY <1>2
  <1>6. client' \in ClientType /\ client'.tsval = client.tsval /\ client'.seen = client.seen
    BY <1>1
  <1> HIDE DEF s
  <1> QED BY <1>2, <1>3, <1>4, <1>5, <1>6, SettleStep

\* The server or the client resets a connection.
LEMMA ResetInv ==
  ASSUME InjectInv, NEW f \in Flows,
         ClientReset(f) \/ \E delivered \in BOOLEAN : ServerReset(f, delivered)
  PROVE  InjectInv' /\ Quiet
  <1>1. /\ handshakes[f] \in HandshakeType /\ conn \in [Flows -> ConnectionType]
        /\ conn[f] \in ConnectionType
        /\ Told(handshakes[f], conn[f], flow_states[f], world.kind)
    BY FlowFacts DEF InjectInv, InjectTypeOK
  <1> DEFINE outcomes == Outcomes(f, TRUE)
  <1>2. /\ outcomes \in SUBSET {"FAILED", "STALLED", "ACCEPTED"}
        /\ "ACCEPTED" \in outcomes => "ACCEPTED" \in conn[f].outcomes
        /\ outcomes = {} => conn[f].outcomes = {} /\ ~FirstFailure(f, TRUE)
    BY OutcomeKept
  <1>3. FirstFailure(f, TRUE) <=>
          handshakes[f].sequence = conn[f].sequence /\ conn[f].outcomes = {}
    BY DEF FirstFailure, Injected
  <1>4. ASSUME NEW delivered \in BOOLEAN, ServerReset(f, delivered)
        PROVE  InjectInv' /\ Quiet
    <2> DEFINE phase == IF delivered THEN "CLOSED" ELSE conn[f].phase
               c == [conn[f] EXCEPT !.phase = phase, !.server_has = "NOTHING",
                                    !.outcomes = outcomes]
               open == handshakes[f].state \in {"SENT", "RETRIED"}
    <2>1. phase \in {"CLOSED", "SYN", "ANSWERED", "OPEN"} BY <1>1 DEF ConnectionType
    <2>2. /\ conn' = [conn EXCEPT ![f] = c]
          /\ world' = [world EXCEPT !.refused = Refusal(f, TRUE)]
          /\ client' = client /\ flow_states' = flow_states
          /\ IF open THEN Skip(f) ELSE UNCHANGED <<handshakes, server, counted>>
          /\ conn[f].phase = "SYN" /\ world.kind = "REFUSES"
      BY <1>1, <1>4 DEF ServerReset
    <2> HIDE DEF outcomes, phase
    <2>3. /\ c \in ConnectionType /\ c.sequence = conn[f].sequence
          /\ c.answered = conn[f].answered /\ c.echo = conn[f].echo
          /\ c.outcomes = outcomes
      BY <1>1, <1>2, <2>1 DEF ConnectionType
    <2> HIDE DEF c
    <2>4. ~conn[f].echo BY <1>1, <2>2 DEF Told
    <2>5. FirstFailure(f, TRUE) => open BY <1>1, <1>3, <2>2, <2>4 DEF Told
    <2>6. ASSUME NEW h \in HandshakeType, h.sequence = handshakes[f].sequence,
                 h.state = "CLOSED" \/ h = handshakes[f]
          PROVE  Told(h, c, flow_states[f], world.kind)
      BY <1>1, <1>2, <1>3, <2>3, <2>4, <2>6 DEF Told
    <2>7. open \in BOOLEAN OBVIOUS
    <2> HIDE DEF open
    <2> QED BY <2>2, <2>3, <2>5, <2>6, <2>7, ResetStep
  <1>5. CASE ClientReset(f)
    <2> DEFINE c == [conn[f] EXCEPT !.phase = "CLOSED", !.outcomes = outcomes]
               open == handshakes[f].state = "ECHOED"
    <2>1. /\ conn' = [conn EXCEPT ![f] = c]
          /\ world' = [world EXCEPT !.refused = Refusal(f, TRUE)]
          /\ client' = client /\ flow_states' = flow_states
          /\ IF open THEN Skip(f) ELSE UNCHANGED <<handshakes, server, counted>>
          /\ conn[f].phase = "ANSWERED" /\ conn[f].echo
      BY <1>1, <1>5 DEF ClientReset
    <2> HIDE DEF outcomes
    <2>2. /\ c \in ConnectionType /\ c.sequence = conn[f].sequence
          /\ c.answered = conn[f].answered /\ c.echo = conn[f].echo
          /\ c.outcomes = outcomes /\ c.server_has = conn[f].server_has
          /\ c.phase = "CLOSED"
      BY <1>1, <1>2 DEF ConnectionType
    <2> HIDE DEF c
    <2>3. FirstFailure(f, TRUE) => open BY <1>1, <1>3, <2>1 DEF Told
    <2>4. ASSUME NEW h \in HandshakeType, h.sequence = handshakes[f].sequence,
                 h.state = "CLOSED" \/ h = handshakes[f]
          PROVE  Told(h, c, flow_states[f], world.kind)
      BY <1>1, <1>2, <2>2, <2>4 DEF Told
    <2>5. open \in BOOLEAN OBVIOUS
    <2> HIDE DEF open
    <2> QED BY <2>1, <2>2, <2>3, <2>4, <2>5, ResetStep
  <1> QED BY <1>4, <1>5

\* The client sends data; the first timestamp of its own is learned.
LEMMA ClientSendsInv ==
  ASSUME InjectInv, NEW f \in Flows, NEW reaches \in BOOLEAN, ClientSends(f, reaches)
  PROVE  InjectInv' /\ Quiet
  <1>1. /\ handshakes[f] \in HandshakeType /\ conn[f] \in ConnectionType
        /\ flow_states[f] \in FlowStateType
        /\ Told(handshakes[f], conn[f], flow_states[f], world.kind)
        /\ flow_states = [flow_states EXCEPT ![f] = flow_states[f]]
        /\ handshakes = [handshakes EXCEPT ![f] = handshakes[f]]
        /\ handshakes \in [Flows -> HandshakeType] /\ conn \in [Flows -> ConnectionType]
        /\ client \in ClientType /\ world \in WorldType
    BY FlowFacts DEF InjectInv, InjectTypeOK
  <1> DEFINE clock == Clock
             takes == reaches /\ Takes(f, clock)
             has == IF takes THEN "CONNECTION" ELSE conn[f].server_has
             recent == IF takes THEN clock ELSE conn[f].recent
             c == [conn[f] EXCEPT !.phase = "OPEN", !.server_has = has, !.recent = recent]
             learned == [handshakes[f] EXCEPT !.learned = TRUE]
             stamped == Stamped(flow_states[f], clock, FALSE)
  <1>2. clock \in Int /\ world.now \in Nat
    <2>1. world.start + world.now \in Int /\ world.now \in Nat BY <1>1 DEF WorldType
    <2> QED BY <2>1, InjectAssumption DEF Clock
  <1>3. /\ conn' = [conn EXCEPT ![f] = c] /\ conn[f].phase \in {"ANSWERED", "OPEN"}
        /\ server' = server /\ counted' = counted /\ world' = world
    BY <1>1 DEF ClientSends
  <1> HIDE DEF takes, clock
  <1>4. /\ has \in {"NOTHING", "STAMPED", "PLAIN", "CONNECTION"} /\ recent \in Int
        /\ has = conn[f].server_has \/ has = "CONNECTION"
    BY <1>1, <1>2 DEF ConnectionType
  <1> HIDE DEF has, recent
  <1>5. /\ c \in ConnectionType /\ c.sequence = conn[f].sequence
        /\ c.answered = conn[f].answered /\ c.echo = conn[f].echo
        /\ c.outcomes = conn[f].outcomes /\ c.server_has = has
    BY <1>1, <1>4 DEF ConnectionType
  <1> HIDE DEF c
  <1>6. stamped \in FlowStateType /\ stamped.waiting = flow_states[f].waiting
    BY <1>1, <1>2, StampedTyped
  <1>7. learned \in HandshakeType /\ learned.state = handshakes[f].state
        /\ learned.sequence = handshakes[f].sequence
    BY <1>1 DEF HandshakeType
  <1>8. PICK h \in {handshakes[f], learned}, s \in {flow_states[f], stamped} :
          /\ handshakes' = [handshakes EXCEPT ![f] = h]
          /\ flow_states' = [flow_states EXCEPT ![f] = s]
          /\ \/ client' = client
             \/ client' = [seen |-> world.now, tsval |-> clock, stalled |-> FALSE]
    <2>1. CASE ~conn[f].echo BY <1>1, <2>1 DEF ClientSends
    <2>2. CASE conn[f].echo
      <3>1. /\ inject_learn(f, Clock)
            /\ flow_states' = [flow_states EXCEPT ![f] = stamped]
        BY <1>1, <2>2 DEF ClientSends, clock
      <3>2. CASE client' = client /\ handshakes' = handshakes BY <1>1, <3>1, <3>2
      <3>3. CASE ~(client' = client /\ handshakes' = handshakes)
        <4>1. /\ handshakes' = [handshakes EXCEPT ![f] = learned]
              /\ client' = [seen |-> world.now, tsval |-> clock, stalled |-> FALSE]
          BY <1>1, <3>1, <3>3 DEF inject_learn, clock
        <4> QED BY <3>1, <4>1
      <3> QED BY <3>2, <3>3
    <2> QED BY <2>1, <2>2
  <1> HIDE DEF learned, stamped
  <1>9. /\ h \in HandshakeType /\ h.state = handshakes[f].state
        /\ h.sequence = handshakes[f].sequence
        /\ s \in FlowStateType /\ s.waiting = flow_states[f].waiting
    BY <1>1, <1>6, <1>7
  <1>10. Told(h, c, s, world.kind) BY <1>1, <1>3, <1>4, <1>5, <1>9 DEF Told
  <1>11. /\ handshakes' \in [Flows -> HandshakeType] /\ conn' \in [Flows -> ConnectionType]
         /\ flow_states' \in [Flows -> FlowStateType] /\ HandshakesTold'
         /\ \A g \in Flows : handshakes'[g].sequence = handshakes[g].sequence
    BY <1>3, <1>5, <1>8, <1>9, <1>10, FlowStep
  <1>12. client' \in ClientType
    <2> DEFINE known == [seen |-> world.now, tsval |-> clock, stalled |-> FALSE]
    <2>1. known \in ClientType BY <1>2 DEF ClientType
    <2>2. client' = client \/ client' = known BY <1>8
    <2> HIDE DEF known
    <2> QED BY <1>1, <2>1, <2>2
  <1>13. InjectTypeOK' BY <1>1, <1>3, <1>11, <1>12 DEF InjectInv, InjectTypeOK
  <1>14. FailureNoted' BY <1>3 DEF InjectInv, FailureNoted
  <1>15. ClientKnown'
    <2>1. CASE client' = client BY <1>3, <2>1 DEF InjectInv, ClientKnown
    <2>2. CASE client' = [seen |-> world.now, tsval |-> clock, stalled |-> FALSE]
      <3>1. clock = (world.start + world.now) % ClientTsvals BY DEF clock, Clock
      <3>2. client'.seen = world.now /\ client'.tsval = clock /\ world.now \in 0 .. world.now
        BY <1>2, <2>2
      <3> HIDE DEF clock
      <3> QED BY <1>3, <3>1, <3>2 DEF ClientKnown
    <2> QED BY <1>8, <2>1, <2>2
  <1> QED BY <1>3, <1>11, <1>13, <1>14, <1>15 DEF InjectInv, Quiet

\* The server acknowledges data: a handshake that waited for it is accepted once.
LEMMA ServerAcknowledgesInv ==
  ASSUME InjectInv, NEW f \in Flows, ServerAcknowledges(f)
  PROVE  /\ InjectInv' /\ counted'.injected = counted.injected
         /\ \A g \in Flows : handshakes'[g].sequence = handshakes[g].sequence
         /\ counted'.accepted # counted.accepted =>
              "ACCEPTED" \in conn'[f].outcomes \ conn[f].outcomes
  <1>1. /\ handshakes[f] \in HandshakeType /\ conn[f] \in ConnectionType
        /\ flow_states[f] \in FlowStateType
        /\ Told(handshakes[f], conn[f], flow_states[f], world.kind)
        /\ handshakes = [handshakes EXCEPT ![f] = handshakes[f]]
        /\ conn \in [Flows -> ConnectionType] /\ flow_states \in [Flows -> FlowStateType]
        /\ counted \in InjectCountersType
    BY FlowFacts DEF InjectInv, InjectTypeOK
  <1> DEFINE accepted == /\ conn[f].echo /\ flow_states[f].waiting
                         /\ flow_states[f].sequence <= conn[f].sequence
             outcomes == IF accepted THEN conn[f].outcomes \cup {"ACCEPTED"}
                         ELSE conn[f].outcomes
             waiting == flow_states[f].waiting /\ ~accepted
             c == [conn[f] EXCEPT !.outcomes = outcomes]
             s == [flow_states[f] EXCEPT !.waiting = waiting]
             accepts == counted.accepted + 1
  <1>2. /\ conn' = [conn EXCEPT ![f] = c] /\ flow_states' = [flow_states EXCEPT ![f] = s]
        /\ counted' = IF accepted THEN [counted EXCEPT !.accepted = accepts] ELSE counted
        /\ handshakes' = handshakes /\ server' = server /\ client' = client
        /\ world' = world
    BY <1>1 DEF ServerAcknowledges
  <1>3. waiting \in BOOLEAN BY <1>1 DEF FlowStateType
  <1>4. accepts \in Int BY <1>1 DEF InjectCountersType
  <1>5. accepted => /\ conn[f].echo /\ flow_states[f].waiting /\ ~waiting
                    /\ "ACCEPTED" \in outcomes
    OBVIOUS
  <1>6. /\ outcomes \in SUBSET {"FAILED", "STALLED", "ACCEPTED"}
        /\ ~accepted => outcomes = conn[f].outcomes /\ waiting = flow_states[f].waiting
    BY <1>1 DEF ConnectionType, FlowStateType
  <1>7. conn[f].outcomes # {} => outcomes # {} OBVIOUS
  <1> HIDE DEF accepts, waiting, outcomes, accepted
  <1>8. /\ c \in ConnectionType /\ c.sequence = conn[f].sequence /\ c.phase = conn[f].phase
        /\ c.answered = conn[f].answered /\ c.echo = conn[f].echo
        /\ c.outcomes = outcomes /\ c.server_has = conn[f].server_has
    BY <1>1, <1>6 DEF ConnectionType
  <1>9. s \in FlowStateType /\ s.waiting = waiting BY <1>1, <1>3 DEF FlowStateType
  <1>10. /\ counted' \in InjectCountersType /\ counted'.injected = counted.injected
         /\ counted'.accepted # counted.accepted => accepted
    BY <1>1, <1>2, <1>4 DEF InjectCountersType
  <1>11. conn'[f] = c BY <1>1, <1>2
  <1> HIDE DEF c, s
  <1>12. Told(handshakes[f], c, s, world.kind)
    BY <1>1, <1>5, <1>6, <1>7, <1>8, <1>9 DEF Told
  <1>13. accepted => "ACCEPTED" \notin conn[f].outcomes BY <1>1, <1>5 DEF Told
  <1> DEFINE h == handshakes[f]
  <1>14. h \in HandshakeType /\ handshakes' = [handshakes EXCEPT ![f] = h]
         /\ Told(h, c, s, world.kind) /\ world'.kind = world.kind
    BY <1>1, <1>2, <1>12
  <1> HIDE DEF h
  <1>15. /\ handshakes' \in [Flows -> HandshakeType] /\ conn' \in [Flows -> ConnectionType]
         /\ flow_states' \in [Flows -> FlowStateType] /\ HandshakesTold'
    BY <1>2, <1>8, <1>9, <1>14, FlowStep
  <1>16. InjectTypeOK' BY <1>2, <1>10, <1>15 DEF InjectInv, InjectTypeOK
  <1>17. FailureNoted' BY <1>2 DEF InjectInv, FailureNoted
  <1>18. ClientKnown' BY <1>2 DEF InjectInv, ClientKnown
  <1> QED BY <1>2, <1>5, <1>8, <1>10, <1>11, <1>13, <1>15, <1>16, <1>17, <1>18
          DEF InjectInv

\* A connection that has ended says nothing of its handshake.
LEMMA ClosesInv ==
  ASSUME InjectInv, NEW f \in Flows, Closes(f)
  PROVE  InjectInv' /\ Quiet
  <1>1. /\ handshakes[f] \in HandshakeType /\ flow_states[f] \in FlowStateType
        /\ conn[f] \in ConnectionType
        /\ handshakes = [handshakes EXCEPT ![f] = handshakes[f]]
        /\ flow_states = [flow_states EXCEPT ![f] = flow_states[f]]
    BY FlowFacts
  <1> DEFINE h == handshakes[f]
             s == flow_states[f]
             c == [NoConnection EXCEPT !.sequence = conn[f].sequence]
  <1>2. /\ handshakes' = handshakes /\ server' = server /\ client' = client
        /\ flow_states' = flow_states /\ counted' = counted /\ world' = world
        /\ conn' = [conn EXCEPT ![f] = c]
    BY DEF Closes
  <1>3. /\ c \in ConnectionType /\ ~c.answered /\ ~c.echo /\ c.outcomes = {}
        /\ c.phase = "CLOSED"
    BY <1>1, InjectEmpty DEF NoConnection, ConnectionType
  <1> HIDE DEF c
  <1>4. Told(h, c, s, world.kind) BY <1>3 DEF Told
  <1>5. /\ h \in HandshakeType /\ handshakes' = [handshakes EXCEPT ![f] = h]
        /\ s \in FlowStateType /\ flow_states' = [flow_states EXCEPT ![f] = s]
    BY <1>1, <1>2
  <1> HIDE DEF h, s
  <1>6. /\ handshakes' \in [Flows -> HandshakeType] /\ conn' \in [Flows -> ConnectionType]
        /\ flow_states' \in [Flows -> FlowStateType] /\ HandshakesTold'
    BY <1>2, <1>3, <1>4, <1>5, FlowStep
  <1>7. InjectTypeOK' BY <1>2, <1>6 DEF InjectInv, InjectTypeOK
  <1>8. FailureNoted' BY <1>2 DEF InjectInv, FailureNoted
  <1>9. ClientKnown' BY <1>2 DEF InjectInv, ClientKnown
  <1> QED BY <1>2, <1>6, <1>7, <1>8, <1>9 DEF InjectInv, Quiet

\* Time passes.
LEMMA BootTimeInv ==
  ASSUME InjectInv, BootTime
  PROVE  InjectInv' /\ Quiet
  <1> DEFINE now == world.now + 1
  <1>1. /\ world \in WorldType /\ world.now \in Nat /\ server \in Int
        /\ client \in ClientType
    BY DEF InjectInv, InjectTypeOK, WorldType
  <1>2. /\ world' = [world EXCEPT !.now = now] /\ handshakes' = handshakes
        /\ server' = server /\ client' = client /\ flow_states' = flow_states
        /\ counted' = counted /\ conn' = conn
    BY DEF BootTime
  <1>3. now \in Nat /\ 0 .. world.now \subseteq 0 .. now BY <1>1
  <1> HIDE DEF now
  <1>4. /\ world' \in WorldType /\ world'.now = now /\ world'.kind = world.kind
        /\ world'.start = world.start /\ world'.refused = world.refused
    BY <1>1, <1>2, <1>3 DEF WorldType
  <1>5. InjectTypeOK' BY <1>2, <1>4 DEF InjectInv, InjectTypeOK
  <1>6. HandshakesTold' BY <1>2, <1>4 DEF InjectInv, HandshakesTold
  <1>7. FailureNoted' BY <1>2, <1>3, <1>4 DEF InjectInv, FailureNoted
  <1>8. ClientKnown' BY <1>2, <1>3, <1>4 DEF InjectInv, ClientKnown
  <1> QED BY <1>2, <1>5, <1>6, <1>7, <1>8 DEF InjectInv, Quiet

\* Nothing happens.
LEMMA InjectStutters ==
  ASSUME InjectInv, UNCHANGED injectVars
  PROVE  InjectInv' /\ Quiet
  <1>1. /\ world' = world /\ handshakes' = handshakes
        /\ server' = server /\ client' = client /\ flow_states' = flow_states
        /\ counted' = counted /\ conn' = conn
    BY DEF injectVars
  <1>2. InjectTypeOK' BY <1>1 DEF InjectInv, InjectTypeOK
  <1>3. HandshakesTold' BY <1>1 DEF InjectInv, HandshakesTold
  <1>4. FailureNoted' BY <1>1 DEF InjectInv, FailureNoted
  <1>5. ClientKnown' BY <1>1 DEF InjectInv, ClientKnown
  <1> QED BY <1>1, <1>2, <1>3, <1>4, <1>5 DEF InjectInv, Quiet

\* What a step may do to the counters and the handshakes.
InjectStep ==
  /\ InjectInv'
  /\ counted'.injected # counted.injected => ~server_skipped
  /\ \A g \in Flows : handshakes'[g].sequence # handshakes[g].sequence
       => handshakes'[g].tsval = client_tsval
  /\ counted'.accepted # counted.accepted =>
       \E g \in Flows : "ACCEPTED" \in conn'[g].outcomes \ conn[g].outcomes

\* A quiet step does nothing to them.
LEMMA QuietStep == ASSUME InjectInv', Quiet PROVE InjectStep
  BY DEF Quiet, InjectStep

\* Every step keeps the invariant.
LEMMA InjectStepInv == InjectInv /\ [InjectNext]_injectVars => InjectStep
  <1> SUFFICES ASSUME InjectInv, [InjectNext]_injectVars PROVE InjectStep OBVIOUS
  <1>1. ASSUME NEW f \in Flows, NEW sequence \in Sequences, NEW reaches \in BOOLEAN,
               ClientSyn(f, sequence, reaches)
        PROVE  InjectStep
    BY <1>1, ClientSynInv DEF InjectStep
  <1>2. ASSUME NEW f \in Flows, NEW lucky \in BOOLEAN,
               ClientResyn(f, lucky) PROVE InjectStep
    BY <1>2, ClientResynInv, QuietStep
  <1>3. ASSUME NEW f \in Flows, NEW lucky \in BOOLEAN,
               ServerSynAck(f, lucky) PROVE InjectStep
    BY <1>3, ServerSynAckInv, QuietStep
  <1>4. ASSUME NEW f \in Flows, NEW lucky \in BOOLEAN,
               ServerReset(f, lucky) PROVE InjectStep
    BY <1>4, ResetInv, QuietStep
  <1>5. ASSUME NEW f \in Flows, NEW lucky \in BOOLEAN,
               ClientSends(f, lucky) PROVE InjectStep
    BY <1>5, ClientSendsInv, QuietStep
  <1>6. ASSUME NEW f \in Flows, ClientReset(f) PROVE InjectStep
    BY <1>6, ResetInv, QuietStep
  <1>7. ASSUME NEW f \in Flows, ServerAcknowledges(f) PROVE InjectStep
    BY <1>7, ServerAcknowledgesInv DEF InjectStep
  <1>8. ASSUME NEW f \in Flows, Closes(f) PROVE InjectStep
    BY <1>8, ClosesInv, QuietStep
  <1>9. CASE BootTime BY <1>9, BootTimeInv, QuietStep
  <1>10. CASE UNCHANGED injectVars BY <1>10, InjectStutters, QuietStep
  <1> QED BY <1>1, <1>2, <1>3, <1>4, <1>5, <1>6, <1>7, <1>8, <1>9, <1>10 DEF InjectNext

\* A remainder is known by where it lies.
LEMMA Remainder ==
  ASSUME NEW m \in Nat, m > 0, NEW q \in Int, NEW r \in 0 .. m - 1
  PROVE  (m * q + r) % m = r
  <1> DEFINE x == m * q + r
             k == (x \div m) - q
  <1>1. x \in Int /\ x \div m \in Int /\ x % m \in 0 .. m - 1
        /\ x = m * (x \div m) + (x % m)
    OBVIOUS
  <1>2. k \in Int /\ m * k = r - (x % m)
    <2>1. \A a, b \in Int : m * (a - b) = m * a - m * b OBVIOUS
    <2> QED BY <1>1, <2>1
  <1>3. r - (x % m) < m /\ r - (x % m) > -m BY <1>1
  <1>4. ~(k >= 1)
    <2>1. \A a \in Int : a >= 1 => m * a >= m OBVIOUS
    <2> HIDE DEF k
    <2> QED BY <1>1, <1>2, <1>3, <2>1
  <1>5. ~(k <= -1)
    <2>1. \A a \in Int : a <= -1 => m * a <= -m OBVIOUS
    <2> HIDE DEF k
    <2> QED BY <1>1, <1>2, <1>3, <2>1
  <1>6. k = 0 BY <1>2, <1>4, <1>5
  <1>7. m * 0 = 0 OBVIOUS
  <1> QED BY <1>1, <1>2, <1>6, <1>7

\* A clock is ahead of what it showed less than half its wrap ago, however it wrapped.
LEMMA ClockAhead ==
  ASSUME NEW m \in Nat, m > 0, NEW then \in Int, NEW d \in Nat, d < m
  PROVE  (((then + d) % m) + m - (then % m)) % m = d
  <1> DEFINE r == then % m
             q == then \div m
  <1>1. /\ q \in Int /\ r \in 0 .. m - 1 /\ then = m * q + r
    OBVIOUS
  <1>2. CASE r + d < m
    <2>1. then + d = m * q + (r + d) /\ r + d \in 0 .. m - 1 BY <1>1, <1>2
    <2> HIDE DEF r, q
    <2> DEFINE s == r + d
    <2>2. s \in 0 .. m - 1 BY <2>1
    <2>3. (m * q + s) % m = s BY <1>1, <2>2, Remainder
    <2>4. (then + d) % m = r + d BY <2>1, <2>3
    <2>5. (r + d) + m - r = m * 1 + d BY <1>1
    <2>6. (m * 1 + d) % m = d
      <3> DEFINE one == 1
      <3>1. one \in Int /\ d \in 0 .. m - 1 OBVIOUS
      <3> HIDE DEF one
      <3>2. (m * one + d) % m = d BY <3>1, Remainder
      <3> QED BY <3>2 DEF one
    <2> QED BY <2>4, <2>5, <2>6 DEF r
  <1>3. CASE ~(r + d < m)
    <2> DEFINE s == r + d - m
               next == q + 1
    <2>1. s \in 0 .. m - 1 /\ next \in Int BY <1>1, <1>3
    <2>2. then + d = m * next + s
      <3>1. m * (q + 1) = m * q + m BY <1>1
      <3> HIDE DEF r, q
      <3> QED BY <1>1, <3>1
    <2> HIDE DEF r, q, next
    <2>3. (m * next + s) % m = s
      <3> HIDE DEF s
      <3> QED BY <2>1, Remainder
    <2>4. (then + d) % m = s BY <2>2, <2>3
    <2>5. s + m - r = d BY <1>1
    <2>6. d % m = d OBVIOUS
    <2> QED BY <2>4, <2>5, <2>6 DEF r
  <1> QED BY <1>2, <1>3

\* Injection keeps what it knows of handshakes, servers and clients true: a handshake
\* that has failed is closed and its server noted, and what was learned of a client is
\* what its clock showed then (inject.h's inject_skip_server and inject_learn).
THEOREM InjectInvariance == InjectSpec => []InjectInv
  <1>1. InjectInv /\ [InjectNext]_injectVars => InjectInv'
    BY InjectStepInv DEF InjectStep
  <1> QED BY <1>1, InjectInitInv, PTL DEF InjectSpec

\* After a visible failure no SYN to the server is injected for a day, a learned
\* timestamp is never behind its client's clock, and a handshake counts as accepted
\* once (server_skipped, client_tsval, inject_check_data), whatever the wrap of the
\* clock and however packets are lost.
THEOREM InjectionIsSound == InjectSpec => InjectSound
  <1>1. InjectInv /\ [InjectNext]_injectVars =>
          [counted'.injected # counted.injected =>
             world.refused = NEVER \/ world.now - world.refused >= DAY]_injectVars
    BY InjectStepInv, SkippedWithinADay DEF InjectStep
  <1>2. InjectInv /\ [InjectNext]_injectVars =>
          [\A f \in Flows:
             (/\ handshakes'[f].sequence # handshakes[f].sequence
              /\ client.tsval # 0 /\ handshakes'[f].tsval = client.tsval
              /\ client.tsval \notin {TSVAL, STALLED_TSVAL})
               => Ahead(Clock, client.tsval)]_injectVars
    <2> SUFFICES ASSUME InjectInv, [InjectNext]_injectVars, NEW f \in Flows,
                        handshakes'[f].sequence # handshakes[f].sequence,
                        client.tsval # 0, handshakes'[f].tsval = client.tsval,
                        client.tsval \notin {TSVAL, STALLED_TSVAL}
                 PROVE  Ahead(Clock, client.tsval)
      OBVIOUS
    <2>1. client_tsval = client.tsval BY InjectStepInv DEF InjectStep
    <2>2. world.now - client.seen < DAY BY <2>1, SkippedWithinADay
    <2>3. /\ client.seen \in 0 .. world.now
          /\ client.tsval = (world.start + client.seen) % ClientTsvals
      BY DEF InjectInv, ClientKnown
    <2>4. world.now \in Nat /\ world.start \in Int
      BY DEF InjectInv, InjectTypeOK, WorldType
    <2> DEFINE then == world.start + client.seen
               d == world.now - client.seen
    <2>5. /\ then \in Int /\ d \in Nat /\ d < ClientTsvals
          /\ d < ClientTsvals \div 2 /\ world.start + world.now = then + d
      BY <2>2, <2>3, <2>4, InjectAssumption
    <2>6. ClientTsvals \in Nat /\ ClientTsvals > 0 BY InjectAssumption
    <2>7. client.tsval = then % ClientTsvals /\ Clock = (then + d) % ClientTsvals
      BY <2>3, <2>5 DEF Clock
    <2> HIDE DEF then, d
    <2>8. (((then + d) % ClientTsvals) + ClientTsvals - (then % ClientTsvals))
            % ClientTsvals = d
      BY <2>5, <2>6, ClockAhead
    <2> QED BY <2>5, <2>7, <2>8 DEF Ahead
  <1>3. InjectInv /\ [InjectNext]_injectVars =>
          [counted'.accepted # counted.accepted =>
             \E f \in Flows: "ACCEPTED" \in conn'[f].outcomes \ conn[f].outcomes]_injectVars
    BY InjectStepInv DEF InjectStep
  <1> QED BY <1>1, <1>2, <1>3, InjectInvariance, PTL
          DEF InjectSpec, InjectSound, RefusedLeftAlone, LearnedSuits, AcceptedOnce
=============================================================================
