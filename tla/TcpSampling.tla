----------------------------- MODULE TcpSampling -----------------------------
(***************************************************************************)
(* What the BPF filter (tcpdelay/tcpdelay.bpf.c) keeps of one connection   *)
(* and the records it writes: when a timestamp of ours first left, and     *)
(* that time with the remote timestamp when a reply echoes it.  Packets    *)
(* are filtered on the CPU that handles them, and several CPUs work on the *)
(* connection's entries at once: each reads the state, then the clock, and *)
(* writes later.                                                           *)
(***************************************************************************)
EXTENDS Integers, FiniteSets

CONSTANTS
  CPUs,             \* CPUs that filter packets
  SAMPLE_INTERVAL,  \* TCPDELAY_SAMPLE_INTERVAL_NS
  OurTsvals,        \* timestamps of our side
  RemoteTsvals,     \* timestamps of the remote side
  MaxFilterTime     \* bounds the clock

ASSUME SamplingAssumption ==
  /\ OurTsvals \subseteq Nat /\ RemoteTsvals \subseteq Nat
  /\ SAMPLE_INTERVAL \in Nat /\ MaxFilterTime \in Nat

VARIABLES
  flow,        \* struct flow_state, or NoState
  departures,  \* the departures map of this flow: TSval -> time
  record,      \* the latest record written
  cpu,         \* what each CPU is in the middle of
  ktime,       \* the clock
  gone         \* history: <<TSval, time>> of every packet of ours

samplingVars == <<flow, departures, record, cpu, ktime, gone>>

NONE == -1
NoState == [outgoing |-> NONE, departed |-> NONE, incoming |-> NONE,
            echo |-> NONE, sampled |-> NONE]
Resting == [step |-> "REST", tsval |-> NONE, echo |-> NONE, now |-> NONE,
            known |-> FALSE, echoed |-> NONE]

NoRecord == [arrival |-> NONE, departure |-> NONE, echo |-> NONE]

Exists(state) == state # NoState

SamplingInit ==
  /\ flow = NoState
  /\ departures = [t \in OurTsvals |-> NONE]
  /\ record = NoRecord
  /\ cpu = [c \in CPUs |-> Resting]
  /\ ktime = 0
  /\ gone = {}
-----------------------------------------------------------------------------
Since(now, then) == IF now >= then THEN now - then ELSE MaxFilterTime * 1000

Go(c, step) == cpu' = [cpu EXCEPT ![c] = step]

\* outgoing() up to the clock: a packet of ours leaves with its timestamp,
\* which never goes back; a repeated timestamp is left alone.
OutgoingRead(c, tsval) ==
  /\ cpu[c] = Resting
  /\ \A g \in gone: g[1] <= tsval
  /\ gone' = gone \cup {<<tsval, ktime>>}
  /\ Go(c, IF flow.outgoing = tsval THEN Resting
           ELSE [Resting EXCEPT !.step = "OUT", !.tsval = tsval, !.now = ktime,
                                !.known = Exists(flow)])
  /\ UNCHANGED <<flow, departures, record, ktime>>

\* outgoing() from there: at most one departure per interval is recorded, and
\* one that is recorded is not overwritten.
Departed(c) ==
  [departures EXCEPT ![cpu[c].tsval] = IF @ = NONE THEN cpu[c].now ELSE @]

OutgoingWrite(c) ==
  LET recorded == ~cpu[c].known \/ Since(cpu[c].now, flow.departed) >= SAMPLE_INTERVAL
  IN
  /\ cpu[c].step = "OUT"
  /\ flow' = IF ~cpu[c].known
             THEN IF Exists(flow) THEN flow
                  ELSE [NoState EXCEPT !.outgoing = cpu[c].tsval,
                          !.departed = cpu[c].now, !.incoming = 0, !.echo = 0,
                          !.sampled = 0]
             ELSE [flow EXCEPT !.outgoing = cpu[c].tsval,
                               !.departed = IF recorded THEN cpu[c].now ELSE @]
  /\ departures' = IF recorded THEN Departed(c) ELSE departures
  /\ Go(c, Resting)
  /\ UNCHANGED <<record, ktime, gone>>

(* incoming(): a reply with a remote timestamp and the one of ours it      *)
(* echoes, or 0.  A new echo of a recorded departure is always sampled,    *)
(* anything else new at most once per interval.                            *)
IncomingRead(c, tsval, echo) ==
  /\ cpu[c] = Resting
  /\ echo = 0 \/ \E g \in gone: g[1] = echo
  /\ Go(c, IF flow.incoming = tsval /\ flow.echo = echo THEN Resting
           ELSE [Resting EXCEPT !.step = "IN", !.tsval = tsval, !.echo = echo,
                                !.now = ktime, !.known = Exists(flow),
                                !.echoed = flow.echo])
  /\ UNCHANGED <<flow, departures, record, ktime, gone>>

Looked(c) == cpu[c].echo # 0 /\ cpu[c].echoed # cpu[c].echo

\* Mutant: the departure of the timestamp the shared state names.
EchoedDeparture_shared(c) ==
  IF flow.echo \in OurTsvals THEN departures[flow.echo] ELSE departures[cpu[c].echo]

EchoedDeparture(c) == departures[cpu[c].echo]

IncomingWrite(c) ==
  LET departure == IF Looked(c) THEN EchoedDeparture(c) ELSE NONE
      created == [NoState EXCEPT !.outgoing = 0, !.departed = 0,
                    !.incoming = cpu[c].tsval, !.echo = cpu[c].echo,
                    !.sampled = cpu[c].now]
      sampled == ~cpu[c].known \/ departure # NONE
                 \/ Since(cpu[c].now, flow.sampled) >= SAMPLE_INTERVAL
  IN
  /\ cpu[c].step = "IN"
  /\ flow' = IF ~cpu[c].known
             THEN IF Exists(flow) THEN flow ELSE created
             ELSE [flow EXCEPT !.incoming = cpu[c].tsval, !.echo = cpu[c].echo,
                               !.sampled = IF sampled THEN cpu[c].now ELSE @]
  /\ record' = IF sampled
               THEN [arrival |-> cpu[c].now, departure |-> departure, echo |-> cpu[c].echo]
               ELSE record
  /\ Go(c, Resting)
  /\ UNCHANGED <<departures, ktime, gone>>

\* A filter's run is far shorter than the interval: the clock, of which the
\* interval is SAMPLE_INTERVAL units, moves at most once meanwhile.
FilterTime ==
  /\ ktime < MaxFilterTime
  /\ \A c \in CPUs: cpu[c] = Resting \/ cpu[c].now = ktime
  /\ ktime' = ktime + 1
  /\ UNCHANGED <<flow, departures, record, cpu, gone>>

SamplingNext ==
  \/ \E c \in CPUs:
       \/ \E t \in OurTsvals: OutgoingRead(c, t)
       \/ OutgoingWrite(c)
       \/ \E t \in RemoteTsvals, e \in OurTsvals \cup {0}: IncomingRead(c, t, e)
       \/ IncomingWrite(c)
  \/ FilterTime

SamplingSpec == SamplingInit /\ [][SamplingNext]_samplingVars
-----------------------------------------------------------------------------
(* Whatever the CPUs' order, a record's departure is a time a packet with  *)
(* the echoed timestamp left, and later than the reply that echoes it by   *)
(* no more than a run of the filter takes: races cost a sample or add one, *)
(* and never measure a delay from another timestamp.                       *)
DeparturesTrue ==
  record.departure # NONE =>
    <<record.echo, record.departure>> \in gone /\ record.departure <= record.arrival + 1
=============================================================================
