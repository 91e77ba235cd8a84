------------------------------ MODULE MCKernel ------------------------------
(***************************************************************************)
(* Small instances of the parts between the daemon and the kernel: netlink   *)
(* requests, native probes, the TCP capture with its estimator, and the eBPF *)
(* programs that sample and inject.  They share no state here: "part" names  *)
(* the one a behaviour is about, and the others rest.                       *)
(***************************************************************************)
EXTENDS Netlink, NativePinger, Tcp, Estimator, TcpSampling, TcpInject, TLC

CONSTANTS
  Parts,         \* the parts the run is about
  flow_a, flow_b \* model values: two flows that are alike

VARIABLE part

kernelVars == <<part, netVars, nativeVars, tcpVars, estimatorVars, samplingVars,
                injectVars>>

ProbeVars == <<netVars, nativeVars>>
FilterVars == <<samplingVars, injectVars>>

\* A client's clock that no fixed timestamp suits at first, and one that TSVAL suits.
ClientClocks == {0, 2}

\* Native probes are checked twice, as a long session and as two short ones of
\* either kind.  The capture is checked twice: "rates" with packets to count over
\* time, and "records" with records in the ring.  The estimator is checked three
\* times: "queues" is one flow seen from both directions, "table" more flows than
\* slots, and "bound" one flow while the echo pinger's delay bounds its queues.
KernelInit ==
  /\ part \in Parts
  /\ NetlinkInit /\ NativeInit /\ TcpInit /\ EstimatorInit /\ SamplingInit /\ InjectInit
  /\ \E tick \in StandardTicks :
       /\ network.periods = [key \in FlowKeys |-> tick]
       /\ part \notin {"queues", "bound"} => tick = 1
  /\ part \notin {"rates", "records"} => device.model = 1
  /\ part # "records" => capture.loaded
  /\ part # "sessions" => native.mode = "ECHO"
  /\ part # "inject" => world.kind = "TAKES"
  /\ world.start \in
       (IF part = "inject" /\ world.kind = "TAKES" THEN ClientClocks ELSE {0})

\* One session, long enough for its sequence numbers to come again; and two, the
\* first of them closed while its probes may still be answered.
ProbesPart == NativeNext /\ native'.open
SessionsPart ==
  /\ NativeNext /\ probe_now' <= 6
  /\ native.open /\ ~native'.open => native.token = 1 /\ probe_now <= 2

RatesPart ==
  /\ TcpNext
  /\ tcp_clock'.records = 0 /\ tcp_clock'.changes <= 1 /\ device'.model \in {0, 1}
RecordsPart == TcpNext /\ tcp_clock'.packets = 0 /\ tcp_clock'.now = 0

QueuesPart ==
  /\ network.samples < 5
  /\ \E gap \in Gaps, down \in Delays : \E up \in {NOTHING, 1 - down} :
       Sampled(1, gap, down, up)
TablePart == \E key \in FlowKeys, gap \in Gaps : Sampled(key, gap, 0, NOTHING)
BoundPart ==
  \/ \E bound \in QueueBounds : SetBound(bound)
  \/ \E down \in Delays : Sampled(1, 2, down, NOTHING)

EstimatorPart ==
  \/ part = "queues" /\ QueuesPart
  \/ part = "table" /\ TablePart
  \/ part = "bound" /\ BoundPart

NativePart ==
  \/ part = "probes" /\ ProbesPart
  \/ part = "sessions" /\ SessionsPart

TcpPart ==
  \/ part = "rates" /\ RatesPart
  \/ part = "records" /\ RecordsPart

KernelNext ==
  /\ UNCHANGED part
  /\ \/ /\ part = "netlink" /\ NetlinkNext
        /\ UNCHANGED <<nativeVars, tcpVars, estimatorVars, FilterVars>>
     \/ NativePart /\ UNCHANGED <<netVars, tcpVars, estimatorVars, FilterVars>>
     \/ TcpPart /\ UNCHANGED <<ProbeVars, estimatorVars, FilterVars>>
     \/ EstimatorPart /\ UNCHANGED <<ProbeVars, tcpVars, FilterVars>>
     \/ /\ part = "sampling" /\ SamplingNext
        /\ UNCHANGED <<ProbeVars, tcpVars, estimatorVars, injectVars>>
     \/ /\ part = "inject" /\ InjectNext
        /\ UNCHANGED <<ProbeVars, tcpVars, estimatorVars, samplingVars>>

\* Neither flow is special to the injector.
MCFlows == {flow_a, flow_b}
FlowSymmetry == Permutations(MCFlows)

KernelSpec == KernelInit /\ [][KernelNext]_kernelVars
=============================================================================
