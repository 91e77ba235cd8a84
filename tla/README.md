# cake-adapt in TLA+

cake-adapt is an OpenWrt daemon (C, `src/src/`) that keeps the bandwidth of two
CAKE qdiscs, download on an IFB and upload on the WAN interface, at what the
line can carry. It probes reflectors for their one-way delays, measures the
traffic of both qdiscs, cuts a direction's rate on bufferbloat, raises it under
load and lets it return to its base rate when the line is quiet. This directory
holds its TLA+ modules, the TLC configurations that check them and the proofs
TLAPS checks. `PROJECT.json` maps every definition to the lines it models.

## The system

One main thread runs an event loop (libubox uloop): timers, the rtnetlink event
socket, probe sockets or pinger output, child exits. Three threads stand beside
it: the log writer, the MQTT sender (with network threads of its own) and the
ubus server. The kernel (qdiscs, interfaces, the eBPF programs), the pinger
processes, the broker, ubusd and procd are outside; the eBPF programs and the
init script are part of the repository.

| Component | State | Operations | What makes it correct | Module |
|---|---|---|---|---|
| Arithmetic (`common/arith.h`, `rate.c`) | none | saturating and rounded operators, ratios, counter rates | exact in range, saturating outside | `Arith` |
| Rate controller (`controller/{controller,rate,congestion,coupling}.c`) | per direction: line state, window of delays, rate, timers, compensated thresholds | one update per latency sample, minimum rates, compensation | rates in range and holdable, exact window count, cuts that stick, somebody blamed, truthful reasons, return to base | `Controller` |
| Link observation (`daemon/links.c`, `cake/cake.c`, `platform/traffic.c`) | per link: CAKE state, qdisc identity, next look, traffic baseline | dump per tick, qdisc events, restart on lost events | no lost wake-up, discovery finished by its handler, truth in the end | `Links` |
| Netlink requests (`platform/netlink.c`) | socket, request under way, deadline | send, wait, receive, close on failure | an answer is the request's own, one deadline | `Netlink` |
| Activity (`controller/activity.c`) | RUNNING, IDLE, STALL; idle start; timeout report | one update per traffic tick | stall and idle only when earned, minimum enforced in a timeout | `Daemon` |
| Event loop and pinger session (`daemon/daemon.c`, `daemon/pingers.c`) | open, being reaped, retry time, grace, suspension | traffic tick, open, close, restart, suspend, resume, failure | probes only over CAKE, one session at a time, none forgotten | `Daemon` |
| Child pingers (`daemon/child_pingers.c`, `latency/{children,irtt,fping}.c`) | processes, watches, outputs and their buffers, restart and stop timers | spawn, exit, output, IRTT restart, stop, kill | no child without a watcher, none started twice, every stopped one ends; its output is heard whole | `ChildPingers`, `PingerOutput`, `PingerLines` |
| Native probes (`latency/native.c`, `icmp.c`) | ring of requests, serials, schedule | send, receive, expire | a sample is of its own request; cadence; none lost | `NativePinger` |
| Reflectors (`daemon/reflectors.c`, `controller/reflector.c`) | order, health windows, trackers, recent delays | record, check, compare, replace, grace | exact counts, silent slots within the threshold replaced in turn, nothing stale | `Reflectors` |
| Delay tracker (`latency/tracker.c`) | baseline and average per reflector | update, reset | averages follow samples | `Tracker` |
| Shaper application (`daemon/shaper.c`) | CAKE's bandwidth, what is believed of it | change, readback, minimum | belief is true, the controller's rate wins in the end | `Shaper` |
| Packet accounting (`cake/accounting.h`, `cake/cake.c`) | none | charge of a packet, largest packet | what the framing sends | `Accounting` |
| TCP capture (`daemon/tcp.c`, `tcpdelay/{capture,injector}.c`) | socket, ring, counters, injector, failed index | open, reopen, drain, read counters, close | bound to the qdisc in use; bytes and time of one interval | `Tcp` |
| TCP filter (`tcpdelay/tcpdelay.bpf.c`) | per flow: departures, samples | one run per packet, on several CPUs | a departure belongs to its timestamp | `TcpSampling` |
| TCP estimator (`tcpdelay/estimator.c`) | slots, floors, windows, bound | add, bound, result | windows exact, queues true, slots fair | `Estimator` |
| Timestamp injection (`tcpdelay/inject.h`, egress program) | handshakes, servers, clients | SYN, answer, reset, data | a failing server is left alone, clocks suit | `TcpInject`, `SynOptions` |
| Log writer (`logging/writer.c`) | ring, overwritten counts, pending requests, stop | queue, take, write, timed wait, bounded stop | the comment at `writer.c:25-33` | `LogWriter`, `LossyLog` |
| Log file (`logging/file.c`, `records.c`) | file, buffer, previous file | write, flush, rotate, export, reset | no line lost by a failed rotation | `LogFile` |
| MQTT (`logging/mqtt.c`) | queue, connections, owners, pending flag | submit, connect, send, destroy, stop | freed once, no stale and no forgotten line | `Mqtt` |
| ubus server (`platform/ubus.c`, `daemon/publish.c`) | connection, event bits | connect, serve, reconnect, stop, log | published again, no event lost | `UbusServer` |
| Configuration (`config/*.c`) | none | load, resolve, validate, read and list numbers | accepted means usable; numbers exact | `Config`, `Decimals` |
| Service (`files/cake-adapt.init`, `main.c`, `platform/instance.c`) | runtime files, registrations, daemons | start, reload, stop, boot, respawn, lock | nothing refused runs, one daemon per section, each runs its file | `Service` |
| Upkeep, importers, LuCI, simulator | - | `/proc` reads, text, forms | - | not modelled |

How they interact: the traffic tick (`daemon_tick`) reads both qdiscs, then the
activity update decides on the session; a response runs `shaper_update`, which
feeds the controller and writes its rates to CAKE; a qdisc event changes the
link at once, closes the pingers if its CAKE is gone and asks for a tick if
there is a new one. Before an update the TCP capture is drained and its queues
and ACK rates handed to the controller; the recent delay of the reflectors
bounds those queues. Everything on the main thread is atomic per handler; what
interleaves is the order of handlers, and between them the kernel and the
pinger processes move on. The log writer, the MQTT sender and the ubus thread
each share one locked or atomic structure with it.

The hard parts are news that is late or lost (the event socket beside the
dumps), answers that come after they were given up, sessions that end while
others are opened, timers that restart one another, state kept over an interval
nobody observed, things found again by name, three threads that may not be
joined, packets of one flow on several CPUs, and integer arithmetic at the edge
of the word. `PROJECT.json` lists them as hazards, at their lines, with the
property that would notice.

## Modules

One module per component, and harnesses (`MC*`) for small instances.

The controller:

- `Arith`: the integer operators, with the word's largest value, the ratio
  scale and the second as parameters; unguarded products wrap.
- `Controller` (extends `Arith`): `controller_update`,
  `controller_set_minimum_rates` and `controller_set_serialization_compensation`
  are its three actions. `struct controller_direction` is split by the file that
  updates it. Configuration and policy constants are records with the
  assumptions `config_validate` and `controller_init` justify; inputs are sets.

The main loop:

- `Links`: `link[d]` is `struct links_direction`; `kernel`, `events` and
  `overrun` are the external kernel and socket. One datagram holds what one
  change in the kernel reports, so a replacement's removal and creation are
  handled together. Deadlines are kept as ticks left.
- `Daemon` (extends `Links`): the activity state and the session; each handler
  conjoins the action of `Links` with what it does to them. Responses come in
  any order and of any age (`last_response_us` is set back by an older one), stale
  ones not being acted on. `ready_for` and `pingers.ungraced` are histories no
  action reads, and so is `minimum`, what has become of the minimum rates:
  `shaper_enforce_minimum` puts each adjusted direction in `held`, or in `touched`
  if the write is refused, fails or cannot be read back; a CAKE that is replaced or
  changed by others and a response that is acted on move it to `touched`; a cycle
  that is neither asleep nor past the timeout empties `touched`.
- `Shaper`: `ObserveCake` is the dump of a tick, `ShaperUpdate` a sample,
  with both sides written one after the other and each write refused, failed or
  read back; others change and replace qdiscs at any time. The rate moves as it
  likes within its limits, because which rate it is belongs to `Controller`.
- `Tracker`, and `Reflectors` (extends it): slots, spares, health windows,
  comparison and replacement, trackers, graces and the recent delay. Times are
  ages in health checks.
- `ChildPingers`: the processes of a session as sets of slots, one for each
  place the code keeps them (known, exited, watched, output open, being
  stopped, killed), the three timers, and processes that exit, fail to start or
  ignore SIGTERM.
- `PingerOutput`: the bytes of a child from its pipe through the stream's buffer
  to the lines the session hears, in pieces of any length, up to the first line
  the method cannot have written. `PingerLines`: what a line of fping or IRTT says, field by
  field, and the sample made of it.
- `NativePinger`: the ring of requests with serials and the 16-bit sequence, a
  late timer, and replies in any order, repeated or foreign.
- `Netlink`: a request as send, wait, receive; the kernel answers in parts,
  late, with an error or not at all.

TCP measurement:

- `Accounting`: what CAKE charges for a packet, from the filter's code, and the
  controller's largest packet from `cake.c`.
- `Tcp`: the daemon's side, from the loading of the filter on, each call of
  opening a capture failing or not, with the device's true identity and
  accounting beside what the links know of it.
- `TcpSampling`: what the filter does with a packet, as several steps of a CPU.
- `Estimator`: `tcpdelay_estimator_add` and `_result` in a network whose remote
  clock, phase and delays are known to the model.
- `TcpInject`: the egress program and its part of the filter, with a client and
  a server of four kinds. `SynOptions`: the options of a SYN as bytes, the quick
  scan, the parser and the injection.

Beside the main loop:

- `LossyLog`: what the log writer promises, in one step per entry. `LogWriter`:
  the ring, the two threads and the bounded stop. `KeepsPromise` is
  `LossyLog!Spec` under the identity of `asked`, `settled` and `out`.
- `LogFile`: stream buffer, active and previous file; rotation and reset in the
  steps the code takes, between which a copy fails or the process is killed.
- `Mqtt`: main thread, sender thread and a network thread for each connection;
  a step is what lies between two accesses to shared state. libmosquitto is
  external.
- `UbusServer`: the ubus thread and the tick that takes its events; ubusd goes,
  comes back and refuses.
- `Service`: the init script step by step, procd, and the start of a daemon up to
  its lock. `Config` and `Decimals`: options as records, validation as the
  conjunction of its refusals, decimals as whole part and digits.

Theorems and proofs are in modules that extend the ones they are about, several
where those share no names: `ControllerProofs`, `DaemonProofs`, `MeasuringProofs`,
`DelayProofs`, `LogWriterProofs`, `KernelProofs`, `ServicesProofs` and `PureProofs`
(see Proofs).

Harnesses: `MCController` and `MCDaemon` instantiate one module. `MCPure` has one
state per input of the code without state. `MCMeasuring`, `MCKernel` and
`MCServices` hold several modules that share no state: `part` is chosen in the
initial state and never changes, only that part's actions are taken and the
others rest in one initial state, so a run is the sum of its parts and each
property is about one of them.

Definitions named `X_how` and commented "Mutant" are plausible errors in the
code behind `X`; with one put in place of `X`, the run that `PROJECT.json` names
finds the property it is listed with violated. They take no part otherwise.

## Runs

| Run | What it asks | Instance |
|---|---|---|
| `pure` | operators, averages, decimals, lines of pingers, packet charges, SYN options and configurations against their definitions | words 0..255 with ratio scale 10 and second 4: every pair of words, three divisors; decimals up to 4 digits around every carry; probes at 5 times with 4 clock differences, in a day of 20 units; 12 packet sizes with 3 minima and 3 framings; every sequence of up to 4 options; sections that set and contradict each checked option |
| `controller_window` | types, range and holdability of rates, window count, refractory periods | one direction, window of 2, rates 120..200 in steps of 8, 4 time units, one compensation |
| `controller_shared` | blame and reasons with shared delay, measured queues, ACK share | two directions, window of 1, 3 loads by 2, 3 queue and 2 ACK inputs, 2 time units |
| `controller_quiet` | return to base in bounded time | every holdable rate in 120..200, samples up to 3 apart, 33 time units |
| `measuring` | links: no lost wake-up, discovery done, truth in the end; shaper: true belief, the controller's rate in the end; reflectors: counts, replacement, recent delay; children: kept, scheduled, ended, their lines heard whole | two links, 3 interface indices, a socket of 2 datagrams, 3 disturbances; two sides, 2 qdiscs each, 2 accidents; 3 reflectors in 2 slots, windows of 2; 3 children of either method; lines of 3 bytes, 5 bytes written |
| `kernel` | requests, probes, capture, estimator, filter and injection | dumps of 3 messages, 3 requests, 2 faults; 2 targets, sequence numbers that repeat after 5; 2 kernel changes, 2 accountings, a ring of 1 record; 3 flows in 2 slots, two clock periods, timestamps of 16; 2 CPUs; 2 flows and 4 kinds of server |
| `services` | log writer, log file, MQTT, ubus, service | ring of 3 bytes, 4 entries; 3 lines, file limit 2, 2 failures or kills; 2 queued records, 2 connections; 2 outages; one section, 2 valid and a refused configuration, 3 calls, 2 edits, 2 accidents |
| `daemon` | when probes may run; no session forgotten; minimum rates in force asleep and in a timeout | child processes, ages up to 3, a socket of 1 datagram, 2 disturbances |
| `daemon_live` | probing resumes | child processes, a socket of 2 datagrams, 1 disturbance |
| `daemon_idle` | idle time is earned (violated) | native probes, 2 disturbances |
| `daemon_grace` | a restart after CAKE was missing has a grace (violated) | native probes, 2 disturbances |
| `estimator_bound` | no queue is shown above the bound (violated) | the estimator of `kernel`, one flow, bounds 0 and 1 |

Bounds. `MaxTime`, `MaxElapsed` and `MaxSample` bound the clock and the sample
identifiers of `Controller`: both refractory periods, at most 2, expire within
them. `MaxDisturbances` bounds changes in the kernel, failed reads and failed
starts together: 3 are a removal, a creation and a failed read between them, or
an overrun of the socket; the invariants of `Links` also held at 6 without
fairness (2.4 million states), where two such episodes overlap. `MaxIndex` bounds
interface indices, `MaxQueue` the socket's buffer (so small that it overruns),
`MaxAge` the ages of `Daemon` (up to where the last comparison tells two of them
apart: `>=` for `GlobalTimeout`, `>` for the other thresholds; the properties of
`daemon` also held with a response timeout of 1 below a `StaleAge` of 2, 322,000
states), `MaxAsked` the entries of the log (more than the ring holds, so that one
overwrites several).
`MaxWritten` is a line of the largest size and the start of another.
`MaxAccidents` of `Shaper` and `MaxQdiscs` let a qdisc be replaced while the other
side fails. `MaxRequests`, `MaxNetFaults` and `MaxNetTime` let an answer arrive
two requests late, across a timeout. `MaxProbeTime` is two and a half response
timeouts, within which the sequence numbers come again; `MaxSessions` lets replies
of a closed session reach its successor. `MaxKernelChanges`, `MaxPackets`,
`MaxRecords`, `MaxTcpFailures` and `MaxTcpTime` let an interface be recreated
between two readings and a capture be reopened with records in its ring.
`MaxSamples` spans three windows with gaps longer than one. `MaxFilterTime` is
two sample intervals. `MaxOpened` and `MaxBootTime` use a 4-tuple again, on both
sides of a day, and wrap the client's clock; the clock starts where no fixed
timestamp suits it and where one does (`ClientClocks`). `MaxLines` and `MaxLogFailures` rotate twice
with a failed copy or a kill in each. `MaxConnections` leaves one connection
behind its successor, `MaxOutages` loses the connection inside a reconnection.
`MaxEdits`, `MaxCalls` and the accidents of `Service` overlap a reload with a
daemon's death and a refused configuration. The word of `Arith` is small so that the overflow cases are
among its inputs: the guards depend only on the relation of the scales to the
word. Some parts restrict their actions further: `MCKernel` keeps the long probe
session apart from the two short ones and packets apart from records, `MCMeasuring`
health apart from recent delays; each such part's comment says what it leaves to
the other.

Symmetry is used for the two flows of the injector only, which no property names.

Deadlock is checked except where a behaviour ends: time or the bounded events run
out (`controller_quiet`, `measuring`, `kernel`, `estimator_bound`), or the process
exits (`services`).

Fairness.

- `Links`, `Daemon`: the traffic timer fires, a readable socket is read, procd
  starts a daemon that ended (`files/cake-adapt.init`), and a child that was told
  to stop is reaped. Fairness is on the successful form of each read: reads fail
  only as often as the disturbances allow. No response and no kernel change is
  assumed to happen.
- `Shaper`: the traffic tick reads both qdiscs. No sample is assumed: `Followed`
  is about what a sample leaves behind.
- `ChildPingers`: time passes, the stop timer fires, and a process that was sent
  SIGKILL exits. One that was sent SIGTERM may ignore it.
- `LogWriter`: the thread is scheduled, its wait is timed and a write ends; a
  write that never does is the `LEFT` case.
- `Mqtt`: threads are scheduled; the loop of libmosquitto returns if it is asked
  to infinitely often (strong fairness, because it may be asked while it is in
  the resolver). Nothing is assumed of the broker.
- `UbusServer`: the thread is scheduled and ubusd comes back, as procd keeps it.
- `Service`: the script goes on, procd starts, stops and restarts, and a daemon that
  is told to end does (`term_timeout`). Nobody has to call or edit anything.

## Proofs

Eight modules prove what the runs show on small instances, for every value of the
constants within the named assumptions (`ServiceAssumption`, `LinksAssumption` and
so on; each is what the code, its validation or its build justifies, and TLC
evaluates it on every run). A theorem `XInvariance` says that an inductive invariant
`XInv` holds in every reachable state; the properties follow from it. Before it was
proved each invariant was checked by TLC on the instance of the runs.

| Module | About | Proved properties | The strengthening, and why it is needed |
|---|---|---|---|
| `ControllerProofs` | `Controller` | `TypeOK`, `RatesHoldable`, `CountMatchesWindow`, `AlwaysBlamed`, `CutsStick`, `ReasonsTruthful` | `CutRecorded`: the time of a cut is not later than the rate's two timers, which is what keeps the later branches from firing; `CutsStick` by itself says nothing of timers |
| `DaemonProofs` | `Links`, `Daemon` | `LinksAwake`, `SessionSound`, `MinimumInForce` | Links: an interface with a CAKE is watched by the timer or a datagram that wakes it is queued (`WakeupPending`), and a queued removal is followed by such a datagram (`RemovalsAnswered`), since otherwise the removal of an old qdisc could put the link to sleep over its successor; indices are used once (`KernelSound`). Session: the grace and the report of a timeout fit the state, and whatever is asleep, stalled past the timeout or reported is accounted for: a report is what keeps the next cycle from setting the rates again, so it must not outlive them (`InForce`). `MinimumStaysInForce` needs nothing of how the timeouts compare, and none of a response's age |
| `MeasuringProofs` | `Shaper`, `Reflectors`, `ChildPingers` | `BelievesCake`, `ReflectorsSound`, `ChildrenSound` | Reflectors: the order is a permutation, each count is the cardinality of its window, the last checks of a silent slot are offences, and of the slots before it as many are fresh as it has waited turns (`SilenceSeen`); the two numbers and the age kept of a slot's replies say what it was answered in this second and the last (`Remembers`), from which the median by positions follows. Children: in the middle of a handler, before processes are registered again, none is lost, and those of an open session are its members with their outputs open (`Manned`) |
| `DelayProofs` | `NativePinger`, `Tcp`, `TcpSampling`, `TcpInject` | `SampledTruly`, `RequestsSound`, `CaptureTrue`, `AckRateTrue`, `DeparturesTrue`, `InjectSound` | Probes: the ring holds each serial that is not over in its place (`RingTrue`), and after each request the schedule has moved on by a spacing for every later one (`Spread`), from which it follows that there is always room. Capture: what a capture holds comes from the interface it is bound to and its counters run ahead of the baseline (`Sound`), and it fits the links where they are current. Filter: what a CPU has in its registers has happened too (`DeparturesHappened`). Injection: what is recorded of a handshake fits its connection, so that one that may still work has not been seen to fail (`HandshakesTold`), a failure that was seen is noted for the server no earlier (`FailureNoted`), and what was learned is a reading of the client's clock (`ClientKnown`) |
| `LogWriterProofs` | `LogWriter`, `LossyLog`, `LogFile` | `KeepsPromise`, `LogKept` | The ring is the tail of what was asked for (`RingIsTail`) and the overwritten counts are those of the gap before it (`LossCounted`), or of the gap before the entry in the writer's hand (`HandTrue`). File: active file, buffer and previous file are in order, the older lines before the newer unless a rotation is half done (`InOrder`), and each step of a rotation leaves what the next relies on (`StepsDone`) |
| `KernelProofs` | `Netlink`, `Estimator` | `NetlinkSound`, `EstimatorTrue` | Requests: what the socket holds and the kernel still has to send are parts of the present answer and its end, together the whole of it (`AnswerIsWhole`). Estimator: each window holds the least queue logged in it, and none that is newer than the flow (`TableInv`); a flow's ticks are those the remote clock made between what it sent first and last, and the floors of the true period are the least delays heard, but for the rounding to ticks and the first sample's delay, which both directions' differences take out (`ClockInv`) |
| `ServicesProofs` | `Mqtt`, `Service` | `OwnersTrue`, `QueueKept`, `ServiceSound` | MQTT: counts of owners are those of the threads that use what is counted (`ConnectionOwned`, `StateOwned`); lines are queued only for the connection the sender has (`LinesCurrent`). Service: a file whose instance procd does not know is one the call under way has generated (`CallKnown`), and what a call will stop has lost its file before procd hears of it (`FilesGone`) |
| `PureProofs` | `Arith`, `Tracker`, `Accounting`, `Config` as `MCPure` puts questions to them | `ArithExact`, `ChargesTrue`, `ConfigSound` | None: nothing changes after the initial state. The theorems are about every word, scale, cell and block, where the run has those of a small machine, and about every section (`IsSection`: any options with values of their types, any list), where the run has five groups of them |

`KeepsPromise` is a refinement: the initial state maps to one of `LossyLog`, and every
step to a step of it or to a stutter. `CutsStick`, `ReasonsTruthful`, `AckRateTrue` and
`InjectSound` are action properties; `ServiceSound` (`NeverRevived`) and `LogKept`
(`ExportComplete`) have one.

What the arguments rest on. `AlwaysBlamed` on `2 * policy.queue_share <=
RATIO_ONE_E6`: of two queues one holds half of their sum, and a quarter is asked for.
`ReasonsTruthful` on `FactorsDecay`, a hypothesis of its theorem: the low-load factors
lie on their sides of one. `config_validate` does not ask for that, and with a factor on
the other side a low-load step moves the rate away from its base, within its limits;
the defaults (99% and 101%) and the runs have it. The room in the ring of `NativePinger` on its capacity, `ResponseTimeout \div Spacing
+ 2`: a request may be late by less than one spacing, and the division rounds down.
The count of a window on `FiniteSetTheorems`, for one slot that enters or leaves. The
replacement of silent slots on the order of the natural numbers: the least misbehaving
slot is replaced, and a slot at place s has s - 1 before it. The lower median on counting:
of finitely many values, ordered by size and then by slot, each position is taken by
exactly one. `LearnedSuits` on a day being at most half of the client's timestamps
(`InjectAssumption`): a timestamp learned within a day is then not ahead of the clock it
is from, whatever has wrapped. `ArithExact` on `RATIO_ONE_E6` squared fitting the word
(`ArithAssumption`): the remainder of a split product is below it; all that is used of
a quotient is that it and its remainder make up the dividend. `LogKept` on lines being
numbered in the order they are logged.

`EstimatorTrue` rests on two hypotheses of its theorem, which says nothing of the code's
correctness without them. `FitsAlone`: of the standard periods only the true one is
within `TICK_TOLERANCE` of what a flow of `TICK_SPAN` or more can measure. It is about
constants and delays only: the code's periods of 1, 4, 10 and 100 ms, 2 s and 5 % have it
as long as two delays of one direction differ by less than 1.15 s (a clock of 4 ms then
looks like one of 10 ms), and the run's have it. `Timely`: a flow that goes on accepts its
next sample within half the range of the remote clock, 24 days at 1 ms; after that the
difference of two timestamps has no sign. It is an action property, and the run's small
range lets a part leave it, so that there only TLC says that the property holds. The
windows and the slots, `WindowsAreExact`, need neither.

What the proofs changed. Attempts that failed showed where a model or a property said
too much or left something unsaid:

- `SilentReplaced` used to bound the silence of every slot. That is false: a check
  replaces the first misbehaving slot only, and a new silent reflector is misbehaving
  again after `DetectionThreshold` checks. With more slots than that the first ones come
  round again before the later ones have had a turn, so slots beyond the threshold may
  keep a silent reflector for as long as the reflectors before them stay silent (the
  defaults are six slots and a threshold of three). The bound now stands for the slots
  within the threshold, where it is proved.
- `LinksAssumption` says that there are two indices at least and that a retry takes
  time (`validate.c:257` refuses an interval of zero); without the latter a link that
  was not found would be looked at in the same tick. `ServiceAssumption` says that the
  names of the model, "ALL" and "NONE", are not a section's or a configuration's.
  `NativeAssumption` says that sequence numbers are counted.
- `RefusedLeftAlone` said nothing of a server that was never refused, and with "never"
  encoded as a time before the first it was false for a day longer than that: `NEVER`
  is now named in it. `InjectAssumption` relates the day to the client's wrap, which the
  run satisfied without saying so.
- The two sessions' conjuncts of one property became `ChildrenSound` and `LinesWhole`,
  since only the first can be proved (below); `RecentDelayHeard` is a part of
  `ReflectorsSound`.
- `reflectors_recent_delay_us` takes the slot in the middle position where it used to
  sort a sequence, and `parse_options` builds the record of its last words without the
  function operators of `TLC`: the prover knows definitions of neither. TLC finds the
  same states. `PacketsAssumption` says that sizes are natural numbers and only an
  overhead may be negative.
- `Estimator` used to keep an invalid floor as a number that no floor was meant to have,
  and the proof found delays with which one has it: a floor is a record with its `valid`,
  as in the code. `EstimatorAssumption` says that there are two timestamps at least; with
  one, no sample would follow the first.
- `Config` says what it needs of defaults and bindings (`DefaultsAssumption`, `IsSection`):
  numbers where the checks compare, rates with all three bounds, and an IFB's name for
  every interface, without which a section with `interface` could load where the pair it
  stands for is turned down. Loading starts from defaults that hold every member, as
  `defaults_apply` does, and sets the resolved interfaces in them.
- `Tcp` adds the records of a ring as a set in place of a fold over them, since the
  samples are a set; `NativePinger` builds the probe as one record.

Only model-checked:

- Every liveness property (`LinksRediscovered`, `Followed`, `StoppedExits`, `GivenBack`,
  `StatusRepublished`, `RunsItsFile`, `Settles`, `Resumes`): fairness and ENABLED are out
  of TLAPS's reach. `SettlesAtBase` bounds the time of a behaviour and needs the
  arithmetic of every step of the controller's way to its base.
- `DecimalsExact` and `TimestampsStand`: decimals and SYN options are read place by place,
  so that what they compute for every input is an induction over data.
- The bound on what the log's ring holds, a sum by a recursive function: `TypeOK` of
  `LogWriter` stays with TLC, `WriterTypeOK` has the types without it.
- `LinesWhole`, because `PingerOutput`, which only TLC's runs use, declares a
  RECURSIVE operator; everywhere else folds and recursive functions are used instead.

## Where code and comments differ

- `mul_div` (`common/arith.h:84-90`) is exact only while numerator times
  denominator fits 64 bits; its comment has no such bound. Line rates never
  reach it, and `ArithExact` states the bound the comment leaves out.
- `activity.c:121` says that only healthy probes and valid counters can
  establish idle time. While a CAKE is missing no update runs and in a grace it
  returns early, and neither clears `idle_started_us`, so the whole absence
  counts; the next quiet sample may put the link to sleep (`daemon_idle`).
- `pingers.c:268` says pingers stopped while CAKE was missing restart like after
  IDLE, that is with a grace. When the removal and the creation of a qdisc are
  handled before a tick sees the link missing, they are closed without being
  suspended and restart with none, their last response being from before
  (`daemon_grace`).
- `tcp.c:370` and `estimator.h:73` bound the queue a flow may show from now on by
  the reflectors' recent delay. The bound applies to what is added; the two
  windows keep what was measured under a higher one (`estimator_bound`).
- `docs/configuration.md:305` has both rates set to their minimum on sleep or a
  global ping timeout. They are asked for once, when the link falls asleep or the
  timeout is reported (`activity.c:144-146`, `daemon.c:73-101`). A write that is
  refused or cannot be read back (`shaper.c:55-88`), a CAKE replaced within one
  datagram in a stall or at any time in sleep, and a response that is acted on and
  followed by an older one before the next cycle leave another rate until the next
  report or sleep, as does somebody else's change. `MinimumInForce` excepts exactly
  these (`minimum.touched`).
- `docs/technical.md:216` has a lost connection to ubusd closed and retried. When
  it is lost inside the adding of the object, `server_add` (`ubus.c:133-147`) takes
  the status for a refusal and no attempt follows: `Republished` excepts the
  abandoned connection.
- `tcpdelay.bpf.c:202-204` says nothing may be appended to options that end early
  or are malformed, but a SYN is judged by the quick scan alone, so one whose
  options end with END gets a timestamp behind it that no parser reads. Such a
  SYN is harmless to the connection; `TimestampsStand` excepts it.
- `inject.h:96` has `seen_ns` as the time of the learned timestamp or of the stall.
  `inject_stall` (`tcpdelay.bpf.c:498-500`) marks an entry it finds without
  renewing its time, so a stall noted on one older than a day counts for nothing
  and the next SYN gets the first fixed value again.
- A 4-tuple that is used again within a flow's life keeps the departure of an
  equal timestamp (`BPF_NOEXIST`); `TcpSampling` has one connection.
- `reflectors.h:69` says that one slow reflector cannot raise the recent delay and
  one with a high baseline cannot hold it down. With two slots that answered the
  lower one decides and does hold it down, and with one slot it is alone;
  `RecentDelayHeard` states the lower median.
- `cake_max_wire_packet_bits` knows no PTM, raw framing or minimum, as `cake.h:60`
  says ("matches cake-autorate"); `ChargesTrue` has it exact where it can be and
  a lower bound where the overhead is not negative.

## Not modelled

- A monotonic clock that cannot be read, and out of memory: the early returns
  of `links_observe` and others for it.
- Renaming an interface that already carries CAKE into the monitored name.
- Packets of an interface that was created again while the capture of the old one
  is still open: the history of `AckRateTrue` leaves them out. A timestamp option
  that cannot be appended (`append_timestamp` fails).
- Rates in `Daemon` and `Links`: counters are a baseline or none, and loads are
  four classes, of which any may follow any. The traffic cadence is not modelled.
- Byte offsets of the log ring, the text of entries and records, the level that
  may suppress the overwriting note, and a flush that fails.
- Packet layout and checksums of ICMP, the parsing of IP and TCP headers in the
  filter, its per-CPU sums, and how the words of a pinger's command line are made.
- Replies on ubus and their snapshot, UCI itself and its table of defaults,
  command-line options, and the publishing of a status other than its events.
- Upkeep (`/proc` reads nothing depends on), the importers (shell that copies
  options of other configurations), LuCI (forms), and the simulator and
  `profiling/` (development tools, records of experiments with their own copies
  of inputs), which are not part of the daemon.

## Plan

1. Done: the modules above, and the proofs listed under Proofs.
2. Composition: `Daemon` with `ChildPingers` in place of its reaped flag.
