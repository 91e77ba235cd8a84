------------------------------- MODULE Links -------------------------------
(***************************************************************************)
(* src/daemon/links.c: how the daemon follows the two CAKE qdiscs.  Two     *)
(* channels bring news of the kernel.  Every traffic tick reads the qdiscs  *)
(* of the links that are due in one dump (cake_read); and the rtnetlink     *)
(* event socket brings RTM_NEWQDISC and RTM_DELQDISC messages, which wait   *)
(* in its buffer while a dump is read, so that news arrives late and news   *)
(* of an old qdisc arrives after a read of the new one.  A link whose CAKE  *)
(* was not found is not polled: only an event wakes it.                     *)
(*                                                                         *)
(* The kernel is external: qdiscs are made, replaced, changed and deleted,  *)
(* and interfaces come and go, which destroys their qdisc without an event. *)
(***************************************************************************)
EXTENDS Integers, Sequences

CONSTANTS
  Handles,          \* qdisc handles a CAKE may get: positive integers
  OTHER_HANDLE,     \* the handle of a root qdisc that is not CAKE
  RetryTicks,       \* interface_up_check_interval_s, in traffic ticks
  MaxIndex,         \* bound on interface indices handed out
  MaxQueue,         \* datagrams the event socket's buffer holds
  MaxDisturbances   \* bound on changes in the kernel and on failed reads

VARIABLES
  kernel,           \* external: each interface's index and CAKE handle, or 0
  last_index,       \* external: the last interface index handed out
  events,           \* external: datagrams in the event socket's buffer
  overrun,          \* external: a datagram was dropped since the last receive
  disturbances,     \* how often the environment has acted
  phase,            \* how far daemon_run is
  link              \* struct links_direction, one per direction

environment == <<kernel, last_index, events, overrun, disturbances>>
vars == <<kernel, last_index, events, overrun, disturbances, phase, link>>

Direction == {"download", "upload"}

NEVER == RetryTicks + 1      \* next_cake_observation_us = UINT64_MAX
NONE == [index |-> 0, handle |-> 0]

\* A direction before anything is known of it: the cake observation (index,
\* handle, has_mtu), its state and next look, and the traffic monitor.
INITIAL_LINK ==
  [state |-> "UNKNOWN", index |-> 0, handle |-> 0, has_mtu |-> FALSE, due |-> 0,
   cake_valid |-> FALSE, monitor |-> NONE, traffic_valid |-> FALSE]

ASSUME LinksAssumption ==
  /\ Handles \subseteq Nat \ {0}
  /\ OTHER_HANDLE \in Nat \ ({0} \cup Handles)
  /\ {RetryTicks, MaxIndex, MaxQueue, MaxDisturbances} \subseteq Nat
  /\ MaxIndex >= 2 /\ RetryTicks > 0

-----------------------------------------------------------------------------
(* The kernel, external.                                                    *)

Disturb == disturbances < MaxDisturbances /\ disturbances' = disturbances + 1

\* One datagram: a replacement reports the old qdisc's removal and the new one
\* together.  A full buffer drops it, which the next receive reports.
Emit(d, removed, created) ==
  IF Len(events) < MaxQueue
  THEN /\ events' = Append(events, [index |-> kernel[d].index,
                                    removed |-> removed, created |-> created])
       /\ UNCHANGED overrun
  ELSE overrun' = TRUE /\ UNCHANGED events

AddInterface(d) ==
  /\ Disturb
  /\ kernel[d].index = 0 /\ last_index < MaxIndex
  /\ kernel' = [kernel EXCEPT ![d] = [index |-> last_index + 1, handle |-> 0]]
  /\ last_index' = last_index + 1
  /\ UNCHANGED <<events, overrun, phase, link>>

\* Its qdisc goes with it, unannounced.
RemoveInterface(d) ==
  /\ Disturb
  /\ kernel[d].index # 0
  /\ kernel' = [kernel EXCEPT ![d] = NONE]
  /\ UNCHANGED <<last_index, events, overrun, phase, link>>

AddCake(d, handle) ==
  /\ Disturb
  /\ kernel[d].index # 0 /\ handle # kernel[d].handle
  /\ kernel' = [kernel EXCEPT ![d].handle = handle]
  /\ Emit(d, kernel[d].handle, handle)
  /\ UNCHANGED <<last_index, phase, link>>

RemoveCake(d) ==
  /\ Disturb
  /\ kernel[d].handle # 0
  /\ kernel' = [kernel EXCEPT ![d].handle = 0]
  /\ \E created \in {0, OTHER_HANDLE} : Emit(d, kernel[d].handle, created)
  /\ UNCHANGED <<last_index, phase, link>>

\* A new bandwidth, the daemon's own changes included.
ChangeCake(d) ==
  /\ Disturb
  /\ kernel[d].handle # 0
  /\ Emit(d, 0, kernel[d].handle)
  /\ UNCHANGED <<kernel, last_index, phase, link>>

KernelOf(d) ==
  \/ AddInterface(d)
  \/ RemoveInterface(d)
  \/ \E handle \in Handles : AddCake(d, handle)
  \/ RemoveCake(d)
  \/ ChangeCake(d)

Kernel == \E d \in Direction : KernelOf(d)

-----------------------------------------------------------------------------
(* Reading CAKE.                                                            *)

\* cake_read and finish_read for one link, as the link they leave behind and
\* their result.  A known interface index is trusted, and forgotten when the
\* dump fails or finds no CAKE on it; the MTU is read for a new qdisc only.
cake_read(l, k, dump_fails, mtu_fails) ==
  LET index == IF l.index = 0 THEN k.index ELSE l.index
      has_mtu == \/ l.has_mtu /\ l.index = k.index /\ l.handle = k.handle
                 \/ ~mtu_fails
  IN  IF index = 0 THEN [link |-> l, result |-> "ERROR"]
      ELSE IF dump_fails
      THEN [link |-> [l EXCEPT !.index = 0], result |-> "ERROR"]
      ELSE IF index # k.index \/ k.handle = 0
      THEN [link |-> [l EXCEPT !.index = 0, !.has_mtu = FALSE],
            result |-> "NOT_FOUND"]
      ELSE [link |-> [l EXCEPT !.index = index, !.handle = k.handle,
                               !.has_mtu = has_mtu],
            result |-> IF has_mtu THEN "FOUND" ELSE "ERROR"]

\* Mutant: a failed read waits for an event too.
record_cake_read_waiting(l, result) ==
  CASE result = "FOUND" ->
         [l EXCEPT !.state = "AVAILABLE", !.cake_valid = TRUE, !.due = 0]
    [] result = "NOT_FOUND" -> [l EXCEPT !.state = "NOT_FOUND", !.due = NEVER]
    [] result = "ERROR" -> [l EXCEPT !.state = "FAILED", !.due = NEVER]

\* When the link is looked at again: at once, after the retry interval, or when
\* an event asks for it.
record_cake_read(l, result) ==
  CASE result = "FOUND" ->
         [l EXCEPT !.state = "AVAILABLE", !.cake_valid = TRUE, !.due = 0]
    [] result = "NOT_FOUND" -> [l EXCEPT !.state = "NOT_FOUND", !.due = NEVER]
    [] result = "ERROR" -> [l EXCEPT !.state = "FAILED", !.due = RetryTicks]

\* The next sample of the traffic monitor: a rate only between two reads of
\* the same qdisc.
observe_traffic(l) ==
  IF ~l.cake_valid THEN [l EXCEPT !.monitor = NONE, !.traffic_valid = FALSE]
  ELSE LET qdisc == [index |-> l.index, handle |-> l.handle]
       IN  [l EXCEPT !.monitor = qdisc, !.traffic_valid = (l.monitor = qdisc)]

\* One link through a tick, elapsed traffic ticks after the last: read if it is
\* due, then its traffic.  (The sets hold one value each.)
Observed(l, k, elapsed, dump_fails, mtu_fails) ==
  LET waited == IF l.due \in 1 .. RetryTicks /\ elapsed <= l.due
                THEN [l EXCEPT !.due = @ - elapsed] ELSE l
      blank == [waited EXCEPT !.cake_valid = FALSE]
      reads == {cake_read(b, k, dump_fails, mtu_fails) : b \in {blank}}
      looked == IF blank.due > 0 THEN {blank}
                ELSE {record_cake_read(read.link, read.result) : read \in reads}
  IN  CHOOSE o \in {observe_traffic(m) : m \in looked} : TRUE

\* links_observe: both links, from one dump.
links_observe(elapsed, dump_fails, mtu_fails) ==
  [d \in Direction |->
     Observed(link[d], kernel[d], elapsed, dump_fails, d \in mtu_fails)]

links_ready(links) == \A d \in Direction : links[d].state = "AVAILABLE"

\* What may fail in a read, as a disturbance.
ReadFailures == [dump : BOOLEAN, mtu : SUBSET Direction]
NoFailure == [dump |-> FALSE, mtu |-> {}]

MayFail(failure) ==
  IF failure = NoFailure THEN UNCHANGED disturbances ELSE Disturb

-----------------------------------------------------------------------------
(* Qdisc events.                                                            *)

\* event_direction: the watched interface, or the one now carrying its name.
Concerns(l, k, index) == l.index = index \/ k.index = index

\* Mutant: the handle of a CAKE that is gone still counts.
watching_qdisc_last(l, handle) == l.handle = handle

watching_qdisc(l, handle) == l.state = "AVAILABLE" /\ l.handle = handle

\* The direction an event names: a new index is an interface made again.
Named(l, event) ==
  IF l.index = event.index THEN l
  ELSE [l EXCEPT !.index = event.index, !.has_mtu = FALSE]

\* A removed qdisc is forgotten if it is the one observed now.
Removed(l, k, event) ==
  LET m == Named(l, event)
  IN  IF event.removed = 0 \/ ~Concerns(l, k, event.index) THEN l
      ELSE IF watching_qdisc(m, event.removed)
      THEN [INITIAL_LINK EXCEPT !.state = "NOT_FOUND", !.due = NEVER]
      ELSE m

\* A new root qdisc other than the one observed is looked at at once.
WakesDiscovery(l, k, event) ==
  /\ event.created # 0 /\ Concerns(l, k, event.index)
  /\ ~watching_qdisc(l, event.created)

Created(l, k, event) ==
  LET m == Named(l, event)
  IN  IF event.created = 0 \/ ~Concerns(l, k, event.index) THEN l
      ELSE IF ~WakesDiscovery(l, k, event) THEN m
      ELSE [m EXCEPT !.state = IF @ = "AVAILABLE" THEN "NOT_FOUND" ELSE @,
                     !.cake_valid = FALSE, !.due = 0,
                     !.monitor = NONE, !.traffic_valid = FALSE]

\* process_qdisc_event for the messages of one datagram.
process_qdisc_event(event) ==
  [d \in Direction |->
     Created(Removed(link[d], kernel[d], event), kernel[d], event)]

\* links->qdisc_refresh after the datagram.
qdisc_refresh(event) ==
  \E d \in Direction :
    WakesDiscovery(Removed(link[d], kernel[d], event), kernel[d], event)

\* The datagram took away the CAKE of these links, which closes the pingers.
Suspends(event) ==
  {d \in Direction :
     /\ event.removed # 0 /\ Concerns(link[d], kernel[d], event.index)
     /\ watching_qdisc(link[d], event.removed)}

-----------------------------------------------------------------------------
(* The daemon.                                                              *)

\* links_watch_events: a new socket hears of everything after it.
Subscribe ==
  /\ phase = "STOPPED"
  /\ phase' = "SUBSCRIBED"
  /\ link' = [d \in Direction |-> INITIAL_LINK]
  /\ events' = <<>> /\ overrun' = FALSE
  /\ UNCHANGED <<kernel, last_index, disturbances>>

\* The first links_observe, before the event loop.
FirstObserve(failure) ==
  /\ phase = "SUBSCRIBED"
  /\ MayFail(failure)
  /\ phase' = "RUNNING"
  /\ link' = links_observe(0, failure.dump, failure.mtu)
  /\ UNCHANGED <<kernel, last_index, events, overrun>>

\* The traffic timer.
Tick(failure) ==
  /\ phase = "RUNNING"
  /\ MayFail(failure)
  /\ link' = links_observe(1, failure.dump, failure.mtu)
  /\ UNCHANGED <<kernel, last_index, events, overrun, phase>>

\* handle_qdisc_events: one datagram, then a traffic cycle if a link asks for it.
QdiscEvents(failure) ==
  /\ phase = "RUNNING" /\ ~overrun /\ events # <<>>
  /\ LET event == Head(events)
         links == process_qdisc_event(event)
     IN  IF qdisc_refresh(event)
         THEN /\ MayFail(failure)
              /\ link' = [d \in Direction |->
                   Observed(links[d], kernel[d], 0, failure.dump,
                            d \in failure.mtu)]
         ELSE /\ failure = NoFailure /\ UNCHANGED disturbances
              /\ link' = links
  /\ events' = Tail(events)
  /\ UNCHANGED <<kernel, last_index, overrun, phase>>

\* A receive that reports lost datagrams ends the daemon; procd respawns it.
Overrun ==
  /\ phase = "RUNNING" /\ overrun
  /\ phase' = "STOPPED"
  /\ UNCHANGED <<kernel, last_index, events, overrun, disturbances, link>>

Daemon ==
  \/ Subscribe
  \/ \E failure \in ReadFailures : FirstObserve(failure)
  \/ \E failure \in ReadFailures : Tick(failure)
  \/ \E failure \in ReadFailures : QdiscEvents(failure)
  \/ Overrun

\* The daemon starts before the interfaces exist, or on links already shaped.
Init ==
  /\ \/ kernel = [d \in Direction |-> NONE] /\ last_index = 0
     \/ /\ \E handle \in Handles :
             kernel = [d \in Direction |->
                         [index |-> IF d = "download" THEN 1 ELSE 2,
                          handle |-> handle]]
        /\ last_index = 2
  /\ events = <<>> /\ overrun = FALSE /\ disturbances = 0
  /\ phase = "STOPPED"
  /\ link = [d \in Direction |-> INITIAL_LINK]

Next == Kernel \/ Daemon

Spec == Init /\ [][Next]_vars

\* The timer keeps firing, a readable socket is read, and a stopped daemon is
\* started again.
LinksFairness ==
  /\ WF_vars(Subscribe)
  /\ WF_vars(FirstObserve(NoFailure))
  /\ WF_vars(Tick(NoFailure))
  /\ WF_vars(QdiscEvents(NoFailure))
  /\ WF_vars(Overrun)

FairSpec == Spec /\ LinksFairness

-----------------------------------------------------------------------------
(* Properties                                                               *)

Qdisc == [index : 0 .. MaxIndex, handle : {0} \cup Handles]

\* The state is well-formed: interfaces and handles are those the kernel has given
\* out, the socket holds no more than its buffer, and a look is never past due.
TypeOK ==
  /\ kernel \in [Direction -> Qdisc]
  /\ last_index \in 0 .. MaxIndex
  /\ events \in Seq([index : 0 .. MaxIndex, removed : {0} \cup Handles,
                     created : {0, OTHER_HANDLE} \cup Handles])
  /\ Len(events) <= MaxQueue
  /\ overrun \in BOOLEAN
  /\ disturbances \in 0 .. MaxDisturbances
  /\ phase \in {"STOPPED", "SUBSCRIBED", "RUNNING"}
  /\ link \in [Direction ->
       [state : {"UNKNOWN", "AVAILABLE", "NOT_FOUND", "FAILED"},
        index : 0 .. MaxIndex, handle : {0} \cup Handles, has_mtu : BOOLEAN,
        due : 0 .. NEVER, cake_valid : BOOLEAN, monitor : Qdisc, traffic_valid : BOOLEAN]]

\* A link that waits for an event never waits for one that has gone by: while
\* its interface has a CAKE, the message that will wake it is still queued.
NoLostWakeup ==
  \A d \in Direction :
    phase = "RUNNING" /\ ~overrun /\ link[d].due = NEVER /\ kernel[d].handle # 0 =>
      \E i \in 1 .. Len(events) :
        events[i].index = kernel[d].index /\ events[i].created # 0

\* Between handlers, a link is looked at again by every tick only while its CAKE
\* is believed there: no handler leaves a requested discovery undone.
DiscoveryDone ==
  \A d \in Direction :
    phase = "RUNNING" /\ link[d].due = 0 =>
      link[d].state = "AVAILABLE" /\ link[d].cake_valid

\* docs/technical.md:60-61: control is suspended while either qdisc is missing
\* and resumes when it returns.  Once the kernel is left alone, the daemon
\* knows of each CAKE that is there and of none that is not.
Matches(d) ==
  IF kernel[d].handle # 0
  THEN /\ link[d].state = "AVAILABLE"
       /\ link[d].index = kernel[d].index /\ link[d].handle = kernel[d].handle
  ELSE link[d].state \in {"NOT_FOUND", "FAILED"}

Rediscovered == <>[](phase = "RUNNING" /\ \A d \in Direction : Matches(d))

\* In every state the links are well-formed, no link sleeps over a CAKE whose
\* event has been used up, and no event is left without the discovery it asks for
\* (process_qdisc_event, record_cake_read).
LinksAwake == TypeOK /\ NoLostWakeup /\ DiscoveryDone
=============================================================================
