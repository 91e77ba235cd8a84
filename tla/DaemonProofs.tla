---------------------------- MODULE DaemonProofs ----------------------------
(***************************************************************************)
(* Links and the session over them, for any handles, any number of           *)
(* interfaces, disturbances and queued datagrams, and any timeouts: no link   *)
(* sleeps over a CAKE whose event is used up; the latency session is open only *)
(* where it may be and is on its way where it is due; and asleep or past the   *)
(* response timeout the minimum rates are in force.                           *)
(***************************************************************************)
EXTENDS Daemon, SequenceTheorems, TLAPS

LinkType ==
  [state : {"UNKNOWN", "AVAILABLE", "NOT_FOUND", "FAILED"},
   index : 0 .. MaxIndex, handle : {0} \cup Handles, has_mtu : BOOLEAN,
   due : 0 .. NEVER, cake_valid : BOOLEAN, monitor : Qdisc, traffic_valid : BOOLEAN]

EventType == [index : 0 .. MaxIndex, removed : {0} \cup Handles,
              created : {0, OTHER_HANDLE} \cup Handles]

\* The kernel gives an index to one interface, once, and a qdisc only to an
\* interface.
KernelSound ==
  /\ \A d \in Direction :
       /\ kernel[d].index <= last_index
       /\ kernel[d].handle # 0 => kernel[d].index # 0
  /\ \A d, c \in Direction :
       kernel[d].index = kernel[c].index /\ kernel[d].index # 0 => d = c
  /\ \A i \in DOMAIN events : events[i].index # 0

\* A link is available only as long as every tick reads it.
Polled(l) == l.state = "AVAILABLE" => l.due = 0
AvailableArePolled == \A d \in Direction : Polled(link[d])

\* A datagram that will wake the link of an interface.
Wakes(event, k) == event.index = k.index /\ event.created # 0
Removes(event, k) == event.index = k.index /\ event.removed # 0
Queued(k) == \E i \in DOMAIN events : Wakes(events[i], k)

\* A link that the timer will look at, and not at another interface.
Watches(l, k) == l.due # NEVER /\ l.index \in {0, k.index}

\* An interface with a CAKE is looked at again, or will be woken; and what says
\* that its qdisc is gone is followed by what says that another has come.
\* Without the second part the removal of an old qdisc could put a link to sleep
\* over the CAKE that has replaced it.
Following == phase # "STOPPED" /\ ~overrun
WakeupPending ==
  \A d \in Direction :
    Following /\ kernel[d].handle # 0 => Queued(kernel[d]) \/ Watches(link[d], kernel[d])
RemovalsAnswered ==
  \A d \in Direction :
    Following /\ kernel[d].handle # 0 =>
      \A i \in DOMAIN events : Removes(events[i], kernel[d]) =>
        \E j \in DOMAIN events : j >= i /\ Wakes(events[j], kernel[d])

Discovered(l) == l.due = 0 => l.state = "AVAILABLE" /\ l.cake_valid

LinksInv ==
  /\ TypeOK /\ KernelSound /\ AvailableArePolled
  /\ WakeupPending /\ RemovalsAnswered /\ DiscoveryDone

-----------------------------------------------------------------------------
(* One link through a read and through a datagram.                          *)

Blank(l, elapsed) ==
  [(IF l.due \in 1 .. RetryTicks /\ elapsed <= l.due
    THEN [l EXCEPT !.due = @ - elapsed] ELSE l) EXCEPT !.cake_valid = FALSE]

Read(l, k, dump_fails, mtu_fails) ==
  record_cake_read(cake_read(l, k, dump_fails, mtu_fails).link,
                   cake_read(l, k, dump_fails, mtu_fails).result)

Looked(l, k, dump_fails, mtu_fails) ==
  IF l.due > 0 THEN l ELSE Read(l, k, dump_fails, mtu_fails)

\* Observed without the one-element sets that hold its intermediate values.
LEMMA ObservedIs ==
  ASSUME NEW l, NEW k, NEW elapsed, NEW dump_fails, NEW mtu_fails
  PROVE  Observed(l, k, elapsed, dump_fails, mtu_fails)
           = observe_traffic(Looked(Blank(l, elapsed), k, dump_fails, mtu_fails))
  <1> DEFINE blank == Blank(l, elapsed)
             reads == {cake_read(b, k, dump_fails, mtu_fails) : b \in {blank}}
             looked == IF blank.due > 0 THEN {blank}
                       ELSE {record_cake_read(read.link, read.result) : read \in reads}
  <1>1. Observed(l, k, elapsed, dump_fails, mtu_fails)
          = CHOOSE o \in {observe_traffic(m) : m \in looked} : TRUE
    BY DEF Observed, Blank
  <1>2. reads = {cake_read(blank, k, dump_fails, mtu_fails)}
    OBVIOUS
  <1>3. looked = {Looked(blank, k, dump_fails, mtu_fails)}
    <2>1. CASE blank.due > 0
      BY <2>1 DEF Looked
    <2>2. CASE ~(blank.due > 0)
      BY <2>2, <1>2, Zenon DEF Looked, Read
    <2> QED
      BY <2>1, <2>2
  <1> HIDE DEF blank, reads, looked
  <1>4. {observe_traffic(m) : m \in looked}
          = {observe_traffic(Looked(blank, k, dump_fails, mtu_fails))}
    BY <1>3
  <1> QED
    BY <1>1, <1>4 DEF blank

\* The bounds of the links module lie in the sets its types are built from.
LEMMA Bounds ==
  /\ RetryTicks \in Nat /\ RetryTicks > 0 /\ RetryTicks \in 0 .. NEVER
  /\ NEVER \in Nat /\ NEVER > RetryTicks /\ 0 \in 0 .. NEVER /\ NEVER \in 0 .. NEVER
  /\ 0 \in 0 .. MaxIndex /\ NONE \in Qdisc /\ NONE.index = 0
  BY LinksAssumption DEF NEVER, NONE, Qdisc

\* A link that has been looked at is well-formed; it is due at once only if its
\* CAKE was found; and it keeps watching the interface it watched.
LEMMA ReadLink ==
  ASSUME NEW l \in LinkType, NEW k \in Qdisc, l.due = 0,
         NEW dump_fails \in BOOLEAN, NEW mtu_fails \in BOOLEAN
  PROVE  LET o == Read(l, k, dump_fails, mtu_fails)
         IN  /\ o \in LinkType /\ Polled(o) /\ Discovered(o)
             /\ k.index # 0 /\ k.handle # 0 /\ Watches(l, k) => Watches(o, k)
  <1> DEFINE read == cake_read(l, k, dump_fails, mtu_fails)
             m == read.link
             o == record_cake_read(read.link, read.result)
  <1> USE Bounds
  <1>1. /\ m \in LinkType
        /\ read.result \in {"FOUND", "NOT_FOUND", "ERROR"}
        /\ k.index # 0 /\ k.handle # 0 /\ l.index \in {0, k.index}
             => m.index \in {0, k.index} /\ read.result # "NOT_FOUND"
    <2> DEFINE index == IF l.index = 0 THEN k.index ELSE l.index
               has_mtu == \/ l.has_mtu /\ l.index = k.index /\ l.handle = k.handle
                          \/ ~mtu_fails
               forgotten == [l EXCEPT !.index = 0]
               absent == [l EXCEPT !.index = 0, !.has_mtu = FALSE]
               found == [l EXCEPT !.index = index, !.handle = k.handle,
                                  !.has_mtu = has_mtu]
    <2>1. /\ index \in 0 .. MaxIndex /\ has_mtu \in BOOLEAN
          /\ l.index \in {0, k.index} => index = k.index
      BY DEF LinkType, Qdisc
    <2>2. read = IF index = 0 THEN [link |-> l, result |-> "ERROR"]
                 ELSE IF dump_fails THEN [link |-> forgotten, result |-> "ERROR"]
                 ELSE IF index # k.index \/ k.handle = 0
                 THEN [link |-> absent, result |-> "NOT_FOUND"]
                 ELSE [link |-> found, result |-> IF has_mtu THEN "FOUND" ELSE "ERROR"]
      BY DEF cake_read
    <2> HIDE DEF index, has_mtu, read
    <2>3. forgotten \in LinkType /\ forgotten.index = 0
      BY DEF LinkType
    <2>4. absent \in LinkType /\ absent.index = 0
      BY DEF LinkType
    <2>5. found \in LinkType /\ found.index = index
      BY <2>1 DEF LinkType, Qdisc
    <2> HIDE DEF forgotten, absent, found
    <2> QED
      BY <2>1, <2>2, <2>3, <2>4, <2>5
  <1> HIDE DEF m
  <1>2. /\ o \in LinkType /\ o.index = m.index
        /\ read.result = "FOUND" => o.state = "AVAILABLE" /\ o.cake_valid /\ o.due = 0
        /\ read.result = "NOT_FOUND" => o.state = "NOT_FOUND" /\ o.due = NEVER
        /\ read.result = "ERROR" => o.state = "FAILED" /\ o.due = RetryTicks
    <2> DEFINE found == [m EXCEPT !.state = "AVAILABLE", !.cake_valid = TRUE, !.due = 0]
               absent == [m EXCEPT !.state = "NOT_FOUND", !.due = NEVER]
               failed == [m EXCEPT !.state = "FAILED", !.due = RetryTicks]
    <2>1. /\ read.result = "FOUND" => o = found
          /\ read.result = "NOT_FOUND" => o = absent
          /\ read.result = "ERROR" => o = failed
      BY DEF m, record_cake_read
    <2> HIDE DEF o, read
    <2>2. /\ found \in LinkType /\ found.index = m.index
          /\ found.state = "AVAILABLE" /\ found.cake_valid /\ found.due = 0
      BY <1>1 DEF LinkType
    <2>3. /\ absent \in LinkType /\ absent.index = m.index
          /\ absent.state = "NOT_FOUND" /\ absent.due = NEVER
      BY <1>1 DEF LinkType
    <2>4. /\ failed \in LinkType /\ failed.index = m.index
          /\ failed.state = "FAILED" /\ failed.due = RetryTicks
      BY <1>1 DEF LinkType
    <2> HIDE DEF found, absent, failed
    <2> QED
      BY <1>1, <2>1, <2>2, <2>3, <2>4
  <1>3. o = Read(l, k, dump_fails, mtu_fails)
    BY DEF Read
  <1> HIDE DEF o, read
  <1> QED
    BY <1>1, <1>2, <1>3 DEF Polled, Discovered, Watches

\* link_observe on a polled link leaves it polled and discovered, its traffic only
\* valid together with its CAKE, and it does not stop watching the qdisc it watched.
LEMMA ObserveLink ==
  ASSUME NEW l \in LinkType, NEW k \in Qdisc, Polled(l), NEW elapsed \in 0 .. 1,
         NEW dump_fails \in BOOLEAN, NEW mtu_fails \in BOOLEAN
  PROVE  LET o == Observed(l, k, elapsed, dump_fails, mtu_fails)
         IN  /\ o \in LinkType /\ Polled(o) /\ Discovered(o)
             /\ ~o.cake_valid => ~o.traffic_valid
             /\ k.index # 0 /\ k.handle # 0 /\ Watches(l, k) => Watches(o, k)
  <1> DEFINE b == Blank(l, elapsed)
             m == Looked(b, k, dump_fails, mtu_fails)
             o == observe_traffic(m)
  <1> USE Bounds
  <1>1. /\ b \in LinkType /\ Polled(b)
        /\ Watches(l, k) => Watches(b, k)
    <2> DEFINE waits == l.due \in 1 .. RetryTicks /\ elapsed <= l.due
               w == IF waits THEN [l EXCEPT !.due = @ - elapsed] ELSE l
    <2>1. /\ w \in LinkType /\ w.state = l.state /\ w.index = l.index
          /\ l.due = 0 => w.due = 0
          /\ l.due # NEVER => w.due # NEVER
      <3>1. CASE waits
        <4>1. l.due - elapsed \in 0 .. RetryTicks /\ l.due - elapsed \in 0 .. NEVER
          BY <3>1
        <4> QED
          BY <3>1, <4>1 DEF LinkType
      <3>2. CASE ~waits
        BY <3>2
      <3> QED
        BY <3>1, <3>2
    <2>2. b = [w EXCEPT !.cake_valid = FALSE]
      BY DEF Blank
    <2> HIDE DEF w, b
    <2>3. b \in LinkType /\ b.state = w.state /\ b.index = w.index /\ b.due = w.due
      BY <2>1, <2>2 DEF LinkType
    <2> QED
      BY <2>1, <2>3 DEF Polled, Watches
  <1> HIDE DEF b
  <1>2. /\ m \in LinkType /\ Polled(m) /\ Discovered(m)
        /\ k.index # 0 /\ k.handle # 0 /\ Watches(b, k) => Watches(m, k)
    <2>1. CASE b.due > 0
      BY <2>1, <1>1 DEF Looked, Discovered
    <2>2. CASE ~(b.due > 0)
      <3>1. b.due = 0
        BY <2>2, <1>1 DEF LinkType
      <3> QED
        BY <2>2, <3>1, <1>1, ReadLink DEF Looked
    <2> QED
      BY <2>1, <2>2
  <1> HIDE DEF m
  <1>3. /\ o \in LinkType /\ o.state = m.state /\ o.due = m.due
        /\ o.index = m.index /\ o.cake_valid = m.cake_valid
        /\ ~m.cake_valid => ~o.traffic_valid
    <2> DEFINE qdisc == [index |-> m.index, handle |-> m.handle]
               none == [m EXCEPT !.monitor = NONE, !.traffic_valid = FALSE]
               sample == [m EXCEPT !.monitor = qdisc, !.traffic_valid = (m.monitor = qdisc)]
    <2>1. o = IF ~m.cake_valid THEN none ELSE sample
      BY DEF observe_traffic
    <2>2. qdisc \in Qdisc /\ (m.monitor = qdisc) \in BOOLEAN
      BY <1>2 DEF LinkType, Qdisc
    <2> HIDE DEF o, qdisc
    <2>3. /\ none \in LinkType /\ none.state = m.state /\ none.due = m.due
          /\ none.index = m.index /\ none.cake_valid = m.cake_valid /\ ~none.traffic_valid
      BY <1>2 DEF LinkType
    <2>4. /\ sample \in LinkType /\ sample.state = m.state /\ sample.due = m.due
          /\ sample.index = m.index /\ sample.cake_valid = m.cake_valid
      BY <1>2, <2>2 DEF LinkType
    <2> HIDE DEF none, sample
    <2> QED
      BY <2>1, <2>3, <2>4
  <1>4. o = Observed(l, k, elapsed, dump_fails, mtu_fails)
    BY ObservedIs DEF m, b
  <1> HIDE DEF o
  <1> QED
    BY <1>1, <1>2, <1>3, <1>4 DEF Polled, Discovered, Watches

\* The link a datagram leaves, before the discovery it may ask for.
Told(l, k, event) == Created(Removed(l, k, event), k, event)
Woken(l, k, event) == WakesDiscovery(Removed(l, k, event), k, event)

\* The datagram takes away the CAKE that a link is available through.
Taken(l, k, event) ==
  /\ event.removed # 0 /\ Concerns(l, k, event.index)
  /\ watching_qdisc(l, event.removed)

\* The news of a removed qdisc leaves the link well-formed, and puts to sleep
\* only the one it was available through.
LEMMA RemovedLink ==
  ASSUME NEW l \in LinkType, NEW k \in Qdisc, NEW event \in EventType, Polled(l)
  PROVE  LET r == Removed(l, k, event)
         IN  /\ r \in LinkType /\ Polled(r)
             /\ Discovered(l) => Discovered(r)
             /\ Taken(l, k, event) => r.state = "NOT_FOUND" /\ r.due = NEVER
             /\ ~Taken(l, k, event) => r.state = l.state /\ r.due = l.due
             /\ event.removed = 0 \/ ~Concerns(l, k, event.index) => r = l
  <1> DEFINE m == Named(l, event)
             r == Removed(l, k, event)
  <1> USE Bounds
  <1>1. /\ m \in LinkType /\ m.state = l.state /\ m.due = l.due /\ m.handle = l.handle
        /\ m.cake_valid = l.cake_valid /\ m.traffic_valid = l.traffic_valid
        /\ m.index = event.index
    BY DEF Named, LinkType, EventType
  <1> DEFINE gone == [INITIAL_LINK EXCEPT !.state = "NOT_FOUND", !.due = NEVER]
  <1>2. /\ gone \in LinkType /\ gone.state = "NOT_FOUND" /\ gone.due = NEVER
        /\ NEVER # 0
    <2>1. INITIAL_LINK \in LinkType
      BY DEF INITIAL_LINK, LinkType
    <2> HIDE DEF gone
    <2>2. gone = [INITIAL_LINK EXCEPT !.state = "NOT_FOUND", !.due = NEVER]
      BY DEF gone
    <2>3. gone \in LinkType /\ gone.state = "NOT_FOUND" /\ gone.due = NEVER
      BY <2>1, <2>2 DEF LinkType
    <2> QED
      BY <2>3
  <1>3. r = IF event.removed = 0 \/ ~Concerns(l, k, event.index) THEN l
            ELSE IF watching_qdisc(m, event.removed) THEN gone ELSE m
    BY DEF Removed
  <1>4. watching_qdisc(m, event.removed) <=> watching_qdisc(l, event.removed)
    BY <1>1 DEF watching_qdisc
  <1> HIDE DEF m, gone, r
  <1>5. CASE event.removed = 0 \/ ~Concerns(l, k, event.index)
    <2>1. r = l /\ ~Taken(l, k, event)
      BY <1>3, <1>5 DEF Taken
    <2> QED
      BY <2>1 DEF r
  <1>6. CASE ~(event.removed = 0 \/ ~Concerns(l, k, event.index))
    <2>1. CASE watching_qdisc(m, event.removed)
      BY <2>1, <1>2, <1>3, <1>4, <1>6 DEF r, Taken, Polled, Discovered
    <2>2. CASE ~watching_qdisc(m, event.removed)
      BY <2>2, <1>1, <1>3, <1>4, <1>6 DEF r, Taken, Polled, Discovered
    <2> QED
      BY <2>1, <2>2
  <1> QED
    BY <1>5, <1>6

\* And the news of a new one, which is looked at unless it is the one observed.
LEMMA CreatedLink ==
  ASSUME NEW l \in LinkType, NEW k \in Qdisc, NEW event \in EventType, Polled(l)
  PROVE  LET c == Created(l, k, event)
         IN  /\ c \in LinkType /\ Polled(c)
             /\ WakesDiscovery(l, k, event) =>
                  c.due = 0 /\ c.index = event.index /\ c.state # "AVAILABLE"
             /\ ~WakesDiscovery(l, k, event) =>
                  /\ c.state = l.state /\ c.due = l.due /\ c.cake_valid = l.cake_valid
                  /\ c.traffic_valid = l.traffic_valid
             /\ event.created = 0 \/ ~Concerns(l, k, event.index) => c = l
             /\ event.created # 0 /\ Concerns(l, k, event.index) =>
                  c.index = event.index
  <1> DEFINE m == Named(l, event)
             c == Created(l, k, event)
             w == [m EXCEPT !.state = IF @ = "AVAILABLE" THEN "NOT_FOUND" ELSE @,
                            !.cake_valid = FALSE, !.due = 0,
                            !.monitor = NONE, !.traffic_valid = FALSE]
  <1> USE Bounds
  <1>1. /\ m \in LinkType /\ m.state = l.state /\ m.due = l.due
        /\ m.cake_valid = l.cake_valid /\ m.traffic_valid = l.traffic_valid
        /\ m.index = event.index
    BY DEF Named, LinkType, EventType
  <1>2. c = IF event.created = 0 \/ ~Concerns(l, k, event.index) THEN l
            ELSE IF ~WakesDiscovery(l, k, event) THEN m ELSE w
    BY DEF Created
  <1> HIDE DEF m
  <1>3. /\ w \in LinkType /\ w.due = 0 /\ w.index = m.index /\ w.state # "AVAILABLE"
    <2> DEFINE state == IF m.state = "AVAILABLE" THEN "NOT_FOUND" ELSE m.state
    <2>1. /\ state \in {"UNKNOWN", "AVAILABLE", "NOT_FOUND", "FAILED"}
          /\ state # "AVAILABLE"
      BY <1>1 DEF LinkType
    <2>2. w = [m EXCEPT !.state = state, !.cake_valid = FALSE, !.due = 0,
                        !.monitor = NONE, !.traffic_valid = FALSE]
      OBVIOUS
    <2> HIDE DEF w, state
    <2> QED
      BY <1>1, <2>1, <2>2 DEF LinkType
  <1> HIDE DEF w, c
  <1>4. CASE event.created = 0 \/ ~Concerns(l, k, event.index)
    BY <1>2, <1>4 DEF c, WakesDiscovery
  <1>5. CASE ~(event.created = 0 \/ ~Concerns(l, k, event.index))
    <2>1. CASE WakesDiscovery(l, k, event)
      BY <2>1, <1>1, <1>2, <1>3, <1>5 DEF c, Polled
    <2>2. CASE ~WakesDiscovery(l, k, event)
      BY <2>2, <1>1, <1>2, <1>5 DEF c, Polled
    <2> QED
      BY <2>1, <2>2
  <1> QED
    BY <1>4, <1>5

\* Both parts of a datagram: what it wakes is watched afterwards, what it does not
\* concern stays as it was, and it leaves no discovery undone but its own.
LEMMA ToldLink ==
  ASSUME NEW l \in LinkType, NEW k \in Qdisc, NEW event \in EventType, Polled(l)
  PROVE  LET t == Told(l, k, event)
         IN  /\ t \in LinkType /\ Polled(t)
             /\ ~Woken(l, k, event) /\ Discovered(l) => Discovered(t)
             /\ Wakes(event, k) => Watches(t, k)
             /\ (/\ Watches(l, k) /\ event.index # 0
                 /\ ~Wakes(event, k) /\ ~Removes(event, k)) => Watches(t, k)
             /\ t.state = "AVAILABLE" => l.state = "AVAILABLE" /\ ~Taken(l, k, event)
             /\ (/\ l.state = "AVAILABLE" /\ ~Taken(l, k, event)
                 /\ ~Woken(l, k, event)) => t.state = "AVAILABLE"
  <1> DEFINE r == Removed(l, k, event)
             t == Created(r, k, event)
  <1>1. /\ r \in LinkType /\ Polled(r)
        /\ Discovered(l) => Discovered(r)
        /\ Taken(l, k, event) => r.state = "NOT_FOUND" /\ r.due = NEVER
        /\ ~Taken(l, k, event) => r.state = l.state /\ r.due = l.due
        /\ event.removed = 0 \/ ~Concerns(l, k, event.index) => r = l
    BY RemovedLink
  <1>2. Woken(l, k, event) <=> WakesDiscovery(r, k, event)
    BY DEF Woken
  <1>3. t = Told(l, k, event)
    BY DEF Told
  <1> HIDE DEF r
  <1>4. /\ t \in LinkType /\ Polled(t)
        /\ WakesDiscovery(r, k, event) =>
             t.due = 0 /\ t.index = event.index /\ t.state # "AVAILABLE"
        /\ ~WakesDiscovery(r, k, event) =>
             t.state = r.state /\ t.due = r.due /\ t.cake_valid = r.cake_valid
        /\ event.created = 0 \/ ~Concerns(r, k, event.index) => t = r
        /\ event.created # 0 /\ Concerns(r, k, event.index) => t.index = event.index
    BY <1>1, CreatedLink
  <1> HIDE DEF t
  <1>5. Wakes(event, k) => Watches(t, k)
    <2> SUFFICES ASSUME Wakes(event, k)
                 PROVE  Watches(t, k)
      OBVIOUS
    <2>1. Concerns(r, k, event.index) /\ event.created # 0 /\ t.index = k.index
      BY <1>4 DEF Wakes, Concerns
    <2>2. CASE WakesDiscovery(r, k, event)
      BY <2>1, <2>2, <1>4, Bounds DEF Watches
    <2>3. CASE ~WakesDiscovery(r, k, event)
      <3>1. r.state = "AVAILABLE"
        BY <2>1, <2>3 DEF WakesDiscovery, watching_qdisc
      <3> QED
        BY <2>1, <2>3, <3>1, <1>1, <1>4, Bounds DEF Watches, Polled
    <2> QED
      BY <2>2, <2>3
  <1>6. ASSUME Watches(l, k), event.index # 0, ~Wakes(event, k), ~Removes(event, k)
        PROVE  Watches(t, k)
    <2>1. CASE event.index = k.index
      BY <2>1, <1>1, <1>4, <1>6 DEF Wakes, Removes
    <2>2. CASE event.index # k.index
      <3>1. ~Concerns(l, k, event.index)
        BY <2>2, <1>6 DEF Concerns, Watches
      <3> QED
        BY <3>1, <1>1, <1>4, <1>6
    <2> QED
      BY <2>1, <2>2
  <1>7. ~Woken(l, k, event) /\ Discovered(l) => Discovered(t)
    BY <1>1, <1>2, <1>4 DEF Discovered
  <1>8. /\ t.state = "AVAILABLE" => l.state = "AVAILABLE" /\ ~Taken(l, k, event)
        /\ (/\ l.state = "AVAILABLE" /\ ~Taken(l, k, event)
            /\ ~Woken(l, k, event)) => t.state = "AVAILABLE"
    BY <1>1, <1>2, <1>4
  <1> QED
    BY <1>3, <1>4, <1>5, <1>6, <1>7, <1>8

-----------------------------------------------------------------------------
(* The kernel.                                                              *)

\* What TypeOK gives the other lemmas, part by part.
LEMMA TypeParts ==
  ASSUME TypeOK
  PROVE  /\ kernel \in [Direction -> Qdisc] /\ link \in [Direction -> LinkType]
         /\ last_index \in 0 .. MaxIndex /\ last_index \in Nat
         /\ events \in Seq(EventType)
         /\ Len(events) \in Nat /\ DOMAIN events = 1 .. Len(events)
         /\ \A i \in DOMAIN events : events[i] \in EventType
         /\ \A d \in Direction : /\ kernel[d].index \in Nat
                                 /\ kernel[d].index \in 0 .. MaxIndex
                                 /\ kernel[d].handle \in {0} \cup Handles
         /\ 0 \notin Handles
  <1>1. /\ kernel \in [Direction -> Qdisc] /\ link \in [Direction -> LinkType]
        /\ last_index \in 0 .. MaxIndex
        /\ events \in Seq(EventType)
    BY DEF TypeOK, LinkType, EventType
  <1>2. /\ Len(events) \in Nat /\ DOMAIN events = 1 .. Len(events)
        /\ \A i \in DOMAIN events : events[i] \in EventType
    BY <1>1
  <1>3. \A d \in Direction : /\ kernel[d].index \in Nat
                             /\ kernel[d].index \in 0 .. MaxIndex
                             /\ kernel[d].handle \in {0} \cup Handles
    BY <1>1 DEF Qdisc
  <1> QED
    BY <1>1, <1>2, <1>3, LinksAssumption

\* The counter of disturbances keeps its type.
LEMMA Disturbed ==
  ASSUME TypeOK, Disturb \/ UNCHANGED disturbances
  PROVE  disturbances' \in 0 .. MaxDisturbances
  BY LinksAssumption DEF TypeOK, Disturb

\* A change that the kernel announces, where a CAKE that is there afterwards was
\* announced as created.
LEMMA Announced ==
  ASSUME LinksInv, Disturb, UNCHANGED <<last_index, phase, link>>,
         NEW d \in Direction, kernel[d].index # 0,
         kernel' \in [Direction -> Qdisc], kernel'[d].index = kernel[d].index,
         \A c \in Direction : c # d => kernel'[c] = kernel[c],
         NEW removed \in {0} \cup Handles,
         NEW created \in {0, OTHER_HANDLE} \cup Handles,
         kernel'[d].handle # 0 => created # 0,
         Emit(d, removed, created)
  PROVE  LinksInv'
  <1> DEFINE n == Len(events)
             news == [index |-> kernel[d].index, removed |-> removed, created |-> created]
  <1>1. TypeOK /\ KernelSound
    BY DEF LinksInv
  <1>2. /\ n \in Nat /\ DOMAIN events = 1 .. n /\ events \in Seq(EventType)
        /\ news \in EventType /\ news.index = kernel[d].index
        /\ news.removed = removed /\ news.created = created
    BY <1>1, TypeParts DEF EventType
  <1> HIDE DEF news
  <1>3. \/ overrun' = TRUE /\ events' = events
        \/ overrun' = overrun /\ events' = Append(events, news) /\ n < MaxQueue
    BY DEF Emit, news
  <1>4. CASE overrun' = TRUE /\ events' = events
    <2>1. TypeOK' /\ KernelSound'
      <3>1. disturbances' \in 0 .. MaxDisturbances
        BY <1>1, Disturbed
      <3>2. TypeOK'
        BY <1>1, <1>4, <3>1 DEF TypeOK
      <3>3. KernelSound'
        BY <1>1, <1>4 DEF KernelSound
      <3> QED
        BY <3>2, <3>3
    <2>2. AvailableArePolled' /\ DiscoveryDone'
      BY DEF LinksInv, AvailableArePolled, DiscoveryDone
    <2> QED
      BY <1>4, <2>1, <2>2 DEF LinksInv, WakeupPending, RemovalsAnswered, Following
  <1>5. CASE overrun' = overrun /\ events' = Append(events, news) /\ n < MaxQueue
    <2>1. /\ events' \in Seq(EventType) /\ Len(events') = n + 1
          /\ DOMAIN events' = 1 .. n + 1 /\ events'[n + 1] = news
          /\ \A i \in 1 .. n : events'[i] = events[i]
      BY <1>2, <1>5, AppendProperties
    <2>2. /\ 1 .. n \subseteq 1 .. n + 1 /\ n + 1 \in 1 .. n + 1
          /\ \A i \in 1 .. n + 1 : i \in 1 .. n \/ i = n + 1
          /\ \A i \in 1 .. n + 1 : n + 1 >= i
      BY <1>2
    <2> HIDE DEF n
    <2>3. TypeOK'
      <3>1. n + 1 <= MaxQueue
        BY <1>2, <1>5, LinksAssumption
      <3>2. events' \in Seq([index : 0 .. MaxIndex, removed : {0} \cup Handles,
                             created : {0, OTHER_HANDLE} \cup Handles])
        BY <2>1 DEF EventType
      <3>3. Len(events') <= MaxQueue
        BY <2>1, <3>1
      <3> QED
        BY <1>1, <1>5, <3>2, <3>3, Disturbed DEF TypeOK
    <2>4. KernelSound'
      <3>1. \A i \in DOMAIN events' : events'[i].index # 0
        BY <1>1, <1>2, <2>1, <2>2 DEF KernelSound
      <3> QED
        BY <1>1, <3>1 DEF KernelSound
    <2>5. AvailableArePolled' /\ DiscoveryDone'
      BY DEF LinksInv, AvailableArePolled, DiscoveryDone
    <2>6. \A c \in Direction : c # d /\ Queued(kernel[c]) => Queued(kernel[c])'
      BY <1>2, <2>1, <2>2 DEF Queued, Wakes
    <2>7. kernel'[d].handle # 0 => Wakes(events'[n + 1], kernel'[d])
      BY <1>2, <2>1 DEF Wakes
    <2>8. WakeupPending'
      <3> SUFFICES ASSUME NEW c \in Direction, Following', kernel'[c].handle # 0
                   PROVE  Queued(kernel[c])' \/ Watches(link[c], kernel[c])'
        BY DEF WakeupPending
      <3>1. CASE c = d
        BY <3>1, <2>1, <2>2, <2>7 DEF Queued
      <3>2. CASE c # d
        <4>1. Queued(kernel[c]) \/ Watches(link[c], kernel[c])
          BY <3>2, <1>5 DEF LinksInv, WakeupPending, Following
        <4> QED
          BY <3>2, <4>1, <2>6 DEF Watches
      <3> QED
        BY <3>1, <3>2
    <2>9. RemovalsAnswered'
      <3> SUFFICES ASSUME NEW c \in Direction, Following', kernel'[c].handle # 0,
                          NEW i \in DOMAIN events', Removes(events'[i], kernel'[c])
                   PROVE  \E j \in DOMAIN events' :
                            j >= i /\ Wakes(events'[j], kernel'[c])
        BY DEF RemovalsAnswered
      <3>1. CASE c = d
        BY <3>1, <2>1, <2>2, <2>7
      <3>2. CASE c # d
        <4>1. i \in 1 .. n
          <5>1. news.index # kernel[c].index
            BY <3>2, <1>1, <1>2 DEF KernelSound
          <5> QED
            BY <3>2, <5>1, <2>1, <2>2 DEF Removes
        <4>2. Removes(events[i], kernel[c])
          BY <3>2, <4>1, <2>1
        <4>3. PICK j \in DOMAIN events : j >= i /\ Wakes(events[j], kernel[c])
          BY <3>2, <4>1, <4>2, <1>2, <1>5 DEF LinksInv, RemovalsAnswered, Following
        <4> QED
          BY <3>2, <4>3, <1>2, <2>1, <2>2
      <3> QED
        BY <3>1, <3>2
    <2> QED
      BY <2>3, <2>4, <2>5, <2>8, <2>9 DEF LinksInv
  <1> QED
    BY <1>3, <1>4, <1>5

\* A change of an interface or a qdisc in the kernel keeps the invariant of the links.
LEMMA KernelStep ==
  ASSUME LinksInv, Kernel
  PROVE  LinksInv'
  <1>0. /\ TypeOK /\ KernelSound /\ AvailableArePolled
        /\ WakeupPending /\ RemovalsAnswered /\ DiscoveryDone
    BY DEF LinksInv
  <1> PICK d \in Direction :
        \/ AddInterface(d)
        \/ RemoveInterface(d)
        \/ \E handle \in Handles : AddCake(d, handle)
        \/ RemoveCake(d)
        \/ ChangeCake(d)
    BY DEF Kernel, KernelOf
  <1>1. \A k \in Qdisc : (kernel' = [kernel EXCEPT ![d] = k]) =>
          /\ kernel' \in [Direction -> Qdisc] /\ kernel'[d] = k
          /\ \A c \in Direction : c # d => kernel'[c] = kernel[c]
    BY <1>0, TypeParts
  <1>2. \A h \in {0} \cup Handles : (kernel' = [kernel EXCEPT ![d].handle = h]) =>
          /\ kernel' \in [Direction -> Qdisc] /\ kernel'[d].index = kernel[d].index
          /\ kernel'[d].handle = h
          /\ \A c \in Direction : c # d => kernel'[c] = kernel[c]
    <2> SUFFICES ASSUME NEW h \in {0} \cup Handles,
                        kernel' = [kernel EXCEPT ![d].handle = h]
                 PROVE  /\ kernel' \in [Direction -> Qdisc]
                        /\ kernel'[d].index = kernel[d].index /\ kernel'[d].handle = h
                        /\ \A c \in Direction : c # d => kernel'[c] = kernel[c]
      OBVIOUS
    <2> DEFINE k == [kernel[d] EXCEPT !.handle = h]
    <2>1. k \in Qdisc /\ k.index = kernel[d].index /\ k.handle = h
      BY <1>0, TypeParts DEF Qdisc
    <2> HIDE DEF k
    <2>2. kernel' = [kernel EXCEPT ![d] = k]
      BY DEF k
    <2> QED
      BY <2>1, <2>2, <1>1
  <1>3. ASSUME Disturb, UNCHANGED <<events, overrun, phase, link>>,
               NEW k \in Qdisc, k.handle = 0, kernel' = [kernel EXCEPT ![d] = k],
               last_index' \in 0 .. MaxIndex, last_index <= last_index',
               k.index <= last_index',
               k.index # 0 => \A c \in Direction : kernel[c].index < k.index
        PROVE  LinksInv'
    <2>1. /\ kernel' \in [Direction -> Qdisc] /\ kernel'[d] = k
          /\ \A c \in Direction : c # d => kernel'[c] = kernel[c]
      BY <1>1, <1>3
    <2>2. TypeOK'
      <3>1. disturbances' \in 0 .. MaxDisturbances
        BY <1>0, <1>3, Disturbed
      <3> QED
        BY <1>0, <1>3, <2>1, <3>1 DEF TypeOK
    <2>3. KernelSound'
      <3>1. \A c \in Direction :
              /\ kernel'[c].index <= last_index'
              /\ kernel'[c].handle # 0 => kernel'[c].index # 0
        BY <1>0, <1>3, <2>1, TypeParts DEF KernelSound
      <3>2. \A c, e \in Direction :
              kernel'[c].index = kernel'[e].index /\ kernel'[c].index # 0 => c = e
        <4> SUFFICES ASSUME NEW c \in Direction, NEW e \in Direction,
                            kernel'[c].index = kernel'[e].index, kernel'[c].index # 0
                     PROVE  c = e
          OBVIOUS
        <4>1. CASE c # d /\ e # d
          BY <4>1, <1>0, <2>1 DEF KernelSound
        <4>2. CASE c = d /\ e # d
          BY <4>2, <1>0, <1>3, <2>1, TypeParts
        <4>3. CASE c # d /\ e = d
          BY <4>3, <1>0, <1>3, <2>1, TypeParts
        <4> QED
          BY <4>1, <4>2, <4>3
      <3> QED
        BY <1>0, <1>3, <3>1, <3>2 DEF KernelSound
    <2>4. AvailableArePolled' /\ DiscoveryDone'
      BY <1>0, <1>3 DEF AvailableArePolled, DiscoveryDone
    <2>5. WakeupPending' /\ RemovalsAnswered'
      <3>1. Following' = Following
        BY <1>3 DEF Following
      <3>2. \A c \in Direction : kernel'[c].handle # 0 =>
              /\ kernel'[c] = kernel[c]
              /\ Queued(kernel[c])' = Queued(kernel[c])
              /\ Watches(link[c], kernel[c])' = Watches(link[c], kernel[c])
        <4> SUFFICES ASSUME NEW c \in Direction, kernel'[c].handle # 0
                     PROVE  /\ kernel'[c] = kernel[c]
                            /\ Queued(kernel[c])' = Queued(kernel[c])
                            /\ Watches(link[c], kernel[c])' = Watches(link[c], kernel[c])
          OBVIOUS
        <4>1. kernel'[c] = kernel[c]
          BY <1>3, <2>1
        <4> QED
          BY <4>1, <1>3, Zenon DEF Queued, Watches
      <3> QED
        BY <1>0, <1>3, <3>1, <3>2 DEF WakeupPending, RemovalsAnswered
    <2> QED
      BY <2>2, <2>3, <2>4, <2>5 DEF LinksInv
  <1>4. CASE AddInterface(d)
    <2> DEFINE k == [index |-> last_index + 1, handle |-> 0]
    <2>1. /\ k \in Qdisc /\ k.handle = 0 /\ k.index = last_index + 1
          /\ last_index' = last_index + 1 /\ last_index' \in 0 .. MaxIndex
      BY <1>0, <1>4, TypeParts, LinksAssumption DEF AddInterface, Qdisc
    <2>2. kernel' = [kernel EXCEPT ![d] = k]
      BY <1>4 DEF AddInterface
    <2> HIDE DEF k
    <2>3. \A c \in Direction : kernel[c].index < k.index
      BY <1>0, <2>1, TypeParts DEF KernelSound
    <2>4. Disturb /\ UNCHANGED <<events, overrun, phase, link>>
      BY <1>4 DEF AddInterface
    <2>5. last_index <= last_index' /\ k.index <= last_index'
      BY <1>0, <2>1, TypeParts
    <2> QED
      BY <2>1, <2>2, <2>3, <2>4, <2>5, <1>3
  <1>5. CASE RemoveInterface(d)
    <2>1. NONE \in Qdisc /\ NONE.index = 0 /\ NONE.handle = 0
      BY Bounds DEF NONE
    <2>2. /\ kernel' = [kernel EXCEPT ![d] = NONE]
          /\ Disturb /\ UNCHANGED <<events, overrun, phase, link>>
          /\ last_index' = last_index
      BY <1>5 DEF RemoveInterface
    <2>3. last_index' \in 0 .. MaxIndex /\ last_index <= last_index' /\ 0 <= last_index'
      BY <1>0, <2>2, TypeParts
    <2> QED
      BY <2>1, <2>2, <2>3, <1>3
  <1>6. CASE \E handle \in Handles : AddCake(d, handle)
    <2> PICK handle \in Handles : AddCake(d, handle)
      BY <1>6
    <2>1. /\ Disturb /\ UNCHANGED <<last_index, phase, link>> /\ kernel[d].index # 0
          /\ kernel' = [kernel EXCEPT ![d].handle = handle]
          /\ Emit(d, kernel[d].handle, handle)
      BY DEF AddCake
    <2>2. handle # 0
      BY <1>0, TypeParts
    <2> QED
      BY <2>1, <2>2, <1>0, <1>2, TypeParts, Announced
  <1>7. CASE RemoveCake(d)
    <2>1. PICK created \in {0, OTHER_HANDLE} : Emit(d, kernel[d].handle, created)
      BY <1>7 DEF RemoveCake
    <2>2. /\ Disturb /\ UNCHANGED <<last_index, phase, link>> /\ kernel[d].index # 0
          /\ kernel' = [kernel EXCEPT ![d].handle = 0]
      BY <1>0, <1>7 DEF RemoveCake, KernelSound
    <2> QED
      BY <2>1, <2>2, <1>0, <1>2, TypeParts, Announced
  <1>8. CASE ChangeCake(d)
    <2>1. /\ Disturb /\ UNCHANGED <<kernel, last_index, phase, link>>
          /\ kernel[d].index # 0 /\ kernel[d].handle # 0
          /\ Emit(d, 0, kernel[d].handle)
      BY <1>0, <1>8 DEF ChangeCake, KernelSound
    <2> QED
      BY <2>1, <1>0, TypeParts, Announced
  <1> QED
    BY <1>4, <1>5, <1>6, <1>7, <1>8

-----------------------------------------------------------------------------
(* The daemon's handlers over the links.                                    *)

\* What links_observe leaves, from links that are available only as long as they
\* are polled.
LEMMA ObserveLinks ==
  ASSUME TypeOK, NEW links \in [Direction -> LinkType],
         \A d \in Direction : Polled(links[d]),
         NEW elapsed \in 0 .. 1, NEW failure, failure.dump \in BOOLEAN,
         link' = [d \in Direction |->
                    Observed(links[d], kernel[d], elapsed, failure.dump,
                             d \in failure.mtu)]
  PROVE  /\ link' \in [Direction -> LinkType]
         /\ \A d \in Direction :
              /\ Polled(link'[d]) /\ Discovered(link'[d])
              /\ ~link'[d].cake_valid => ~link'[d].traffic_valid
              /\ (kernel[d].index # 0 /\ kernel[d].handle # 0
                    /\ Watches(links[d], kernel[d])) => Watches(link'[d], kernel[d])
  <1>1. ASSUME NEW d \in Direction
        PROVE  /\ link'[d] \in LinkType
               /\ Polled(link'[d]) /\ Discovered(link'[d])
               /\ ~link'[d].cake_valid => ~link'[d].traffic_valid
               /\ (kernel[d].index # 0 /\ kernel[d].handle # 0
                     /\ Watches(links[d], kernel[d])) => Watches(link'[d], kernel[d])
    <2>1. /\ links[d] \in LinkType /\ kernel[d] \in Qdisc /\ Polled(links[d])
          /\ (d \in failure.mtu) \in BOOLEAN
      BY TypeParts
    <2>2. link'[d] = Observed(links[d], kernel[d], elapsed, failure.dump,
                              d \in failure.mtu)
      OBVIOUS
    <2> QED
      BY <2>1, <2>2, ObserveLink
  <1> QED
    BY <1>1

\* A step that leaves the kernel alone, and leaves links that are well-formed and
\* have been looked at.
LEMMA LinksKept ==
  ASSUME LinksInv, UNCHANGED <<kernel, last_index>>,
         link' \in [Direction -> LinkType],
         \A d \in Direction : Polled(link'[d]),
         disturbances' \in 0 .. MaxDisturbances, overrun' \in BOOLEAN,
         phase' \in {"STOPPED", "SUBSCRIBED", "RUNNING"},
         events' \in Seq(EventType), Len(events') <= MaxQueue,
         \A i \in DOMAIN events' : events'[i].index # 0
  PROVE  /\ TypeOK' /\ KernelSound' /\ AvailableArePolled'
         /\ (phase' # "RUNNING" \/ \A d \in Direction : Discovered(link'[d]))
              => DiscoveryDone'
  <1>1. TypeOK'
    BY DEF LinksInv, TypeOK, LinkType, EventType
  <1>2. KernelSound'
    BY DEF LinksInv, KernelSound
  <1>3. AvailableArePolled'
    BY DEF AvailableArePolled
  <1>4. (phase' # "RUNNING" \/ \A d \in Direction : Discovered(link'[d]))
          => DiscoveryDone'
    BY DEF DiscoveryDone, Discovered
  <1> QED
    BY <1>1, <1>2, <1>3, <1>4

\* Opening the event socket keeps the invariant of the links.
LEMMA SubscribeStep ==
  ASSUME LinksInv, Subscribe
  PROVE  LinksInv'
  <1>1. /\ phase' = "SUBSCRIBED" /\ events' = <<>> /\ overrun' = FALSE
        /\ UNCHANGED <<kernel, last_index, disturbances>>
        /\ link' = [d \in Direction |-> INITIAL_LINK]
    BY DEF Subscribe
  <1>2. INITIAL_LINK \in LinkType /\ Polled(INITIAL_LINK)
    BY Bounds DEF INITIAL_LINK, LinkType, Polled
  <1>3. \A d \in Direction : Watches(link'[d], kernel'[d])
    BY <1>1, Bounds DEF INITIAL_LINK, Watches
  <1>4. events' \in Seq(EventType) /\ Len(events') <= MaxQueue /\ DOMAIN events' = {}
    BY <1>1, LinksAssumption
  <1>5. disturbances' \in 0 .. MaxDisturbances /\ overrun' \in BOOLEAN
    BY <1>1 DEF LinksInv, TypeOK
  <1>6. /\ link' \in [Direction -> LinkType]
        /\ \A d \in Direction : Polled(link'[d])
    BY <1>1, <1>2
  <1>7. TypeOK' /\ KernelSound' /\ AvailableArePolled' /\ DiscoveryDone'
    BY <1>1, <1>4, <1>5, <1>6, LinksKept
  <1> QED
    BY <1>3, <1>4, <1>7 DEF LinksInv, WakeupPending, RemovalsAnswered

\* The first observation and each one of the timer keep the invariant of the links.
LEMMA ObserveStep ==
  ASSUME LinksInv, NEW failure, failure.dump \in BOOLEAN,
         FirstObserve(failure) \/ Tick(failure)
  PROVE  LinksInv'
  <1>0. /\ TypeOK /\ KernelSound /\ AvailableArePolled
        /\ WakeupPending /\ RemovalsAnswered
    BY DEF LinksInv
  <1>1. /\ phase # "STOPPED" /\ phase' = "RUNNING"
        /\ UNCHANGED <<kernel, last_index, events, overrun>>
        /\ Disturb \/ UNCHANGED disturbances
    BY DEF FirstObserve, Tick, MayFail
  <1>2. PICK elapsed \in 0 .. 1 :
          link' = [d \in Direction |->
                     Observed(link[d], kernel[d], elapsed, failure.dump,
                              d \in failure.mtu)]
    <2>1. 0 \in 0 .. 1 /\ 1 \in 0 .. 1
      OBVIOUS
    <2> QED
      BY <2>1 DEF FirstObserve, Tick, links_observe
  <1>3. /\ link' \in [Direction -> LinkType]
        /\ \A d \in Direction :
             /\ Polled(link'[d]) /\ Discovered(link'[d])
             /\ (kernel[d].index # 0 /\ kernel[d].handle # 0
                   /\ Watches(link[d], kernel[d])) => Watches(link'[d], kernel[d])
    BY <1>0, <1>2, TypeParts, ObserveLinks DEF AvailableArePolled
  <1>4. /\ events' \in Seq(EventType) /\ Len(events') <= MaxQueue
        /\ \A i \in DOMAIN events' : events'[i].index # 0
        /\ disturbances' \in 0 .. MaxDisturbances /\ overrun' \in BOOLEAN
    BY <1>0, <1>1, TypeParts, Disturbed DEF TypeOK, KernelSound
  <1>5. TypeOK' /\ KernelSound' /\ AvailableArePolled' /\ DiscoveryDone'
    BY <1>1, <1>3, <1>4, LinksKept
  <1>6. Following' = Following
    BY <1>1 DEF Following
  <1>7. \A d \in Direction : Queued(kernel[d])' = Queued(kernel[d])
    BY <1>1 DEF Queued
  <1>8. WakeupPending'
    BY <1>0, <1>1, <1>3, <1>6, <1>7 DEF WakeupPending, KernelSound
  <1>9. RemovalsAnswered'
    BY <1>0, <1>1, <1>6 DEF RemovalsAnswered
  <1> QED
    BY <1>5, <1>8, <1>9 DEF LinksInv

\* What is queued once a datagram has been received.
LEMMA Received ==
  ASSUME TypeOK, events # <<>>, events' = Tail(events)
  PROVE  /\ Len(events) >= 1 /\ 1 \in DOMAIN events /\ Head(events) = events[1]
         /\ Head(events) \in EventType
         /\ events' \in Seq(EventType) /\ Len(events') = Len(events) - 1
         /\ DOMAIN events' = 1 .. Len(events) - 1
         /\ \A i \in DOMAIN events' : i + 1 \in DOMAIN events /\ events'[i] = events[i + 1]
         /\ \A i \in DOMAIN events : i # 1 => i - 1 \in DOMAIN events'
                                          /\ events'[i - 1] = events[i]
  <1> DEFINE n == Len(events)
  <1>1. /\ n \in Nat /\ DOMAIN events = 1 .. n /\ events \in Seq(EventType)
        /\ \A i \in DOMAIN events : events[i] \in EventType
    BY TypeParts
  <1>2. n >= 1
    BY <1>1
  <1>3. /\ events' \in Seq(EventType) /\ Len(events') = n - 1
        /\ DOMAIN events' = 1 .. n - 1 /\ Head(events) = events[1]
        /\ \A i \in 1 .. n - 1 : events'[i] = events[i + 1]
    BY <1>1, <1>2, HeadTailProperties
  <1> HIDE DEF n
  <1>4. /\ 1 \in 1 .. n
        /\ \A i \in 1 .. n - 1 : i + 1 \in 1 .. n
        /\ \A i \in 1 .. n : i # 1 => i - 1 \in 1 .. n - 1 /\ (i - 1) + 1 = i
    BY <1>1, <1>2
  <1>5. \A i \in 1 .. n : i # 1 => events'[i - 1] = events[i]
    BY <1>3, <1>4
  <1> QED
    BY <1>1, <1>2, <1>3, <1>4, <1>5 DEF n

\* A datagram: one that only takes a qdisc away leaves behind it the one that
\* brings the next, so a link is put to sleep only over an interface that has none.
LEMMA QdiscEventsStep ==
  ASSUME LinksInv, NEW failure, failure.dump \in BOOLEAN, QdiscEvents(failure)
  PROVE  LinksInv'
  <1> DEFINE event == Head(events)
             links == process_qdisc_event(event)
  <1>0. /\ TypeOK /\ KernelSound /\ AvailableArePolled
        /\ WakeupPending /\ RemovalsAnswered /\ DiscoveryDone
    BY DEF LinksInv
  <1>1. /\ phase = "RUNNING" /\ ~overrun /\ events # <<>> /\ events' = Tail(events)
        /\ UNCHANGED <<kernel, last_index, overrun, phase>>
        /\ Disturb \/ UNCHANGED disturbances
        /\ \/ /\ qdisc_refresh(event)
              /\ link' = [d \in Direction |->
                            Observed(links[d], kernel[d], 0, failure.dump,
                                     d \in failure.mtu)]
           \/ ~qdisc_refresh(event) /\ link' = links
    BY DEF QdiscEvents, MayFail
  <1>2. /\ Len(events) >= 1 /\ 1 \in DOMAIN events /\ event = events[1]
        /\ event \in EventType /\ event.index # 0
        /\ events' \in Seq(EventType) /\ Len(events') = Len(events) - 1
        /\ DOMAIN events' = 1 .. Len(events) - 1
        /\ \A i \in DOMAIN events' : i + 1 \in DOMAIN events /\ events'[i] = events[i + 1]
        /\ \A i \in DOMAIN events : i # 1 => i - 1 \in DOMAIN events'
                                         /\ events'[i - 1] = events[i]
    BY <1>0, <1>1, Received DEF KernelSound
  <1>3. /\ kernel \in [Direction -> Qdisc] /\ link \in [Direction -> LinkType]
        /\ DOMAIN events = 1 .. Len(events) /\ Len(events) \in Nat
    BY <1>0, TypeParts
  <1>4. links = [d \in Direction |-> Told(link[d], kernel[d], event)]
    BY DEF process_qdisc_event, Told
  <1>5. qdisc_refresh(event) <=> \E d \in Direction : Woken(link[d], kernel[d], event)
    BY DEF qdisc_refresh, Woken
  <1> HIDE DEF event, links
  <1>6. \A d \in Direction :
          /\ links[d] \in LinkType /\ Polled(links[d])
          /\ ~Woken(link[d], kernel[d], event) /\ Discovered(link[d])
               => Discovered(links[d])
          /\ Wakes(event, kernel[d]) => Watches(links[d], kernel[d])
          /\ (/\ Watches(link[d], kernel[d])
              /\ ~Wakes(event, kernel[d]) /\ ~Removes(event, kernel[d]))
             => Watches(links[d], kernel[d])
    <2> TAKE d \in Direction
    <2>1. link[d] \in LinkType /\ kernel[d] \in Qdisc /\ Polled(link[d])
      BY <1>0, <1>3 DEF AvailableArePolled
    <2>2. links[d] = Told(link[d], kernel[d], event)
      BY <1>4
    <2> QED
      BY <1>2, <2>1, <2>2, ToldLink
  <1>7. links \in [Direction -> LinkType]
    BY <1>4, <1>6
  <1>8. /\ link' \in [Direction -> LinkType]
        /\ \A d \in Direction :
             /\ Polled(link'[d]) /\ Discovered(link'[d])
             /\ (kernel[d].index # 0 /\ kernel[d].handle # 0
                   /\ Watches(links[d], kernel[d])) => Watches(link'[d], kernel[d])
    <2>1. CASE qdisc_refresh(event)
      <3>1. link' = [d \in Direction |->
                       Observed(links[d], kernel[d], 0, failure.dump,
                                d \in failure.mtu)]
        BY <2>1, <1>1
      <3>2. \A d \in Direction : Polled(links[d])
        BY <1>6
      <3>3. 0 \in 0 .. 1
        OBVIOUS
      <3> QED
        BY <3>1, <3>2, <3>3, <1>0, <1>7, ObserveLinks
    <2>2. CASE ~qdisc_refresh(event)
      <3>1. link' = links
        BY <2>2, <1>1
      <3>2. \A d \in Direction : Discovered(link[d])
        BY <1>0, <1>1 DEF DiscoveryDone, Discovered
      <3> QED
        BY <3>1, <3>2, <2>2, <1>5, <1>6, <1>7
    <2> QED
      BY <2>1, <2>2
  <1>9. /\ Len(events') <= MaxQueue
        /\ \A i \in DOMAIN events' : events'[i].index # 0
        /\ disturbances' \in 0 .. MaxDisturbances /\ overrun' \in BOOLEAN
        /\ phase' = "RUNNING"
    <2>1. Len(events') <= MaxQueue
      BY <1>0, <1>2, <1>3, LinksAssumption DEF TypeOK
    <2> QED
      BY <2>1, <1>0, <1>1, <1>2, Disturbed DEF TypeOK, KernelSound
  <1>10. TypeOK' /\ KernelSound' /\ AvailableArePolled' /\ DiscoveryDone'
    BY <1>1, <1>2, <1>8, <1>9, LinksKept
  <1>11. \A d \in Direction : kernel[d].handle # 0 =>
           Queued(kernel[d])' \/ Watches(links[d], kernel[d])
    <2> SUFFICES ASSUME NEW d \in Direction, kernel[d].handle # 0,
                        ~Queued(kernel[d])'
                 PROVE  Watches(links[d], kernel[d])
      OBVIOUS
    <2>1. \A j \in DOMAIN events : Wakes(events[j], kernel[d]) => j = 1
      BY <1>1, <1>2 DEF Queued
    <2>2. CASE Wakes(event, kernel[d])
      BY <2>2, <1>6
    <2>3. CASE ~Wakes(event, kernel[d])
      <3>1. ~Queued(kernel[d])
        BY <2>1, <2>3, <1>2 DEF Queued
      <3>2. Watches(link[d], kernel[d])
        BY <3>1, <1>0, <1>1 DEF WakeupPending, Following
      <3>3. ~Removes(event, kernel[d])
        BY <3>1, <1>0, <1>1, <1>2 DEF RemovalsAnswered, Following, Queued
      <3> QED
        BY <2>3, <3>2, <3>3, <1>6
    <2> QED
      BY <2>2, <2>3
  <1>12. WakeupPending'
    BY <1>0, <1>1, <1>8, <1>11 DEF WakeupPending, KernelSound
  <1>13. RemovalsAnswered'
    <2> SUFFICES ASSUME NEW d \in Direction, kernel[d].handle # 0,
                        NEW i \in DOMAIN events', Removes(events'[i], kernel[d])
                 PROVE  \E j \in DOMAIN events' : j >= i /\ Wakes(events'[j], kernel[d])
      BY <1>1 DEF RemovalsAnswered
    <2>1. i + 1 \in DOMAIN events /\ Removes(events[i + 1], kernel[d])
      BY <1>2
    <2>2. PICK j \in DOMAIN events : j >= i + 1 /\ Wakes(events[j], kernel[d])
      BY <2>1, <1>0, <1>1 DEF RemovalsAnswered, Following
    <2>3. j # 1 /\ j - 1 >= i
      BY <2>2, <1>2, <1>3
    <2>4. j - 1 \in DOMAIN events' /\ Wakes(events'[j - 1], kernel[d])
      BY <2>2, <2>3, <1>2
    <2> QED
      BY <2>3, <2>4
  <1> QED
    BY <1>10, <1>12, <1>13 DEF LinksInv

\* An overrun of the event socket keeps the invariant of the links.
LEMMA OverrunStep ==
  ASSUME LinksInv, Overrun
  PROVE  LinksInv'
  <1>1. /\ phase' = "STOPPED"
        /\ UNCHANGED <<kernel, last_index, events, overrun, disturbances, link>>
    BY DEF Overrun
  <1>2. TypeOK' /\ KernelSound' /\ AvailableArePolled'
    BY <1>1 DEF LinksInv, TypeOK, KernelSound, AvailableArePolled
  <1>3. WakeupPending' /\ RemovalsAnswered' /\ DiscoveryDone'
    BY <1>1 DEF WakeupPending, RemovalsAnswered, DiscoveryDone, Following
  <1> QED
    BY <1>2, <1>3 DEF LinksInv

\* A step that leaves all but the count of disturbances alone.
LEMMA LinksUnmoved ==
  ASSUME LinksInv, UNCHANGED <<kernel, last_index, events, overrun, phase, link>>,
         Disturb \/ UNCHANGED disturbances
  PROVE  LinksInv'
  <1>1. disturbances' \in 0 .. MaxDisturbances
    BY Disturbed DEF LinksInv
  <1>2. TypeOK' /\ KernelSound' /\ AvailableArePolled' /\ DiscoveryDone'
    BY <1>1 DEF LinksInv, TypeOK, KernelSound, AvailableArePolled, DiscoveryDone
  <1>3. WakeupPending' /\ RemovalsAnswered'
    BY DEF LinksInv, WakeupPending, RemovalsAnswered, Following, Queued
  <1> QED
    BY <1>2, <1>3 DEF LinksInv

\* The daemon starts before the interfaces exist, or over two CAKEs.
LEMMA LinksStart ==
  ASSUME Init
  PROVE  LinksInv
  <1>1. /\ events = <<>> /\ overrun = FALSE /\ disturbances = 0
        /\ phase = "STOPPED" /\ link = [d \in Direction |-> INITIAL_LINK]
    BY DEF Init
  <1> DEFINE Shaped ==
        /\ kernel \in [Direction -> Qdisc] /\ last_index \in 0 .. MaxIndex
        /\ \A d \in Direction :
             /\ kernel[d].index <= last_index
             /\ kernel[d].handle # 0 => kernel[d].index # 0
        /\ \A d, c \in Direction :
             kernel[d].index = kernel[c].index /\ kernel[d].index # 0 => d = c
  <1>2. Shaped
    <2>1. CASE kernel = [d \in Direction |-> NONE] /\ last_index = 0
      BY <2>1, Bounds DEF NONE
    <2>2. ASSUME NEW handle \in Handles,
                 kernel = [d \in Direction |->
                             [index |-> IF d = "download" THEN 1 ELSE 2,
                              handle |-> handle]],
                 last_index = 2
          PROVE  Shaped
      <3>1. 2 \in 0 .. MaxIndex /\ 1 \in 0 .. MaxIndex
        BY LinksAssumption
      <3>2. \A d \in Direction : kernel[d].index = IF d = "download" THEN 1 ELSE 2
        BY <2>2
      <3>3. kernel \in [Direction -> Qdisc]
        BY <2>2, <3>1 DEF Qdisc
      <3> QED
        BY <2>2, <3>1, <3>2, <3>3 DEF Direction
    <2> QED
      BY <2>1, <2>2 DEF Init
  <1>3. INITIAL_LINK \in LinkType /\ Polled(INITIAL_LINK)
    BY Bounds DEF INITIAL_LINK, LinkType, Polled
  <1>4. TypeOK
    <2>1. /\ events \in Seq(EventType) /\ Len(events) <= MaxQueue
          /\ disturbances \in 0 .. MaxDisturbances
      BY <1>1, LinksAssumption
    <2>2. link \in [Direction -> LinkType]
      BY <1>1, <1>3
    <2> QED
      BY <1>1, <1>2, <2>1, <2>2 DEF TypeOK, LinkType, EventType
  <1>5. KernelSound /\ AvailableArePolled
    BY <1>1, <1>2, <1>3 DEF KernelSound, AvailableArePolled
  <1>6. WakeupPending /\ RemovalsAnswered /\ DiscoveryDone
    BY <1>1 DEF WakeupPending, RemovalsAnswered, DiscoveryDone, Following
  <1> QED
    BY <1>4, <1>5, <1>6 DEF LinksInv

\* Every step of the links keeps their invariant.
LEMMA LinksStep ==
  ASSUME LinksInv, Next
  PROVE  LinksInv'
  <1>1. \A failure \in ReadFailures : failure.dump \in BOOLEAN
    BY DEF ReadFailures
  <1>2. CASE Kernel
    BY <1>2, KernelStep
  <1>3. CASE Daemon
    BY <1>1, <1>3, SubscribeStep, ObserveStep, QdiscEventsStep, OverrunStep DEF Daemon
  <1> QED
    BY <1>2, <1>3 DEF Next

\* The inductive invariant of the links: whatever the kernel does and however late
\* its news is read, every CAKE is polled or about to be heard of.
THEOREM LinksInvariance == Spec => []LinksInv
  <1>1. LinksInv /\ [Next]_vars => LinksInv'
    BY LinksStep, LinksUnmoved DEF vars
  <1> QED
    BY LinksStart, <1>1, PTL DEF Spec

\* The invariant of the links gives the property the runs check.
LEMMA LinksInvAwake ==
  ASSUME LinksInv
  PROVE  LinksAwake
  <1>1. NoLostWakeup
    <2> SUFFICES ASSUME NEW d \in Direction, phase = "RUNNING", ~overrun,
                        link[d].due = NEVER, kernel[d].handle # 0
                 PROVE  \E i \in 1 .. Len(events) :
                          events[i].index = kernel[d].index /\ events[i].created # 0
      BY DEF NoLostWakeup
    <2>1. Queued(kernel[d])
      BY DEF LinksInv, WakeupPending, Following, Watches
    <2> QED
      BY <2>1, TypeParts DEF LinksInv, Queued, Wakes
  <1> QED
    BY <1>1 DEF LinksInv, LinksAwake

\* LinksAwake, for every choice of handles, interfaces and bounds: no link sleeps
\* over a CAKE whose event has been used up (process_qdisc_event), and no handler
\* leaves a discovery undone that it asked for (record_cake_read).
THEOREM LinksStayAwake == Spec => []LinksAwake
  BY LinksInvariance, LinksInvAwake, PTL

-----------------------------------------------------------------------------
(* The session over the links.                                              *)

ActivityType == [state : {"RUNNING", "IDLE", "STALL"},
                 idle : {NOT_TIMED} \cup Age, reported : BOOLEAN]
PingersType ==
  [open : BOOLEAN, stopping : BOOLEAN, suspended : BOOLEAN, ungraced : BOOLEAN,
   grace : 0 .. Grace, response_age : Age, restart_age : Age, retry : 0 .. RetryTicks]

MinimumType == [held : SUBSET Direction, touched : SUBSET Direction, silent : BOOLEAN]

\* A session that fits the links and the activity: open only where it may be, and
\* on its way where it is due.
Fits(p, links, state) ==
  /\ p.open => links_ready(links) /\ state # "IDLE" /\ ~p.stopping
  /\ links_ready(links) /\ state # "IDLE" /\ ~p.open => p.stopping \/ p.retry > 0

\* A session that could be closed or left to be watched in this state.
Apart(p, state) == p.open => ~p.stopping /\ state # "IDLE"

Accounted(m) == m.held \cup m.touched

\* Asleep, and in a timeout that is reported or that a cycle has found in a stall,
\* each direction is at its minimum or touched.  The report is what tells the next
\* cycle not to set the rates again.
InForce ==
  Enforce /\ (\/ activity.reported \/ activity.state = "IDLE"
              \/ activity.state = "STALL" /\ minimum.silent)
    => Adjusted \subseteq Accounted(minimum)

DaemonInv ==
  /\ LinksInv /\ DaemonTypeOK /\ ProbesOnlyOverCake /\ SessionExpected
  /\ phase = "SUBSCRIBED" => pingers = INITIAL_PINGERS /\ activity = INITIAL_ACTIVITY
  /\ InForce

\* What the constants are worth.
LEMMA Times ==
  /\ EnableSleep \in BOOLEAN /\ Enforce \in BOOLEAN /\ ChildPingers \in BOOLEAN
  /\ StallTimeout \in Nat /\ GlobalTimeout \in Nat /\ Grace \in Nat /\ StaleAge \in Nat
  /\ SustainedIdle \in Nat /\ MaxAge \in Nat
  /\ SustainedIdle + 1 <= MaxAge /\ Adjusted \subseteq Direction
  /\ Age \subseteq Nat /\ 0 \in Age /\ 0 \in 0 .. Grace /\ Grace \in 0 .. Grace
  /\ RetryTicks \in 0 .. RetryTicks /\ 0 \in 0 .. RetryTicks /\ RetryTicks > 0
  /\ RetryTicks \in Nat
  BY DaemonAssumption, LinksAssumption DEF Age

\* An age keeps its type as it grows.
LEMMA Ages ==
  ASSUME NEW age \in Age, NEW elapsed \in 0 .. 1
  PROVE  Older(age, elapsed) \in Age /\ Quieter(age, elapsed) \in Age
  BY Times DEF Older, Quieter, Age

\* A timer counts down to 0 and no further.
LEMMA Lefts ==
  ASSUME NEW n \in Nat, NEW time \in 0 .. n, NEW elapsed \in 0 .. 1
  PROVE  Left(time, elapsed) \in 0 .. n
  BY DEF Left

-----------------------------------------------------------------------------
(* The pingers' operations.                                                 *)

\* pingers_close leaves no pinger open.
LEMMA Closed ==
  ASSUME NEW p \in PingersType
  PROVE  LET c == pingers_close(p)
         IN  /\ c \in PingersType /\ ~c.open
  <1> DEFINE c == pingers_close(p)
             stopping == p.stopping \/ (ChildPingers /\ p.open)
  <1>1. stopping \in BOOLEAN /\ FALSE \in BOOLEAN
    OBVIOUS
  <1>2. c = [p EXCEPT !.open = FALSE, !.stopping = stopping]
    BY DEF pingers_close
  <1> HIDE DEF c, stopping
  <1> QED
    BY <1>1, <1>2 DEF PingersType, c

\* Once watched, a session that may be open is open or on its way.
LEMMA Watched ==
  ASSUME NEW p \in PingersType, NEW links, NEW opens \in BOOLEAN,
         p.open => ~p.stopping
  PROVE  LET w == pingers_watch(p, links, opens)
         IN  /\ w \in PingersType
             /\ w.open => ~w.stopping /\ (p.open \/ links_ready(links))
             /\ links_ready(links) /\ ~w.open => w.stopping \/ w.retry > 0
  <1> DEFINE w == pingers_watch(p, links, opens)
             opened == [p EXCEPT !.open = TRUE, !.restart_age = 0]
             failed == [p EXCEPT !.retry = RetryTicks]
  <1>1. w = IF ~may_open(p, links) THEN p ELSE IF opens THEN opened ELSE failed
    BY DEF pingers_watch
  <1> HIDE DEF w
  <1>2. /\ opened \in PingersType /\ opened.open /\ opened.stopping = p.stopping
    BY Times DEF PingersType
  <1>3. /\ failed \in PingersType /\ failed.open = p.open
        /\ failed.stopping = p.stopping /\ failed.retry > 0
    BY Times DEF PingersType
  <1> HIDE DEF opened, failed
  <1>4. p.retry \in 0 .. RetryTicks
    BY DEF PingersType
  <1> QED
    BY <1>1, <1>2, <1>3, <1>4, Times DEF may_open, w

\* In a state in which probing is due, a watched session fits.
LEMMA WatchedFits ==
  ASSUME NEW p \in PingersType, NEW links, NEW opens \in BOOLEAN, NEW state,
         Apart(p, state), p.open => links_ready(links), state # "IDLE"
  PROVE  Fits(pingers_watch(p, links, opens), links, state)
  <1>1. p.open => ~p.stopping
    BY DEF Apart
  <1> DEFINE w == pingers_watch(p, links, opens)
  <1>2. /\ w.open => ~w.stopping /\ (p.open \/ links_ready(links))
        /\ links_ready(links) /\ ~w.open => w.stopping \/ w.retry > 0
    BY <1>1, Watched
  <1> HIDE DEF w
  <1>3. Fits(w, links, state)
    BY <1>2 DEF Fits
  <1> QED
    BY <1>3 DEF w

\* Time passing ages the pingers and opens or closes none.
LEMMA AgedPingers ==
  ASSUME NEW p \in PingersType, NEW elapsed \in 0 .. 1
  PROVE  LET q == Aged(p, elapsed)
         IN  /\ q \in PingersType /\ q.open = p.open /\ q.stopping = p.stopping
  <1> DEFINE q == Aged(p, elapsed)
             response == Older(p.response_age, elapsed)
             restart == Older(p.restart_age, elapsed)
             grace == Left(p.grace, elapsed)
             retry == Left(p.retry, elapsed)
  <1>1. /\ p.response_age \in Age /\ p.restart_age \in Age
        /\ p.grace \in 0 .. Grace /\ p.retry \in 0 .. RetryTicks
    BY DEF PingersType
  <1>2. /\ response \in Age /\ restart \in Age
        /\ grace \in 0 .. Grace /\ retry \in 0 .. RetryTicks
    BY <1>1, Ages, Lefts, Times
  <1>3. q = [p EXCEPT !.response_age = response, !.restart_age = restart,
                      !.grace = grace, !.retry = retry]
    BY DEF Aged
  <1> HIDE DEF q, response, restart, grace, retry
  <1> QED
    BY <1>2, <1>3 DEF PingersType, q

\* The grace period opens and closes nothing.
LEMMA Graced ==
  ASSUME NEW p \in PingersType
  PROVE  LET g == grant_grace(p)
         IN  /\ g \in PingersType /\ g.open = p.open /\ g.stopping = p.stopping
  BY Times DEF grant_grace, PingersType

\* pingers_unsuspend grants the grace period to suspended pingers only.
LEMMA Unsuspended ==
  ASSUME NEW p \in PingersType
  PROVE  LET u == pingers_unsuspend(p)
         IN  /\ u \in PingersType /\ u.open = p.open /\ u.stopping = p.stopping
  <1> DEFINE g == grant_grace(p)
             f == [g EXCEPT !.suspended = FALSE]
  <1>1. g \in PingersType /\ g.open = p.open /\ g.stopping = p.stopping
    BY Graced
  <1> HIDE DEF g
  <1>2. /\ f \in PingersType /\ f.open = g.open /\ f.stopping = g.stopping
    BY <1>1 DEF PingersType
  <1>3. pingers_unsuspend(p) = IF p.suspended THEN f ELSE p
    BY DEF pingers_unsuspend, g
  <1> HIDE DEF f
  <1> QED
    BY <1>1, <1>2, <1>3

\* pingers_suspend leaves no pinger open.
LEMMA Suspended ==
  ASSUME NEW p \in PingersType
  PROVE  LET s == pingers_suspend(p)
         IN  s \in PingersType /\ ~s.open
  <1> DEFINE c == pingers_close(p)
             k == close_for_cake(p)
             s == pingers_suspend(p)
  <1>1. c \in PingersType /\ ~c.open
    BY Closed
  <1>2. k = [c EXCEPT !.ungraced = TRUE] /\ s = [k EXCEPT !.suspended = TRUE]
    BY DEF close_for_cake, pingers_suspend
  <1> HIDE DEF c, k, s
  <1>3. k \in PingersType /\ ~k.open
    BY <1>1, <1>2 DEF PingersType
  <1>4. s \in PingersType /\ ~s.open
    BY <1>2, <1>3 DEF PingersType
  <1> QED
    BY <1>4 DEF s

\* Losing CAKE closes the pingers and suspends none.
LEMMA ClosedForCake ==
  ASSUME NEW p \in PingersType
  PROVE  LET k == close_for_cake(p)
         IN  /\ k \in PingersType /\ ~k.open
  <1> DEFINE c == pingers_close(p)
             k == close_for_cake(p)
  <1>1. /\ c \in PingersType /\ ~c.open
    BY Closed
  <1>2. k = [c EXCEPT !.ungraced = TRUE]
    BY DEF close_for_cake
  <1> HIDE DEF c, k
  <1>3. /\ k \in PingersType /\ ~k.open
    BY <1>1, <1>2 DEF PingersType
  <1> QED
    BY <1>3 DEF k

\* pingers_resume grants the grace period whether the pingers open or not.
LEMMA Resumed ==
  ASSUME NEW p \in PingersType, NEW links, NEW opens \in BOOLEAN,
         p.open => ~p.stopping, links_ready(links)
  PROVE  LET w == pingers_resume(p, links, opens)
         IN  w \in PingersType /\ (w.open => ~w.stopping)
  <1> DEFINE g == grant_grace(p)
             f == [g EXCEPT !.retry = 0]
  <1>1. g \in PingersType /\ g.open = p.open /\ g.stopping = p.stopping
    BY Graced
  <1> HIDE DEF g
  <1>2. /\ f \in PingersType /\ f.open = g.open /\ f.stopping = g.stopping
    BY <1>1, Times DEF PingersType
  <1>3. pingers_resume(p, links, opens) = pingers_watch(f, links, opens)
    BY DEF pingers_resume, g
  <1> HIDE DEF f
  <1> QED
    BY <1>1, <1>2, <1>3, Watched

\* pingers_reopen opens pingers only on ready links, and on ready links leaves them
\* open, stopping or with a retry due.
LEMMA Reopened ==
  ASSUME NEW p \in PingersType, NEW links, NEW opens \in BOOLEAN
  PROVE  LET w == pingers_reopen(p, links, opens)
         IN  /\ w \in PingersType
             /\ w.open => ~w.stopping /\ links_ready(links)
             /\ links_ready(links) /\ ~w.open => w.stopping \/ w.retry > 0
  <1> DEFINE c == pingers_close(p)
             f == [c EXCEPT !.retry = 0]
  <1>1. /\ c \in PingersType /\ ~c.open
    BY Closed
  <1> HIDE DEF c
  <1>2. /\ f \in PingersType /\ ~f.open
    BY <1>1, Times DEF PingersType
  <1>3. pingers_reopen(p, links, opens) = pingers_watch(f, links, opens)
    BY DEF pingers_reopen, c
  <1> HIDE DEF f
  <1> QED
    BY <1>2, <1>3, Watched

\* pingers_restart opens no pingers that still have a child to reap.
LEMMA Restarted ==
  ASSUME NEW p \in PingersType, NEW links, NEW opens \in BOOLEAN
  PROVE  LET w == pingers_restart(p, links, opens)
         IN  w \in PingersType /\ (w.open => ~w.stopping)
  <1> DEFINE f == [p EXCEPT !.restart_age = 0]
  <1>1. f \in PingersType
    BY Times DEF PingersType
  <1>2. pingers_restart(p, links, opens) = pingers_reopen(f, links, opens)
    BY DEF pingers_restart
  <1> HIDE DEF f
  <1> QED
    BY <1>1, <1>2, Reopened

-----------------------------------------------------------------------------
(* The minimum rates.                                                       *)

\* What touches a direction moves it from one account to the other.
LEMMA TouchedIs ==
  ASSUME NEW m \in MinimumType, NEW directions \in SUBSET Direction
  PROVE  LET t == Touched(m, directions)
         IN  /\ t \in MinimumType /\ t.silent = m.silent
             /\ Accounted(m) \subseteq Accounted(t)
  BY DEF Touched, MinimumType, Accounted

\* Over two CAKEs that have been read, setting the minimum accounts for every
\* adjusted direction: it is held, or has refused.
LEMMA MinimumSet ==
  ASSUME NEW m \in MinimumType, NEW links, NEW failure,
         \A d \in Direction : links[d].cake_valid
  PROVE  LET s == shaper_enforce_minimum(m, links, failure)
         IN  s \in MinimumType /\ Adjusted \subseteq Accounted(s)
  <1> DEFINE asked == {d \in Adjusted : links[d].cake_valid}
             failed == {d \in asked : failure = WriteFailure(d)}
             s == shaper_enforce_minimum(m, links, failure)
  <1>1. asked = Adjusted /\ failed \subseteq asked /\ Adjusted \subseteq Direction
    BY Times
  <1>2. s = [m EXCEPT !.held = (@ \cup asked) \ failed,
                      !.touched = (@ \ asked) \cup failed]
    BY DEF shaper_enforce_minimum
  <1> HIDE DEF asked, failed, s
  <1>3. s \in MinimumType /\ Adjusted \subseteq Accounted(s)
    BY <1>1, <1>2 DEF MinimumType, Accounted
  <1> QED
    BY <1>3 DEF s

\* A cycle keeps what is held, and what is touched as long as the link sleeps or is
\* past the timeout.
LEMMA JudgedIs ==
  ASSUME NEW m \in MinimumType, NEW age \in Age, NEW state
  PROVE  LET j == Judged(m, age, state)
         IN  /\ j \in MinimumType
             /\ j.silent => age >= GlobalTimeout
             /\ age >= GlobalTimeout \/ state = "IDLE" => Accounted(j) = Accounted(m)
  <1> DEFINE silent == (age >= GlobalTimeout)
             touched == IF age < GlobalTimeout /\ state # "IDLE" THEN {} ELSE m.touched
             j == Judged(m, age, state)
  <1>1. /\ silent \in BOOLEAN /\ touched \in SUBSET Direction
        /\ age >= GlobalTimeout \/ state = "IDLE" => touched = m.touched
    BY Times DEF MinimumType
  <1>2. j = [m EXCEPT !.silent = silent, !.touched = touched]
    BY DEF Judged
  <1>3. /\ j \in MinimumType /\ j.silent = silent /\ j.touched = touched
        /\ j.held = m.held
    <2> HIDE DEF silent, touched, j
    <2> QED
      BY <1>1, <1>2 DEF MinimumType
  <1> HIDE DEF j, touched
  <1> QED
    BY <1>1, <1>3 DEF Accounted, j

-----------------------------------------------------------------------------
(* The activity and the tick.                                               *)

\* A response timeout is looked at only where probing is due, and where a stall
\* is as long as the timeout it has been looked at.
LEMMA ActivityUpdated ==
  ASSUME NEW a \in ActivityType, NEW p \in PingersType, NEW rates
  PROVE  LET b == NextActivity(a, p, rates)
         IN  /\ b.state \in {"RUNNING", "IDLE", "STALL"}
             /\ b.idle \in {NOT_TIMED} \cup Age /\ b \in ActivityType
             /\ TimedOut(a, p) => b.state # "IDLE"
             /\ b.state = "STALL" /\ p.response_age >= GlobalTimeout => TimedOut(a, p)
  <1> DEFINE b == NextActivity(a, p, rates)
             busy == ~EnableSleep \/ ~both_valid(rates) \/ either_above_active(rates)
             unquiet == [a EXCEPT !.idle = NOT_TIMED]
             quiet == [a EXCEPT !.idle = 0]
             asleep == [a EXCEPT !.state = "IDLE", !.idle = NOT_TIMED]
             moved(state) == [a EXCEPT !.state = state]
  <1>0. /\ p.grace \in Nat /\ p.response_age \in Nat
        /\ a.state \in {"RUNNING", "IDLE", "STALL"}
    <2>1. p.grace \in 0 .. Grace /\ p.response_age \in Age
      BY DEF PingersType
    <2>2. a.state \in {"RUNNING", "IDLE", "STALL"}
      BY DEF ActivityType
    <2>3. Grace \in Nat /\ Age \subseteq Nat
      BY Times
    <2>4. p.grace \in Nat
      BY <2>1, <2>3
    <2> QED
      BY <2>1, <2>2, <2>3, <2>4
  <1>1. /\ unquiet \in ActivityType /\ unquiet.state = a.state
        /\ quiet \in ActivityType /\ quiet.state = a.state
        /\ asleep \in ActivityType /\ asleep.state = "IDLE"
    BY Times DEF ActivityType
  <1>2. \A state \in {"RUNNING", "IDLE", "STALL"} :
          moved(state) \in ActivityType /\ moved(state).state = state
    BY DEF ActivityType
  <1>3. CASE a.state = "RUNNING" /\ p.grace > 0
    <2>1. b = a /\ ~TimedOut(a, p)
      BY <1>3, <1>0 DEF NextActivity, TimedOut
    <2> QED
      BY <2>1, <1>3 DEF ActivityType
  <1>4. CASE a.state = "RUNNING" /\ p.grace = 0 /\ p.response_age > StallTimeout
    <2> DEFINE state == IF both_above_stall(rates) THEN a.state ELSE "STALL"
               stalled == [a EXCEPT !.idle = NOT_TIMED, !.state = state]
    <2>1. b = stalled
      <3>1. ~(p.grace > 0) /\ ~(p.response_age <= StallTimeout)
        BY <1>4, <1>0, Times
      <3>2. b = [a EXCEPT !.idle = NOT_TIMED,
                          !.state = IF both_above_stall(rates) THEN @ ELSE "STALL"]
        BY <1>4, <3>1 DEF NextActivity
      <3> QED
        BY <3>2
    <2>2. state \in {"RUNNING", "STALL"}
      BY <1>4
    <2> HIDE DEF state, b
    <2>3. stalled \in ActivityType /\ stalled.state = state
      BY <2>2, Times DEF ActivityType
    <2>4. p.response_age >= GlobalTimeout => TimedOut(a, p)
      BY <1>4 DEF TimedOut
    <2>5. b \in ActivityType /\ b.state \in {"RUNNING", "STALL"}
      BY <2>1, <2>2, <2>3
    <2>6. b.idle \in {NOT_TIMED} \cup Age
      BY <2>5 DEF ActivityType
    <2> QED
      BY <2>4, <2>5, <2>6 DEF b
  <1>5. CASE a.state = "RUNNING" /\ p.grace = 0 /\ p.response_age <= StallTimeout
    <2>1. ~TimedOut(a, p)
      BY <1>5, <1>0, Times DEF TimedOut
    <2>2. b = IF busy THEN unquiet
              ELSE IF a.idle = NOT_TIMED THEN quiet
              ELSE IF a.idle > SustainedIdle THEN asleep ELSE a
      BY <1>5, <1>0, Times DEF NextActivity
    <2> HIDE DEF b, busy, unquiet, quiet, asleep
    <2>3. b \in ActivityType /\ b.state \in {"RUNNING", "IDLE"}
      BY <1>1, <1>5, <2>2
    <2>4. b.idle \in {NOT_TIMED} \cup Age
      BY <2>3 DEF ActivityType
    <2> QED
      BY <2>1, <2>3, <2>4 DEF b
  <1>6. CASE a.state = "IDLE"
    <2> DEFINE state == IF either_above_active(rates) THEN "RUNNING" ELSE a.state
    <2>1. b = moved(state) /\ ~TimedOut(a, p)
      BY <1>6 DEF NextActivity, TimedOut
    <2>2. state \in {"RUNNING", "IDLE"}
      BY <1>6
    <2> HIDE DEF state, b, moved
    <2>3. b \in ActivityType /\ b.state \in {"RUNNING", "IDLE"}
      BY <1>2, <2>1, <2>2
    <2>4. b.idle \in {NOT_TIMED} \cup Age
      BY <2>3 DEF ActivityType
    <2> QED
      BY <2>1, <2>3, <2>4 DEF b
  <1>7. CASE a.state = "STALL"
    <2> DEFINE state == IF p.response_age <= StallTimeout \/ both_above_stall(rates)
                        THEN "RUNNING" ELSE a.state
    <2>1. b = moved(state)
      BY <1>7 DEF NextActivity
    <2>2. state \in {"RUNNING", "STALL"}
      BY <1>7
    <2> HIDE DEF state, b, moved
    <2>3. b \in ActivityType /\ b.state \in {"RUNNING", "STALL"}
      BY <1>2, <2>1, <2>2
    <2>4. b.idle \in {NOT_TIMED} \cup Age
      BY <2>3 DEF ActivityType
    <2>5. p.response_age >= GlobalTimeout => TimedOut(a, p)
      BY <1>7 DEF TimedOut
    <2> QED
      BY <2>3, <2>4, <2>5 DEF b
  <1>8. \/ p.grace > 0
        \/ p.grace = 0 /\ p.response_age > StallTimeout
        \/ p.grace = 0 /\ p.response_age <= StallTimeout
    BY <1>0, Times
  <1> QED
    BY <1>0, <1>3, <1>4, <1>5, <1>6, <1>7, <1>8

\* What controller_activity_update decides: when it reports, when it starts the
\* global timeout and when it restarts the pingers.
LEMMA OutputOf ==
  ASSUME NEW a \in ActivityType, NEW p \in PingersType, NEW rates
  PROVE  LET output == controller_activity_update(a, p, rates)
         IN  /\ output.activity \in ActivityType
             /\ output.activity.reported => Reported(a, p) \/ TimedOut(a, p)
             /\ TimedOut(a, p) => output.activity.state # "IDLE" /\ output.activity.reported
             /\ TimedOut(a, p) /\ ~Reported(a, p) => output.global_timeout_started
             /\ output.restart_pingers => TimedOut(a, p)
             /\ output.activity.state = "STALL" /\ p.response_age >= GlobalTimeout
                  => TimedOut(a, p)
  <1> DEFINE b == NextActivity(a, p, rates)
             reported == Reported(a, p) \/ TimedOut(a, p)
             started == TimedOut(a, p) /\ ~Reported(a, p)
             restart == TimedOut(a, p) /\ p.restart_age >= GlobalTimeout
             c == [b EXCEPT !.reported = reported]
             output == controller_activity_update(a, p, rates)
  <1>1. /\ b \in ActivityType
        /\ TimedOut(a, p) => b.state # "IDLE"
        /\ b.state = "STALL" /\ p.response_age >= GlobalTimeout => TimedOut(a, p)
    BY ActivityUpdated
  <1>2. output = [activity |-> c, global_timeout_started |-> started,
                  restart_pingers |-> restart]
    BY DEF controller_activity_update
  <1>3. reported \in BOOLEAN
    OBVIOUS
  <1> HIDE DEF b, output, reported
  <1>4. c \in ActivityType /\ c.state = b.state /\ c.reported = reported
    BY <1>1, <1>3 DEF ActivityType
  <1> HIDE DEF c
  <1>5. /\ output.activity = c
        /\ output.global_timeout_started <=> started
        /\ output.restart_pingers <=> restart
    BY <1>2
  <1> QED
    BY <1>1, <1>4, <1>5 DEF output, reported

\* The pingers after an update: a session that fits the links that are ready and
\* the new activity.
LEMMA UpdatedFits ==
  ASSUME NEW a \in ActivityType, NEW p \in PingersType, NEW rates,
         NEW links, links_ready(links), NEW opens \in BOOLEAN, Apart(p, a.state)
  PROVE  LET output == controller_activity_update(a, p, rates)
             w == UpdatedPingers(a, p, output, links, opens)
         IN  /\ w \in PingersType /\ Fits(w, links, output.activity.state)
  <1> DEFINE output == controller_activity_update(a, p, rates)
             state == output.activity.state
             closed == pingers_close(p)
             resumed == pingers_resume(p, links, opens)
             changed == CASE a.state # "IDLE" /\ state = "IDLE" -> closed
                          [] a.state = "IDLE" /\ state # "IDLE" -> resumed
                          [] OTHER -> p
             again == pingers_restart(changed, links, opens)
             restarted == IF output.restart_pingers THEN again ELSE changed
             watched == pingers_watch(restarted, links, opens)
             w == UpdatedPingers(a, p, output, links, opens)
  <1>1. output.restart_pingers => state # "IDLE"
    BY OutputOf
  <1>2. w = IF state = "IDLE" THEN restarted ELSE watched
    BY DEF UpdatedPingers
  <1> HIDE DEF output, state, w
  <1>3. /\ changed \in PingersType
        /\ changed.open => ~changed.stopping /\ state # "IDLE"
    <2>1. closed \in PingersType /\ ~closed.open
      BY Closed
    <2>2. /\ resumed \in PingersType /\ (resumed.open => ~resumed.stopping)
      BY Resumed DEF Apart
    <2> HIDE DEF closed, resumed
    <2>3. CASE a.state # "IDLE" /\ state = "IDLE"
      <3>1. changed = closed
        BY <2>3
      <3> QED
        BY <3>1, <2>1
    <2>4. CASE a.state = "IDLE" /\ state # "IDLE"
      <3>1. changed = resumed
        BY <2>4
      <3> QED
        BY <3>1, <2>2, <2>4
    <2>5. CASE (a.state = "IDLE") <=> (state = "IDLE")
      <3>1. changed = p
        BY <2>5
      <3> QED
        BY <3>1, <2>5 DEF Apart
    <2> QED
      BY <2>3, <2>4, <2>5
  <1> HIDE DEF changed
  <1>4. /\ again \in PingersType /\ (again.open => ~again.stopping)
    BY <1>3, Restarted
  <1> HIDE DEF again
  <1>5. /\ restarted \in PingersType
        /\ restarted.open => ~restarted.stopping /\ state # "IDLE"
    BY <1>1, <1>3, <1>4
  <1> HIDE DEF restarted
  <1>6. state # "IDLE" =>
          /\ watched \in PingersType
          /\ Fits(watched, links, state)
    BY <1>5, Watched, WatchedFits DEF Apart
  <1> HIDE DEF watched
  <1>7. state = "IDLE" => Fits(restarted, links, state)
    BY <1>5 DEF Fits
  <1> QED
    BY <1>2, <1>3, <1>5, <1>6, <1>7 DEF w, state, output

\* A traffic cycle leaves a session that fits, and the minimum rates in force.
LEMMA TickKeeps ==
  ASSUME DaemonInv, NEW links, NEW p \in PingersType, NEW elapsed \in 0 .. 1,
         NEW rates, NEW failure, Apart(p, activity.state),
         links_ready(links) => \A d \in Direction : links[d].cake_valid,
         daemon_tick(links, p, elapsed, rates, failure)
  PROVE  DaemonTypeOK' /\ Fits(pingers', links, activity'.state) /\ InForce'
  <1> DEFINE q == Aged(p, elapsed)
             idle == IF activity.idle = NOT_TIMED THEN activity.idle
                     ELSE Quieter(activity.idle, elapsed)
             a == [activity EXCEPT !.idle = idle]
             u == pingers_unsuspend(q)
             output == controller_activity_update(a, u, rates)
             enforced == /\ Enforce
                         /\ \/ output.global_timeout_started
                            \/ a.state # "IDLE" /\ output.activity.state = "IDLE"
             rated == IF enforced THEN shaper_enforce_minimum(minimum, links, failure)
                      ELSE minimum
             judged == Judged(rated, u.response_age, output.activity.state)
  <1>0. /\ activity \in ActivityType /\ pingers \in PingersType
        /\ minimum \in MinimumType /\ ready_for \in Age /\ InForce
    BY DEF DaemonInv, DaemonTypeOK, ActivityType, PingersType, MinimumType
  <1>1. /\ links_ready(links) =>
             /\ activity' = output.activity
             /\ pingers' = UpdatedPingers(a, u, output, links, Opens(failure))
             /\ minimum' = judged
             /\ ready_for' = Quieter(ready_for, elapsed)
        /\ ~links_ready(links) =>
             /\ activity' = a /\ pingers' = pingers_suspend(q)
             /\ ready_for' = 0 /\ minimum' = minimum
    BY DEF daemon_tick
  <1>2. /\ a \in ActivityType /\ a.state = activity.state
        /\ a.reported = activity.reported
    <2>1. idle \in {NOT_TIMED} \cup Age
      BY <1>0, Ages DEF ActivityType
    <2> HIDE DEF idle
    <2> QED
      BY <1>0, <2>1 DEF ActivityType
  <1>3. q \in PingersType /\ q.open = p.open /\ q.stopping = p.stopping
    BY AgedPingers
  <1> HIDE DEF a, q
  <1>4. u \in PingersType /\ u.open = q.open /\ u.stopping = q.stopping
    BY <1>3, Unsuspended
  <1> HIDE DEF u
  <1>5. CASE ~links_ready(links)
    <2>1. /\ activity' = a /\ pingers' = pingers_suspend(q)
          /\ ready_for' = 0 /\ minimum' = minimum
      BY <1>1, <1>5
    <2>2. pingers' \in PingersType /\ ~pingers'.open
      BY <2>1, <1>3, Suspended
    <2>3. DaemonTypeOK'
      BY <1>0, <1>2, <2>1, <2>2, Times DEF DaemonTypeOK, ActivityType, PingersType,
                                           MinimumType
    <2>4. Fits(pingers', links, activity'.state)
      BY <1>5, <2>2 DEF Fits
    <2>5. InForce'
      BY <1>0, <1>2, <2>1 DEF InForce
    <2> QED
      BY <2>3, <2>4, <2>5
  <1>6. CASE links_ready(links)
    <2>1. /\ activity' = output.activity
          /\ pingers' = UpdatedPingers(a, u, output, links, Opens(failure))
          /\ minimum' = judged
          /\ ready_for' = Quieter(ready_for, elapsed)
      BY <1>1, <1>6
    <2>2. output.activity \in ActivityType
      BY <1>2, <1>4, OutputOf
    <2>3. pingers' \in PingersType /\ Fits(pingers', links, output.activity.state)
      <3>1. Apart(u, a.state)
        BY <1>2, <1>3, <1>4 DEF Apart
      <3>2. Opens(failure) \in BOOLEAN
        BY DEF Opens
      <3> QED
        BY <1>2, <1>4, <1>6, <2>1, <3>1, <3>2, UpdatedFits
    <2>4. /\ rated \in MinimumType
          /\ enforced => Adjusted \subseteq Accounted(rated)
      <3>1. LET s == shaper_enforce_minimum(minimum, links, failure)
            IN  s \in MinimumType /\ Adjusted \subseteq Accounted(s)
        BY <1>0, <1>6, MinimumSet
      <3> HIDE DEF enforced
      <3> QED
        BY <1>0, <3>1
    <2>5. u.response_age \in Age
      BY <1>4 DEF PingersType
    <2> HIDE DEF enforced, rated
    <2>6. /\ judged \in MinimumType
          /\ judged.silent => u.response_age >= GlobalTimeout
          /\ u.response_age >= GlobalTimeout \/ output.activity.state = "IDLE"
               => Accounted(judged) = Accounted(rated)
      <3> HIDE DEF output
      <3> QED
        BY <2>4, <2>5, JudgedIs
    <2>7. Enforce =>
            (output.activity.reported \/ output.activity.state = "IDLE"
               \/ (output.activity.state = "STALL" /\ judged.silent)
             => Adjusted \subseteq Accounted(judged))
      <3> DEFINE timed_out == TimedOut(a, u)
                 told == Reported(a, u)
                 asleep == output.activity.state = "IDLE"
      <3>1. /\ output.activity.reported => told \/ timed_out
            /\ timed_out /\ ~told => output.global_timeout_started
            /\ output.activity.state = "STALL" /\ u.response_age >= GlobalTimeout
                 => timed_out
        BY <1>2, <1>4, OutputOf
      <3>2. /\ told => activity.reported /\ u.response_age >= GlobalTimeout
            /\ timed_out => u.response_age >= GlobalTimeout
        BY <1>2 DEF Reported, TimedOut
      <3> HIDE DEF timed_out, told
      <3>3. Enforce /\ ~enforced =>
              /\ rated = minimum /\ ~output.global_timeout_started
              /\ asleep => activity.state = "IDLE"
        BY <1>2 DEF enforced, rated
      <3> HIDE DEF output, judged
      <3>4. Enforce /\ (told \/ timed_out \/ asleep) => Adjusted \subseteq Accounted(rated)
        <4>1. CASE enforced
          BY <4>1, <2>4
        <4>2. CASE ~enforced
          BY <4>2, <3>1, <3>2, <3>3, <1>0 DEF InForce
        <4> QED
          BY <4>1, <4>2
      <3> QED
        BY <2>6, <3>1, <3>2, <3>4
    <2> HIDE DEF output, judged
    <2>8. DaemonTypeOK'
      <3>1. ready_for' \in Age
        BY <1>0, <2>1, Ages
      <3> QED
        BY <2>1, <2>2, <2>3, <2>6, <3>1 DEF DaemonTypeOK, ActivityType, PingersType,
                                            MinimumType
    <2>9. InForce'
      BY <2>1, <2>7 DEF InForce
    <2> QED
      BY <2>1, <2>3, <2>8, <2>9
  <1> QED
    BY <1>5, <1>6

-----------------------------------------------------------------------------
(* The handlers.                                                            *)

\* What DaemonInv gives the other lemmas, part by part.
LEMMA InvParts ==
  ASSUME DaemonInv
  PROVE  /\ LinksInv /\ activity \in ActivityType /\ pingers \in PingersType
         /\ minimum \in MinimumType /\ ready_for \in Age
         /\ phase = "RUNNING" => Fits(pingers, link, activity.state)
         /\ phase = "RUNNING" => Apart(pingers, activity.state)
         /\ phase = "SUBSCRIBED" =>
              pingers = INITIAL_PINGERS /\ activity = INITIAL_ACTIVITY
         /\ InForce
         /\ pingers.response_age \in Nat
  <1>1. pingers \in PingersType
    BY DEF DaemonInv, DaemonTypeOK, PingersType
  <1>2. pingers.response_age \in Nat
    BY <1>1, Times DEF PingersType
  <1>3. phase = "RUNNING" =>
          Fits(pingers, link, activity.state) /\ Apart(pingers, activity.state)
    BY DEF DaemonInv, ProbesOnlyOverCake, SessionExpected, Running, Ready, Fits, Apart
  <1> QED
    BY <1>1, <1>2, <1>3 DEF DaemonInv, DaemonTypeOK, ActivityType, MinimumType

\* The invariant after a step, from its parts.
LEMMA InvAfter ==
  ASSUME LinksInv', DaemonTypeOK',
         phase' = "RUNNING" => Fits(pingers', link', activity'.state),
         phase' # "SUBSCRIBED", InForce'
  PROVE  DaemonInv'
  <1>1. ProbesOnlyOverCake' /\ SessionExpected'
    BY DEF ProbesOnlyOverCake, SessionExpected, Running, Ready, Fits
  <1> QED
    BY <1>1 DEF DaemonInv

\* Links that are ready after a handler have both been read in it.
LEMMA ReadyIsRead ==
  ASSUME LinksInv', phase' = "RUNNING"
  PROVE  links_ready(link') => \A d \in Direction : link'[d].cake_valid
  BY DEF LinksInv, AvailableArePolled, Polled, DiscoveryDone, links_ready

\* A handler that leaves the links, the activity and the rates alone.
LEMMA SessionStep ==
  ASSUME DaemonInv, phase = "RUNNING",
         UNCHANGED <<kernel, last_index, events, overrun, phase, link>>,
         Disturb \/ UNCHANGED disturbances,
         UNCHANGED <<activity, minimum, ready_for>>,
         pingers' \in PingersType, Fits(pingers', link, activity.state)
  PROVE  DaemonInv'
  <1>1. LinksInv'
    BY InvParts, LinksUnmoved
  <1>2. DaemonTypeOK'
    BY DEF DaemonInv, DaemonTypeOK, PingersType
  <1>3. InForce'
    BY DEF DaemonInv, InForce
  <1> QED
    BY <1>1, <1>2, <1>3, InvAfter

\* A change in the kernel alone keeps the invariant of the session.
LEMMA KernelChanges ==
  ASSUME DaemonInv, NEW d \in Direction, KernelActs(d)
  PROVE  DaemonInv'
  <1>1. /\ Kernel /\ UNCHANGED <<activity, pingers, ready_for>>
        /\ minimum' = Touched(minimum, {d}) \/ minimum' = minimum
    BY DEF KernelActs, Kernel
  <1>2. UNCHANGED <<phase, link>>
    BY DEF KernelActs, KernelOf, AddInterface, RemoveInterface, AddCake, RemoveCake,
           ChangeCake
  <1>3. LinksInv'
    BY <1>1, InvParts, KernelStep
  <1>4. /\ minimum' \in MinimumType /\ minimum'.silent = minimum.silent
        /\ Accounted(minimum) \subseteq Accounted(minimum')
    BY <1>1, InvParts, TouchedIs
  <1>5. DaemonTypeOK'
    BY <1>1, <1>4 DEF DaemonInv, DaemonTypeOK, MinimumType
  <1>6. InForce'
    BY <1>1, <1>4, InvParts DEF InForce
  <1> QED
    BY <1>1, <1>2, <1>3, <1>5, <1>6 DEF DaemonInv, ProbesOnlyOverCake, SessionExpected,
                                        Running, Ready

\* The session a daemon starts with.
LEMMA InitialSession ==
  /\ INITIAL_PINGERS \in PingersType /\ INITIAL_ACTIVITY \in ActivityType
  /\ ~INITIAL_PINGERS.open /\ INITIAL_ACTIVITY.state = "RUNNING"
  /\ ~INITIAL_ACTIVITY.reported /\ INITIAL_MINIMUM \in MinimumType
  BY Times DEF INITIAL_PINGERS, INITIAL_ACTIVITY, INITIAL_MINIMUM, PingersType,
               ActivityType, MinimumType

\* The start of the daemon keeps the invariant.
LEMMA StartStep ==
  ASSUME DaemonInv, Start
  PROVE  DaemonInv'
  <1>1. /\ Subscribe /\ phase' = "SUBSCRIBED"
        /\ activity' = INITIAL_ACTIVITY /\ pingers' = INITIAL_PINGERS
        /\ minimum' = INITIAL_MINIMUM /\ ready_for' = 0
    BY DEF Start, Subscribe
  <1>2. LinksInv'
    BY <1>1, InvParts, SubscribeStep
  <1>3. DaemonTypeOK'
    BY <1>1, InitialSession, Times DEF DaemonTypeOK, PingersType, ActivityType, MinimumType
  <1>4. ProbesOnlyOverCake' /\ SessionExpected' /\ InForce'
    BY <1>1, InitialSession DEF ProbesOnlyOverCake, SessionExpected, InForce, Running
  <1> QED
    BY <1>1, <1>2, <1>3, <1>4 DEF DaemonInv

\* Entering the event loop keeps the invariant.
LEMMA EnterLoopStep ==
  ASSUME DaemonInv, NEW failure, failure.dump \in BOOLEAN, EnterLoop(failure)
  PROVE  DaemonInv'
  <1>1. /\ FirstObserve(failure) /\ phase = "SUBSCRIBED" /\ phase' = "RUNNING"
        /\ pingers' = pingers_watch(pingers, link', Opens(failure))
        /\ UNCHANGED <<activity, minimum, ready_for>>
    BY DEF EnterLoop, FirstObserve
  <1>2. /\ pingers \in PingersType /\ ~pingers.open
        /\ activity.state = "RUNNING" /\ ~activity.reported
    BY <1>1, InvParts, InitialSession
  <1>3. Opens(failure) \in BOOLEAN
    BY DEF Opens
  <1>4. pingers' \in PingersType /\ Fits(pingers', link', activity.state)
    <2>1. Apart(pingers, activity.state)
      BY <1>2 DEF Apart
    <2> QED
      BY <1>1, <1>2, <1>3, <2>1, Watched, WatchedFits
  <1>5. LinksInv'
    BY <1>1, InvParts, ObserveStep
  <1>6. DaemonTypeOK'
    BY <1>1, <1>4 DEF DaemonInv, DaemonTypeOK, PingersType
  <1>7. InForce'
    BY <1>1, <1>2 DEF InForce
  <1> QED
    BY <1>1, <1>4, <1>5, <1>6, <1>7, InvAfter

\* The traffic timer keeps the invariant.
LEMMA TrafficTimerStep ==
  ASSUME DaemonInv, NEW failure, failure.dump \in BOOLEAN, HandleTrafficTimer(failure)
  PROVE  DaemonInv'
  <1>1. Tick(failure) /\ phase = "RUNNING" /\ phase' = "RUNNING"
    BY DEF HandleTrafficTimer, Tick
  <1>2. PICK rates \in RatesOf(link') :
          daemon_tick(link', pingers, 1, rates, failure)
    BY DEF HandleTrafficTimer
  <1>3. pingers \in PingersType /\ Apart(pingers, activity.state)
    BY <1>1, InvParts
  <1>4. LinksInv'
    BY <1>1, InvParts, ObserveStep
  <1>5. DaemonTypeOK' /\ Fits(pingers', link', activity'.state) /\ InForce'
    BY <1>1, <1>2, <1>3, <1>4, ReadyIsRead, TickKeeps
  <1> QED
    BY <1>1, <1>4, <1>5, InvAfter

\* A datagram without a traffic cycle brings no link back, and closes the session
\* exactly if it takes a link away.
LEMMA ReadyAfterEvent ==
  ASSUME DaemonInv, phase = "RUNNING", NEW event \in EventType, ~qdisc_refresh(event),
         link' = process_qdisc_event(event)
  PROVE  links_ready(link') <=> links_ready(link) /\ Suspends(event) = {}
  <1>1. /\ kernel \in [Direction -> Qdisc] /\ link \in [Direction -> LinkType]
        /\ AvailableArePolled
    BY InvParts, TypeParts DEF LinksInv
  <1>2. \A d \in Direction :
          (link'[d].state = "AVAILABLE") <=>
            link[d].state = "AVAILABLE" /\ ~Taken(link[d], kernel[d], event)
    <2> TAKE d \in Direction
    <2>1. link'[d] = Told(link[d], kernel[d], event)
      BY DEF process_qdisc_event, Told
    <2>2. ~Woken(link[d], kernel[d], event)
      BY DEF qdisc_refresh, Woken
    <2>3. link[d] \in LinkType /\ kernel[d] \in Qdisc /\ Polled(link[d])
      BY <1>1 DEF AvailableArePolled
    <2> QED
      BY <2>1, <2>2, <2>3, ToldLink
  <1>3. Suspends(event) = {} <=>
          \A d \in Direction : ~Taken(link[d], kernel[d], event)
    BY DEF Suspends, Taken
  <1> QED
    BY <1>2, <1>3 DEF links_ready

\* The handler of qdisc events keeps the invariant.
LEMMA QdiscEventsKeep ==
  ASSUME DaemonInv, NEW failure, failure.dump \in BOOLEAN, HandleQdiscEvents(failure)
  PROVE  DaemonInv'
  <1> DEFINE event == Head(events)
             p == IF Suspends(event) = {} THEN pingers ELSE close_for_cake(pingers)
  <1>1. /\ QdiscEvents(failure) /\ phase = "RUNNING" /\ phase' = "RUNNING"
        /\ events # <<>> /\ events' = Tail(events)
        /\ qdisc_refresh(event) \/ link' = process_qdisc_event(event)
    BY DEF HandleQdiscEvents, QdiscEvents
  <1>2. \/ /\ qdisc_refresh(event)
           /\ \E rates \in RatesOf(link') :
                daemon_tick(link', p, 0, rates, failure)
        \/ /\ ~qdisc_refresh(event)
           /\ pingers' = p /\ UNCHANGED <<activity, minimum, ready_for>>
    BY DEF HandleQdiscEvents
  <1>3. event \in EventType
    BY <1>1, InvParts, Received DEF LinksInv
  <1>4. /\ pingers \in PingersType /\ Fits(pingers, link, activity.state)
        /\ Apart(pingers, activity.state)
    BY <1>1, InvParts
  <1>5. /\ p \in PingersType
        /\ Suspends(event) = {} => p = pingers
        /\ Suspends(event) # {} => ~p.open
    <2>1. CASE Suspends(event) = {}
      BY <2>1, <1>4
    <2>2. CASE Suspends(event) # {}
      <3>1. p = close_for_cake(pingers)
        BY <2>2
      <3> QED
        BY <3>1, <2>2, <1>4, ClosedForCake
    <2> QED
      BY <2>1, <2>2
  <1>6. Apart(p, activity.state)
    BY <1>4, <1>5 DEF Apart
  <1> HIDE DEF event, p
  <1>7. LinksInv'
    BY <1>1, InvParts, QdiscEventsStep
  <1>8. CASE qdisc_refresh(event)
    <2>1. PICK rates \in RatesOf(link') : daemon_tick(link', p, 0, rates, failure)
      BY <1>2, <1>8
    <2>2. DaemonTypeOK' /\ Fits(pingers', link', activity'.state) /\ InForce'
      BY <1>1, <1>5, <1>6, <1>7, <2>1, ReadyIsRead, TickKeeps
    <2> QED
      BY <1>1, <1>7, <2>2, InvAfter
  <1>9. CASE ~qdisc_refresh(event)
    <2>1. /\ pingers' = p /\ UNCHANGED <<activity, minimum, ready_for>>
          /\ link' = process_qdisc_event(event)
      BY <1>1, <1>2, <1>9
    <2>2. links_ready(link') <=> links_ready(link) /\ Suspends(event) = {}
      BY <1>1, <1>3, <1>9, <2>1, ReadyAfterEvent
    <2>3. Fits(pingers', link', activity'.state)
      BY <1>4, <1>5, <2>1, <2>2 DEF Fits
    <2>4. DaemonTypeOK'
      BY <1>5, <2>1 DEF DaemonInv, DaemonTypeOK, PingersType
    <2>5. InForce'
      BY <2>1 DEF DaemonInv, InForce
    <2> QED
      BY <1>1, <1>7, <2>3, <2>4, <2>5, InvAfter
  <1> QED
    BY <1>8, <1>9

\* A response keeps the invariant.
LEMMA ResponseStep ==
  ASSUME DaemonInv, NEW age \in 0 .. MaxAge, Response(age)
  PROVE  DaemonInv'
  <1>1. /\ phase = "RUNNING"
        /\ pingers' = [pingers EXCEPT !.response_age = age]
        /\ minimum' = minimum \/ minimum' = Touched(minimum, Direction)
        /\ UNCHANGED <<vars, activity, ready_for>>
    BY DEF Response
  <1>2. /\ pingers \in PingersType /\ Fits(pingers, link, activity.state)
        /\ age \in Age
    BY <1>1, InvParts DEF Age
  <1>3. /\ pingers' \in PingersType /\ pingers'.open = pingers.open
        /\ pingers'.stopping = pingers.stopping /\ pingers'.retry = pingers.retry
    BY <1>1, <1>2 DEF PingersType
  <1>4. /\ minimum' \in MinimumType /\ minimum'.silent = minimum.silent
        /\ Accounted(minimum) \subseteq Accounted(minimum')
    BY <1>1, InvParts, TouchedIs
  <1>5. LinksInv'
    BY <1>1, InvParts, LinksUnmoved DEF vars
  <1>6. DaemonTypeOK'
    BY <1>1, <1>3, <1>4 DEF DaemonInv, DaemonTypeOK, PingersType, MinimumType
  <1>7. Fits(pingers', link', activity'.state)
    BY <1>1, <1>2, <1>3 DEF vars, Fits
  <1>8. InForce'
    BY <1>1, <1>4, InvParts DEF InForce
  <1>9. phase' = "RUNNING"
    BY <1>1 DEF vars
  <1> QED
    BY <1>5, <1>6, <1>7, <1>8, <1>9, InvAfter

\* What the steps of the pingers leave alone.
LEMMA ElsewhereIs ==
  ASSUME NEW opens, Elsewhere(opens)
  PROVE  /\ UNCHANGED <<kernel, last_index, events, overrun, phase, link>>
         /\ Disturb \/ UNCHANGED disturbances
         /\ UNCHANGED <<activity, minimum, ready_for>>
  BY DEF Elsewhere

\* The end of a child keeps the invariant.
LEMMA ChildExitedStep ==
  ASSUME DaemonInv, NEW opens \in BOOLEAN, ChildExited(opens)
  PROVE  DaemonInv'
  <1> DEFINE p == [pingers EXCEPT !.stopping = FALSE]
  <1>1. /\ phase = "RUNNING" /\ pingers.stopping /\ Elsewhere(opens)
        /\ pingers' = IF activity.state = "IDLE" THEN p
                      ELSE pingers_watch(p, link, opens)
    BY DEF ChildExited
  <1>2. /\ pingers \in PingersType /\ Fits(pingers, link, activity.state)
    BY <1>1, InvParts
  <1>3. /\ p \in PingersType /\ ~p.open
    <2>1. ~pingers.open
      BY <1>1, <1>2 DEF Fits
    <2> QED
      BY <1>2, <2>1 DEF PingersType
  <1> HIDE DEF p
  <1>4. /\ pingers' \in PingersType /\ Fits(pingers', link, activity.state)
    <2>1. CASE activity.state = "IDLE"
      BY <2>1, <1>1, <1>3 DEF Fits
    <2>2. CASE activity.state # "IDLE"
      <3>1. Apart(p, activity.state)
        BY <1>3 DEF Apart
      <3> QED
        BY <2>2, <3>1, <1>1, <1>3, Watched, WatchedFits
    <2> QED
      BY <2>1, <2>2
  <1> QED
    BY <1>1, <1>3, <1>4, ElsewhereIs, SessionStep

\* The failure of a pinger keeps the invariant.
LEMMA PingerFailsStep ==
  ASSUME DaemonInv, PingerFails
  PROVE  DaemonInv'
  <1>1. PICK stopping \in {FALSE, ChildPingers} :
          pingers' = [pingers_defer_retry(pingers) EXCEPT !.stopping = stopping]
    BY DEF PingerFails
  <1>2. phase = "RUNNING" /\ Elsewhere(FALSE)
    BY DEF PingerFails
  <1> DEFINE c == pingers_close(pingers)
             r == [c EXCEPT !.retry = RetryTicks]
  <1>3. /\ c \in PingersType /\ ~c.open
    BY InvParts, Closed
  <1>4. pingers_defer_retry(pingers) = r
    BY DEF pingers_defer_retry
  <1> HIDE DEF c
  <1>5. /\ r \in PingersType /\ ~r.open /\ r.retry > 0
    BY <1>3, Times DEF PingersType
  <1> HIDE DEF r
  <1>6. stopping \in BOOLEAN
    BY Times
  <1>7. /\ pingers' \in PingersType /\ ~pingers'.open /\ pingers'.retry > 0
    BY <1>1, <1>4, <1>5, <1>6 DEF PingersType
  <1>8. Fits(pingers', link, activity.state)
    BY <1>7 DEF Fits
  <1> QED
    BY <1>2, <1>3, <1>5, <1>7, <1>8, ElsewhereIs, SessionStep

\* The replacement of a reflector keeps the invariant.
LEMMA ReplaceReflectorStep ==
  ASSUME DaemonInv, NEW opens \in BOOLEAN, ReplaceReflector(opens)
  PROVE  DaemonInv'
  <1>1. /\ phase = "RUNNING" /\ activity.state = "RUNNING" /\ Elsewhere(opens)
        /\ pingers' = pingers_reopen(pingers, link, opens)
    BY DEF ReplaceReflector
  <1>2. /\ pingers' \in PingersType
        /\ pingers'.open => ~pingers'.stopping /\ links_ready(link)
        /\ links_ready(link) /\ ~pingers'.open => pingers'.stopping \/ pingers'.retry > 0
    BY <1>1, InvParts, Reopened
  <1>3. Fits(pingers', link, activity.state)
    BY <1>1, <1>2 DEF Fits
  <1> QED
    BY <1>1, <1>2, <1>3, ElsewhereIs, SessionStep

\* The end of the loop keeps the invariant.
LEMMA StopStep ==
  ASSUME DaemonInv, Stop
  PROVE  DaemonInv'
  <1>1. /\ Overrun /\ phase' = "STOPPED"
        /\ pingers' = [pingers EXCEPT !.open = FALSE, !.stopping = FALSE]
        /\ UNCHANGED <<activity, minimum, ready_for>>
    BY DEF Stop, Overrun
  <1>2. pingers' \in PingersType
    BY <1>1, InvParts DEF PingersType
  <1>3. LinksInv'
    BY <1>1, InvParts, OverrunStep
  <1>4. DaemonTypeOK'
    BY <1>1, <1>2 DEF DaemonInv, DaemonTypeOK, PingersType
  <1>5. InForce'
    BY <1>1 DEF DaemonInv, InForce
  <1> QED
    BY <1>1, <1>3, <1>4, <1>5, InvAfter

-----------------------------------------------------------------------------

\* The invariant holds before the daemon starts.
LEMMA DaemonStart ==
  ASSUME DaemonInit
  PROVE  DaemonInv
  <1>1. /\ Init /\ activity = INITIAL_ACTIVITY /\ pingers = INITIAL_PINGERS
        /\ minimum = INITIAL_MINIMUM /\ ready_for = 0 /\ phase = "STOPPED"
    BY DEF DaemonInit, Init
  <1>2. LinksInv
    BY <1>1, LinksStart
  <1>3. DaemonTypeOK
    BY <1>1, InitialSession, Times DEF DaemonTypeOK, PingersType, ActivityType, MinimumType
  <1>4. ProbesOnlyOverCake /\ SessionExpected /\ InForce
    BY <1>1, InitialSession DEF ProbesOnlyOverCake, SessionExpected, InForce, Running
  <1> QED
    BY <1>1, <1>2, <1>3, <1>4 DEF DaemonInv

\* Every step of the daemon keeps the invariant.
LEMMA DaemonStep ==
  ASSUME DaemonInv, DaemonNext
  PROVE  DaemonInv'
  <1>1. \A failure \in Failures : failure.dump \in BOOLEAN
    <2>1. \A failure \in ReadFailures : failure.dump \in BOOLEAN
      BY DEF ReadFailures
    <2>2. OpenFailure.dump \in BOOLEAN
      BY DEF OpenFailure
    <2>3. \A d \in Direction : WriteFailure(d).dump \in BOOLEAN
      BY DEF WriteFailure
    <2> QED
      BY <2>1, <2>2, <2>3 DEF Failures
  <1>2. CASE \E d \in Direction : KernelActs(d)
    BY <1>2, KernelChanges
  <1>3. CASE Start
    BY <1>3, StartStep
  <1>4. CASE \E failure \in Failures :
               EnterLoop(failure) \/ HandleTrafficTimer(failure) \/ HandleQdiscEvents(failure)
    BY <1>1, <1>4, EnterLoopStep, TrafficTimerStep, QdiscEventsKeep
  <1>5. CASE \E age \in 0 .. MaxAge : Response(age)
    BY <1>5, ResponseStep
  <1>6. CASE \E opens \in BOOLEAN : ChildExited(opens) \/ ReplaceReflector(opens)
    BY <1>6, ChildExitedStep, ReplaceReflectorStep
  <1>7. CASE PingerFails
    BY <1>7, PingerFailsStep
  <1>8. CASE Stop
    BY <1>8, StopStep
  <1> QED
    BY <1>2, <1>3, <1>4, <1>5, <1>6, <1>7, <1>8 DEF DaemonNext

\* A stutter keeps the invariant.
LEMMA DaemonStutter ==
  ASSUME DaemonInv, UNCHANGED allVars
  PROVE  DaemonInv'
  <1>1. LinksInv'
    BY InvParts, LinksUnmoved DEF allVars, vars
  <1> QED
    BY <1>1 DEF DaemonInv, allVars, vars, daemonVars, DaemonTypeOK, ProbesOnlyOverCake,
                SessionExpected, InForce, Running, Ready

\* The inductive invariant of the event loop: the links', and a session that fits
\* them and the activity after every handler (daemon_tick, handle_qdisc_events,
\* handle_pinger_exit, handle_health_timer).
THEOREM DaemonInvariance == DaemonSpec => []DaemonInv
  <1>1. DaemonInv /\ [DaemonNext]_allVars => DaemonInv'
    BY DaemonStep, DaemonStutter
  <1> QED
    BY DaemonStart, <1>1, PTL DEF DaemonSpec

\* SessionSound, for any timeouts and with or without child processes: a session is
\* open only over two CAKEs that are believed there, never while idle and never
\* next to the old one's processes, and one that is due is on its way
\* (ensure_latency_open).
THEOREM SessionsAreSound == DaemonSpec => []SessionSound
  <1>1. DaemonInv => SessionSound
    BY DEF DaemonInv, SessionSound
  <1> QED
    BY DaemonInvariance, <1>1, PTL

\* MinimumInForce, for any timeouts, a response timeout below the age at which a
\* response is stale included, and for responses of any age in any order: asleep and
\* in a stall past the timeout, each adjusted direction runs at its minimum rate or
\* has, in this very sleep or timeout, refused it, been replaced, got another rate or
\* seen a response acted on (controller_activity_update and update_activity).
THEOREM MinimumStaysInForce == DaemonSpec => []MinimumInForce
  <1>1. DaemonInv => MinimumInForce
    BY DEF DaemonInv, InForce, Accounted, MinimumInForce
  <1> QED
    BY DaemonInvariance, <1>1, PTL

\* The event loop does to the links only what Links says is done to them, but for
\* the failures that happen elsewhere, so they stay awake under it too.
THEOREM LinksAwakeInLoop == DaemonSpec => []LinksAwake
  <1>1. DaemonInv => LinksAwake
    BY LinksInvAwake DEF DaemonInv
  <1> QED
    BY DaemonInvariance, <1>1, PTL
=============================================================================
