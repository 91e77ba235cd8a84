-------------------------------- MODULE Mqtt --------------------------------
(***************************************************************************)
(* logging/mqtt.c: records for a broker.  The main thread queues lines, a    *)
(* sender thread connects, publishes one line at a time and reconnects, and  *)
(* every connection has a network thread inside libmosquitto, which may stay *)
(* in the resolver for as long as it likes and is then left behind.          *)
(*                                                                         *)
(* A step is what happens between two accesses to shared state; a section    *)
(* under the lock is one step.  A line is the connection that was current    *)
(* when it was queued.                                                      *)
(***************************************************************************)
EXTENDS Naturals, Sequences, FiniteSets

CONSTANTS
  MQTT_QUEUE_RECORDS,
  MaxConnections    \* bound on the connections ever made

ASSUME MqttAssumption ==
  MQTT_QUEUE_RECORDS \in Nat \ {0} /\ MaxConnections \in Nat \ {0}

MQTT_SENDER_OWNERS == 2
NO_CONNECTION == 0
Connection == 1 .. MaxConnections

VARIABLES
  mqtt,             \* struct mqtt_sender: online, stopping, owners, the eventfd
  lines,            \* its queue
  connection,       \* struct mqtt_connection and its thread, per attempt
  attempts,         \* how many there have been
  sender,           \* the sender thread: where it is, and its locals
  submitter         \* the main thread

mqttVars == <<mqtt, lines, connection, attempts, sender, submitter>>

\* The connection the sender has, if any.
Current == connection[sender.connection]

\* owners is given up; the last owner frees.
Released(c) == [c EXCEPT !.owners = @ - 1]

-----------------------------------------------------------------------------
(* The main thread.                                                         *)

\* mqtt_submit looks before it takes the lock.
Submit ==
  /\ submitter = "FREE" /\ mqtt.online
  /\ submitter' = "SUBMITTING"
  /\ UNCHANGED <<mqtt, lines, connection, attempts, sender>>

accepted == mqtt.online /\ Len(lines) < MQTT_QUEUE_RECORDS

\* Mutant: whoever queues a line relies on the line before.
wakes_sender_full == Len(lines) + 1 = MQTT_QUEUE_RECORDS

wakes_sender == lines = <<>>

\* mqtt_submit under the lock, which may be held by the sender: then the line
\* is dropped.
Enqueue ==
  /\ submitter = "SUBMITTING"
  /\ \/ /\ accepted
        /\ lines' = Append(lines, sender.connection)
        /\ submitter' = IF wakes_sender THEN "WAKING" ELSE "FREE"
     \/ UNCHANGED lines /\ submitter' = "FREE"
  /\ UNCHANGED <<mqtt, connection, attempts, sender>>

WakeSender ==
  /\ submitter = "WAKING" /\ submitter' = "FREE"
  /\ mqtt' = [mqtt EXCEPT !.woken = TRUE]
  /\ UNCHANGED <<lines, connection, attempts, sender>>

\* mqtt_stop, and the bounded join after it.
MqttStop ==
  /\ submitter = "FREE" /\ submitter' = "JOINING"
  /\ mqtt' = [mqtt EXCEPT !.stopping = TRUE, !.woken = TRUE]
  /\ UNCHANGED <<lines, connection, attempts, sender>>

\* The sender has ended, or the bound is over and it is detached.
MqttJoined ==
  /\ submitter = "JOINING" /\ submitter' = "GONE"
  /\ mqtt' = Released(mqtt)
  /\ UNCHANGED <<lines, connection, attempts, sender>>

-----------------------------------------------------------------------------
(* The sender thread.                                                       *)

At(pc) == sender.pc = pc
Goes(pc) == sender' = [sender EXCEPT !.pc = pc]

\* The head of the loop.
SenderLoop ==
  /\ At("LOOP")
  /\ sender' = [sender EXCEPT
       !.leaving = mqtt.stopping,
       !.pc = IF ~mqtt.stopping THEN "CONNECT"
              ELSE IF sender.connection = NO_CONNECTION THEN "LEAVE" ELSE "OFFLINE"]
  /\ UNCHANGED <<mqtt, lines, connection, attempts, submitter>>

\* Mutant: the network thread takes the sender's reference.
referenced_once(m) == m

\* The network thread's own reference to the state.
referenced(m) == [m EXCEPT !.owners = @ + 1]

none_left_behind == mqtt.owners <= MQTT_SENDER_OWNERS

\* mqtt_connect, when it is time for it.
Connect ==
  /\ At("CONNECT") /\ sender.connection = NO_CONNECTION /\ none_left_behind
  /\ attempts < MaxConnections /\ attempts' = attempts + 1
  /\ connection' = [connection EXCEPT ![attempts'] =
       [phase |-> "RESOLVING", owners |-> 2, stop |-> FALSE, online |-> FALSE,
        pending |-> FALSE]]
  /\ mqtt' = referenced(mqtt)
  /\ sender' = [sender EXCEPT !.connection = attempts', !.pc = "LOOK"]
  /\ UNCHANGED <<lines, submitter>>

\* It is not time yet, one is left behind, or making one failed.
NoConnect ==
  /\ At("CONNECT")
  /\ Goes(IF sender.connection = NO_CONNECTION THEN "WAIT" ELSE "LOOK")
  /\ UNCHANGED <<mqtt, lines, connection, attempts, submitter>>

\* The connection's flags.  Without progress there is a time when it is given up.
Look ==
  /\ At("LOOK")
  /\ \/ /\ ~Current.online /\ sender.was_online
        /\ Goes("OFFLINE")
     \/ /\ ~Current.online \/ Current.pending
        /\ Goes("OFFLINE")
     \/ /\ Current.online \/ ~sender.was_online
        /\ sender' = [sender EXCEPT !.online = Current.online, !.pc = "ANNOUNCE"]
  /\ UNCHANGED <<mqtt, lines, connection, attempts, submitter>>

Announce ==
  /\ At("ANNOUNCE")
  /\ mqtt' = [mqtt EXCEPT !.online = sender.online]
  /\ sender' = [sender EXCEPT !.was_online = sender.online,
                              !.pc = IF sender.online THEN "SEND" ELSE "DRAIN"]
  /\ UNCHANGED <<lines, connection, attempts, submitter>>

\* mqtt_send takes a line, if the last one has left libmosquitto.
TakeLine ==
  /\ At("SEND")
  /\ IF Current.pending \/ lines = <<>> THEN Goes("DRAIN") /\ UNCHANGED lines
     ELSE /\ lines' = Tail(lines)
          /\ sender' = [sender EXCEPT !.line = Head(lines), !.pc = "PUBLISH"]
  /\ UNCHANGED <<mqtt, connection, attempts, submitter>>

\* mosquitto_publish takes the line or fails.
Publish ==
  /\ At("PUBLISH")
  /\ \/ /\ connection' = [connection EXCEPT ![sender.connection].pending = TRUE]
        /\ UNCHANGED mqtt
     \/ /\ connection' = [connection EXCEPT ![sender.connection].pending = FALSE,
                                            ![sender.connection].online = FALSE]
        /\ mqtt' = [mqtt EXCEPT !.online = FALSE]
  /\ sender' = [sender EXCEPT !.line = NO_CONNECTION, !.pc = "DRAIN"]
  /\ UNCHANGED <<lines, attempts, submitter>>

\* Whether another line can go at once.
Drain ==
  /\ At("DRAIN")
  /\ Goes(IF Current.online /\ ~Current.pending /\ lines # <<>> THEN "LOOP" ELSE "WAIT")
  /\ UNCHANGED <<mqtt, lines, connection, attempts, submitter>>

\* The poll ends by the eventfd, which is read, or by its timeout.
SenderWait ==
  /\ At("WAIT") /\ Goes("LOOP")
  /\ mqtt' = [mqtt EXCEPT !.woken = FALSE]
  /\ UNCHANGED <<lines, connection, attempts, submitter>>

\* mqtt_destroy: mqtt_discard in two steps, then the bounded join.
GoOffline ==
  /\ At("OFFLINE") /\ Goes("DISCARD")
  /\ mqtt' = [mqtt EXCEPT !.online = FALSE]
  /\ UNCHANGED <<lines, connection, attempts, submitter>>

Discard ==
  /\ At("DISCARD") /\ Goes("STOP_NETWORK")
  /\ lines' = <<>>
  /\ UNCHANGED <<mqtt, connection, attempts, submitter>>

\* Mutant: the thread is left to find out by itself.
StopNetwork_unasked ==
  /\ At("STOP_NETWORK") /\ Goes("JOIN_NETWORK")
  /\ UNCHANGED <<mqtt, lines, connection, attempts, submitter>>

StopNetwork ==
  /\ At("STOP_NETWORK") /\ Goes("JOIN_NETWORK")
  /\ connection' = [connection EXCEPT ![sender.connection].stop = TRUE]
  /\ UNCHANGED <<mqtt, lines, attempts, submitter>>

\* The thread has ended, or the bound is over and it is left behind.
JoinNetwork ==
  /\ At("JOIN_NETWORK")
  /\ connection' = [connection EXCEPT ![sender.connection] = Released(@)]
  /\ sender' = [sender EXCEPT !.connection = NO_CONNECTION, !.was_online = FALSE,
                              !.online = FALSE,
                              !.pc = IF sender.leaving THEN "LEAVE" ELSE "WAIT"]
  /\ UNCHANGED <<mqtt, lines, attempts, submitter>>

LeaveSender ==
  /\ At("LEAVE") /\ Goes("ENDED")
  /\ mqtt' = Released(mqtt)
  /\ UNCHANGED <<lines, connection, attempts, submitter>>

-----------------------------------------------------------------------------
(* The network threads: mqtt_network and the callbacks libmosquitto makes.  *)

Wakes == mqtt' = [mqtt EXCEPT !.woken = TRUE]

\* mosquitto_connect_async returns.
Resolved(c) ==
  /\ connection[c].phase = "RESOLVING"
  /\ \E phase \in {"LOOPING", "ENDING"} :
       connection' = [connection EXCEPT ![c].phase = phase]
  /\ UNCHANGED <<mqtt, lines, attempts, sender, submitter>>

\* A callback stores its flag, then writes the eventfd.
mqtt_connected(c) ==
  /\ connection[c].phase = "LOOPING"
  /\ connection' = [connection EXCEPT ![c].online = TRUE, ![c].phase = "CALLING"]
  /\ UNCHANGED <<mqtt, lines, attempts, sender, submitter>>

mqtt_disconnected(c) ==
  /\ connection[c].phase = "LOOPING" /\ connection[c].online
  /\ connection' = [connection EXCEPT ![c].online = FALSE, ![c].phase = "CALLING"]
  /\ UNCHANGED <<mqtt, lines, attempts, sender, submitter>>

mqtt_published(c) ==
  /\ connection[c].phase = "LOOPING" /\ connection[c].pending
  /\ connection' = [connection EXCEPT ![c].pending = FALSE, ![c].phase = "CALLING"]
  /\ UNCHANGED <<mqtt, lines, attempts, sender, submitter>>

CallbackWakes(c) ==
  /\ connection[c].phase = "CALLING"
  /\ connection' = [connection EXCEPT ![c].phase = "LOOPING"]
  /\ Wakes
  /\ UNCHANGED <<lines, attempts, sender, submitter>>

\* mosquitto_loop fails, or the sender has asked for the end.
LoopEnds(c) ==
  /\ connection[c].phase = "LOOPING"
  /\ connection' = [connection EXCEPT ![c].phase = "ENDING"]
  /\ UNCHANGED <<mqtt, lines, attempts, sender, submitter>>

NetworkOffline(c) ==
  /\ connection[c].phase = "ENDING"
  /\ connection' = [connection EXCEPT ![c].phase = "RELEASING", ![c].online = FALSE]
  /\ Wakes
  /\ UNCHANGED <<lines, attempts, sender, submitter>>

NetworkReleases(c) ==
  /\ connection[c].phase = "RELEASING"
  /\ connection' = [connection EXCEPT ![c] = [Released(@) EXCEPT !.phase = "LAST"]]
  /\ UNCHANGED <<mqtt, lines, attempts, sender, submitter>>

NetworkEnds(c) ==
  /\ connection[c].phase = "LAST"
  /\ connection' = [connection EXCEPT ![c].phase = "ENDED"]
  /\ mqtt' = Released(mqtt)
  /\ UNCHANGED <<lines, attempts, sender, submitter>>

-----------------------------------------------------------------------------
\* mqtt_start.
MqttInit ==
  /\ mqtt = [online |-> FALSE, stopping |-> FALSE, owners |-> MQTT_SENDER_OWNERS,
             woken |-> FALSE]
  /\ lines = <<>> /\ attempts = 0 /\ submitter = "FREE"
  /\ connection = [c \in Connection |->
       [phase |-> "NONE", owners |-> 0, stop |-> FALSE, online |-> FALSE,
        pending |-> FALSE]]
  /\ sender = [pc |-> "LOOP", connection |-> NO_CONNECTION, online |-> FALSE,
               was_online |-> FALSE, leaving |-> FALSE, line |-> NO_CONNECTION]

MainThread == Submit \/ Enqueue \/ WakeSender \/ MqttStop \/ MqttJoined

SenderThread ==
  \/ SenderLoop \/ Connect \/ NoConnect \/ Look \/ Announce \/ TakeLine \/ Publish
  \/ Drain \/ SenderWait \/ GoOffline \/ Discard \/ StopNetwork \/ JoinNetwork
  \/ LeaveSender

NetworkThread(c) ==
  \/ Resolved(c) \/ mqtt_connected(c) \/ mqtt_disconnected(c) \/ mqtt_published(c)
  \/ CallbackWakes(c) \/ LoopEnds(c) \/ NetworkOffline(c) \/ NetworkReleases(c)
  \/ NetworkEnds(c)

MqttNext == MainThread \/ SenderThread \/ \E c \in Connection : NetworkThread(c)

MqttSpec == MqttInit /\ [][MqttNext]_mqttVars

\* Threads run, joins are bounded, the resolver returns in the end and an
\* iteration of mosquitto_loop is finite.  The stop itself need not come.
MqttFairness ==
  /\ WF_mqttVars(SenderThread)
  /\ WF_mqttVars(Enqueue \/ WakeSender \/ MqttJoined)
  /\ \A c \in Connection :
       /\ WF_mqttVars(Resolved(c) \/ CallbackWakes(c) \/ NetworkOffline(c)
                        \/ NetworkReleases(c) \/ NetworkEnds(c))
       /\ SF_mqttVars(connection[c].stop /\ LoopEnds(c))

-----------------------------------------------------------------------------
(* Properties                                                               *)

Alive(c) == connection[c].phase \notin {"NONE", "ENDED"}

\* What has no owner left is touched by nobody: not by the main thread, the
\* sender, or a network thread that comes out of the resolver long afterwards.
FreedIsForgotten ==
  /\ mqtt.owners = 0 =>
       submitter = "GONE" /\ At("ENDED") /\ \A c \in Connection : ~Alive(c)
  /\ \A c \in Connection : connection[c].owners = 0 =>
       sender.connection # c /\ (Alive(c) => connection[c].phase = "LAST")

\* mqtt.c: a late callback reaches "never a newer connection's" flags; and no
\* line queued for one connection is sent over a later one.
NoStaleLine ==
  /\ \A i \in DOMAIN lines : At("DISCARD") \/ lines[i] = sender.connection
  /\ At("PUBLISH") => sender.line = sender.connection

\* mqtt.c: "a line queued meanwhile is sent here or after the publish callback's
\* wake": a sender that waits while it could send has been woken, or is about to
\* be, although only the first line of a queue wakes it.
NoLostLine ==
  At("WAIT") /\ sender.connection # NO_CONNECTION /\ lines # <<>>
    /\ Current.online /\ ~Current.pending
  => mqtt.woken \/ submitter = "WAKING" \/ Current.phase = "CALLING"

\* mqtt.c: "A thread left behind in the resolver blocks new attempts until it
\* returns."
OneLeftBehind ==
  submitter # "GONE" =>
    Cardinality({c \in Connection : Alive(c) /\ c # sender.connection}) <= 1

\* What is freed is used by nobody, and at most one connection is left behind.
OwnersTrue == FreedIsForgotten /\ OneLeftBehind

\* A line is sent over its own connection or dropped, and none waits unnoticed
\* (mqtt_connect, mqtt_send, mqtt_thread).
QueueKept == NoStaleLine /\ NoLostLine

\* After a stop everything is given back, whatever was left behind.
GivenBack ==
  submitter = "JOINING" ~>
    mqtt.owners = 0 /\ \A c \in Connection : connection[c].owners = 0
=============================================================================
