---------------------------- MODULE ServicesProofs ----------------------------
(***************************************************************************)
(* Theorems about Mqtt, for a queue of any length, any number of            *)
(* connections and every interleaving of the main thread, the sender and    *)
(* the network threads (logging/mqtt.c); and about Service, for every set   *)
(* of sections, every configuration and every number of calls, edits and    *)
(* accidents (the init script).                                             *)
(***************************************************************************)
EXTENDS Mqtt, Service, FiniteSetTheorems, SequenceTheorems, TLAPS

-----------------------------------------------------------------------------
(* Mqtt: ownership and the queue.                                           *)

Running == {"RESOLVING", "LOOPING", "CALLING", "ENDING", "RELEASING"}
Phases == Running \cup {"NONE", "LAST", "ENDED"}

\* Where the sender has a connection, has none, or may have one.
Connected == {"LOOK", "ANNOUNCE", "SEND", "PUBLISH", "DRAIN", "OFFLINE", "DISCARD",
              "STOP_NETWORK", "JOIN_NETWORK"}
Between == {"LOOP", "CONNECT", "WAIT"}
Leaving == {"LEAVE", "ENDED"}

StateType == [online : BOOLEAN, stopping : BOOLEAN, owners : Int, woken : BOOLEAN]
ConnectionType == [phase : Phases, owners : Int, stop : BOOLEAN, online : BOOLEAN,
                   pending : BOOLEAN]
SenderType == [pc : Connected \cup Between \cup Leaving, connection : 0 .. MaxConnections,
               online : BOOLEAN, was_online : BOOLEAN, leaving : BOOLEAN,
               line : 0 .. MaxConnections]

MqttTypeOK ==
  /\ mqtt \in StateType
  /\ lines \in Seq(0 .. MaxConnections)
  /\ connection \in [Connection -> ConnectionType]
  /\ attempts \in 0 .. MaxConnections
  /\ sender \in SenderType
  /\ submitter \in {"FREE", "SUBMITTING", "WAKING", "JOINING", "GONE"}

\* The sender's connection is one that was made, and none while it connects or
\* leaves; connections not yet made are nobody's.
SenderPlaced ==
  /\ sender.connection <= attempts
  /\ sender.pc \in Connected => sender.connection # NO_CONNECTION
  /\ sender.pc \in Leaving => sender.connection = NO_CONNECTION
  /\ \A c \in Connection : c > attempts => connection[c].phase = "NONE"

\* A connection is owned by the sender that has it and the thread that runs it.
ConnectionOwned ==
  \A c \in Connection :
    connection[c].owners = (IF sender.connection = c THEN 1 ELSE 0)
                             + (IF connection[c].phase \in Running THEN 1 ELSE 0)

\* The state is owned by both threads and by every network thread.
AliveSet == {c \in Connection : Alive(c)}

StateOwned ==
  mqtt.owners = (IF submitter = "GONE" THEN 0 ELSE 1) + (IF At("ENDED") THEN 0 ELSE 1)
                  + Cardinality(AliveSet)

\* A connection left behind blocks the next one.
LeftBehindBlocks ==
  submitter # "GONE" =>
    /\ \A c, d \in AliveSet : c = d
    /\ sender.connection # NO_CONNECTION => AliveSet \subseteq {sender.connection}

\* Lines are queued only for the connection the sender has, and the queue is
\* empty before it gives that connection up.
LinesCurrent ==
  /\ \A i \in DOMAIN lines : lines[i] = sender.connection
  /\ sender.pc = "PUBLISH" => sender.line = sender.connection
  /\ sender.connection = NO_CONNECTION => lines = <<>>
  /\ sender.pc \in {"STOP_NETWORK", "JOIN_NETWORK"} => lines = <<>>
  /\ \/ sender.connection = NO_CONNECTION
     \/ sender.pc \in {"DISCARD", "STOP_NETWORK", "JOIN_NETWORK"}
     => ~mqtt.online

MqttInv ==
  /\ MqttTypeOK /\ SenderPlaced /\ ConnectionOwned /\ StateOwned
  /\ LeftBehindBlocks /\ LinesCurrent /\ NoLostLine

-----------------------------------------------------------------------------
(* What a step that moves only some of the parts keeps.                     *)

\* The connections alive are finitely many.
LEMMA AliveFinite == IsFiniteSet(AliveSet) /\ Cardinality(AliveSet) \in Nat
  <1>1. IsFiniteSet(Connection)
    BY MqttAssumption, FS_Interval DEF Connection
  <1>2. IsFiniteSet(AliveSet)
    BY <1>1, FS_Subset DEF AliveSet
  <1> QED BY <1>2, FS_CardinalityType

\* No step but a connection's first and last changes which ones are alive, and
\* the owners of the state are given up only by a thread that ends.
LEMMA OwnersStay ==
  ASSUME MqttInv,
         \A c \in Connection : Alive(c)' <=> Alive(c),
         mqtt'.owners = mqtt.owners, submitter' = "GONE" <=> submitter = "GONE",
         sender'.connection = sender.connection, At("ENDED")' <=> At("ENDED")
  PROVE  StateOwned' /\ LeftBehindBlocks'
  <1>1. AliveSet' = AliveSet
    BY DEF AliveSet
  <1> QED BY <1>1 DEF MqttInv, StateOwned, LeftBehindBlocks

\* The sender goes on with what it has.
LEMMA SenderGoesOn ==
  ASSUME MqttInv, UNCHANGED <<connection, attempts>>, mqtt'.owners = mqtt.owners,
         submitter' = submitter,
         sender' \in SenderType, sender'.connection = sender.connection,
         sender'.pc \in Connected => sender.connection # NO_CONNECTION,
         sender'.pc \notin Leaving, sender.pc \notin Leaving
  PROVE  SenderPlaced' /\ ConnectionOwned' /\ StateOwned' /\ LeftBehindBlocks'
  <1>1. \A c \in Connection : Alive(c)' <=> Alive(c)
    BY DEF Alive
  <1>2. At("ENDED")' <=> At("ENDED")
    BY DEF At, Leaving
  <1>3. SenderPlaced' /\ ConnectionOwned'
    BY DEF MqttInv, SenderPlaced, ConnectionOwned
  <1> QED BY <1>1, <1>2, <1>3, OwnersStay

\* Head and tail of a non-empty queue.
LEMMA TailOf ==
  ASSUME NEW S, NEW q \in Seq(S), q # <<>>
  PROVE  /\ Tail(q) \in Seq(S) /\ Head(q) \in S /\ Head(q) = q[1]
         /\ \A i \in DOMAIN Tail(q) : i + 1 \in DOMAIN q /\ Tail(q)[i] = q[i + 1]
         /\ 1 \in DOMAIN q
  <1>1. Len(q) \in Nat \ {0} /\ DOMAIN q = 1 .. Len(q)
    OBVIOUS
  <1>2. /\ Head(q) \in S /\ Tail(q) \in Seq(S) /\ Len(Tail(q)) = Len(q) - 1
        /\ \A i \in 1 .. Len(Tail(q)) : Tail(q)[i] = q[i + 1]
    BY HeadTailProperties
  <1>3. DOMAIN Tail(q) = 1 .. Len(q) - 1
    BY <1>2
  <1>4. \A i \in 1 .. Len(q) - 1 : i + 1 \in 1 .. Len(q)
    BY <1>1
  <1>5. Head(q) = q[1]
    OBVIOUS
  <1> QED BY <1>1, <1>2, <1>3, <1>4, <1>5

\* The steps of the sender that leave its connection to it.
LEMMA SenderLocal ==
  ASSUME MqttInv,
         NoConnect \/ Look \/ Announce \/ TakeLine \/ Drain
           \/ SenderWait \/ GoOffline \/ Discard
  PROVE  MqttInv'
  <1> USE DEF At, Goes, NO_CONNECTION, Current
  <1>0. /\ sender \in SenderType /\ mqtt \in StateType
        /\ lines \in Seq(0 .. MaxConnections)
        /\ connection \in [Connection -> ConnectionType]
    BY DEF MqttInv, MqttTypeOK
  <1>1. CASE NoConnect
    <2>1. /\ sender' \in SenderType
          /\ sender'.connection = sender.connection
          /\ sender'.pc = IF sender.connection = NO_CONNECTION THEN "WAIT" ELSE "LOOK"
          /\ sender.pc = "CONNECT"
          /\ UNCHANGED <<mqtt, lines, connection, attempts, submitter>>
      BY <1>0, <1>1 DEF NoConnect, SenderType, StateType, Connected, Between
    <2>2. SenderPlaced' /\ ConnectionOwned' /\ StateOwned' /\ LeftBehindBlocks'
      BY <2>1, SenderGoesOn DEF Connected, Leaving, MqttInv, SenderPlaced
    <2>3. LinesCurrent'
      BY <1>0, <2>1 DEF MqttInv, LinesCurrent, SenderPlaced
    <2>4. NoLostLine'
      BY <2>1 DEF MqttInv, LinesCurrent, NoLostLine
    <2>5. MqttTypeOK'
      BY <1>0, <2>1 DEF MqttInv, MqttTypeOK
    <2> QED BY <2>2, <2>3, <2>4, <2>5 DEF MqttInv
  <1>2. CASE Look
    <2>1. /\ sender' \in SenderType
          /\ sender'.connection = sender.connection
          /\ sender'.pc \in {"OFFLINE", "ANNOUNCE"} /\ sender.pc = "LOOK"
          /\ UNCHANGED <<mqtt, lines, connection, attempts, submitter>>
      <3>1. sender.connection \in Connection
        BY <1>0, <1>2 DEF Look, MqttInv, SenderPlaced, SenderType, Connected, Connection
      <3>2. connection[sender.connection] \in ConnectionType
        BY <1>0, <3>1
      <3>3. connection[sender.connection].online \in BOOLEAN
        BY <3>2 DEF ConnectionType
      <3> QED BY <1>0, <1>2, <3>3 DEF Look, SenderType, Connected
    <2>2. SenderPlaced' /\ ConnectionOwned' /\ StateOwned' /\ LeftBehindBlocks'
      BY <2>1, SenderGoesOn DEF Connected, Leaving, MqttInv, SenderPlaced
    <2>3. LinesCurrent'
      BY <1>0, <2>1 DEF MqttInv, LinesCurrent, SenderPlaced
    <2>4. NoLostLine'
      BY <2>1 DEF MqttInv, LinesCurrent, NoLostLine
    <2>5. MqttTypeOK'
      BY <1>0, <2>1 DEF MqttInv, MqttTypeOK
    <2> QED BY <2>2, <2>3, <2>4, <2>5 DEF MqttInv
  <1>3. CASE Announce
    <2>1. /\ sender' \in SenderType
          /\ sender'.connection = sender.connection
          /\ mqtt' \in StateType
          /\ mqtt'.owners = mqtt.owners
          /\ sender'.pc \in {"SEND", "DRAIN"} /\ sender.pc = "ANNOUNCE"
          /\ UNCHANGED <<lines, connection, attempts, submitter>>
      BY <1>0, <1>3 DEF Announce, SenderType, StateType, Connected, Between
    <2>2. SenderPlaced' /\ ConnectionOwned' /\ StateOwned' /\ LeftBehindBlocks'
      BY <2>1, SenderGoesOn DEF Connected, Leaving, MqttInv, SenderPlaced
    <2>3. LinesCurrent'
      BY <1>0, <2>1 DEF MqttInv, LinesCurrent, SenderPlaced, Connected
    <2>4. NoLostLine'
      BY <2>1 DEF MqttInv, LinesCurrent, NoLostLine
    <2>5. MqttTypeOK'
      BY <1>0, <2>1 DEF MqttInv, MqttTypeOK
    <2> QED BY <2>2, <2>3, <2>4, <2>5 DEF MqttInv
  <1>4. CASE TakeLine
    <2>1. /\ sender' \in SenderType
          /\ sender'.connection = sender.connection
          /\ sender'.pc \in {"PUBLISH", "DRAIN"} /\ sender.pc = "SEND"
          /\ lines' \in Seq(0 .. MaxConnections)
          /\ \A i \in DOMAIN lines' : lines'[i] = sender.connection
          /\ sender'.pc = "PUBLISH" => sender'.line = sender.connection
          /\ UNCHANGED <<mqtt, connection, attempts, submitter>>
      <3>1. CASE lines = <<>> \/ sender'.pc = "DRAIN"
        BY <1>0, <1>4, <3>1 DEF TakeLine, SenderType, Connected, MqttInv, LinesCurrent
      <3>2. CASE lines # <<>> /\ sender'.pc # "DRAIN"
        <4>1. /\ lines' = Tail(lines) /\ sender.pc = "SEND"
              /\ sender' = [sender EXCEPT !.line = Head(lines), !.pc = "PUBLISH"]
              /\ UNCHANGED <<mqtt, connection, attempts, submitter>>
          BY <1>0, <1>4, <3>2 DEF TakeLine, SenderType
        <4>2. /\ Tail(lines) \in Seq(0 .. MaxConnections)
              /\ Head(lines) \in 0 .. MaxConnections /\ Head(lines) = lines[1]
              /\ \A i \in DOMAIN Tail(lines) :
                   i + 1 \in DOMAIN lines /\ Tail(lines)[i] = lines[i + 1]
              /\ 1 \in DOMAIN lines
          BY <1>0, <3>2, TailOf
        <4> QED BY <1>0, <4>1, <4>2 DEF SenderType, Connected, MqttInv, LinesCurrent
      <3> QED BY <3>1, <3>2
    <2>2. SenderPlaced' /\ ConnectionOwned' /\ StateOwned' /\ LeftBehindBlocks'
      BY <2>1, SenderGoesOn DEF Connected, Leaving, MqttInv, SenderPlaced
    <2>3. LinesCurrent'
      BY <1>0, <2>1 DEF MqttInv, LinesCurrent, SenderPlaced, Connected
    <2>4. NoLostLine'
      BY <2>1 DEF MqttInv, LinesCurrent, NoLostLine
    <2>5. MqttTypeOK'
      BY <1>0, <2>1 DEF MqttInv, MqttTypeOK
    <2> QED BY <2>2, <2>3, <2>4, <2>5 DEF MqttInv
  <1>5. CASE Drain
    <2>1. /\ sender' \in SenderType
          /\ sender'.connection = sender.connection
          /\ sender'.pc \in {"LOOP", "WAIT"} /\ sender.pc = "DRAIN"
          /\ sender'.pc = "WAIT" => ~(Current.online /\ ~Current.pending /\ lines # <<>>)
          /\ UNCHANGED <<mqtt, lines, connection, attempts, submitter>>
      BY <1>0, <1>5 DEF Drain, SenderType, StateType, Connected, Between
    <2>2. SenderPlaced' /\ ConnectionOwned' /\ StateOwned' /\ LeftBehindBlocks'
      BY <2>1, SenderGoesOn DEF Connected, Leaving, MqttInv, SenderPlaced
    <2>3. LinesCurrent'
      BY <1>0, <2>1 DEF MqttInv, LinesCurrent, SenderPlaced
    <2>4. NoLostLine'
      BY <2>1 DEF MqttInv, LinesCurrent, NoLostLine
    <2>5. MqttTypeOK'
      BY <1>0, <2>1 DEF MqttInv, MqttTypeOK
    <2> QED BY <2>2, <2>3, <2>4, <2>5 DEF MqttInv
  <1>6. CASE SenderWait
    <2>1. /\ sender' \in SenderType
          /\ sender'.connection = sender.connection
          /\ mqtt' \in StateType
          /\ mqtt'.owners = mqtt.owners /\ mqtt'.online = mqtt.online
          /\ sender'.pc = "LOOP" /\ sender.pc = "WAIT"
          /\ UNCHANGED <<lines, connection, attempts, submitter>>
      BY <1>0, <1>6 DEF SenderWait, SenderType, StateType, Connected, Between
    <2>2. SenderPlaced' /\ ConnectionOwned' /\ StateOwned' /\ LeftBehindBlocks'
      BY <2>1, SenderGoesOn DEF Connected, Leaving, MqttInv, SenderPlaced
    <2>3. LinesCurrent'
      BY <1>0, <2>1 DEF MqttInv, LinesCurrent, SenderPlaced
    <2>4. NoLostLine'
      BY <2>1 DEF MqttInv, LinesCurrent, NoLostLine
    <2>5. MqttTypeOK'
      BY <1>0, <2>1 DEF MqttInv, MqttTypeOK
    <2> QED BY <2>2, <2>3, <2>4, <2>5 DEF MqttInv
  <1>7. CASE GoOffline
    <2>1. /\ sender' \in SenderType
          /\ sender'.connection = sender.connection
          /\ mqtt' \in StateType
          /\ mqtt'.owners = mqtt.owners /\ mqtt'.online = FALSE
          /\ sender'.pc = "DISCARD" /\ sender.pc = "OFFLINE"
          /\ UNCHANGED <<lines, connection, attempts, submitter>>
      BY <1>0, <1>7 DEF GoOffline, SenderType, StateType, Connected, Between
    <2>2. SenderPlaced' /\ ConnectionOwned' /\ StateOwned' /\ LeftBehindBlocks'
      BY <2>1, SenderGoesOn DEF Connected, Leaving, MqttInv, SenderPlaced
    <2>3. LinesCurrent'
      BY <1>0, <2>1 DEF MqttInv, LinesCurrent, SenderPlaced
    <2>4. NoLostLine'
      BY <2>1 DEF MqttInv, LinesCurrent, NoLostLine
    <2>5. MqttTypeOK'
      BY <1>0, <2>1 DEF MqttInv, MqttTypeOK
    <2> QED BY <2>2, <2>3, <2>4, <2>5 DEF MqttInv
  <1>8. CASE Discard
    <2>1. /\ sender' \in SenderType
          /\ sender'.connection = sender.connection
          /\ sender'.pc = "STOP_NETWORK" /\ sender.pc = "DISCARD"
          /\ lines' = <<>>
          /\ UNCHANGED <<mqtt, connection, attempts, submitter>>
      BY <1>0, <1>8 DEF Discard, SenderType, StateType, Connected, Between
    <2>2. SenderPlaced' /\ ConnectionOwned' /\ StateOwned' /\ LeftBehindBlocks'
      BY <2>1, SenderGoesOn DEF Connected, Leaving, MqttInv, SenderPlaced
    <2>3. LinesCurrent'
      BY <1>0, <2>1 DEF MqttInv, LinesCurrent, SenderPlaced
    <2>4. NoLostLine'
      BY <2>1 DEF MqttInv, LinesCurrent, NoLostLine
    <2>5. MqttTypeOK'
      BY <1>0, <2>1 DEF MqttInv, MqttTypeOK
    <2> QED BY <2>2, <2>3, <2>4, <2>5 DEF MqttInv
  <1> QED BY <1>1, <1>2, <1>3, <1>4, <1>5, <1>6, <1>7, <1>8

\* The head of the loop, where a stop is noticed.
LEMMA LoopInv ==
  ASSUME MqttInv, SenderLoop
  PROVE  MqttInv'
  <1>1. /\ sender \in SenderType /\ sender' \in SenderType /\ mqtt \in StateType
        /\ sender.pc = "LOOP" /\ sender'.connection = sender.connection
        /\ \/ sender'.pc \in {"CONNECT"}
           \/ sender'.pc = "LEAVE" /\ sender.connection = NO_CONNECTION
           \/ sender'.pc = "OFFLINE" /\ sender.connection # NO_CONNECTION
        /\ UNCHANGED <<mqtt, lines, connection, attempts, submitter>>
    BY DEF MqttInv, MqttTypeOK, SenderLoop, At, SenderType, StateType, Connected, Between,
           Leaving
  <1>2. SenderPlaced' /\ ConnectionOwned' /\ MqttTypeOK'
    BY <1>1 DEF MqttInv, SenderPlaced, ConnectionOwned, MqttTypeOK, Connected, Leaving
  <1>3. \A c \in Connection : Alive(c)' <=> Alive(c)
    BY <1>1 DEF Alive
  <1>4. At("ENDED")' <=> At("ENDED")
    BY <1>1 DEF At
  <1>5. StateOwned' /\ LeftBehindBlocks'
    BY <1>1, <1>3, <1>4, OwnersStay
  <1>6. LinesCurrent'
    BY <1>1 DEF MqttInv, LinesCurrent
  <1>7. NoLostLine'
    BY <1>1 DEF NoLostLine, At
  <1> QED BY <1>2, <1>5, <1>6, <1>7 DEF MqttInv

\* The main thread, until it gives up the state.
LEMMA MainInv ==
  ASSUME MqttInv, Submit \/ Enqueue \/ WakeSender \/ MqttStop
  PROVE  MqttInv'
  <1>1. /\ mqtt \in StateType /\ lines \in Seq(0 .. MaxConnections) /\ sender \in SenderType
        /\ sender.connection \in 0 .. MaxConnections
    BY DEF MqttInv, MqttTypeOK, SenderType
  <1>2. /\ UNCHANGED <<connection, attempts, sender>>
        /\ mqtt' \in StateType /\ mqtt'.owners = mqtt.owners /\ mqtt'.online = mqtt.online
        /\ (mqtt.woken => mqtt'.woken)
        /\ submitter # "GONE" /\ submitter' \in {"FREE", "SUBMITTING", "WAKING", "JOINING"}
    BY <1>1 DEF Submit, Enqueue, WakeSender, MqttStop, StateType
  <1>3. SenderPlaced' /\ ConnectionOwned'
    BY <1>2 DEF MqttInv, SenderPlaced, ConnectionOwned
  <1>4. \A c \in Connection : Alive(c)' <=> Alive(c)
    BY <1>2 DEF Alive
  <1>5. At("ENDED")' <=> At("ENDED")
    BY <1>2 DEF At
  <1>6. StateOwned' /\ LeftBehindBlocks'
    BY <1>2, <1>4, <1>5, OwnersStay
  <1>7. \/ lines' = lines
        \/ /\ lines' = Append(lines, sender.connection) /\ mqtt.online
           /\ submitter' = IF lines = <<>> THEN "WAKING" ELSE "FREE"
           /\ submitter = "SUBMITTING" /\ mqtt' = mqtt
    BY DEF Submit, Enqueue, WakeSender, MqttStop, accepted, wakes_sender
  <1>8. lines' \in Seq(0 .. MaxConnections) /\ LinesCurrent'
    <2>1. CASE lines' = lines
      BY <1>1, <1>2, <2>1 DEF MqttInv, LinesCurrent
    <2>2. CASE lines' = Append(lines, sender.connection) /\ mqtt.online
      <3>1. /\ lines' \in Seq(0 .. MaxConnections)
            /\ \A i \in DOMAIN lines' : i \in DOMAIN lines \/ i = Len(lines) + 1
            /\ \A i \in DOMAIN lines : lines'[i] = lines[i]
            /\ lines'[Len(lines) + 1] = sender.connection
        BY <1>1, <2>2, AppendProperties
      <3>2. sender.connection # NO_CONNECTION
              /\ sender.pc \notin {"DISCARD", "STOP_NETWORK", "JOIN_NETWORK"}
        BY <2>2 DEF MqttInv, LinesCurrent
      <3> QED BY <1>2, <3>1, <3>2 DEF MqttInv, LinesCurrent
    <2> QED BY <1>7, <2>1, <2>2
  <1>9. NoLostLine'
    <2>1. CASE lines' = lines
      <3>1. submitter = "WAKING" => submitter' = "WAKING" \/ mqtt'.woken
        BY <1>1, <2>1 DEF Submit, Enqueue, WakeSender, MqttStop, StateType
      <3> QED BY <1>2, <2>1, <3>1 DEF MqttInv, NoLostLine, At, Current
    <2>2. CASE lines' # lines
      BY <1>2, <1>7, <2>2 DEF MqttInv, NoLostLine, At, Current
    <2> QED BY <2>1, <2>2
  <1>10. MqttTypeOK'
    BY <1>2, <1>8 DEF MqttInv, MqttTypeOK
  <1> QED BY <1>3, <1>6, <1>8, <1>9, <1>10 DEF MqttInv

\* One of the two threads gives up the state.
LEMMA JoinedInv == ASSUME MqttInv, MqttJoined PROVE MqttInv'
  <1>1. /\ mqtt \in StateType /\ mqtt' \in StateType /\ mqtt'.owners = mqtt.owners - 1
        /\ mqtt'.online = mqtt.online /\ mqtt'.woken = mqtt.woken
        /\ submitter = "JOINING" /\ submitter' = "GONE"
        /\ UNCHANGED <<lines, connection, attempts, sender>>
    BY DEF MqttInv, MqttTypeOK, MqttJoined, Released, StateType
  <1>2. AliveSet' = AliveSet
    BY <1>1 DEF AliveSet, Alive
  <1>3. StateOwned'
    BY <1>1, <1>2, AliveFinite DEF MqttInv, StateOwned, At
  <1>4. LeftBehindBlocks'
    BY <1>1 DEF LeftBehindBlocks
  <1>5. SenderPlaced' /\ ConnectionOwned' /\ LinesCurrent' /\ NoLostLine'
    BY <1>1 DEF MqttInv, SenderPlaced, ConnectionOwned, LinesCurrent, NoLostLine, At, Current
  <1>6. MqttTypeOK'
    BY <1>1 DEF MqttInv, MqttTypeOK
  <1> QED BY <1>3, <1>4, <1>5, <1>6 DEF MqttInv

\* The sender leaving its loop keeps the invariant.
LEMMA LeaveInv == ASSUME MqttInv, LeaveSender PROVE MqttInv'
  <1>1. /\ mqtt \in StateType /\ mqtt' \in StateType /\ mqtt'.owners = mqtt.owners - 1
        /\ mqtt'.online = mqtt.online /\ mqtt'.woken = mqtt.woken
        /\ sender \in SenderType /\ sender' \in SenderType
        /\ sender.pc = "LEAVE" /\ sender'.pc = "ENDED"
        /\ sender'.connection = sender.connection
        /\ UNCHANGED <<lines, connection, attempts, submitter>>
    BY DEF MqttInv, MqttTypeOK, LeaveSender, At, Goes, Released, StateType, SenderType,
           Leaving
  <1>2. AliveSet' = AliveSet
    BY <1>1 DEF AliveSet, Alive
  <1>3. StateOwned'
    BY <1>1, <1>2, AliveFinite DEF MqttInv, StateOwned, At
  <1>4. LeftBehindBlocks' /\ SenderPlaced' /\ ConnectionOwned'
    BY <1>1, <1>2 DEF MqttInv, LeftBehindBlocks, SenderPlaced, ConnectionOwned, Connected,
                      Leaving
  <1>5. LinesCurrent' /\ NoLostLine'
    BY <1>1 DEF MqttInv, LinesCurrent, NoLostLine, At
  <1>6. MqttTypeOK'
    BY <1>1 DEF MqttInv, MqttTypeOK
  <1> QED BY <1>3, <1>4, <1>5, <1>6 DEF MqttInv

\* A connection is made: nothing is alive that the main thread still waits for.
LEMMA ConnectInv == ASSUME MqttInv, Connect PROVE MqttInv'
  <1> DEFINE new == attempts + 1
             made == [phase |-> "RESOLVING", owners |-> 2, stop |-> FALSE,
                      online |-> FALSE, pending |-> FALSE]
  <1>1. /\ mqtt \in StateType /\ mqtt' \in StateType /\ mqtt'.owners = mqtt.owners + 1
        /\ mqtt'.online = mqtt.online
    BY DEF MqttInv, MqttTypeOK, Connect, referenced, StateType
  <1>2. /\ sender \in SenderType /\ sender' \in SenderType
        /\ sender.pc = "CONNECT" /\ sender'.pc = "LOOK"
        /\ sender.connection = NO_CONNECTION /\ sender'.connection = new
        /\ new \in Connection /\ new # NO_CONNECTION
    <2>1. /\ sender \in SenderType /\ sender.pc = "CONNECT" /\ attempts \in Nat
          /\ sender.connection = NO_CONNECTION /\ attempts < MaxConnections
          /\ sender' = [sender EXCEPT !.connection = new, !.pc = "LOOK"]
      BY MqttAssumption DEF MqttInv, MqttTypeOK, Connect, At
    <2>2. new \in 1 .. MaxConnections
      BY <2>1, MqttAssumption
    <2> HIDE DEF new
    <2>3. new \in 0 .. MaxConnections /\ new # 0
      BY <2>2
    <2> QED BY <2>1, <2>2, <2>3 DEF SenderType, Connected, Connection, NO_CONNECTION
  <1>3. /\ attempts \in 0 .. MaxConnections /\ attempts' = new
        /\ UNCHANGED <<lines, submitter>> /\ mqtt.owners <= 2
        /\ connection' = [connection EXCEPT ![new] = made]
        /\ connection \in [Connection -> ConnectionType]
    BY DEF MqttInv, MqttTypeOK, Connect, none_left_behind, MQTT_SENDER_OWNERS
  <1>4. made \in ConnectionType /\ made.phase = "RESOLVING" /\ made.owners = 2
    BY DEF ConnectionType, Phases, Running
  <1> HIDE DEF made, new
  <1>5. /\ connection' \in [Connection -> ConnectionType]
        /\ connection'[new] = made
        /\ \A c \in Connection : c # new => connection'[c] = connection[c]
    BY <1>2, <1>3, <1>4
  <1>6. MqttTypeOK'
    BY <1>1, <1>2, <1>3, <1>5 DEF MqttInv, MqttTypeOK, Connection
  <1>7. SenderPlaced'
    <2>1. \A c \in Connection : c > new => c > attempts /\ c # new
      BY <1>3 DEF Connection, new
    <2> QED BY <1>2, <1>3, <1>5, <2>1 DEF MqttInv, SenderPlaced, Connected, Leaving, Connection
  <1>8. connection[new].phase = "NONE"
    BY <1>2, <1>3 DEF MqttInv, SenderPlaced, new
  <1>9. ConnectionOwned'
    <2>1. \A c \in Connection : sender.connection # c
      BY <1>2 DEF Connection, NO_CONNECTION
    <2> QED BY <1>2, <1>4, <1>5, <2>1 DEF MqttInv, ConnectionOwned, Running
  <1>10. AliveSet' = AliveSet \cup {new} /\ new \notin AliveSet
    BY <1>2, <1>4, <1>5, <1>8 DEF AliveSet, Alive
  <1>11. Cardinality(AliveSet') = Cardinality(AliveSet) + 1
    BY <1>10, AliveFinite, FS_AddElement
  <1>12. StateOwned'
    BY <1>1, <1>2, <1>3, <1>11, AliveFinite DEF MqttInv, StateOwned, At
  <1>13. LeftBehindBlocks'
    <2> SUFFICES ASSUME submitter # "GONE" PROVE AliveSet' = {new}
      BY <1>2, <1>3 DEF LeftBehindBlocks
    <2>1. Cardinality(AliveSet) = 0
      BY <1>1, <1>2, <1>3, AliveFinite DEF MqttInv, StateOwned, At, StateType
    <2>2. AliveSet = {}
      BY <2>1, AliveFinite, FS_EmptySet
    <2> QED BY <1>10, <2>2
  <1>14. LinesCurrent' /\ NoLostLine'
    BY <1>2, <1>3 DEF MqttInv, LinesCurrent, NoLostLine, At
  <1> QED BY <1>6, <1>7, <1>9, <1>12, <1>13, <1>14 DEF MqttInv

\* The sender uses its connection: it publishes over it or asks for its end.
LEMMA UseInv == ASSUME MqttInv, Publish \/ StopNetwork PROVE MqttInv'
  <1> DEFINE mine == sender.connection
  <1>1. /\ sender \in SenderType /\ mqtt \in StateType
        /\ connection \in [Connection -> ConnectionType]
        /\ sender.pc \in {"PUBLISH", "STOP_NETWORK"}
        /\ mine \in Connection /\ UNCHANGED <<attempts, lines, submitter>>
    BY DEF MqttInv, MqttTypeOK, SenderPlaced, Publish, StopNetwork, At, Connected, SenderType,
           Connection, NO_CONNECTION
  <1>2. /\ connection' \in [Connection -> ConnectionType]
        /\ \A c \in Connection : /\ connection'[c].owners = connection[c].owners
                                 /\ connection'[c].phase = connection[c].phase
    <2>1. connection[mine] \in ConnectionType
      BY <1>1
    <2>2. PICK used \in ConnectionType :
            /\ used.owners = connection[mine].owners /\ used.phase = connection[mine].phase
            /\ connection' = [connection EXCEPT ![mine] = used]
      <3>1. CASE connection' = [connection EXCEPT ![mine].stop = TRUE]
        <4> DEFINE w == [connection[mine] EXCEPT !.stop = TRUE]
        <4>1. /\ w \in ConnectionType /\ w.owners = connection[mine].owners
              /\ w.phase = connection[mine].phase
          BY <2>1 DEF ConnectionType
        <4>2. connection' = [connection EXCEPT ![mine] = w]
          BY <1>1, <3>1
        <4> HIDE DEF w
        <4> QED BY <4>1, <4>2
      <3>2. CASE connection' = [connection EXCEPT ![mine].pending = TRUE]
        <4> DEFINE w == [connection[mine] EXCEPT !.pending = TRUE]
        <4>1. /\ w \in ConnectionType /\ w.owners = connection[mine].owners
              /\ w.phase = connection[mine].phase
          BY <2>1 DEF ConnectionType
        <4>2. connection' = [connection EXCEPT ![mine] = w]
          BY <1>1, <3>2
        <4> HIDE DEF w
        <4> QED BY <4>1, <4>2
      <3>3. CASE connection' = [connection EXCEPT ![mine].pending = FALSE,
                                                  ![mine].online = FALSE]
        <4> DEFINE w == [connection[mine] EXCEPT !.pending = FALSE, !.online = FALSE]
        <4>1. /\ w \in ConnectionType /\ w.owners = connection[mine].owners
              /\ w.phase = connection[mine].phase
          BY <2>1 DEF ConnectionType
        <4>2. connection' = [connection EXCEPT ![mine] = w]
          BY <1>1, <3>3
        <4> HIDE DEF w
        <4> QED BY <4>1, <4>2
      <3> QED BY <3>1, <3>2, <3>3 DEF Publish, StopNetwork
    <2> QED BY <1>1, <2>2
  <1>3. /\ mqtt' \in StateType /\ mqtt'.owners = mqtt.owners
        /\ mqtt'.online => mqtt.online
        /\ sender' \in SenderType /\ sender'.connection = mine
        /\ sender.pc = "PUBLISH" => sender'.pc = "DRAIN"
        /\ sender.pc = "STOP_NETWORK" => sender'.pc = "JOIN_NETWORK"
    <2>1. CASE StopNetwork
      BY <1>1, <2>1 DEF StopNetwork, At, Goes, SenderType, Connected
    <2>2. CASE Publish
      <3>1. /\ sender' = [sender EXCEPT !.line = NO_CONNECTION, !.pc = "DRAIN"]
            /\ mqtt' = mqtt \/ mqtt' = [mqtt EXCEPT !.online = FALSE]
            /\ sender.pc = "PUBLISH"
        BY <2>2 DEF Publish, At
      <3>2. NO_CONNECTION \in 0 .. MaxConnections
        BY MqttAssumption DEF NO_CONNECTION
      <3>3. mqtt' \in StateType /\ mqtt'.owners = mqtt.owners /\ (mqtt'.online => mqtt.online)
        BY <1>1, <3>1 DEF StateType
      <3> QED BY <1>1, <3>1, <3>2, <3>3 DEF SenderType, Connected
    <2> QED BY <1>1, <2>1, <2>2
  <1>4. MqttTypeOK'
    BY <1>1, <1>2, <1>3 DEF MqttInv, MqttTypeOK
  <1>5. SenderPlaced' /\ ConnectionOwned'
    BY <1>1, <1>2, <1>3 DEF MqttInv, SenderPlaced, ConnectionOwned, Connected, Leaving
  <1>6. \A c \in Connection : Alive(c)' <=> Alive(c)
    BY <1>2 DEF Alive
  <1>7. At("ENDED")' <=> At("ENDED")
    BY <1>1, <1>3 DEF At
  <1>8. StateOwned' /\ LeftBehindBlocks'
    BY <1>1, <1>3, <1>6, <1>7, OwnersStay
  <1>9. LinesCurrent' /\ NoLostLine'
    BY <1>1, <1>3 DEF MqttInv, LinesCurrent, NoLostLine, At
  <1> QED BY <1>4, <1>5, <1>8, <1>9 DEF MqttInv

\* The sender gives its connection up, whether its thread has ended or not.
LEMMA GiveUpInv == ASSUME MqttInv, JoinNetwork PROVE MqttInv'
  <1> DEFINE mine == sender.connection
             left == [connection[mine] EXCEPT !.owners = @ - 1]
  <1>1. /\ sender \in SenderType /\ connection \in [Connection -> ConnectionType]
        /\ sender.pc = "JOIN_NETWORK"
        /\ mine \in Connection /\ UNCHANGED <<mqtt, attempts, lines, submitter>>
        /\ connection' = [connection EXCEPT ![mine] = left]
    BY DEF MqttInv, MqttTypeOK, SenderPlaced, JoinNetwork, At, Connected, SenderType,
           Connection, NO_CONNECTION, Released
  <1>2. /\ left \in ConnectionType /\ left.phase = connection[mine].phase
        /\ left.owners = connection[mine].owners - 1
    <2>1. connection[mine] \in ConnectionType
      BY <1>1
    <2> QED BY <2>1 DEF ConnectionType
  <1>3. /\ sender' \in SenderType /\ sender'.connection = NO_CONNECTION
        /\ sender'.pc \in {"LEAVE", "WAIT"}
    <2>1. PICK pc \in {"LEAVE", "WAIT"} :
            sender' = [sender EXCEPT !.connection = NO_CONNECTION, !.was_online = FALSE,
                                     !.online = FALSE, !.pc = pc]
      BY DEF JoinNetwork
    <2>2. NO_CONNECTION \in 0 .. MaxConnections
      BY MqttAssumption DEF NO_CONNECTION
    <2> HIDE DEF left
    <2> QED BY <1>1, <2>1, <2>2 DEF SenderType, Between, Leaving
  <1> HIDE DEF left
  <1>4. /\ connection' \in [Connection -> ConnectionType]
        /\ connection'[mine] = left
        /\ \A c \in Connection : c # mine => connection'[c] = connection[c]
    BY <1>1, <1>2
  <1>5. \A c \in Connection : connection'[c].phase = connection[c].phase
    BY <1>2, <1>4
  <1>6. MqttTypeOK'
    BY <1>1, <1>3, <1>4 DEF MqttInv, MqttTypeOK
  <1>7. SenderPlaced'
    BY <1>1, <1>3, <1>5 DEF MqttInv, MqttTypeOK, SenderPlaced, Connected, NO_CONNECTION
  <1>8. ConnectionOwned'
    <2>1. \A c \in Connection : c # NO_CONNECTION
      BY DEF Connection, NO_CONNECTION
    <2>2. \A c \in Connection : connection[c].owners \in Int
      BY <1>1 DEF ConnectionType
    <2> QED BY <1>1, <1>2, <1>3, <1>4, <1>5, <2>1, <2>2 DEF MqttInv, ConnectionOwned
  <1>9. AliveSet' = AliveSet
    BY <1>5 DEF AliveSet, Alive
  <1>10. StateOwned' /\ LeftBehindBlocks'
    BY <1>1, <1>3, <1>9 DEF MqttInv, StateOwned, LeftBehindBlocks, At
  <1>11. LinesCurrent' /\ NoLostLine'
    BY <1>1, <1>3 DEF MqttInv, LinesCurrent, NoLostLine, At
  <1> QED BY <1>6, <1>7, <1>8, <1>10, <1>11 DEF MqttInv

\* A network thread until it gives its connection up: what it finds, and the
\* callbacks it makes.
LEMMA NetworkInv ==
  ASSUME MqttInv, NEW c \in Connection,
         \/ Resolved(c) \/ mqtt_connected(c) \/ mqtt_disconnected(c) \/ mqtt_published(c)
         \/ CallbackWakes(c) \/ LoopEnds(c) \/ NetworkOffline(c)
  PROVE  MqttInv'
  <1>1. /\ sender \in SenderType /\ mqtt \in StateType
        /\ connection \in [Connection -> ConnectionType]
        /\ UNCHANGED <<lines, attempts, sender, submitter>>
    BY DEF MqttInv, MqttTypeOK, Resolved, mqtt_connected, mqtt_disconnected, mqtt_published,
           CallbackWakes, LoopEnds, NetworkOffline
  <1>2. /\ mqtt' \in StateType /\ mqtt'.owners = mqtt.owners /\ mqtt'.online = mqtt.online
        /\ (mqtt.woken => mqtt'.woken)
    BY <1>1 DEF Resolved, mqtt_connected, mqtt_disconnected, mqtt_published,
                CallbackWakes, LoopEnds, NetworkOffline, Wakes, StateType
  <1>3. connection[c] \in ConnectionType
    BY <1>1
  <1>4. PICK r \in ConnectionType :
          /\ r.owners = connection[c].owners /\ r.phase \in Running
          /\ connection[c].phase \in Running
          /\ connection' = [connection EXCEPT ![c] = r]
          /\ \/ r.phase = "CALLING"
             \/ mqtt'.woken
             \/ /\ r.online = connection[c].online /\ r.pending = connection[c].pending
                /\ connection[c].phase # "CALLING"
    <2>1. CASE Resolved(c)
      <3>1. PICK phase \in {"LOOPING", "ENDING"} :
              connection' = [connection EXCEPT ![c].phase = phase]
        BY <2>1 DEF Resolved
      <3> DEFINE w == [connection[c] EXCEPT !.phase = phase]
      <3>2. /\ w \in ConnectionType /\ w.owners = connection[c].owners /\ w.phase = phase
            /\ w.online = connection[c].online /\ w.pending = connection[c].pending
        BY <1>3 DEF ConnectionType, Phases, Running
      <3>3. connection' = [connection EXCEPT ![c] = w]
        BY <1>1, <3>1 DEF Resolved
      <3> HIDE DEF w
      <3> QED BY <1>1, <2>1, <3>2, <3>3 DEF Resolved, Running
    <2>2. CASE mqtt_connected(c)
      <3> DEFINE w == [connection[c] EXCEPT !.online = TRUE, !.phase = "CALLING"]
      <3>2. /\ w \in ConnectionType /\ w.owners = connection[c].owners /\ w.phase = "CALLING"
        BY <1>3 DEF ConnectionType, Phases, Running
      <3>3. connection' = [connection EXCEPT ![c] = w]
        BY <1>1, <2>2 DEF mqtt_connected
      <3> HIDE DEF w
      <3> QED BY <1>1, <2>2, <3>2, <3>3 DEF mqtt_connected, Running
    <2>3. CASE mqtt_disconnected(c)
      <3> DEFINE w == [connection[c] EXCEPT !.online = FALSE, !.phase = "CALLING"]
      <3>2. /\ w \in ConnectionType /\ w.owners = connection[c].owners /\ w.phase = "CALLING"
        BY <1>3 DEF ConnectionType, Phases, Running
      <3>3. connection' = [connection EXCEPT ![c] = w]
        BY <1>1, <2>3 DEF mqtt_disconnected
      <3> HIDE DEF w
      <3> QED BY <1>1, <2>3, <3>2, <3>3 DEF mqtt_disconnected, Running
    <2>4. CASE mqtt_published(c)
      <3> DEFINE w == [connection[c] EXCEPT !.pending = FALSE, !.phase = "CALLING"]
      <3>2. /\ w \in ConnectionType /\ w.owners = connection[c].owners /\ w.phase = "CALLING"
        BY <1>3 DEF ConnectionType, Phases, Running
      <3>3. connection' = [connection EXCEPT ![c] = w]
        BY <1>1, <2>4 DEF mqtt_published
      <3> HIDE DEF w
      <3> QED BY <1>1, <2>4, <3>2, <3>3 DEF mqtt_published, Running
    <2>5. CASE CallbackWakes(c)
      <3> DEFINE w == [connection[c] EXCEPT !.phase = "LOOPING"]
      <3>2. /\ w \in ConnectionType /\ w.owners = connection[c].owners /\ w.phase = "LOOPING"
        BY <1>3 DEF ConnectionType, Phases, Running
      <3>3. connection' = [connection EXCEPT ![c] = w]
        BY <1>1, <2>5 DEF CallbackWakes
      <3> HIDE DEF w
      <3> QED BY <1>1, <2>5, <3>2, <3>3 DEF CallbackWakes, Running, Wakes, StateType
    <2>6. CASE LoopEnds(c)
      <3> DEFINE w == [connection[c] EXCEPT !.phase = "ENDING"]
      <3>2. /\ w \in ConnectionType /\ w.owners = connection[c].owners /\ w.phase = "ENDING"
            /\ w.online = connection[c].online /\ w.pending = connection[c].pending
        BY <1>3 DEF ConnectionType, Phases, Running
      <3>3. connection' = [connection EXCEPT ![c] = w]
        BY <1>1, <2>6 DEF LoopEnds
      <3> HIDE DEF w
      <3> QED BY <1>1, <2>6, <3>2, <3>3 DEF LoopEnds, Running
    <2>7. CASE NetworkOffline(c)
      <3> DEFINE w == [connection[c] EXCEPT !.phase = "RELEASING", !.online = FALSE]
      <3>2. /\ w \in ConnectionType /\ w.owners = connection[c].owners /\ w.phase = "RELEASING"
        BY <1>3 DEF ConnectionType, Phases, Running
      <3>3. connection' = [connection EXCEPT ![c] = w]
        BY <1>1, <2>7 DEF NetworkOffline
      <3> HIDE DEF w
      <3> QED BY <1>1, <2>7, <3>2, <3>3 DEF NetworkOffline, Running, Wakes, StateType
    <2> QED BY <2>1, <2>2, <2>3, <2>4, <2>5, <2>6, <2>7
  <1>5. /\ connection' \in [Connection -> ConnectionType] /\ connection'[c] = r
        /\ \A d \in Connection : d # c => connection'[d] = connection[d]
    BY <1>1, <1>4
  <1>6. MqttTypeOK'
    BY <1>1, <1>2, <1>5 DEF MqttInv, MqttTypeOK
  <1>7. SenderPlaced' /\ ConnectionOwned'
    BY <1>1, <1>4, <1>5 DEF MqttInv, SenderPlaced, ConnectionOwned, Running
  <1>8. \A d \in Connection : Alive(d)' <=> Alive(d)
    BY <1>4, <1>5 DEF Alive, Running
  <1>9. At("ENDED")' <=> At("ENDED")
    BY <1>1 DEF At
  <1>10. StateOwned' /\ LeftBehindBlocks'
    BY <1>1, <1>2, <1>8, <1>9, OwnersStay
  <1>11. LinesCurrent'
    BY <1>1, <1>2 DEF MqttInv, LinesCurrent
  <1>12. NoLostLine'
    <2>1. CASE sender.connection # c
      <3>1. sender.connection = NO_CONNECTION \/ sender.connection \in Connection
        BY <1>1 DEF SenderType, Connection, NO_CONNECTION
      <3>2. sender.connection # NO_CONNECTION =>
              connection'[sender.connection] = connection[sender.connection]
        BY <1>5, <2>1, <3>1
      <3> QED BY <1>1, <1>2, <3>2 DEF MqttInv, NoLostLine, At, Current
    <2>2. CASE sender.connection = c
      BY <1>1, <1>2, <1>4, <1>5, <2>2 DEF MqttInv, NoLostLine, At, Current
    <2> QED BY <2>1, <2>2
  <1> QED BY <1>6, <1>7, <1>10, <1>11, <1>12 DEF MqttInv

\* A network thread gives its connection up, and then the state.
LEMMA ReleasesInv ==
  ASSUME MqttInv, NEW c \in Connection, NetworkReleases(c) PROVE MqttInv'
  <1> DEFINE r == [[connection[c] EXCEPT !.owners = @ - 1] EXCEPT !.phase = "LAST"]
  <1>1. /\ sender \in SenderType /\ connection \in [Connection -> ConnectionType]
        /\ connection[c] \in ConnectionType /\ connection[c].phase = "RELEASING"
        /\ UNCHANGED <<mqtt, lines, attempts, sender, submitter>>
        /\ connection' = [connection EXCEPT ![c] = r]
    BY DEF MqttInv, MqttTypeOK, NetworkReleases, Released
  <1>2. /\ r \in ConnectionType /\ r.phase = "LAST" /\ r.owners = connection[c].owners - 1
        /\ r.online = connection[c].online /\ r.pending = connection[c].pending
    <2> DEFINE left == [connection[c] EXCEPT !.owners = @ - 1]
    <2>1. /\ left \in ConnectionType /\ left.owners = connection[c].owners - 1
          /\ left.online = connection[c].online /\ left.pending = connection[c].pending
      BY <1>1 DEF ConnectionType
    <2>2. r = [left EXCEPT !.phase = "LAST"]
      OBVIOUS
    <2> HIDE DEF left, r
    <2> QED BY <2>1, <2>2 DEF ConnectionType, Phases
  <1> HIDE DEF r
  <1>3. /\ connection' \in [Connection -> ConnectionType] /\ connection'[c] = r
        /\ \A d \in Connection : d # c => connection'[d] = connection[d]
    BY <1>1, <1>2
  <1>4. MqttTypeOK'
    BY <1>1, <1>3 DEF MqttInv, MqttTypeOK
  <1>5. SenderPlaced'
    BY <1>1, <1>3 DEF MqttInv, SenderPlaced
  <1>6. ConnectionOwned'
    <2>1. connection[c].owners \in Int
      BY <1>1 DEF ConnectionType
    <2> QED BY <1>1, <1>2, <1>3, <2>1 DEF MqttInv, ConnectionOwned, Running
  <1>7. \A d \in Connection : Alive(d)' <=> Alive(d)
    BY <1>1, <1>2, <1>3 DEF Alive
  <1>8. At("ENDED")' <=> At("ENDED")
    BY <1>1 DEF At
  <1>9. StateOwned' /\ LeftBehindBlocks'
    BY <1>1, <1>7, <1>8, OwnersStay
  <1>10. LinesCurrent'
    BY <1>1 DEF MqttInv, LinesCurrent
  <1>11. NoLostLine'
    <2>1. sender.connection = NO_CONNECTION \/ sender.connection \in Connection
      BY <1>1 DEF SenderType, Connection, NO_CONNECTION
    <2> QED BY <1>1, <1>2, <1>3, <2>1 DEF MqttInv, NoLostLine, At, Current
  <1> QED BY <1>4, <1>5, <1>6, <1>9, <1>10, <1>11 DEF MqttInv

\* The end of a network thread keeps the invariant.
LEMMA EndsInv ==
  ASSUME MqttInv, NEW c \in Connection, NetworkEnds(c) PROVE MqttInv'
  <1> DEFINE r == [connection[c] EXCEPT !.phase = "ENDED"]
  <1>1. /\ sender \in SenderType /\ connection \in [Connection -> ConnectionType]
        /\ connection[c] \in ConnectionType /\ connection[c].phase = "LAST"
        /\ UNCHANGED <<lines, attempts, sender, submitter>>
        /\ mqtt \in StateType /\ mqtt' \in StateType /\ mqtt'.owners = mqtt.owners - 1
        /\ mqtt'.online = mqtt.online /\ mqtt'.woken = mqtt.woken
        /\ connection' = [connection EXCEPT ![c] = r]
    BY DEF MqttInv, MqttTypeOK, NetworkEnds, Released, StateType
  <1>2. /\ r \in ConnectionType /\ r.phase = "ENDED" /\ r.owners = connection[c].owners
        /\ r.online = connection[c].online /\ r.pending = connection[c].pending
    BY <1>1 DEF ConnectionType, Phases
  <1> HIDE DEF r
  <1>3. /\ connection' \in [Connection -> ConnectionType] /\ connection'[c] = r
        /\ \A d \in Connection : d # c => connection'[d] = connection[d]
    BY <1>1, <1>2
  <1>4. MqttTypeOK'
    BY <1>1, <1>3 DEF MqttInv, MqttTypeOK
  <1>5. SenderPlaced' /\ ConnectionOwned'
    BY <1>1, <1>2, <1>3 DEF MqttInv, SenderPlaced, ConnectionOwned, Running
  <1>6. AliveSet' = AliveSet \ {c} /\ c \in AliveSet
    BY <1>1, <1>2, <1>3 DEF AliveSet, Alive
  <1>7. Cardinality(AliveSet') = Cardinality(AliveSet) - 1
    BY <1>6, AliveFinite, FS_RemoveElement
  <1>8. StateOwned' /\ LeftBehindBlocks'
    BY <1>1, <1>6, <1>7, AliveFinite DEF MqttInv, StateOwned, LeftBehindBlocks, At
  <1>9. LinesCurrent'
    BY <1>1 DEF MqttInv, LinesCurrent
  <1>10. NoLostLine'
    <2>1. sender.connection = NO_CONNECTION \/ sender.connection \in Connection
      BY <1>1 DEF SenderType, Connection, NO_CONNECTION
    <2> QED BY <1>1, <1>2, <1>3, <2>1 DEF MqttInv, NoLostLine, At, Current
  <1> QED BY <1>4, <1>5, <1>8, <1>9, <1>10 DEF MqttInv

-----------------------------------------------------------------------------
(* The theorems.                                                            *)

\* The invariant holds before the sender starts.
LEMMA MqttInitInv == MqttInit => MqttInv
  <1> SUFFICES ASSUME MqttInit PROVE MqttInv
    OBVIOUS
  <1>1. connection = [c \in Connection |->
          [phase |-> "NONE", owners |-> 0, stop |-> FALSE, online |-> FALSE,
           pending |-> FALSE]]
    BY DEF MqttInit
  <1>2. /\ connection \in [Connection -> ConnectionType]
        /\ \A c \in Connection : connection[c].phase = "NONE" /\ connection[c].owners = 0
    BY <1>1 DEF ConnectionType, Phases
  <1>3. /\ mqtt \in StateType /\ mqtt.owners = 2 /\ mqtt.online = FALSE
        /\ sender \in SenderType /\ sender.pc = "LOOP" /\ sender.connection = NO_CONNECTION
        /\ lines = <<>> /\ attempts = 0 /\ submitter = "FREE"
    BY MqttAssumption DEF MqttInit, StateType, SenderType, Between, MQTT_SENDER_OWNERS,
                          NO_CONNECTION
  <1>4. MqttTypeOK
    BY <1>2, <1>3, MqttAssumption DEF MqttTypeOK
  <1>5. SenderPlaced /\ LinesCurrent /\ NoLostLine
    BY <1>2, <1>3 DEF SenderPlaced, LinesCurrent, NoLostLine, At, Connected, Leaving,
                      NO_CONNECTION
  <1>6. ConnectionOwned
    BY <1>2, <1>3 DEF ConnectionOwned, Running, Connection, NO_CONNECTION
  <1>7. AliveSet = {} /\ Cardinality(AliveSet) = 0
    BY <1>2, FS_EmptySet DEF AliveSet, Alive
  <1>8. StateOwned /\ LeftBehindBlocks
    BY <1>3, <1>7 DEF StateOwned, LeftBehindBlocks, At
  <1> QED BY <1>4, <1>5, <1>6, <1>8 DEF MqttInv

\* A stutter keeps the invariant.
LEMMA MqttStutter == ASSUME MqttInv, UNCHANGED mqttVars PROVE MqttInv'
  BY DEF MqttInv, MqttTypeOK, SenderPlaced, ConnectionOwned, StateOwned, LeftBehindBlocks,
         LinesCurrent, NoLostLine, AliveSet, Alive, At, Current, mqttVars

\* Every step of the threads, and every stutter, keeps the invariant.
LEMMA MqttStep == ASSUME MqttInv, [MqttNext]_mqttVars PROVE MqttInv'
  <1>1. ASSUME MainThread PROVE MqttInv'
    BY <1>1, MainInv, JoinedInv DEF MainThread
  <1>2. ASSUME SenderThread PROVE MqttInv'
    BY <1>2, SenderLocal, LoopInv, ConnectInv, UseInv, GiveUpInv, LeaveInv DEF SenderThread
  <1>3. ASSUME NEW c \in Connection, NetworkThread(c) PROVE MqttInv'
    BY <1>3, NetworkInv, ReleasesInv, EndsInv DEF NetworkThread
  <1>4. ASSUME UNCHANGED mqttVars PROVE MqttInv'
    BY <1>4, MqttStutter
  <1> QED BY <1>1, <1>2, <1>3, <1>4, Zenon DEF MqttNext

\* Whatever the order of the steps of the threads, the counts of owners are
\* those of the threads that still use what they count, and the queue belongs
\* to the connection the sender has (logging/mqtt.c).
THEOREM MqttInvariance == MqttSpec => []MqttInv
  <1>1. MqttInv /\ [MqttNext]_mqttVars => MqttInv'
    BY MqttStep
  <1> QED BY MqttInitInv, <1>1, PTL DEF MqttSpec

\* What has no owner left is used by nobody, and while the main thread runs one
\* connection at most is left behind in the resolver (mqtt_release,
\* mqtt_connection_release, mqtt_connect).
THEOREM OwnersStayTrue == MqttSpec => []OwnersTrue
  <1>1. MqttInv => FreedIsForgotten
    <2> SUFFICES ASSUME MqttInv PROVE FreedIsForgotten
      OBVIOUS
    <2>1. mqtt.owners = 0 =>
            submitter = "GONE" /\ At("ENDED") /\ \A c \in Connection : ~Alive(c)
      <3> SUFFICES ASSUME mqtt.owners = 0
                   PROVE  /\ submitter = "GONE" /\ At("ENDED")
                          /\ \A c \in Connection : ~Alive(c)
        OBVIOUS
      <3>1. submitter = "GONE" /\ At("ENDED") /\ Cardinality(AliveSet) = 0
        BY AliveFinite DEF MqttInv, StateOwned
      <3>2. AliveSet = {}
        BY <3>1, AliveFinite, FS_EmptySet
      <3> QED BY <3>1, <3>2 DEF AliveSet
    <2>2. ASSUME NEW c \in Connection, connection[c].owners = 0
          PROVE  sender.connection # c /\ (Alive(c) => connection[c].phase = "LAST")
      <3>1. connection[c].phase \in Phases
        BY DEF MqttInv, MqttTypeOK, ConnectionType
      <3> QED BY <2>2, <3>1 DEF MqttInv, ConnectionOwned, Alive, Phases, Running
    <2> QED BY <2>1, <2>2 DEF FreedIsForgotten
  <1>2. MqttInv => OneLeftBehind
    <2> SUFFICES ASSUME MqttInv, submitter # "GONE"
                 PROVE  Cardinality({c \in Connection : Alive(c) /\ c # sender.connection})
                          <= 1
      BY DEF OneLeftBehind
    <2> DEFINE left == {c \in Connection : Alive(c) /\ c # sender.connection}
    <2>1. left \subseteq AliveSet /\ \A c, d \in left : c = d
      BY DEF AliveSet, MqttInv, LeftBehindBlocks
    <2>2. left = {} \/ \E c : left = {c}
      BY <2>1
    <2>3. Cardinality(left) <= 1
      <3> HIDE DEF left
      <3>1. Cardinality({}) = 0 /\ \A c : Cardinality({c}) = 1
        BY FS_EmptySet, FS_Singleton
      <3> QED BY <2>2, <3>1
    <2> QED BY <2>3
  <1> QED BY <1>1, <1>2, MqttInvariance, PTL DEF OwnersTrue

\* A line is sent over the connection it was queued for or dropped, and none
\* waits unnoticed (mqtt_submit, mqtt_send, mqtt_thread).
THEOREM QueueIsKept == MqttSpec => []QueueKept
  <1>1. MqttInv => QueueKept
    BY DEF MqttInv, QueueKept, NoStaleLine, LinesCurrent, At
  <1> QED BY <1>1, MqttInvariance, PTL

-----------------------------------------------------------------------------
(* Service: what procd runs and what the runtime directory holds.           *)

File == {"NONE"} \cup Contents

ScriptType ==
  [call : {"NONE", "RELOAD", "RESTART", "STOP"}, requested : Sections \cup {ALL},
   enabled : SUBSET Sections, left : SUBSET Sections, registered : SUBSET Sections,
   generated : SUBSET Sections, at : {"IDLE", "CALLED", "SECTIONS", "CLOSE"}]

ServiceTypeOK ==
  /\ uci \in [Sections -> Contents]
  /\ runtime \in [Sections -> File]
  /\ procd \in [Sections -> File]
  /\ process \in [Sections ->
       [state : {"NONE", "STARTING", "RUNNING", "RESTARTING", "RESPAWN"}, config : File]]
  /\ leaving \in [Sections -> BOOLEAN]
  /\ script \in ScriptType

FilesValid == \A s \in Sections : runtime[s] = "NONE" \/ Validates(runtime[s])

\* What the call under way has registered has a runtime file, and a file whose
\* instance procd does not know is one that this call has generated.
CallKnown ==
  /\ script.at = "SECTIONS" => script.call \in {"RELOAD", "RESTART"}
  /\ script.generated \subseteq script.registered
  /\ script.at \in {"IDLE", "CALLED"} \/ script.call = "STOP" => script.registered = {}
  /\ \A s \in script.registered : runtime[s] # "NONE"
  /\ \A s \in Sections :
       runtime[s] # "NONE" /\ procd[s] = "NONE" => s \in script.generated

\* Before procd is told of the end of a call, the files of what it will stop are
\* gone.
FilesGone ==
  script.at = "CLOSE" =>
    \A s \in Sections :
      IF script.call = "STOP" THEN requested(s) => runtime[s] = "NONE"
      ELSE script.requested = ALL /\ s \notin script.registered => runtime[s] = "NONE"

ServiceInv ==
  ServiceTypeOK /\ FilesValid /\ CallKnown /\ FilesGone /\ OneDaemon

-----------------------------------------------------------------------------
\* The invariant holds before the system boots.
LEMMA ServiceInitInv == ServiceInit => ServiceInv
  <1> SUFFICES ASSUME ServiceInit PROVE ServiceInv
    OBVIOUS
  <1> USE DEF ServiceInit, NoCall, Gone
  <1>1. ServiceTypeOK
    BY DEF ServiceTypeOK, ScriptType, File, Contents
  <1>2. FilesValid /\ CallKnown /\ FilesGone /\ OneDaemon
    BY DEF FilesValid, CallKnown, FilesGone, OneDaemon
  <1> QED BY <1>1, <1>2 DEF ServiceInv

\* What the states of a daemon that does not run have in common.
LEMMA StatesDiffer ==
  /\ Gone.state = "NONE" /\ Gone.config = "NONE"
  /\ Starting.state = "STARTING" /\ Starting.config = "NONE"
  /\ Respawning.state = "RESPAWN" /\ Respawning.config = "NONE"
  BY DEF Gone, Starting, Respawning

\* Those told to end had a daemon, which has been taken from them.
LEMMA EndingSafe ==
  ASSUME ServiceInv, NEW stopped \in SUBSET Sections, Ending(stopped),
         \A s \in Sections :
           process'[s].state = "RUNNING" =>
             process[s].state = "RUNNING" /\ s \notin stopped
  PROVE  OneDaemon' /\ leaving' \in [Sections -> BOOLEAN]
  BY DEF ServiceInv, ServiceTypeOK, OneDaemon, Ending

\* A call of the init script keeps the invariant.
LEMMA ToldInv ==
  ASSUME ServiceInv, NEW call \in {"RELOAD", "RESTART", "STOP"},
         NEW s \in Sections \cup {ALL}, Told(call, s)
  PROVE  ServiceInv'
  <1> USE DEF ServiceInv, Told
  <1>1. ServiceTypeOK'
    BY DEF ServiceTypeOK, ScriptType, NoCall
  <1>2. FilesValid' /\ OneDaemon'
    BY DEF FilesValid, OneDaemon
  <1>3. CallKnown'
    BY DEF CallKnown, NoCall, ServiceTypeOK, ScriptType
  <1>4. FilesGone'
    BY DEF FilesGone, NoCall
  <1> QED BY <1>1, <1>2, <1>3, <1>4

\* start_service keeps the invariant, whether the configuration loads or not.
LEMMA StartServiceInv ==
  ASSUME ServiceInv, NEW loads \in BOOLEAN, StartService(loads)
  PROVE  ServiceInv'
  <1> USE DEF ServiceInv
  <1>1. /\ script.at = "CALLED" /\ script.call \in {"RELOAD", "RESTART"}
        /\ UNCHANGED <<uci, runtime, procd, process, leaving>>
    BY DEF StartService
  <1>2. script.registered = {} /\ script.generated = {}
    BY <1>1 DEF CallKnown
  <1>3. /\ script' \in ScriptType
        /\ script'.generated = {} /\ script'.requested = script.requested
        /\ script'.call = script.call
        /\ \/ script'.at = "SECTIONS" /\ script'.registered = {}
           \/ /\ script'.at = "CLOSE"
              /\ script'.registered =
                   {s \in Sections : requested(s) /\ runtime[s] # "NONE"}
    <2> DEFINE left == {s \in Sections : requested(s) /\ uci[s] # "ABSENT"}
               enabled == {s \in Sections : uci[s] \notin {"ABSENT", "DISABLED"}}
               kept == {s \in Sections : requested(s) /\ runtime[s] # "NONE"}
    <2>1. left \in SUBSET Sections /\ enabled \in SUBSET Sections
          /\ kept \in SUBSET Sections
      OBVIOUS
    <2>2. \/ script' = [script EXCEPT !.at = "SECTIONS", !.left = left,
                                      !.enabled = enabled]
          \/ script' = [script EXCEPT !.at = "CLOSE", !.registered = kept]
      BY DEF StartService
    <2> HIDE DEF left, enabled, kept
    <2>3. script \in ScriptType
      BY DEF ServiceTypeOK
    <2>4. /\ script' \in ScriptType /\ script'.generated = {}
          /\ script'.call = script.call /\ script'.requested = script.requested
          /\ \/ script'.at = "SECTIONS" /\ script'.registered = {}
             \/ script'.at = "CLOSE" /\ script'.registered = kept
      BY <1>2, <2>1, <2>2, <2>3 DEF ScriptType
    <2> QED BY <2>4 DEF kept
  <1>4. ServiceTypeOK'
    BY <1>1, <1>3 DEF ServiceTypeOK
  <1>5. FilesValid' /\ OneDaemon'
    BY <1>1 DEF FilesValid, OneDaemon
  <1>6. CallKnown'
    BY <1>1, <1>3 DEF CallKnown
  <1>7. FilesGone'
    BY <1>1, <1>3 DEF FilesGone, requested
  <1> QED BY <1>4, <1>5, <1>6, <1>7

\* What an import that validates stages is a configuration file.
LEMMA ImportedFile ==
  ASSUME ServiceInv, NEW s \in Sections, Validates(Imported(s))
  PROVE  Imported(s) \in File \ {"NONE"}
  BY ServiceAssumption DEF ServiceInv, ServiceTypeOK, Imported, Validates, File, Contents

\* start_instance keeps the invariant, whether the file is staged or not.
LEMMA StartInstanceInv ==
  ASSUME ServiceInv, NEW s \in Sections, NEW staged \in BOOLEAN,
         NEW deleted \in BOOLEAN, StartInstance(s, staged, deleted)
  PROVE  ServiceInv'
  <1> USE DEF ServiceInv
  <1> DEFINE gone == script.call = "RESTART" /\ deleted
  <1>0. script.at = "SECTIONS" /\ s \in script.left /\ UNCHANGED uci
    BY DEF StartInstance
  <1>1. CASE s \notin script.enabled \/ ~generates(s, staged)
    <2>1. /\ UNCHANGED <<runtime, procd, process, leaving>>
          /\ \/ script' = [script EXCEPT !.left = @ \ {s}]
             \/ /\ runtime[s] # "NONE"
                /\ script' = [script EXCEPT !.left = @ \ {s},
                                            !.registered = @ \cup {s}]
      BY <1>1 DEF StartInstance, ServiceTypeOK, ScriptType
    <2>a. /\ script' \in ScriptType /\ script'.generated = script.generated
          /\ script'.call = script.call /\ script'.at = script.at
          /\ \/ script'.registered = script.registered
             \/ runtime[s] # "NONE" /\ script'.registered = script.registered \cup {s}
      <3>1. script \in ScriptType
        BY DEF ServiceTypeOK
      <3> DEFINE left == script.left \ {s}
                 more == script.registered \cup {s}
      <3>2. left \in SUBSET Sections /\ more \in SUBSET Sections
        BY <3>1 DEF ScriptType
      <3>3. \/ script' = [script EXCEPT !.left = left]
            \/ /\ runtime[s] # "NONE"
               /\ script' = [script EXCEPT !.left = left, !.registered = more]
        BY <2>1, <3>1 DEF ScriptType
      <3> HIDE DEF left
      <3>4. CASE script' = [script EXCEPT !.left = left]
        BY <3>1, <3>2, <3>4 DEF ScriptType
      <3>5. CASE /\ runtime[s] # "NONE"
                 /\ script' = [script EXCEPT !.left = left, !.registered = more]
        <4> HIDE DEF more
        <4>1. /\ script' \in ScriptType /\ script'.generated = script.generated
              /\ script'.call = script.call /\ script'.at = script.at
              /\ script'.registered = more
          BY <3>1, <3>2, <3>5 DEF ScriptType
        <4> QED BY <3>5, <4>1 DEF more
      <3> QED BY <3>3, <3>4, <3>5
    <2>2. ServiceTypeOK'
      BY <1>0, <2>1, <2>a DEF ServiceTypeOK
    <2>3. FilesValid' /\ OneDaemon'
      BY <2>1 DEF FilesValid, OneDaemon
    <2>b. script.call # "STOP"
      BY <1>0 DEF CallKnown
    <2>4. CallKnown'
      BY <1>0, <2>1, <2>a, <2>b DEF CallKnown
    <2>5. FilesGone'
      BY <1>0, <2>1 DEF FilesGone, ServiceTypeOK, ScriptType
    <2> QED BY <2>2, <2>3, <2>4, <2>5
  <1>2. CASE s \in script.enabled /\ generates(s, staged)
    <2>1. /\ runtime' = [runtime EXCEPT ![s] = Imported(s)]
          /\ Stopped(s, gone)
          /\ script' = [script EXCEPT !.left = @ \ {s}, !.registered = @ \cup {s},
                                      !.generated = @ \cup {s}]
      BY <1>2 DEF StartInstance
    <2>2. Imported(s) \in File \ {"NONE"} /\ Validates(Imported(s))
      BY <1>2, ImportedFile DEF generates
    <2>a. /\ script' \in ScriptType /\ script'.call = script.call
          /\ script'.at = script.at
          /\ script'.registered = script.registered \cup {s}
          /\ script'.generated = script.generated \cup {s}
      <3>1. script \in ScriptType
        BY DEF ServiceTypeOK
      <3> QED BY <2>1, <3>1 DEF ScriptType
    <2>3. OneDaemon' /\ leaving' \in [Sections -> BOOLEAN]
      <3>1. Ending(IF gone THEN {s} ELSE {})
        BY <2>1 DEF Stopped
      <3>2. \A t \in Sections :
              process'[t].state = "RUNNING" =>
                process[t].state = "RUNNING" /\ t \notin (IF gone THEN {s} ELSE {})
        BY <2>1 DEF Stopped, Gone, ServiceTypeOK
      <3> HIDE DEF gone
      <3> QED BY <3>1, <3>2, EndingSafe
    <2>4. ServiceTypeOK'
      <3>1. process' = process \/ process' = [process EXCEPT ![s] = Gone]
        BY <2>1 DEF Stopped
      <3>2. procd' = procd \/ procd' = [procd EXCEPT ![s] = "NONE"]
        BY <2>1 DEF Stopped
      <3>3. Gone \in [state : {"NONE", "STARTING", "RUNNING", "RESTARTING", "RESPAWN"},
                       config : File]
        BY DEF Gone, File
      <3>4. "NONE" \in File
        BY DEF File
      <3>5. runtime' \in [Sections -> File] /\ procd' \in [Sections -> File]
        BY <2>1, <2>2, <3>2, <3>4 DEF ServiceTypeOK
      <3>6. process' \in [Sections -> [state : {"NONE", "STARTING", "RUNNING",
                                      "RESTARTING", "RESPAWN"}, config : File]]
        BY <3>1, <3>3 DEF ServiceTypeOK
      <3> QED BY <1>0, <2>3, <2>a, <3>5, <3>6 DEF ServiceTypeOK
    <2>5. FilesValid'
      BY <2>1, <2>2 DEF FilesValid, ServiceTypeOK
    <2>6. CallKnown'
      <3>1. \A t \in Sections : t # s => runtime'[t] = runtime[t] /\ procd'[t] = procd[t]
        BY <2>1 DEF Stopped, ServiceTypeOK
      <3>2. runtime'[s] # "NONE"
        BY <2>1, <2>2 DEF ServiceTypeOK
      <3>3. script.call # "STOP"
        BY <1>0, <1>2 DEF CallKnown
      <3>4. /\ script'.at = "SECTIONS" => script'.call \in {"RELOAD", "RESTART"}
            /\ script'.generated \subseteq script'.registered
            /\ ~(script'.at \in {"IDLE", "CALLED"} \/ script'.call = "STOP")
        BY <1>0, <2>a, <3>3 DEF CallKnown
      <3>5. \A t \in script'.registered : runtime'[t] # "NONE"
        BY <2>a, <3>1, <3>2 DEF CallKnown, ServiceTypeOK, ScriptType
      <3>6. \A t \in Sections :
              runtime'[t] # "NONE" /\ procd'[t] = "NONE" => t \in script'.generated
        BY <2>a, <3>1 DEF CallKnown
      <3> QED BY <3>4, <3>5, <3>6 DEF CallKnown
    <2>7. FilesGone'
      BY <1>0, <2>a DEF FilesGone
    <2> QED BY <2>3, <2>4, <2>5, <2>6, <2>7
  <1> QED BY <1>1, <1>2

\* Removing the files left over keeps the invariant.
LEMMA TidyInv ==
  ASSUME ServiceInv, NEW deleted \in BOOLEAN, Tidy(deleted)
  PROVE  ServiceInv'
  <1> USE DEF ServiceInv
  <1> DEFINE stopped == IF script.requested = ALL \/ script.call # "RESTART" \/ ~deleted
                        THEN {} ELSE Unregistered
  <1>1. /\ script.at = "SECTIONS" /\ script' = [script EXCEPT !.at = "CLOSE"]
        /\ runtime' = [s \in Sections |-> IF s \in Unregistered THEN "NONE" ELSE runtime[s]]
        /\ procd' = [s \in Sections |-> IF s \in stopped THEN "NONE" ELSE procd[s]]
        /\ process' = [s \in Sections |-> IF s \in stopped THEN Gone ELSE process[s]]
        /\ Ending(stopped) /\ UNCHANGED uci
    BY DEF Tidy
  <1>2. /\ Unregistered \subseteq Sections \ script.registered
        /\ stopped \subseteq Unregistered
        /\ script.requested = ALL => Unregistered = Sections \ script.registered
    BY DEF Unregistered, ServiceTypeOK, ScriptType
  <1>a. /\ script' \in ScriptType /\ script'.call = script.call
        /\ script'.at = "CLOSE" /\ script'.requested = script.requested
        /\ script'.registered = script.registered
        /\ script'.generated = script.generated
    BY <1>1 DEF ServiceTypeOK, ScriptType
  <1> HIDE DEF stopped
  <1>3. OneDaemon' /\ leaving' \in [Sections -> BOOLEAN]
    <2>1. \A s \in Sections :
            process'[s].state = "RUNNING" =>
              process[s].state = "RUNNING" /\ s \notin stopped
      BY <1>1, StatesDiffer
    <2> QED BY <1>1, <1>2, <2>1, EndingSafe
  <1>4. ServiceTypeOK'
    BY <1>1, <1>3 DEF ServiceTypeOK, ScriptType, File, Gone
  <1>5. FilesValid'
    BY <1>1 DEF FilesValid
  <1>6. CallKnown'
    BY <1>1, <1>2 DEF CallKnown, ServiceTypeOK, ScriptType
  <1>7. FilesGone'
    <2>1. script.call # "STOP"
      BY <1>1 DEF CallKnown
    <2> QED BY <1>1, <1>2, <1>a, <2>1 DEF FilesGone
  <1> QED BY <1>3, <1>4, <1>5, <1>6, <1>7

\* Handing the instances to procd keeps the invariant and revives no section the
\* script did not generate.
LEMMA CloseServiceInv ==
  ASSUME ServiceInv, CloseService
  PROVE  ServiceInv' /\ \A s \in Sections :
           procd[s] = "NONE" /\ procd'[s] # "NONE" => s \in script.generated
  <1> USE DEF ServiceInv
  <1> DEFINE removed == IF script.requested = ALL THEN Registered \ script.registered
                        ELSE {}
             restarted == {s \in script.registered :
                             process[s].state = "RUNNING" /\ Changed(s)}
             started == {s \in script.registered : process[s].state # "RUNNING"}
  <1>1. /\ script.call \in {"RELOAD", "RESTART"} /\ script.at = "CLOSE"
        /\ procd' = [s \in Sections |->
             IF s \in removed THEN "NONE"
             ELSE IF s \in script.registered THEN runtime[s] ELSE procd[s]]
        /\ process' = [s \in Sections |->
             IF s \in removed THEN Gone
             ELSE IF s \in restarted THEN [Gone EXCEPT !.state = "RESTARTING"]
             ELSE IF s \in started THEN Starting ELSE process[s]]
        /\ Ending(removed \cup restarted)
        /\ script' = NoCall /\ UNCHANGED <<uci, runtime>>
    BY DEF CloseService
  <1>2. /\ removed \subseteq Sections \ script.registered
        /\ restarted \subseteq Sections
        /\ removed # {} => script.requested = ALL
    BY DEF ServiceTypeOK, ScriptType, Registered
  <1> HIDE DEF removed, restarted, started
  <1>3. OneDaemon' /\ leaving' \in [Sections -> BOOLEAN]
    <2>1. \A s \in Sections :
            process'[s].state = "RUNNING" =>
              process[s].state = "RUNNING" /\ s \notin removed \cup restarted
      BY <1>1 DEF Gone, Starting
    <2> QED BY <1>1, <1>2, <2>1, EndingSafe
  <1>4. ServiceTypeOK'
    BY <1>1, <1>3 DEF ServiceTypeOK, ScriptType, File, Gone, Starting, NoCall
  <1>5. FilesValid'
    BY <1>1 DEF FilesValid
  <1>6. CallKnown'
    <2>1. ASSUME NEW s \in Sections, runtime[s] # "NONE" PROVE procd'[s] # "NONE"
      <3>1. s \notin removed
        BY <1>1, <1>2, <2>1 DEF FilesGone
      <3>2. CASE s \in script.registered
        BY <1>1, <2>1, <3>1, <3>2
      <3>3. CASE s \notin script.registered
        BY <1>1, <2>1, <3>1, <3>3 DEF CallKnown
      <3> QED BY <3>2, <3>3
    <2> QED BY <1>1, <2>1 DEF CallKnown, NoCall
  <1>7. FilesGone'
    BY <1>1 DEF FilesGone, NoCall
  <1>8. ASSUME NEW s \in Sections, procd[s] = "NONE", procd'[s] # "NONE"
        PROVE  s \in script.generated
    <2>1. s \in script.registered
      BY <1>1, <1>8
    <2> QED BY <1>8, <2>1 DEF CallKnown
  <1> QED BY <1>3, <1>4, <1>5, <1>6, <1>7, <1>8

\* stop_service keeps the invariant.
LEMMA StopServiceInv ==
  ASSUME ServiceInv, StopService
  PROVE  ServiceInv'
  <1> USE DEF ServiceInv, StopService
  <1>1. ServiceTypeOK'
    BY DEF ServiceTypeOK, ScriptType, File
  <1>2. FilesValid' /\ OneDaemon'
    BY DEF FilesValid, OneDaemon
  <1>3. CallKnown'
    BY DEF CallKnown, ServiceTypeOK, ScriptType
  <1>4. FilesGone'
    BY DEF FilesGone, ServiceTypeOK, ScriptType, requested
  <1> QED BY <1>1, <1>2, <1>3, <1>4

\* A signal to the daemons keeps the invariant.
LEMMA KillInv ==
  ASSUME ServiceInv, Kill
  PROVE  ServiceInv'
  <1> USE DEF ServiceInv
  <1> DEFINE killed == {s \in Sections : requested(s)}
  <1>1. /\ script.call = "STOP" /\ script.at = "CLOSE"
        /\ procd' = [s \in Sections |-> IF s \in killed THEN "NONE" ELSE procd[s]]
        /\ process' = [s \in Sections |-> IF s \in killed THEN Gone ELSE process[s]]
        /\ Ending(killed)
        /\ script' = NoCall /\ UNCHANGED <<uci, runtime>>
    BY DEF Kill
  <1>2. OneDaemon' /\ leaving' \in [Sections -> BOOLEAN]
    <2>1. \A s \in Sections :
            process'[s].state = "RUNNING" =>
              process[s].state = "RUNNING" /\ s \notin killed
      BY <1>1, StatesDiffer
    <2> QED BY <1>1, <2>1, EndingSafe
  <1>3. ServiceTypeOK'
    BY <1>1, <1>2 DEF ServiceTypeOK, ScriptType, File, Gone, NoCall
  <1>4. FilesValid'
    BY <1>1 DEF FilesValid
  <1>5. CallKnown'
    BY <1>1 DEF CallKnown, FilesGone, NoCall
  <1>6. FilesGone'
    BY <1>1 DEF FilesGone, NoCall
  <1> QED BY <1>2, <1>3, <1>4, <1>5, <1>6

\* The steps of a daemon of its own accord keep the invariant.
LEMMA DaemonsInv ==
  ASSUME ServiceInv, NEW s \in Sections,
         DaemonMain(s) \/ Respawn(s) \/ Ended(s) \/ Dies(s)
  PROVE  ServiceInv'
  <1> USE DEF ServiceInv
  <1>1. UNCHANGED <<uci, runtime, procd, script>>
    BY DEF DaemonMain, Respawn, Ended, Dies
  <1>2. ServiceTypeOK'
    <2> DEFINE Process == [state : {"NONE", "STARTING", "RUNNING", "RESTARTING",
                                    "RESPAWN"}, config : File]
    <2>1. Starting \in Process /\ Respawning \in Process
      BY DEF Starting, Respawning, Gone, File
    <2>2. runtime[s] \in File => [state |-> "RUNNING", config |-> runtime[s]] \in Process
      OBVIOUS
    <2> HIDE DEF Process
    <2>3. process' \in [Sections -> Process] /\ leaving' \in [Sections -> BOOLEAN]
      <3>1. process \in [Sections -> Process] /\ leaving \in [Sections -> BOOLEAN]
            /\ runtime[s] \in File
        BY DEF ServiceTypeOK, Process
      <3> QED BY <2>1, <2>2, <3>1 DEF DaemonMain, Respawn, Ended, Dies
    <2> QED BY <1>1, <2>3 DEF ServiceTypeOK, Process
  <1>3. OneDaemon'
    BY DEF OneDaemon, ServiceTypeOK, DaemonMain, Locked, Respawn, Ended, Dies,
           Starting, Respawning, Gone
  <1>4. FilesValid' /\ CallKnown' /\ FilesGone'
    BY <1>1 DEF FilesValid, CallKnown, FilesGone, requested
  <1> QED BY <1>2, <1>3, <1>4

\* An edit of the configuration keeps the invariant.
LEMMA EditInv ==
  ASSUME ServiceInv, NEW s \in Sections, NEW content \in Contents, Edit(s, content)
  PROVE  ServiceInv'
  <1> USE DEF ServiceInv, Edit
  <1>1. ServiceTypeOK'
    BY DEF ServiceTypeOK
  <1>2. FilesValid' /\ CallKnown' /\ FilesGone' /\ OneDaemon'
    BY DEF FilesValid, CallKnown, FilesGone, OneDaemon, requested
  <1> QED BY <1>1, <1>2

\* The boot of the system keeps the invariant.
LEMMA BootInv ==
  ASSUME ServiceInv, Boot
  PROVE  ServiceInv'
  <1> USE DEF ServiceInv, Boot
  <1>1. ServiceTypeOK'
    BY DEF ServiceTypeOK, ScriptType, File, Gone, NoCall
  <1>2. FilesValid' /\ CallKnown' /\ FilesGone' /\ OneDaemon'
    BY DEF FilesValid, CallKnown, FilesGone, OneDaemon, NoCall, Gone
  <1> QED BY <1>1, <1>2

\* Only the end of a call makes an instance known to procd.
Revives == \E s \in Sections :
  procd[s] = "NONE" /\ procd'[s] # "NONE" /\ s \notin script.generated

\* Every step keeps the invariant, and none revives a section that was removed.
LEMMA ServiceStep ==
  ASSUME ServiceInv, ServiceNext
  PROVE  ServiceInv' /\ ~Revives
  <1> USE DEF Revives
  <1>1. ASSUME NEW call \in {"RELOAD", "RESTART", "STOP"}, NEW s \in Sections \cup {ALL},
               Told(call, s)
        PROVE  ServiceInv' /\ ~Revives
    BY <1>1, ToldInv DEF Told
  <1>2. ASSUME NEW loads \in BOOLEAN, StartService(loads)
        PROVE  ServiceInv' /\ ~Revives
    BY <1>2, StartServiceInv DEF StartService
  <1>3. ASSUME NEW s \in Sections, NEW staged \in BOOLEAN, NEW deleted \in BOOLEAN,
               StartInstance(s, staged, deleted)
        PROVE  ServiceInv' /\ ~Revives
    <2>1. \A t \in Sections : procd'[t] \in {procd[t], "NONE"}
      BY <1>3 DEF StartInstance, Stopped, ServiceInv, ServiceTypeOK
    <2> QED BY <1>3, <2>1, StartInstanceInv
  <1>4. ASSUME NEW deleted \in BOOLEAN, Tidy(deleted)
        PROVE  ServiceInv' /\ ~Revives
    <2>1. \A t \in Sections : procd'[t] \in {procd[t], "NONE"}
      BY <1>4 DEF Tidy
    <2> QED BY <1>4, <2>1, TidyInv
  <1>5. CASE CloseService
    BY <1>5, CloseServiceInv
  <1>6. CASE StopService
    BY <1>6, StopServiceInv DEF StopService
  <1>7. CASE Kill
    <2>1. \A t \in Sections : procd'[t] \in {procd[t], "NONE"}
      BY <1>7 DEF Kill
    <2> QED BY <1>7, <2>1, KillInv
  <1>8. ASSUME NEW s \in Sections, DaemonMain(s) \/ Respawn(s) \/ Ended(s) \/ Dies(s)
        PROVE  ServiceInv' /\ ~Revives
    BY <1>8, DaemonsInv DEF DaemonMain, Respawn, Ended, Dies
  <1>9. ASSUME NEW s \in Sections, NEW content \in Contents, Edit(s, content)
        PROVE  ServiceInv' /\ ~Revives
    BY <1>9, EditInv DEF Edit
  <1>10. CASE Boot
    BY <1>10, BootInv DEF Boot
  <1> QED BY <1>1, <1>2, <1>3, <1>4, <1>5, <1>6, <1>7, <1>8, <1>9, <1>10
          DEF ServiceNext, ScriptStep

\* A stutter keeps the invariant and revives nothing.
LEMMA ServiceStutter ==
  ASSUME ServiceInv, UNCHANGED serviceVars
  PROVE  ServiceInv' /\ ~Revives
  BY DEF ServiceInv, ServiceTypeOK, FilesValid, CallKnown, FilesGone, OneDaemon,
         requested, serviceVars, Revives

-----------------------------------------------------------------------------
\* The invariant holds in every reachable state, whatever the interleaving of
\* calls, daemons, edits and reboots.
THEOREM ServiceInvariance == ServiceSpec => []ServiceInv
  <1>1. ServiceInv /\ [ServiceNext]_serviceVars => ServiceInv'
    BY ServiceStep, ServiceStutter
  <1> QED BY ServiceInitInv, <1>1, PTL DEF ServiceSpec

\* Whatever the number of sections, calls and accidents: only accepted
\* configurations are run from, a runtime file stands for a registered instance,
\* a section never has two daemons, and none comes back with an old file
\* (start_instance, keep_instance, stop_service and instance_lock).
THEOREM ServiceIsSound == ServiceSpec => ServiceSound
  <1>1. ServiceInv => RuntimeTrusted /\ OneDaemon
    BY DEF ServiceInv, FilesValid, CallKnown, RuntimeTrusted, Registered, NoCall
  <1>2. ServiceInv /\ [ServiceNext]_serviceVars =>
          [\A s \in Sections : procd[s] = "NONE" /\ procd'[s] # "NONE" =>
             s \in script.generated]_serviceVars
    BY ServiceStep DEF Revives
  <1> QED BY <1>1, <1>2, ServiceInvariance, PTL DEF ServiceSpec, ServiceSound, NeverRevived
=============================================================================
