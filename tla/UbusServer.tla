----------------------------- MODULE UbusServer -----------------------------
(***************************************************************************)
(* platform/ubus.c and daemon/publish.c: the thread that keeps the status    *)
(* object on ubus.  It connects, adds its object, answers requests and       *)
(* reconnects; the main thread takes what it reports once a traffic tick.    *)
(*                                                                         *)
(* ubusd and libubus are external: ubusd may go and come back at any time,   *)
(* also while libubus is inside a request, and may refuse the object.        *)
(* Replies and the snapshot they are made from, which is copied whole under  *)
(* a lock, are left out.                                                    *)
(***************************************************************************)
EXTENDS Naturals, FiniteSets

CONSTANT MaxOutages \* bound on outages and refusals of ubusd

ASSUME UbusAssumption == MaxOutages \in Nat

VARIABLES
  ubusd,            \* external: up, its incarnation, the incarnation we are known to
  outages,          \* how often it has gone or refused us
  server,           \* struct ubus_server, with the socket's incarnation
  server_pc,        \* where the thread is
  server_events,    \* the events not yet taken
  publisher,        \* the main thread
  raised,           \* history: the events ever raised
  reported          \* history: the events ever logged

ubusVars == <<ubusd, outages, server, server_pc, server_events, publisher,
              raised, reported>>

Events == {"DISCONNECTED", "RECONNECT_FAILED", "NO_CONNECTION", "CONNECTED",
           "ADD_FAILED", "ADD_FAILED_AT_START"}

\* The thread's socket still leads to the ubusd that is up.
Intact == ubusd.up /\ server.socket = ubusd.incarnation

-----------------------------------------------------------------------------
(* ubusd.                                                                   *)

Outage == outages < MaxOutages /\ outages' = outages + 1

UbusdGoes ==
  /\ ubusd.up /\ Outage
  /\ ubusd' = [ubusd EXCEPT !.up = FALSE]
  /\ UNCHANGED <<server, server_pc, server_events, publisher, raised, reported>>

UbusdComes ==
  /\ ~ubusd.up
  /\ ubusd' = [ubusd EXCEPT !.up = TRUE, !.incarnation = @ + 1]
  /\ UNCHANGED <<outages, server, server_pc, server_events, publisher, raised,
                 reported>>

-----------------------------------------------------------------------------
(* The ubus thread.                                                         *)

Calls(pc) == server_pc = pc
Then(pc) == server_pc' = pc

with_event(events, event) == events \cup {event}

server_raise(event) ==
  /\ server_events' = with_event(server_events, event)
  /\ raised' = raised \cup {event}
NothingRaised == UNCHANGED <<server_events, raised>>

\* server_close.
Closed(s, connection) == [s EXCEPT !.connection = connection, !.lost = FALSE]

\* Mutant: only the first attempt is made.
Unconnected_once(s) == s.connection = "OFFLINE" /\ ~s.attempted

Unconnected(s) == s.connection = "OFFLINE"

\* The head of the loop.
ServerLoop ==
  /\ Calls("LOOP")
  /\ Then(IF server.stop
          THEN "ENDED"
          ELSE IF Unconnected(server) THEN "CONNECT" ELSE "WAIT")
  /\ server' = IF server.stop /\ server.connection = "ONLINE"
               THEN Closed(server, "OFFLINE") ELSE server
  /\ NothingRaised
  /\ UNCHANGED <<ubusd, outages, publisher, reported>>

\* server_connect, up to its server_add.
ServerConnects ==
  /\ Calls("CONNECT") /\ ubusd.up
  /\ server' = [server EXCEPT !.connection = "ONLINE", !.lost = FALSE,
                              !.at_start = ~server.attempted, !.attempted = TRUE,
                              !.socket = ubusd.incarnation]
  /\ Then("ADD")
  /\ NothingRaised
  /\ UNCHANGED <<ubusd, outages, publisher, reported>>

ServerUnconnected ==
  /\ Calls("CONNECT") /\ ~ubusd.up
  /\ server' = [server EXCEPT !.attempted = TRUE, !.unconnected_reported = TRUE]
  /\ IF server.unconnected_reported THEN NothingRaised ELSE server_raise("NO_CONNECTION")
  /\ Then("WAIT")
  /\ UNCHANGED <<ubusd, outages, publisher, reported>>

\* ubusd takes the object.
TakesObject == ubusd' = [ubusd EXCEPT !.knows = ubusd.incarnation]

\* server_add, which is accepted in server_connect or again in server_reconnect.
AddAccepted(pc) ==
  /\ Calls(pc) /\ Intact
  /\ TakesObject
  /\ IF pc = "ADD"
     THEN /\ Then("WAIT")
          /\ IF server.at_start THEN NothingRaised ELSE server_raise("CONNECTED")
          /\ server' = [server EXCEPT !.unconnected_reported = FALSE]
     ELSE Then("LOOP") /\ NothingRaised /\ UNCHANGED server
  /\ UNCHANGED <<outages, publisher, reported>>

\* Any other status gives up: a refusal, and the loss of the connection too.
AddFailed(pc) ==
  /\ Calls(pc)
  /\ \/ Intact /\ Outage
     \/ ~Intact /\ UNCHANGED outages
  /\ server_raise(IF pc = "ADD" /\ server.at_start
                  THEN "ADD_FAILED_AT_START" ELSE "ADD_FAILED")
  /\ server' = Closed(server, "ABANDONED")
  /\ Then(IF pc = "ADD" THEN "WAIT" ELSE "LOOP")
  /\ UNCHANGED <<ubusd, publisher, reported>>

\* server_wait: the poll's timeout or a stop, nothing wrong with the socket.
AfterWait(s) == Then(IF s.lost /\ ~s.stop THEN "RECONNECT" ELSE "LOOP")

WaitEndsQuiet ==
  /\ Calls("WAIT") /\ (server.connection = "ONLINE" => Intact)
  /\ AfterWait(server)
  /\ NothingRaised
  /\ UNCHANGED <<ubusd, outages, server, publisher, reported>>

\* The socket's end: libubus marks the loss.
WaitFindsLoss ==
  /\ Calls("WAIT") /\ server.connection = "ONLINE" /\ ~Intact
  /\ server' = [server EXCEPT !.lost = TRUE]
  /\ AfterWait(server')
  /\ NothingRaised
  /\ UNCHANGED <<ubusd, outages, publisher, reported>>

\* A hang-up that libubus did not see.
WaitFindsHangup ==
  /\ Calls("WAIT") /\ server.connection = "ONLINE" /\ ~Intact /\ ~server.lost
  /\ server_raise("DISCONNECTED")
  /\ server' = Closed(server, "OFFLINE")
  /\ Then("LOOP")
  /\ UNCHANGED <<ubusd, outages, publisher, reported>>

\* ubus_reconnect: a new socket, over which libubus adds the object again.
ReconnectConnects ==
  /\ Calls("RECONNECT") /\ ubusd.up
  /\ server' = [server EXCEPT !.lost = FALSE, !.socket = ubusd.incarnation]
  /\ Then("REFRESH")
  /\ NothingRaised
  /\ UNCHANGED <<ubusd, outages, publisher, reported>>

\* It failed, or the connection was lost again inside it.
ReconnectFailed ==
  /\ \/ Calls("RECONNECT") /\ ~ubusd.up
     \/ Calls("REFRESH") /\ (~Intact \/ server.lost)
  /\ server_raise("RECONNECT_FAILED")
  /\ server' = Closed(server, "OFFLINE")
  /\ Then("LOOP")
  /\ UNCHANGED <<ubusd, outages, publisher, reported>>

\* The object is added, or refused without notice and added once more.
Refreshed ==
  /\ Calls("REFRESH") /\ Intact /\ ~server.lost
  /\ \/ TakesObject /\ Then("LOOP") /\ UNCHANGED outages
     \/ Outage /\ Then("ADD_AGAIN") /\ UNCHANGED ubusd
  /\ NothingRaised
  /\ UNCHANGED <<server, publisher, reported>>

UbusThread ==
  \/ ServerLoop \/ ServerConnects \/ ServerUnconnected
  \/ \E pc \in {"ADD", "ADD_AGAIN"} : AddAccepted(pc) \/ AddFailed(pc)
  \/ WaitEndsQuiet \/ WaitFindsLoss \/ WaitFindsHangup
  \/ ReconnectConnects \/ ReconnectFailed \/ Refreshed

-----------------------------------------------------------------------------
(* The main thread.                                                         *)

\* publish_update: what is taken is logged; a refusal at the start ends the run.
PublishUpdate ==
  /\ publisher = "RUNNING"
  /\ server_events' = {} /\ reported' = reported \cup server_events
  /\ publisher' = IF "ADD_FAILED_AT_START" \in server_events THEN "ENDING" ELSE publisher
  /\ UNCHANGED <<ubusd, outages, server, server_pc, raised>>

\* publish_stop: the wait for the thread is bounded.
PublishStop ==
  /\ publisher \in {"RUNNING", "ENDING"} /\ publisher' = "JOINING"
  /\ server' = [server EXCEPT !.stop = TRUE]
  /\ UNCHANGED <<ubusd, outages, server_pc, server_events, raised, reported>>

PublishJoined ==
  /\ publisher = "JOINING"
  /\ publisher' = IF Calls("ENDED") THEN "FREED" ELSE "LEFT"
  /\ UNCHANGED <<ubusd, outages, server, server_pc, server_events, raised,
                 reported>>

-----------------------------------------------------------------------------
\* ubus_server_start, with ubusd there or not.
UbusInit ==
  /\ ubusd \in [up : BOOLEAN, incarnation : {1}, knows : {0}]
  /\ server = [connection |-> "OFFLINE", lost |-> FALSE, attempted |-> FALSE,
               at_start |-> FALSE, unconnected_reported |-> FALSE, socket |-> 0,
               stop |-> FALSE]
  /\ server_pc = "LOOP" /\ publisher = "RUNNING" /\ outages = 0
  /\ server_events = {} /\ raised = {} /\ reported = {}

UbusNext ==
  \/ UbusdGoes \/ UbusdComes
  \/ UbusThread
  \/ PublishUpdate \/ PublishStop \/ PublishJoined

UbusSpec == UbusInit /\ [][UbusNext]_ubusVars

\* The thread runs and ubusd answers: a frozen one stops only the thread.
UbusFairness ==
  WF_ubusVars(UbusThread) /\ WF_ubusVars(UbusdComes)

-----------------------------------------------------------------------------
(* Properties                                                               *)

\* docs/technical.md:211-217: after no ubusd, a lost connection or a hang-up the
\* object is published again, however often that happens and wherever the thread
\* is, unless the object was given up or the daemon stops; and every event on the
\* way is logged or waiting to be, although others are raised before the next tick.
Republished ==
  /\ [](raised \subseteq server_events \cup reported)
  /\ []<>(\/ ubusd.up /\ ubusd.knows = ubusd.incarnation
          \/ server.connection = "ABANDONED" \/ server.stop)
=============================================================================
