----------------------------- MODULE MCServices -----------------------------
(***************************************************************************)
(* Small instances of the parts that carry what the daemon has to say out   *)
(* of its main thread, and of the service around it.  They share no state:  *)
(* "part" names the one a behaviour is about, and the others rest.          *)
(***************************************************************************)
EXTENDS LogWriter, LogFile, Mqtt, UbusServer, Service

CONSTANT Parts \* the parts the run is about

VARIABLE part

servicesVars == <<part, vars, logVars, mqttVars, ubusVars, serviceVars>>

MCEntryBytes == {1, 2}

\* The states ubusd and the sections start in matter only to their own part.
ServicesInit ==
  /\ part \in Parts
  /\ Init /\ LogFileInit /\ MqttInit /\ UbusInit /\ ServiceInit
  /\ part # "ubus" => ubusd.up
  /\ part # "service" => \A s \in Sections : uci[s] = "DISABLED"

ServicesNext ==
  /\ UNCHANGED part
  /\ \/ /\ part = "writer" /\ Next
        /\ UNCHANGED <<logVars, mqttVars, ubusVars, serviceVars>>
     \/ /\ part = "file" /\ LogFileNext
        /\ UNCHANGED <<vars, mqttVars, ubusVars, serviceVars>>
     \/ /\ part = "mqtt" /\ MqttNext
        /\ UNCHANGED <<vars, logVars, ubusVars, serviceVars>>
     \/ /\ part = "ubus" /\ UbusNext
        /\ UNCHANGED <<vars, logVars, mqttVars, serviceVars>>
     \/ /\ part = "service" /\ ServiceNext
        /\ UNCHANGED <<vars, logVars, mqttVars, ubusVars>>

\* The fairness each part's own specification states (WriterFairness,
\* MqttFairness, UbusFairness, ServiceFairness), where it is the chosen one.
ServicesFairness ==
  /\ WF_vars(part = "writer" /\ LoopTop)
  /\ WF_vars(part = "writer" /\ WaitEnds)
  /\ WF_vars(part = "writer" /\ Write)
  /\ WF_mqttVars(part = "mqtt" /\ SenderThread)
  /\ WF_mqttVars(part = "mqtt" /\ (Enqueue \/ WakeSender \/ MqttJoined))
  /\ \A c \in Connection :
       /\ WF_mqttVars(/\ part = "mqtt"
                      /\ (Resolved(c) \/ CallbackWakes(c) \/ NetworkOffline(c)
                           \/ NetworkReleases(c) \/ NetworkEnds(c)))
       /\ SF_mqttVars(part = "mqtt" /\ connection[c].stop /\ LoopEnds(c))
  /\ WF_ubusVars(part = "ubus" /\ UbusThread)
  /\ WF_ubusVars(part = "ubus" /\ UbusdComes)
  /\ WF_serviceVars(part = "service" /\ ScriptStep)
  /\ \A s \in Sections :
       /\ WF_serviceVars(part = "service" /\ DaemonMain(s))
       /\ WF_serviceVars(part = "service" /\ Respawn(s))
       /\ WF_serviceVars(part = "service" /\ Ended(s))

\* Republished, for the behaviours ubusd and its client take part in.
StatusRepublished == part = "ubus" => Republished

ServicesSpec == ServicesInit /\ [][ServicesNext]_servicesVars /\ ServicesFairness
=============================================================================
