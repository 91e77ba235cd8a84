------------------------------- MODULE Service -------------------------------
(***************************************************************************)
(* The service: files/cake-adapt.init, which builds and validates each     *)
(* section's runtime file and registers the instances with procd, the      *)
(* start of a daemon in main.c up to its instance lock, and procd, which   *)
(* starts daemons, starts them again and restarts those whose file has     *)
(* changed.  Calls of the script exclude each other (procd_lock), but      *)
(* daemons start, die and linger between its steps, and the configuration  *)
(* is edited at any time.                                                  *)
(***************************************************************************)
EXTENDS Naturals, FiniteSets

CONSTANTS
  Sections,     \* UCI sections of type cake_adapt, with valid names
  Valid,        \* configurations the daemon accepts with -V
  Refused,      \* configurations it refuses
  MaxEdits, MaxCalls, MaxAccidents   \* bounds

\* A call for all sections names none, and a file that is not there has no content.
ALL == "ALL"

ASSUME ServiceAssumption ==
  /\ {MaxEdits, MaxCalls, MaxAccidents} \subseteq Nat
  /\ ALL \notin Sections
  /\ "NONE" \notin Valid \cup Refused

VARIABLES
  uci,       \* /etc/config/cake-adapt: per section, a configuration
  runtime,   \* $RUNTIME_DIR/<section>.uci, or "NONE"
  procd,     \* per section: the content procd registered its file with
  process,   \* per section: the daemon procd runs
  leaving,   \* per section: a daemon that was told to end and has not
  script,    \* the call of the init script under way
  service_budget

serviceVars == <<uci, runtime, procd, process, leaving, script, service_budget>>

NoCall == [call |-> "NONE", requested |-> ALL, enabled |-> {}, left |-> {},
         registered |-> {}, generated |-> {}, at |-> "IDLE"]
Gone == [state |-> "NONE", config |-> "NONE"]
Starting == [state |-> "STARTING", config |-> "NONE"]
Contents == Valid \cup Refused \cup {"DISABLED", "ABSENT"}

ServiceInit ==
  /\ uci \in [Sections -> Valid \cup {"DISABLED"}]
  /\ runtime = [s \in Sections |-> "NONE"]
  /\ procd = [s \in Sections |-> "NONE"]
  /\ process = [s \in Sections |-> Gone]
  /\ leaving = [s \in Sections |-> FALSE]
  /\ script = NoCall
  /\ service_budget = [edits |-> 0, calls |-> 0, accidents |-> 0]

requested(s) == script.requested \in {ALL, s}
Registered == {s \in Sections: procd[s] # "NONE"}
-----------------------------------------------------------------------------
\* procd tells the daemons of stopped to end; one that was still starting or
\* waiting to has nothing to clean up.
Ending(stopped) ==
  leaving' = [s \in Sections |->
    leaving[s] \/ (s \in stopped /\ process[s].state = "RUNNING")]

Told(call, s) ==
  /\ script = NoCall /\ service_budget.calls < MaxCalls
  /\ script' = [NoCall EXCEPT !.call = call, !.requested = s, !.at = "CALLED"]
  /\ service_budget' = [service_budget EXCEPT !.calls = @ + 1]
  /\ UNCHANGED <<uci, runtime, procd, process, leaving>>

(* start_service() up to its loop: UCI is loaded once, with what is        *)
(* enabled in it; without it, or without the runtime directory, each       *)
(* requested instance with a runtime file keeps it.                        *)
StartService(loads) ==
  /\ script.call \in {"RELOAD", "RESTART"} /\ script.at = "CALLED"
  /\ loads \/ service_budget.accidents < MaxAccidents
  /\ IF loads
     THEN /\ script' = [script EXCEPT
               !.at = "SECTIONS",
               !.left = {s \in Sections: requested(s) /\ uci[s] # "ABSENT"},
               !.enabled = {s \in Sections: uci[s] \notin {"ABSENT", "DISABLED"}}]
          /\ UNCHANGED service_budget
     ELSE /\ script' = [script EXCEPT
               !.at = "CLOSE",
               !.registered = {s \in Sections: requested(s) /\ runtime[s] # "NONE"}]
          /\ service_budget' = [service_budget EXCEPT !.accidents = @ + 1]
  /\ UNCHANGED <<uci, runtime, procd, process, leaving>>

(* generate_runtime_config(): the importer reads the options as they are   *)
(* now, and the daemon validates what it wrote.  A section that has gone   *)
(* meanwhile sets nothing and is disabled.                                 *)
Imported(s) == IF uci[s] = "ABSENT" THEN "DISABLED" ELSE uci[s]
Validates(content) == content \in Valid \cup {"DISABLED"}
generates(s, staged) == staged /\ Validates(Imported(s))

(* stop_restarted_instance(): outside of a restart nothing; a call that    *)
(* fails leaves the instance running.                                      *)
Stopped(s, deleted) ==
  /\ process' = IF deleted THEN [process EXCEPT ![s] = Gone] ELSE process
  /\ procd' = IF deleted THEN [procd EXCEPT ![s] = "NONE"] ELSE procd
  /\ Ending(IF deleted THEN {s} ELSE {})

(* start_instance(), for the next section.                                 *)
StartInstance(s, staged, deleted) ==
  /\ script.at = "SECTIONS" /\ s \in script.left
  /\ (staged /\ deleted) \/ service_budget.accidents < MaxAccidents
  /\ service_budget' = IF staged /\ deleted THEN service_budget
                       ELSE [service_budget EXCEPT !.accidents = @ + 1]
  /\ IF s \notin script.enabled
     THEN /\ script' = [script EXCEPT !.left = @ \ {s}]
          /\ UNCHANGED <<runtime, procd, process, leaving>>
     ELSE IF generates(s, staged)
     THEN /\ runtime' = [runtime EXCEPT ![s] = Imported(s)]
          /\ Stopped(s, script.call = "RESTART" /\ deleted)
          /\ script' = [script EXCEPT !.left = @ \ {s},
               !.registered = @ \cup {s}, !.generated = @ \cup {s}]
     ELSE /\ script' = [script EXCEPT !.left = @ \ {s},  \* keep_instance()
               !.registered = IF runtime[s] = "NONE" THEN @ ELSE @ \cup {s}]
          /\ UNCHANGED <<runtime, procd, process, leaving>>
  /\ UNCHANGED uci

(* The end of start_service(): runtime files of sections that are no       *)
(* longer registered go, all of them or the one of a named restart.        *)
\* Mutant: they stay.
Unregistered_kept == {}
Unregistered ==
  IF script.requested = ALL THEN Sections \ script.registered
  ELSE IF script.call = "RESTART" THEN {script.requested} \ script.registered
  ELSE {}

Tidy(deleted) ==
  LET stopped == IF script.requested = ALL \/ script.call # "RESTART" \/ ~deleted
                 THEN {} ELSE Unregistered
  IN
  /\ script.at = "SECTIONS" /\ script.left = {}
  /\ deleted \/ service_budget.accidents < MaxAccidents
  /\ service_budget' = IF deleted THEN service_budget
                       ELSE [service_budget EXCEPT !.accidents = @ + 1]
  /\ runtime' = [s \in Sections |-> IF s \in Unregistered THEN "NONE" ELSE runtime[s]]
  /\ procd' = [s \in Sections |-> IF s \in stopped THEN "NONE" ELSE procd[s]]
  /\ process' = [s \in Sections |-> IF s \in stopped THEN Gone ELSE process[s]]
  /\ Ending(stopped)
  /\ script' = [script EXCEPT !.at = "CLOSE"]
  /\ UNCHANGED uci

(* procd_close_service(): "set" without a section, where what is not       *)
(* registered stops, "add" with one.  procd starts new instances and those *)
(* not running, and restarts the running whose file changed; a restarted   *)
(* daemon starts when the one before has ended.                            *)
\* Mutant: the content of the file does not count.
Changed_never(s) == FALSE
Changed(s) == procd[s] # runtime[s]

CloseService ==
  LET removed == IF script.requested = ALL THEN Registered \ script.registered ELSE {}
      restarted == {s \in script.registered:
                      process[s].state = "RUNNING" /\ Changed(s)}
      started == {s \in script.registered: process[s].state # "RUNNING"}
  IN
  /\ script.call \in {"RELOAD", "RESTART"} /\ script.at = "CLOSE"
  /\ procd' = [s \in Sections |->
       IF s \in removed THEN "NONE"
       ELSE IF s \in script.registered THEN runtime[s] ELSE procd[s]]
  /\ process' = [s \in Sections |->
       IF s \in removed THEN Gone
       ELSE IF s \in restarted THEN [Gone EXCEPT !.state = "RESTARTING"]
       ELSE IF s \in started THEN Starting ELSE process[s]]
  /\ Ending(removed \cup restarted)
  /\ script' = NoCall
  /\ UNCHANGED <<uci, runtime, service_budget>>

(* stop: stop_service() removes the runtime files, then procd kills.       *)
StopService ==
  /\ script.call = "STOP" /\ script.at = "CALLED"
  /\ runtime' = [s \in Sections |-> IF requested(s) THEN "NONE" ELSE runtime[s]]
  /\ script' = [script EXCEPT !.at = "CLOSE"]
  /\ UNCHANGED <<uci, procd, process, leaving, service_budget>>

Kill ==
  LET killed == {s \in Sections: requested(s)}
  IN
  /\ script.call = "STOP" /\ script.at = "CLOSE"
  /\ procd' = [s \in Sections |-> IF s \in killed THEN "NONE" ELSE procd[s]]
  /\ process' = [s \in Sections |-> IF s \in killed THEN Gone ELSE process[s]]
  /\ Ending(killed)
  /\ script' = NoCall
  /\ UNCHANGED <<uci, runtime, service_budget>>
-----------------------------------------------------------------------------
(* main(): the runtime file is read, a disabled one ends the daemon, and   *)
(* instance_lock() refuses to run beside another daemon of the section.    *)
Locked(s) == leaving[s]

Respawning == [Gone EXCEPT !.state = "RESPAWN"]

\* A restarted daemon starts once the one before it has ended.
MayStart(s) ==
  \/ process[s].state = "STARTING"
  \/ process[s].state = "RESTARTING" /\ ~leaving[s]

DaemonMain(s) ==
  /\ MayStart(s)
  /\ process' = [process EXCEPT ![s] =
       IF runtime[s] \in Valid /\ ~Locked(s)
       THEN [state |-> "RUNNING", config |-> runtime[s]] ELSE Respawning]
  /\ UNCHANGED <<uci, runtime, procd, leaving, script, service_budget>>

\* procd starts a daemon that ended again, with no limit on the tries.
Respawn(s) ==
  /\ process[s].state = "RESPAWN"
  /\ process' = [process EXCEPT ![s] = Starting]
  /\ UNCHANGED <<uci, runtime, procd, leaving, script, service_budget>>

Ended(s) ==
  /\ leaving[s]
  /\ leaving' = [leaving EXCEPT ![s] = FALSE]
  /\ UNCHANGED <<uci, runtime, procd, process, script, service_budget>>

Dies(s) ==
  /\ process[s].state = "RUNNING" /\ service_budget.accidents < MaxAccidents
  /\ process' = [process EXCEPT ![s] = Respawning]
  /\ service_budget' = [service_budget EXCEPT !.accidents = @ + 1]
  /\ UNCHANGED <<uci, runtime, procd, leaving, script>>

Edit(s, content) ==
  /\ service_budget.edits < MaxEdits /\ uci[s] # content
  /\ uci' = [uci EXCEPT ![s] = content]
  /\ service_budget' = [service_budget EXCEPT !.edits = @ + 1]
  /\ UNCHANGED <<runtime, procd, process, leaving, script>>

(* A reboot: only UCI persists, and the service starts again.              *)
Boot ==
  /\ service_budget.accidents < MaxAccidents
  /\ runtime' = [s \in Sections |-> "NONE"]
  /\ procd' = [s \in Sections |-> "NONE"]
  /\ process' = [s \in Sections |-> Gone]
  /\ leaving' = [s \in Sections |-> FALSE]
  /\ script' = [NoCall EXCEPT !.call = "RELOAD", !.at = "CALLED"]
  /\ service_budget' = [service_budget EXCEPT !.accidents = @ + 1]
  /\ UNCHANGED uci

ScriptStep ==
  \/ StartService(TRUE)
  \/ \E s \in Sections: StartInstance(s, TRUE, TRUE)
  \/ Tidy(TRUE) \/ CloseService \/ StopService \/ Kill

ServiceNext ==
  \/ ScriptStep
  \/ \E call \in {"RELOAD", "RESTART", "STOP"}, s \in Sections \cup {ALL}: Told(call, s)
  \/ StartService(FALSE)
  \/ \E s \in Sections, staged, deleted \in BOOLEAN:
       ~(staged /\ deleted) /\ StartInstance(s, staged, deleted)
  \/ Tidy(FALSE)
  \/ \E s \in Sections: DaemonMain(s) \/ Respawn(s) \/ Ended(s) \/ Dies(s)
  \/ \E s \in Sections, content \in Contents: Edit(s, content)
  \/ Boot

\* The script's steps and procd's go on, and a daemon that is told to ends
\* (procd kills it after term_timeout).
ServiceFairness ==
  /\ WF_serviceVars(ScriptStep)
  /\ \A s \in Sections:
       /\ WF_serviceVars(DaemonMain(s))
       /\ WF_serviceVars(Respawn(s)) /\ WF_serviceVars(Ended(s))

ServiceSpec == ServiceInit /\ [][ServiceNext]_serviceVars /\ ServiceFairness
-----------------------------------------------------------------------------
(* A configuration that the daemon refuses neither runs nor takes the      *)
(* place of the one an instance runs from, and between calls a runtime     *)
(* file exists only while its instance is registered (cake-adapt.init      *)
(* line 117, which keep_instance() depends on).                            *)
RuntimeTrusted ==
  \A s \in Sections:
    /\ runtime[s] = "NONE" \/ Validates(runtime[s])
    /\ script = NoCall /\ runtime[s] # "NONE" => s \in Registered

(* Two daemons of a section never run at the same time, not even while     *)
(* one that was told to end lingers: they would share the log file and     *)
(* set the same rates.                                                     *)
OneDaemon == \A s \in Sections: ~(process[s].state = "RUNNING" /\ leaving[s])

(* An instance that was not registered comes back only with a              *)
(* configuration that was imported and validated in that same call, never  *)
(* with one it had before it was stopped, disabled or removed.             *)
NeverRevived ==
  [][\A s \in Sections: procd[s] = "NONE" /\ procd'[s] # "NONE" =>
       s \in script.generated]_serviceVars

(* Once nothing more is changed and called, every registered instance with *)
(* an enabled configuration runs it as its file has it, whatever daemons   *)
(* died, lingered or started between the steps of the calls.               *)
RunsItsFile ==
  \A s \in Sections:
    <>[](s \in Registered /\ runtime[s] \in Valid =>
           process[s] = [state |-> "RUNNING", config |-> runtime[s]])

\* Who runs, and from which configuration.
ServiceSound == [](RuntimeTrusted /\ OneDaemon) /\ NeverRevived
=============================================================================
