------------------------------ MODULE MCDaemon ------------------------------
(***************************************************************************)
(* Small instances of Daemon: links already shaped when the daemon starts,  *)
(* so that the disturbances are spent on the running loop.                  *)
(***************************************************************************)
EXTENDS Daemon

MCHandles == {1, 2}

MCAdjusted == Direction

MCInit == DaemonInit /\ kernel["download"] # NONE

MCSpec == MCInit /\ [][DaemonNext]_allVars

MCFairSpec == MCSpec /\ DaemonFairness
=============================================================================
