-------------------------- MODULE MCProcessManager --------------------------
(* ProcessManager with Broker, whose end kills by name, and the second      *)
(* sender, which KillAllExe finds only by the name of the first.            *)
EXTENDS ProcessManager

MCUsed == {BROKER, SI_SENDER2}
=============================================================================
