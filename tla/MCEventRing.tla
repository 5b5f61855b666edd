---------------------------- MODULE MCEventRing ----------------------------
(* EventRing with a ring of three slots (EventMax = 2), so that a short run  *)
(* of events wraps it twice.                                                 *)
EXTENDS EventRing
=============================================================================
