---------------------------- MODULE MCGFSSession ----------------------------
(* GFSSession with a period of five ticks, timers up to two late and        *)
(* messages that take none or one.                                          *)
EXTENDS GFSSession
=============================================================================
