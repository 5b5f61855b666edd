------------------------- MODULE MCSenderLifecycle -------------------------
(* SenderLifecycle with two Starts, two lists of recipients received and   *)
(* sending threads enough for all of them.                                   *)
EXTENDS SenderLifecycle
=============================================================================
