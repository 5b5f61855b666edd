---------------------------- MODULE MCClientConn ----------------------------
(* ClientConn with a client of each kind.                                   *)
EXTENDS ClientConn

MCSITypes == {"KOCOM", "GFS"}
MCMaxConns == [type \in MCSITypes |-> IF type = "KOCOM" THEN 2 ELSE 1]
=============================================================================
