---------------------------- MODULE MCGFSServer ----------------------------
(* GFSServer with two Client objects, each used for two connections.        *)
EXTENDS GFSServer
=============================================================================
