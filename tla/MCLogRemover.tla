---------------------------- MODULE MCLogRemover ----------------------------
(* LogRemover on an instance TLC can exhaust: one sender of any type, and   *)
(* four days of two hours, in two months, so that a folder of the same      *)
(* month and one of the last are past the term.                             *)
EXTENDS LogRemover
=============================================================================
