------------------------------ MODULE MCBroker ------------------------------
(* Broker on an instance TLC can exhaust.  A line of one byte fits the ring *)
(* wherever it is copied; of two, not everywhere; of three, it is also too  *)
(* long for m_RecvBuff; and two bytes and one more without an end are       *)
(* dropped.                                                                 *)
EXTENDS Broker
=============================================================================
