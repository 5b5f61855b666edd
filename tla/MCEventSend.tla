---------------------------- MODULE MCEventSend ----------------------------
(* EventSend with a server of each kind, a clock of four ticks and a quiet   *)
(* time of one, so that stamps meet tick 0 and the wrap, and queues of two   *)
(* events; circuits of an apartment and of none, and one that is not listed. *)
EXTENDS EventSend

Info101 == [building |-> 101, stair |-> 1, room |-> 302,
            floor |-> <<"", 3>>]
Parking == [building |-> 0, stair |-> 0, room |-> 0,
            floor |-> <<"B", 1>>]

MCCsvLines ==
  <<[no |-> <<0, 0, 0, 0>>, info |-> Parking],
    [no |-> <<0, 1, 0, 1>>, info |-> Info101],
    [no |-> <<0, 1, 0, 2>>, info |-> Parking]>>
MCTxtFiles == <<>>

Report(k, occur, circuit) ==
  [kind |-> k, occur |-> occur, no |-> <<0, 1, 0, circuit>>]

Block   == Report("F0at63", "N", 1)
Garage  == Report("Fat63", "F", 2)
Unknown == Report("F0at63", "N", 3)

MCReports ==
  [type \in {"SI_TEST", "KOCOM", "COMMAX"} |->
     CASE type = "SI_TEST" ->
            {Report(k, "N", 1) : k \in {"T", "F0at63", "Fat63"}}
       [] type = "KOCOM" -> {Block, Garage, Unknown}
       [] type = "COMMAX" -> {Block, Garage}]
=============================================================================
