----------------------------- MODULE FireAlarm -----------------------------
(***************************************************************************)
(* What is told of an event to KOCOM (SISender/ClientInterface.cpp), to    *)
(* COMMAX (SISender/CommaxFunc.cpp) and to the GFS clients                 *)
(* (GFSServer/Server_Process.cpp), and the table of circuits all three     *)
(* take the place from (Include/CircuitLocInfo.cpp).                       *)
(*                                                                         *)
(* A text is what atoi reads in it: a building that is no apartment block  *)
(* has number 0, and a floor is its letters and the number after them.     *)
(***************************************************************************)
EXTENDS Integers, SequencesExt

CONSTANTS
  CsvFound,      \* RVRELAYINFO.csv is there
  CsvLines,      \* its lines, the heading first
  TxtFiles       \* the LOCATION files in the order they are found

Lines ==
  [no : Nat \X Nat \X Nat \X Nat,
   info : [building : Nat, stair : Nat, room : Nat,
           floor : {"B", "RF", "PH", "PIT", "M", "", "etc"} \X Nat]]

ASSUME LinesAssumption ==
  /\ CsvFound \in BOOLEAN
  /\ CsvLines \in Seq(Lines) /\ TxtFiles \in Seq(Seq(Lines))

(* Receiver, unit, system and circuit.  A number of the table with more     *)
(* digits than an event has room for is that of no event.                   *)
ResetNo == <<0, 0, 0, 0>>

(* The rows that are read, in order: of two of the same number the later    *)
(* one counts.                                                              *)
CsvRows == IF CsvLines = <<>> THEN <<>> ELSE Tail(CsvLines)
TxtRows == FlattenSeq(TxtFiles)
Rows == IF CsvFound THEN CsvRows ELSE TxtRows

(* A program with an empty table is not started, unless the table is a CSV. *)
TableIsRead == CsvFound \/ TxtRows # <<>>

Listed(no) == \E i \in DOMAIN Rows : Rows[i].no = no

LastRow(no) ==
  CHOOSE i \in DOMAIN Rows :
    Rows[i].no = no /\ \A j \in DOMAIN Rows : Rows[j].no = no => j <= i

Info(no) == Rows[LastRow(no)].info

(* Whether the place of an event is looked up, for KOCOM and COMMAX.        *)
HasPlace(e) == e.no # ResetNo /\ Listed(e.no)

(* CheckFloorType and the number made of it.                                *)
FloorNumber(floor) ==
  CASE floor[1] = "B" -> -floor[2]
    [] floor[1] \in {"PH", "M", ""} -> floor[2]
    [] OTHER -> 0

-----------------------------------------------------------------------------
(* An event: its command, whether it is one of occurrence ("N") or of       *)
(* recovery ("F"), and its number.                                          *)

FireType(e) ==
  CASE e.command = "R" -> "allClear"
    [] e.command = "F" /\ e.occur = "N" -> "occurred"
    [] e.command = "F" /\ e.occur = "F" -> "clear"
    [] OTHER -> "none"

(* KOCOMProcessRequestFireAlarm.  Without a place the numbers are those the *)
(* variables began with, and the text is made of a struct nobody has set.   *)
KocomPlace(e) ==
  IF HasPlace(e)
  THEN [dong |-> IF e.command = "R" THEN 101 ELSE Info(e.no).building,
        ho |-> Info(e.no).room, floor |-> FloorNumber(Info(e.no).floor),
        text |-> "circuit"]
  ELSE [dong |-> 101, ho |-> 101, floor |-> 1,
        text |-> IF e.no = ResetNo THEN "empty" ELSE "unset"]

KocomTells(e) == FireType(e) # "none" /\ KocomPlace(e).dong # 0

KocomAlarm(e) == [nAlarm |-> FireType(e), place |-> KocomPlace(e)]

(* CommaxEventProcess.  Of a place the number 0 is left out.                *)
CommaxPlace(e) ==
  IF HasPlace(e)
  THEN [dong |-> IF e.command = "R" THEN 0 ELSE Info(e.no).building,
        floor |-> FloorNumber(Info(e.no).floor), stair |-> Info(e.no).stair]
  ELSE [dong |-> 0, floor |-> 0, stair |-> 0]

CommaxTells(e) ==
  FireType(e) # "none" /\ (HasPlace(e) => CommaxPlace(e).dong # 0)

(* A reset is the end of a fire in all buildings.                           *)
CommaxMessage(e) ==
  IF e.command = "R"
  THEN [emergency |-> "clear", all |-> TRUE,
        place |-> [dong |-> 0, floor |-> 0, stair |-> 0]]
  ELSE [emergency |-> FireType(e), all |-> FALSE, place |-> CommaxPlace(e)]

(* ProcessGFSProtocolUnSolicitedEvent.                                      *)
GfsTells(e) ==
  /\ e.command \in {"F", "R"} /\ e.occur \in {"N", "F"}
  /\ e.command = "R" \/ Listed(e.no)

GfsOccurrence(e) ==
  CASE e.occur = "F" -> "restoration"
    [] e.command = "R" -> "restorationAll"
    [] OTHER -> "occurrence"

(* A reset has no place.                                                    *)
GfsEvent(e) ==
  [eventType |-> IF e.command = "R" THEN "restoration" ELSE "fire",
   occurrence |-> GfsOccurrence(e),
   place |-> IF e.command = "R" THEN {} ELSE {Info(e.no)}]
=============================================================================
