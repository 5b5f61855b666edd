----------------------------- MODULE EventFeed -----------------------------
(***************************************************************************)
(* What the shared event buffer promises to the processes that read it:    *)
(* events are numbered in the order the receiver raised them, and a        *)
(* subscriber is handed every event raised since it subscribed, one at a   *)
(* time and in that order.  The promise ends for a subscriber that falls   *)
(* more than EventMax events behind.                                       *)
(***************************************************************************)
EXTENDS Integers

CONSTANTS
  EventMax,   \* how far behind a subscriber may fall
  Readers     \* the subscribers

VARIABLES
  head,       \* number of events raised so far
  cursor,     \* number of the last event handed to each subscriber
  status      \* "off", "live" or "overrun"

feedVars == <<head, cursor, status>>

FeedInit ==
  /\ head = 0
  /\ cursor = [r \in Readers |-> 0]
  /\ status = [r \in Readers |-> "off"]

Subscribe(r) ==
  /\ status[r] = "off"
  /\ status' = [status EXCEPT ![r] = "live"]
  /\ cursor' = [cursor EXCEPT ![r] = head]
  /\ UNCHANGED head

(* One more event; the subscribers it leaves too far behind may be dropped. *)
Publish ==
  /\ head' = head + 1
  /\ \E dropped \in SUBSET {r \in Readers : /\ status[r] = "live"
                                            /\ head' - cursor[r] > EventMax} :
       /\ status' = [r \in Readers |->
                       IF r \in dropped THEN "overrun" ELSE status[r]]
       /\ cursor' = [r \in Readers |-> IF r \in dropped THEN 0 ELSE cursor[r]]

Deliver(r) ==
  /\ status[r] = "live"
  /\ cursor[r] < head
  /\ cursor' = [cursor EXCEPT ![r] = @ + 1]
  /\ UNCHANGED <<head, status>>

FeedNext == Publish \/ \E r \in Readers : Subscribe(r) \/ Deliver(r)

FeedSafety == FeedInit /\ [][FeedNext]_feedVars

FeedSpec == FeedSafety /\ \A r \in Readers : WF_feedVars(Deliver(r))
=============================================================================
