----------------------------- MODULE EventSend -----------------------------
(***************************************************************************)
(* The sending thread of SISender (SISender/EventSend.cpp).  It takes the  *)
(* events ThreadSMCheck queues, reports a fire or a receiver reset at once *)
(* and collects line, gas and supervision events, each class in a queue of *)
(* its own that is handed over when the class has been quiet for three     *)
(* seconds, when it is full, or ahead of an urgent event.  With the test   *)
(* server a hand-over ends with a push alarm, for which the recipients are *)
(* asked of the server first; the answer comes on a network thread.  KOCOM *)
(* and COMMAX are told of every event by itself, if it is one for them.    *)
(*                                                                         *)
(* Time is GetTickCount, a counter that wraps.  It passes only where the   *)
(* thread sleeps or waits for the network: a tick is long compared to what *)
(* the thread computes in between.  An event is the number of its raising. *)
(***************************************************************************)
EXTENDS FireAlarm, FiniteSetsExt

CONSTANTS
  SITypes,      \* values of m_nSIType
  Reports,      \* for each, the events the receiver raises
  Delay,        \* 3000 ms in ticks
  TickModulus,  \* 2^32 in ticks
  MaxPending,   \* 1001, the length at which a queue is handed over
  MaxRaised,    \* bound: how many events are raised
  MaxStall      \* bound: how long one alarm may take

(* F: a fire report, of a detector whose device type is fire (F0) or not   *)
(* (F), of unit 63 (F0at63, Fat63) or of another unit.                     *)
AllKinds == {"R", "T", "G", "S", "F0", "F", "F0at63", "Fat63", "other"}

ASSUME SITypesAssumption ==
  /\ SITypes \subseteq {"SI_TEST", "KOCOM", "COMMAX"} /\ SITypes # {}
  /\ TableIsRead
  /\ \A type \in SITypes : \A r \in Reports[type] :
       r.kind \in AllKinds /\ (r.kind = "R" => r.no = ResetNo)
ASSUME BoundsAssumption ==
  /\ MaxRaised \in Nat /\ MaxStall \in Nat /\ MaxPending \in Nat \ {0}
  /\ Delay \in Nat /\ TickModulus \in Nat /\ Delay + 1 < TickModulus

Ticks == 0 .. TickModulus - 1

(* The three queues, in the order CheckAndSend and SendAll treat them.      *)
QueueOrder == <<"line", "gas", "spy">>
Queues == Range(QueueOrder)

VARIABLES
  m_nSIType,
  kind, place, \* kinds of the events raised so far, and the occur byte and
               \* the number of each
  sendQueue,   \* m_sendQueue
  pending,     \* m_lineQueue, m_gasQueue, m_spyQueue
  stamp,       \* m_dwLine, m_dwGas, m_dwSpy: time of the last push, 0: none
  g_bThread,   \* the thread is to go on
  pc,          \* "check": CheckAndSend, "flush": SendAll, "urgent": a fire or
               \* reset event, "take": the send queue, "ended", or "dead",
               \* the whole process
  step,        \* how far ProcessEventQueue is, "none" outside of it
  qi,          \* which queue CheckAndSend or SendAll looks at
  urgent,      \* the fire or reset event being treated, 0: none
  first, size, \* ProcessEventQueue: pDataSave, nSize, 0 outside of it
  tick,        \* GetTickCount
  m_dwToken,   \* time of the last list of recipients
  dwLastTime,  \* when the wait for one began, 0 outside of it
  \* the outside:
  request,     \* the request for recipients: "none", "open", "answered",
               \* "early": before m_dwToken was cleared, "failed"
  sent,        \* events handed to the client interface, in order
  alarms,      \* alarms pushed: the event shown, how many more, and, as
               \* history, how many events were reported by then
  told,        \* of each event reported, whether KOCOM or COMMAX was told:
               \* "none": it is not for them, "missed", "reached"
  \* history, read by no action of the program:
  atZero       \* queues whose latest push was at tick 0

raised    == <<m_nSIType, kind, place>>
control   == <<pc, step, qi, urgent>>
queueVars == <<pending, stamp, atZero>>
tokenVars == <<m_dwToken, dwLastTime, request>>
batchVars == <<first, size>>
reports   == <<sent, told>>
vars == <<raised, sendQueue, queueVars, g_bThread, control, batchVars, tick,
          tokenVars, reports, alarms>>

Init ==
  /\ m_nSIType \in SITypes
  /\ kind = <<>> /\ place = <<>>
  /\ sendQueue = <<>>
  /\ pending = [q \in Queues |-> <<>>]
  /\ stamp = [q \in Queues |-> 0]
  /\ g_bThread = TRUE
  /\ pc = "check" /\ step = "none" /\ qi = 1 /\ urgent = 0
  /\ first = 0 /\ size = 0
  /\ tick \in Ticks
  /\ m_dwToken = 0 /\ dwLastTime = 0 /\ request = "none"
  /\ sent = <<>> /\ told = <<>>
  /\ alarms = <<>>
  /\ atZero = {}

-----------------------------------------------------------------------------
Plus(t, d) == (t + d) % TickModulus
Elapsed(t) == (tick - t) % TickModulus

IsUrgent(k) == k \in {"R", "F0", "F0at63"}

Command(k) ==
  IF k \in {"R", "T", "G", "S", "other"} THEN k ELSE "F"

(* The queue an event waits in, and how often it is pushed there: a report  *)
(* of unit 63 is pushed as supervision besides whatever else it is.         *)
QueueOf(k) ==
  CASE k = "T" -> "line"
    [] k = "G" -> "gas"
    [] OTHER -> "spy"

Copies(k) ==
  CASE k \in {"T", "G", "S", "F", "F0at63"} -> 1
    [] k = "Fat63" -> 2
    [] OTHER -> 0

Push(e) ==
  LET q == QueueOf(kind[e])
      n == Copies(kind[e]) IN
    IF n = 0 THEN UNCHANGED queueVars
    ELSE /\ pending' = [pending EXCEPT ![q] = @ \o [i \in 1 .. n |-> e]]
         /\ stamp' = [stamp EXCEPT ![q] = tick]
         /\ atZero' = IF tick = 0 THEN atZero \cup {q} ELSE atZero \ {q}

Goto(label) == pc' = label /\ step' = "none" /\ qi' = 1

-----------------------------------------------------------------------------
(* CEventSend::SendEvent, called by ThreadSMCheck.                          *)
SendEvent ==
  /\ pc # "dead" /\ Len(kind) < MaxRaised
  /\ \E r \in Reports[m_nSIType] :
       /\ kind' = Append(kind, r.kind)
       /\ place' = Append(place, [occur |-> r.occur, no |-> r.no])
  /\ sendQueue' = Append(sendQueue, Len(kind'))
  /\ UNCHANGED <<m_nSIType, queueVars, g_bThread, control, batchVars, tick, tokenVars,
                 reports, alarms>>

StopSendEventThread ==
  /\ pc # "dead" /\ g_bThread
  /\ g_bThread' = FALSE
  /\ UNCHANGED <<raised, sendQueue, queueVars, control, batchVars, tick,
                 tokenVars, reports, alarms>>

(* Mutant: the handler does not note the time.                              *)
AnswerUnnoted ==
  /\ request = "open"
  /\ request' = "answered"
  /\ UNCHANGED <<raised, sendQueue, queueVars, g_bThread, control, batchVars,
                 tick, m_dwToken, dwLastTime, reports, alarms>>

(* ProcessResponseGetUserTokenList.  The answer may never come, and the      *)
(* handler may give up before it notes the time.                            *)
Answer ==
  /\ request = "open"
  /\ \/ /\ request' = IF step = "reset" THEN "early" ELSE "answered"
        /\ m_dwToken' = tick
     \/ /\ request' = "failed"
        /\ UNCHANGED m_dwToken
  /\ UNCHANGED <<raised, sendQueue, queueVars, g_bThread, control, batchVars,
                 tick, dwLastTime, reports, alarms>>

-----------------------------------------------------------------------------
Event(e) ==
  [command |-> Command(kind[e]), occur |-> place[e].occur, no |-> place[e].no]

(* Whether KOCOM or COMMAX is told of an event.                             *)
Tells(e) ==
  \/ m_nSIType = "KOCOM" /\ KocomTells(Event(e))
  \/ m_nSIType = "COMMAX" /\ CommaxTells(Event(e))

(* They are told, COMMAX on a connection of its own each time: it has two   *)
(* of the three seconds to answer, and what it is not told then is gone.    *)
Tell(es) ==
  LET due == {n \in 1 .. Len(es) : Tells(es[n])} IN
    \E reached \in SUBSET due, d \in {n \in 0 .. MaxStall : n <= Cardinality(due)} :
      /\ m_nSIType # "COMMAX" => reached = due /\ d = 0
      /\ told' = told \o [n \in 1 .. Len(es) |->
                   [event |-> es[n],
                    outcome |-> IF n \notin due THEN "none"
                                ELSE IF n \in reached THEN "reached" ELSE "missed"]]
      /\ tick' = Plus(tick, d)

(* Mutant: the loop over the queue ends after one event.                    *)
HandOverOne(es) ==
  /\ sent' = Append(sent, es[1])
  /\ first' = es[1] /\ size' = 1
  /\ step' = IF m_nSIType = "SI_TEST" THEN "token" ELSE "finish"
  /\ Tell(<<es[1]>>)

(* ProcessEventQueue for the events es.                                     *)
HandOver(es) ==
  /\ sent' = sent \o es
  /\ first' = es[1] /\ size' = Len(es)
  /\ step' = IF m_nSIType = "SI_TEST" THEN "token" ELSE "finish"
  /\ Tell(es)

(* The recipients are three seconds old: the server is asked for them, and  *)
(* the time of the old ones is cleared AFTER the request is out.            *)
AskForToken ==
  /\ step = "token"
  /\ IF Elapsed(m_dwToken) > Delay
     THEN step' = "reset" /\ request' = "open" /\ dwLastTime' = tick
     ELSE step' = "alarm" /\ UNCHANGED <<request, dwLastTime>>
  /\ UNCHANGED <<raised, sendQueue, queueVars, g_bThread, pc, qi, urgent,
                 batchVars, tick, m_dwToken, reports, alarms>>

ClearToken ==
  /\ step = "reset"
  /\ step' = "await"
  /\ m_dwToken' = 0
  /\ UNCHANGED <<raised, sendQueue, queueVars, g_bThread, pc, qi, urgent,
                 batchVars, tick, dwLastTime, request, reports, alarms>>

(* The wait polls: each time round a tick passes.                           *)
WaitOver == ~g_bThread \/ Elapsed(dwLastTime) > Delay \/ m_dwToken > 0

AwaitToken ==
  /\ step = "await"
  /\ IF WaitOver THEN step' = "alarm" /\ tick' = tick
                 ELSE step' = step /\ tick' = Plus(tick, 1)
  /\ UNCHANGED <<raised, sendQueue, queueVars, g_bThread, pc, qi, urgent,
                 batchVars, tokenVars, reports, alarms>>

Alarm == [first |-> first, more |-> size - 1, upTo |-> Len(sent)]

SendAlarm ==
  /\ step = "alarm"
  /\ step' = "finish"
  /\ alarms' = Append(alarms, Alarm)
  /\ \E d \in 0 .. MaxStall : tick' = Plus(tick, d)
  /\ dwLastTime' = 0
  /\ request' = IF request = "open" THEN "open" ELSE "none"
  /\ UNCHANGED <<raised, sendQueue, queueVars, g_bThread, pc, qi, urgent,
                 batchVars, m_dwToken, reports>>

-----------------------------------------------------------------------------
(* Mutant: a full queue is not handed over.                                 *)
DueByTime(q) ==
  stamp[q] > 0 /\ pending[q] # <<>> /\ Elapsed(stamp[q]) >= Delay

(* CheckAndSend and SendAll.                                                *)
Due(q) ==
  \/ stamp[q] > 0 /\ pending[q] # <<>> /\ Elapsed(stamp[q]) >= Delay
  \/ Len(pending[q]) >= MaxPending

(* Mutant: SendAll hands over only what is due.                             *)
WantedDue(q) == Due(q)
Wanted(q) == IF pc = "check" THEN Due(q) ELSE pending[q] # <<>>

LoopHead == pc = "check" /\ step = "none" /\ qi = 1

ScanQueue ==
  /\ pc \in {"check", "flush"} /\ step = "none"
  /\ LoopHead => g_bThread
  /\ qi <= Len(QueueOrder)
  /\ LET q == QueueOrder[qi] IN
       IF Wanted(q)
       THEN /\ HandOver(pending[q])
            /\ pending' = [pending EXCEPT ![q] = <<>>]
            /\ UNCHANGED qi
       ELSE /\ qi' = qi + 1
            /\ UNCHANGED <<pending, step, reports, batchVars, tick>>
  /\ UNCHANGED <<raised, sendQueue, stamp, atZero, g_bThread, pc, urgent,
                 tokenVars, alarms>>

(* An alarm to KOCOM whose text is made of what the stack held: one that is *)
(* longer than the message ends the process in strcpy_s, in the middle of   *)
(* its queue.                                                               *)
Unset(e) == KocomTells(Event(e)) /\ KocomAlarm(Event(e)).place.text = "unset"

TextTooLong ==
  /\ m_nSIType = "KOCOM" /\ step = "none"
  /\ \/ pc = "urgent" /\ Unset(urgent)
     \/ /\ pc \in {"check", "flush"} /\ (LoopHead => g_bThread)
        /\ qi <= Len(QueueOrder) /\ Wanted(QueueOrder[qi])
        /\ \E e \in Range(pending[QueueOrder[qi]]) : Unset(e)
  /\ pc' = "dead"
  /\ UNCHANGED <<raised, sendQueue, queueVars, g_bThread, step, qi, urgent,
                 batchVars, tick, tokenVars, reports, alarms>>

(* The end of ProcessEventQueue: dwValue = 0 and back to the caller.        *)
Return == step = "finish" /\ first' = 0 /\ size' = 0

(* Mutant: the times of all three queues are cleared.                       *)
FinishQueueAll ==
  /\ pc \in {"check", "flush"}
  /\ Return
  /\ stamp' = [q \in Queues |-> 0]
  /\ step' = "none" /\ qi' = qi + 1
  /\ UNCHANGED <<raised, sendQueue, pending, atZero, g_bThread, pc, urgent, tick,
                 tokenVars, reports, alarms>>

FinishQueue ==
  /\ pc \in {"check", "flush"}
  /\ Return
  /\ stamp' = [stamp EXCEPT ![QueueOrder[qi]] = 0]
  /\ step' = "none" /\ qi' = qi + 1
  /\ UNCHANGED <<raised, sendQueue, pending, atZero, g_bThread, pc, urgent, tick,
                 tokenVars, reports, alarms>>

ScanDone ==
  /\ pc \in {"check", "flush"} /\ step = "none"
  /\ qi > Len(QueueOrder)
  /\ Goto(IF pc = "check" THEN "take" ELSE "urgent")
  /\ UNCHANGED <<raised, sendQueue, queueVars, g_bThread, urgent, batchVars, tick,
                 tokenVars, reports, alarms>>

(* SendThreadLoop *)
TakeEvent ==
  /\ pc = "take"
  /\ sendQueue # <<>>
  /\ sendQueue' = Tail(sendQueue)
  /\ LET e == Head(sendQueue) IN
       IF IsUrgent(kind[e])
       THEN urgent' = e /\ Goto("flush") /\ UNCHANGED queueVars
       ELSE urgent' = 0 /\ Goto("check") /\ Push(e)
  /\ UNCHANGED <<raised, g_bThread, batchVars, tick, tokenVars, reports, alarms>>

(* m_fireQueue or m_fixQueue, which hold this one event.                    *)
ReportUrgent ==
  /\ pc = "urgent" /\ step = "none"
  /\ HandOver(<<urgent>>)
  /\ UNCHANGED <<raised, sendQueue, queueVars, g_bThread, pc, qi, urgent,
                 tokenVars, alarms>>

FinishUrgent ==
  /\ pc = "urgent"
  /\ Return
  /\ Push(urgent)
  /\ urgent' = 0
  /\ Goto("check")
  /\ UNCHANGED <<raised, sendQueue, g_bThread, tick, tokenVars, reports, alarms>>

NothingToTake ==
  /\ pc = "take" /\ sendQueue = <<>>
  /\ tick' = Plus(tick, 1)
  /\ Goto("check")
  /\ UNCHANGED <<raised, sendQueue, queueVars, g_bThread, urgent, batchVars,
                 tokenVars, reports, alarms>>

EndLoop ==
  /\ LoopHead /\ ~g_bThread
  /\ pc' = "ended"
  /\ UNCHANGED <<raised, sendQueue, queueVars, g_bThread, step, qi, urgent,
                 batchVars, tick, tokenVars, reports, alarms>>

-----------------------------------------------------------------------------
SendThread ==
  \/ AskForToken \/ ClearToken \/ AwaitToken \/ SendAlarm
  \/ ScanQueue \/ TextTooLong \/ FinishQueue \/ ScanDone
  \/ TakeEvent \/ ReportUrgent \/ FinishUrgent \/ NothingToTake \/ EndLoop

Next == SendEvent \/ StopSendEventThread \/ Answer \/ SendThread

Spec == Init /\ [][Next]_vars

(* The thread never waits for another thread: it runs whenever it may.      *)
FairSpec == Spec /\ WF_vars(SendThread)

-----------------------------------------------------------------------------
Events == 1 .. MaxRaised

(* Types; a class queue is at most one event longer than the length at which*)
(* CheckAndSend hands it over, although only every other step looks at it.  *)
TypeOK ==
  /\ m_nSIType \in SITypes
  /\ kind \in Seq(AllKinds) /\ Len(kind) <= MaxRaised
  /\ Len(place) = Len(kind)
  /\ \A e \in DOMAIN place : \E r \in Reports[m_nSIType] :
       place[e] = [occur |-> r.occur, no |-> r.no]
  /\ sendQueue \in Seq(Events) /\ sent \in Seq(Events)
  /\ pending \in [Queues -> Seq(Events)]
  /\ \A q \in Queues : Len(pending[q]) <= MaxPending + 1
  /\ stamp \in [Queues -> Ticks]
  /\ g_bThread \in BOOLEAN
  /\ pc \in {"check", "flush", "urgent", "take", "ended", "dead"}
  /\ step \in {"none", "token", "reset", "await", "alarm", "finish"}
  /\ qi \in 1 .. Len(QueueOrder) + 1
  /\ urgent \in Events \cup {0}
  /\ first \in Events \cup {0} /\ size \in Nat
  /\ tick \in Ticks /\ m_dwToken \in Ticks /\ dwLastTime \in Ticks
  /\ request \in {"none", "open", "early", "answered", "failed"}
  /\ told \in Seq([event : Events, outcome : {"none", "missed", "reached"}])
  /\ alarms \in Seq([first : Events, more : Nat, upTo : Nat])
  /\ atZero \subseteq Queues

Count(e, s) == Quantify(DOMAIN s, LAMBDA i : s[i] = e)

(* Every event taken from the send queue is, at any moment, reported or     *)
(* pending exactly as often as its kind asks for: none is lost between the  *)
(* queues of SendThreadLoop, and only unit 63 makes a second report.        *)
EachAsAskedFor ==
  \A e \in DOMAIN kind :
    Count(e, sent) + Count(e, pending["line"]) + Count(e, pending["gas"])
                   + Count(e, pending["spy"]) =
      IF Count(e, sendQueue) > 0 THEN 0
      ELSE IF e = urgent THEN (IF pc = "urgent" /\ step # "none" THEN 1 ELSE 0)
      ELSE Copies(kind[e]) + (IF IsUrgent(kind[e]) THEN 1 ELSE 0)

(* The alarms pushed, with the one in hand, divide the reported events: the *)
(* event each shows is the first of its share and the number it adds is the *)
(* rest (pDataSave and nSize - 1 in ProcessEventQueue).                     *)
AlarmsCoverReports ==
  m_nSIType = "SI_TEST" =>
    LET open == IF step \in {"token", "reset", "await", "alarm"} THEN <<Alarm>> ELSE <<>>
        all == alarms \o open
        from(n) == IF n = 1 THEN 0 ELSE all[n - 1].upTo IN
      /\ from(Len(all) + 1) = Len(sent)
      /\ \A n \in 1 .. Len(all) : /\ all[n].first = sent[from(n) + 1]
                                 /\ all[n].upTo = from(n) + all[n].more + 1

(* KOCOM and COMMAX are told once for each report of every reset, of every  *)
(* fire of an apartment block and of every fire at a circuit that is not in *)
(* the table; of nothing else.                                              *)
ToldOfFires ==
  \A e \in DOMAIN kind :
    Quantify(DOMAIN told, LAMBDA i : told[i].event = e /\ told[i].outcome # "none") =
      IF /\ m_nSIType # "SI_TEST"
         /\ \/ kind[e] = "R"
            \/ /\ Command(kind[e]) = "F" /\ place[e].occur \in {"N", "F"}
               /\ (place[e].no # ResetNo /\ Listed(place[e].no)) =>
                    Info(place[e].no).building # 0
      THEN Count(e, sent) ELSE 0

(* No event is lost or doubled on its way to the reports, nor on to the     *)
(* alarms and to those who are told.                                        *)
EveryEventAccounted == EachAsAskedFor /\ AlarmsCoverReports /\ ToldOfFires

(* No event is reported after a fire or reset event that was raised after   *)
(* it (SendAll: everything so far is sent first), and events of one queue   *)
(* are reported in the order they were raised.                              *)
ReportsInOrder ==
  \A j \in DOMAIN sent : \A i \in 1 .. j - 1 :
    LET a == kind[sent[i]]
        b == kind[sent[j]] IN
      IsUrgent(a) \/ (~IsUrgent(b) /\ QueueOf(a) = QueueOf(b)) =>
        sent[i] <= sent[j]

(* While the thread waits for the recipients, an answer that came after     *)
(* m_dwToken was cleared ends the wait, unless it came at tick 0.           *)
AnswerIsSeen ==
  step = "await" /\ request = "answered" =>
    m_dwToken > 0 \/ dwLastTime = 0 \/ tick < dwLastTime

(* A queued event of a class is reported in the end, unless it was pushed   *)
(* at tick 0, which CheckAndSend takes for an empty queue, or the thread is *)
(* stopped; once stopped, it ends wherever it is, and the join in           *)
(* StopSendEventThread returns.                                             *)
ClassReported ==
  /\ \A q \in Queues :
       pending[q] # <<>> ~>
         pending[q] = <<>> \/ q \in atZero \/ ~g_bThread \/ pc = "dead"
  /\ ~g_bThread ~> pc \in {"ended", "dead"}
=============================================================================
