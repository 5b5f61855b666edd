-------------------------- MODULE EventSend_proofs --------------------------
(***************************************************************************)
(* For every kind of receiver, every sequence of events and every length   *)
(* of the queues: the order in which the sending thread reports events,    *)
(* how often it reports each, how long its queues get, and that it sees an *)
(* answer it waits for.  Then what is told of one event, compared between  *)
(* those who are told, for every table of circuits.                        *)
(***************************************************************************)
EXTENDS EventSend, TLAPS, FiniteSetTheorems, SequenceTheorems,
        WellFoundedInduction, NaturalsInduction

-----------------------------------------------------------------------------
(* The invariant                                                            *)

(* How many of the events raised have been taken from the send queue.       *)
Taken == Len(kind) - Len(sendQueue)

Types ==
  /\ m_nSIType \in SITypes
  /\ kind \in Seq(AllKinds)
  /\ sendQueue \in Seq(Nat) /\ sent \in Seq(Nat)
  /\ pending \in [Queues -> Seq(Nat)]
  /\ qi \in 1 .. 4 /\ urgent \in Nat
  /\ pc \in {"check", "flush", "urgent", "take", "ended", "dead"}
  /\ step \in {"none", "token", "reset", "await", "alarm", "finish"}

(* What waits in the send queue are the last events raised, in order.       *)
Waiting ==
  /\ Taken \in Nat
  /\ \A i \in DOMAIN sendQueue : sendQueue[i] = Taken + i

(* An urgent event is treated as soon as it is taken, and after SendAll.    *)
Control ==
  /\ pc \in {"check", "flush"} /\ step # "none" => qi <= 3
  /\ pc \in {"check", "take", "ended"} => urgent = 0
  /\ pc \in {"flush", "urgent"} =>
       urgent # 0 /\ urgent = Taken /\ IsUrgent(kind[urgent])
  /\ pc = "flush" =>
       \A i \in 1 .. 3 : i < qi \/ (i = qi /\ step # "none") =>
         pending[QueueOrder[i]] = <<>>
  /\ pc = "urgent" => \A q \in Queues : pending[q] = <<>>

(* A queue holds events of its class in the order they were raised; one that*)
(* was urgent is there for unit 63, and nothing older is with it.           *)
PendingFits ==
  \A q \in Queues : \A i \in DOMAIN pending[q] :
    /\ pending[q][i] \in 1 .. Taken
    /\ QueueOf(kind[pending[q][i]]) = q
    /\ \A j \in DOMAIN pending[q] : i < j => pending[q][i] <= pending[q][j]

UrgentIsOldest ==
  \A q \in Queues : \A i \in DOMAIN pending[q] :
    IsUrgent(kind[pending[q][i]]) =>
      \A p \in Queues : \A j \in DOMAIN pending[p] :
        pending[q][i] <= pending[p][j]

(* What is reported is older than what is pending, in its class, or anywhere*)
(* if it was urgent.                                                        *)
SentIsOlder ==
  \A i \in DOMAIN sent :
    /\ sent[i] \in 1 .. Taken
    /\ \A q \in Queues :
         IsUrgent(kind[sent[i]]) \/ QueueOf(kind[sent[i]]) = q =>
           \A j \in DOMAIN pending[q] : sent[i] <= pending[q][j]

InOrder ==
  /\ PendingFits /\ UrgentIsOldest /\ SentIsOlder /\ ReportsInOrder

(* How often an event is reported or pending.                               *)
Owed(e) ==
  IF e > Taken THEN 0
  ELSE IF e = urgent THEN (IF pc = "urgent" /\ step # "none" THEN 1 ELSE 0)
  ELSE Copies(kind[e]) + (IF IsUrgent(kind[e]) THEN 1 ELSE 0)

Kept ==
  \A e \in DOMAIN kind :
    Count(e, sent) + Count(e, pending["line"]) + Count(e, pending["gas"])
                   + Count(e, pending["spy"]) = Owed(e)

(* A queue that was looked at is not full; a report may be pushed twice.    *)
Looked(i) ==
  \/ pc \in {"take", "flush"}
  \/ pc = "check" /\ (i < qi \/ (i = qi /\ step # "none"))

Sizes ==
  \A i \in 1 .. 3 :
    LET length == Len(pending[QueueOrder[i]]) IN
      /\ length <= MaxPending + 1
      /\ Looked(i) => length < MaxPending

(* While the thread waits, the time since it asked has not wrapped; before, *)
(* an answer counts as early.                                               *)
Clock ==
  /\ tick \in Ticks /\ m_dwToken \in Ticks /\ dwLastTime \in Ticks
  /\ step = "reset" => request # "answered" /\ dwLastTime = tick
  /\ step = "await" => Elapsed(dwLastTime) <= Delay + 1
  /\ AnswerIsSeen

-----------------------------------------------------------------------------
(* Sequences                                                                *)

LEMMA TheQueues ==
  /\ Len(QueueOrder) = 3 /\ Queues = {"line", "gas", "spy"}
  /\ QueueOrder[1] = "line" /\ QueueOrder[2] = "gas" /\ QueueOrder[3] = "spy"
  /\ \A i \in 1 .. 3 : QueueOrder[i] \in Queues
  /\ \A q \in Queues : \E i \in 1 .. 3 : q = QueueOrder[i]
  /\ \A k : QueueOf(k) \in Queues
  <1>1. DOMAIN QueueOrder = {1, 2, 3} /\ Len(QueueOrder) = 3
    BY DEF QueueOrder
  <1>2. QueueOrder[1] = "line" /\ QueueOrder[2] = "gas" /\ QueueOrder[3] = "spy"
    BY DEF QueueOrder
  <1>3. Queues = {"line", "gas", "spy"}
    BY <1>1, <1>2 DEF Queues, Range
  <1>4. \A k : QueueOf(k) \in Queues
    BY <1>3 DEF QueueOf
  <1> QED BY <1>1, <1>2, <1>3, <1>4

(* How often a number occurs in sequences put together.                     *)
LEMMA CountType ==
  ASSUME NEW s \in Seq(Nat), NEW e
  PROVE  /\ IsFiniteSet({i \in DOMAIN s : s[i] = e})
         /\ Count(e, s) \in Nat
         /\ Count(e, s) = Cardinality({i \in DOMAIN s : s[i] = e})
  <1>1. DOMAIN s = 1 .. Len(s) /\ Len(s) \in Nat
    OBVIOUS
  <1>2. IsFiniteSet(DOMAIN s)
    BY <1>1, FS_Interval
  <1>3. IsFiniteSet({i \in DOMAIN s : s[i] = e})
    BY <1>2, FS_Subset
  <1>4. Count(e, s) = Cardinality({i \in DOMAIN s : s[i] = e})
    BY DEF Count, Quantify
  <1> QED BY <1>3, <1>4, FS_CardinalityType

LEMMA CountZero ==
  ASSUME NEW s \in Seq(Nat), NEW e
  PROVE  Count(e, s) = 0 <=> \A i \in DOMAIN s : s[i] # e
  <1> DEFINE here == {i \in DOMAIN s : s[i] = e}
  <1>1. IsFiniteSet(here) /\ Count(e, s) = Cardinality(here)
    BY CountType
  <1>2. Cardinality(here) = 0 <=> here = {}
    BY <1>1, FS_EmptySet
  <1> QED BY <1>1, <1>2

LEMMA CountConcat ==
  ASSUME NEW s \in Seq(Nat), NEW t \in Seq(Nat), NEW e
  PROVE  Count(e, s \o t) = Count(e, s) + Count(e, t)
  <1> DEFINE u == s \o t
             inS == {i \in DOMAIN s : s[i] = e}
             inT == {i \in DOMAIN t : t[i] = e}
             inU == {i \in DOMAIN u : u[i] = e}
             moved == {i + Len(s) : i \in inT}
             f == [i \in inT |-> i + Len(s)]
  <1>1. /\ u \in Seq(Nat) /\ Len(u) = Len(s) + Len(t)
        /\ \A i \in 1 .. Len(s) + Len(t) :
             u[i] = IF i <= Len(s) THEN s[i] ELSE t[i - Len(s)]
    BY ConcatProperties
  <1>2. /\ Len(s) \in Nat /\ DOMAIN s = 1 .. Len(s)
        /\ Len(t) \in Nat /\ DOMAIN t = 1 .. Len(t)
        /\ DOMAIN u = 1 .. Len(u)
    BY <1>1
  <1>3. inU = inS \cup moved
    <2>1. ASSUME NEW i \in inU PROVE i \in inS \cup moved
      <3>1. CASE i <= Len(s)
        BY <1>1, <1>2, <3>1
      <3>2. CASE i > Len(s)
        <4>1. i - Len(s) \in inT
          BY <1>1, <1>2, <3>2
        <4>2. i = (i - Len(s)) + Len(s)
          BY <1>2
        <4> QED BY <4>1, <4>2
      <3> QED BY <1>2, <3>1, <3>2
    <2>2. ASSUME NEW i \in inS PROVE i \in inU
      BY <1>1, <1>2
    <2>3. ASSUME NEW j \in inT PROVE j + Len(s) \in inU
      BY <1>1, <1>2
    <2> QED BY <2>1, <2>2, <2>3
  <1>4. inS \cap moved = {}
    BY <1>2
  <1>5. /\ IsFiniteSet(inS) /\ Count(e, s) = Cardinality(inS)
        /\ IsFiniteSet(inT) /\ Count(e, t) = Cardinality(inT)
        /\ Count(e, u) = Cardinality(inU)
    BY <1>1, CountType
  <1>6. f \in Bijection(inT, moved)
    <2>1. f \in [inT -> moved]
      OBVIOUS
    <2>2. \A i, j \in inT : f[i] = f[j] => i = j
      BY <1>2
    <2>3. \A m \in moved : \E i \in inT : f[i] = m
      OBVIOUS
    <2> QED BY <2>1, <2>2, <2>3 DEF Bijection, Injection, Surjection, IsInjective
  <1>7. IsFiniteSet(moved) /\ Cardinality(moved) = Cardinality(inT)
    BY <1>5, <1>6, FS_Bijection DEF ExistsBijection
  <1>8. Cardinality(inS) \in Nat /\ Cardinality(inT) \in Nat
    BY <1>5, FS_CardinalityType
  <1>9. Cardinality(inU) = Cardinality(inS) + Cardinality(inT)
    <2> HIDE DEF inS, inT, inU, moved
    <2>1. Cardinality(inS \cap moved) = 0
      BY <1>4, FS_EmptySet
    <2>2. Cardinality(inU) = Cardinality(inS) + Cardinality(moved)
                             - Cardinality(inS \cap moved)
      BY <1>3, <1>5, <1>7, FS_Union
    <2> QED BY <1>7, <1>8, <2>1, <2>2
  <1> HIDE DEF inS, inT, inU
  <1> QED BY <1>5, <1>9

LEMMA CountCopies ==
  ASSUME NEW n \in Nat, NEW x \in Nat, NEW e, NEW s, s = [i \in 1 .. n |-> x]
  PROVE  /\ s \in Seq(Nat) /\ Len(s) = n /\ \A i \in 1 .. n : s[i] = x
         /\ Count(e, s) = IF x = e THEN n ELSE 0
  <1>1. s \in Seq(Nat) /\ Len(s) = n /\ DOMAIN s = 1 .. n
    OBVIOUS
  <1>2. CASE x = e
    <2>1. {i \in DOMAIN s : s[i] = e} = 1 .. n
      BY <1>1, <1>2
    <2>2. Cardinality(1 .. n) = n
      BY FS_Interval
    <2> QED BY <1>1, <1>2, <2>1, <2>2, CountType
  <1>3. CASE x # e
    BY <1>1, <1>3, CountZero
  <1> QED BY <1>1, <1>2, <1>3

LEMMA Single ==
  ASSUME NEW x \in Nat
  PROVE  /\ <<x>> \in Seq(Nat) /\ Len(<<x>>) = 1 /\ DOMAIN <<x>> = {1}
         /\ <<x>>[1] = x
         /\ \A e : Count(e, <<x>>) = IF x = e THEN 1 ELSE 0
  <1>1. /\ <<x>> \in Seq(Nat) /\ Len(<<x>>) = 1 /\ DOMAIN <<x>> = {1}
        /\ <<x>>[1] = x
    OBVIOUS
  <1>2. ASSUME NEW e PROVE Count(e, <<x>>) = IF x = e THEN 1 ELSE 0
    <2>1. CASE x = e
      <3>1. {i \in DOMAIN <<x>> : <<x>>[i] = e} = {1}
        BY <1>1, <2>1
      <3>2. Count(e, <<x>>) = Cardinality({i \in DOMAIN <<x>> : <<x>>[i] = e})
        BY DEF Count, Quantify
      <3>3. Cardinality({1}) = 1
        BY FS_Singleton
      <3> QED BY ONLY <2>1, <3>1, <3>2, <3>3
    <2>2. CASE x # e
      BY <1>1, <2>2, CountZero
    <2> QED BY <2>1, <2>2
  <1> QED BY <1>1, <1>2

-----------------------------------------------------------------------------
(* The steps                                                                *)

LEMMA LensAreNat ==
  ASSUME Types
  PROVE  /\ Len(kind) \in Nat /\ DOMAIN kind = 1 .. Len(kind)
         /\ Len(sendQueue) \in Nat /\ DOMAIN sendQueue = 1 .. Len(sendQueue)
         /\ Len(sent) \in Nat /\ DOMAIN sent = 1 .. Len(sent)
         /\ \A q \in Queues : /\ pending[q] \in Seq(Nat)
                              /\ Len(pending[q]) \in Nat
                              /\ DOMAIN pending[q] = 1 .. Len(pending[q])
         /\ Taken \in Int
  BY DEF Types, Taken

(* What the invariant is about.                                             *)
orderVars == <<m_nSIType, kind, sendQueue, pending, urgent, pc, qi, sent>>

Still ==
  \/ StopSendEventThread \/ Answer \/ AskForToken \/ ClearToken \/ AwaitToken
  \/ SendAlarm \/ UNCHANGED vars

LEMMA StillSteps ==
  ASSUME Types, Still
  PROVE  /\ UNCHANGED orderVars
         /\ step' = "none" <=> step = "none"
         /\ step' \in {"none", "token", "reset", "await", "alarm", "finish"}
  <1> USE DEF orderVars, raised, queueVars, control, reports, Types
  <1>1. CASE StopSendEventThread
    BY <1>1 DEF StopSendEventThread
  <1>2. CASE Answer
    BY <1>2 DEF Answer
  <1>3. CASE AskForToken
    BY <1>3 DEF AskForToken
  <1>4. CASE ClearToken
    BY <1>4 DEF ClearToken
  <1>5. CASE AwaitToken
    BY <1>5 DEF AwaitToken
  <1>6. CASE SendAlarm
    BY <1>6 DEF SendAlarm
  <1>7. CASE UNCHANGED vars
    BY <1>7 DEF vars
  <1> QED BY <1>1, <1>2, <1>3, <1>4, <1>5, <1>6, <1>7 DEF Still

(* An event is raised.                                                      *)
LEMMA Raises ==
  ASSUME Types, SendEvent
  PROVE  /\ kind' \in Seq(AllKinds) /\ Len(kind') = Len(kind) + 1
         /\ \A e \in DOMAIN kind : kind'[e] = kind[e]
         /\ sendQueue' = Append(sendQueue, Len(kind) + 1)
         /\ sendQueue' \in Seq(Nat) /\ Len(sendQueue') = Len(sendQueue) + 1
         /\ Taken' = Taken
         /\ UNCHANGED <<m_nSIType, pending, urgent, pc, step, qi, sent>>
  <1>1. PICK r \in Reports[m_nSIType] : kind' = Append(kind, r.kind)
    BY DEF SendEvent
  <1>2. r.kind \in AllKinds
    BY <1>1, SITypesAssumption DEF Types
  <1>3. /\ kind' \in Seq(AllKinds) /\ Len(kind') = Len(kind) + 1
        /\ \A e \in 1 .. Len(kind) : kind'[e] = kind[e]
    BY <1>1, <1>2, AppendProperties DEF Types
  <1>4. sendQueue' = Append(sendQueue, Len(kind) + 1)
    BY <1>3 DEF SendEvent
  <1>5. sendQueue' \in Seq(Nat) /\ Len(sendQueue') = Len(sendQueue) + 1
    BY <1>4, AppendProperties, LensAreNat DEF Types
  <1>6. UNCHANGED <<m_nSIType, pending, urgent, pc, step, qi, sent>>
    BY DEF SendEvent, queueVars, control, reports
  <1>7. Taken' = Taken
    BY <1>3, <1>5, LensAreNat DEF Taken
  <1> QED BY <1>3, <1>4, <1>5, <1>6, <1>7, LensAreNat

(* The next event is taken.                                                 *)
LEMMA Takes ==
  ASSUME Types, Waiting, sendQueue # <<>>, sendQueue' = Tail(sendQueue),
         UNCHANGED kind
  PROVE  /\ sendQueue' \in Seq(Nat) /\ Len(sendQueue') = Len(sendQueue) - 1
         /\ Taken' = Taken + 1 /\ Taken' \in DOMAIN kind
         /\ Head(sendQueue) = Taken + 1
         /\ \A i \in DOMAIN sendQueue' : sendQueue'[i] = sendQueue[i + 1]
  <1>1. /\ sendQueue' \in Seq(Nat) /\ Len(sendQueue') = Len(sendQueue) - 1
        /\ \A i \in 1 .. Len(sendQueue') : sendQueue'[i] = sendQueue[i + 1]
    BY HeadTailProperties DEF Types
  <1>2. Head(sendQueue) = sendQueue[1] /\ 1 \in DOMAIN sendQueue
    BY LensAreNat DEF Types
  <1>3. Taken' = Taken + 1
    BY <1>1, LensAreNat DEF Taken
  <1>4. Taken' \in DOMAIN kind
    BY <1>1, <1>3, LensAreNat DEF Taken, Waiting
  <1> QED BY <1>1, <1>2, <1>3, <1>4, LensAreNat DEF Waiting

LEMMA Pushes ==
  ASSUME Types, NEW e \in Nat, Push(e)
  PROVE  /\ pending' \in [Queues -> Seq(Nat)]
         /\ \A q \in Queues : pending'[q] =
              IF q = QueueOf(kind[e]) /\ Copies(kind[e]) # 0
              THEN pending[q] \o [i \in 1 .. Copies(kind[e]) |-> e]
              ELSE pending[q]
         /\ \A q \in Queues : Len(pending'[q]) = Len(pending[q]) +
              IF q = QueueOf(kind[e]) THEN Copies(kind[e]) ELSE 0
         /\ \A q \in Queues : \A i \in DOMAIN pending'[q] :
              \/ i \in DOMAIN pending[q] /\ pending'[q][i] = pending[q][i]
              \/ /\ pending'[q][i] = e /\ q = QueueOf(kind[e])
                 /\ i > Len(pending[q])
  <1> DEFINE n == Copies(kind[e])
             copies == [i \in 1 .. n |-> e]
  <1>1. n \in 0 .. 2
    BY DEF Copies
  <1> HIDE DEF n, copies
  <1>2. /\ copies \in Seq(Nat) /\ Len(copies) = n
        /\ \A i \in 1 .. n : copies[i] = e
    <2>1. copies = [i \in 1 .. n |-> e]
      BY DEF copies, n
    <2> QED BY <1>1, <2>1, CountCopies
  <1>3. CASE n = 0
    <2>1. pending' = pending
      BY <1>3 DEF Push, queueVars, n
    <2> QED BY <1>3, <2>1, LensAreNat DEF Types, n
  <1>4. CASE n # 0
    <2> DEFINE p == QueueOf(kind[e])
    <2>1. pending' = [pending EXCEPT ![p] = @ \o copies] /\ p \in Queues
      BY <1>4, TheQueues DEF Push, n, copies
    <2> HIDE DEF p
    <2>0. /\ pending[p] \in Seq(Nat) /\ Len(pending[p]) \in Nat
          /\ DOMAIN pending[p] = 1 .. Len(pending[p])
      BY <2>1, LensAreNat
    <2>2. /\ pending[p] \o copies \in Seq(Nat)
          /\ Len(pending[p] \o copies) = Len(pending[p]) + n
          /\ \A i \in 1 .. Len(pending[p]) + n : (pending[p] \o copies)[i] =
               IF i <= Len(pending[p]) THEN pending[p][i]
               ELSE copies[i - Len(pending[p])]
      BY <1>2, <2>0, ConcatProperties
    <2>3. pending' \in [Queues -> Seq(Nat)]
      BY <2>1, <2>2 DEF Types
    <2>4. \A q \in Queues : pending'[q] =
            IF q = p THEN pending[q] \o copies ELSE pending[q]
      BY <2>1 DEF Types
    <2>5. \A q \in Queues :
            Len(pending'[q]) = Len(pending[q]) + IF q = p THEN n ELSE 0
      <3>1. Len(pending'[p]) = Len(pending[p]) + n
        BY <2>1, <2>2, <2>4
      <3>2. \A q \in Queues : Len(pending[q]) \in Nat
        BY LensAreNat
      <3> QED BY <2>4, <3>1, <3>2
    <2>6. ASSUME NEW i \in DOMAIN pending'[p]
          PROVE  \/ i \in DOMAIN pending[p] /\ pending'[p][i] = pending[p][i]
                 \/ pending'[p][i] = e /\ i > Len(pending[p])
      <3>1. i \in 1 .. Len(pending[p]) + n
        <4>1. DOMAIN (pending[p] \o copies) = 1 .. Len(pending[p] \o copies)
          BY <2>2
        <4> QED BY <2>1, <2>2, <2>4, <4>1
      <3>2. pending'[p][i] = IF i <= Len(pending[p]) THEN pending[p][i]
                             ELSE copies[i - Len(pending[p])]
        BY <2>1, <2>2, <2>4, <3>1
      <3>3. i > Len(pending[p]) => i - Len(pending[p]) \in 1 .. n
        BY <1>1, <2>0, <3>1
      <3> QED BY <1>2, <2>0, <3>1, <3>2, <3>3
    <2>7. \A q \in Queues : q # p => pending'[q] = pending[q]
      BY <2>4
    <2> QED BY <1>4, <2>1, <2>3, <2>4, <2>5, <2>6, <2>7 DEF p, n, copies
  <1> QED BY <1>3, <1>4

(* The events es are handed over.                                           *)
LEMMA HandsOver ==
  ASSUME Types, NEW es \in Seq(Nat), HandOver(es)
  PROVE  /\ sent' = sent \o es /\ sent' \in Seq(Nat)
         /\ step' \in {"token", "finish"}
  BY ConcatProperties DEF HandOver, Types

-----------------------------------------------------------------------------
(* Types, the send queue and where the thread is                            *)

Base == Types /\ Waiting /\ Control

(* What ScanQueue does with a queue that is wanted.                         *)
Scans ==
  LET q == QueueOrder[qi] IN
    /\ pc \in {"check", "flush"} /\ step = "none" /\ qi \in 1 .. 3
    /\ sent' = sent \o pending[q] /\ step' \in {"token", "finish"}
    /\ pending' = [pending EXCEPT ![q] = <<>>]
    /\ UNCHANGED <<m_nSIType, kind, sendQueue, urgent, pc, qi>>

(* Where the thread goes when no event moves.                               *)
Turns ==
  /\ UNCHANGED <<m_nSIType, kind, sendQueue, pending, sent, urgent>>
  /\ \/ /\ pc \in {"check", "flush"} /\ pc' = pc
        /\ qi \in 1 .. 3 /\ qi' = qi + 1 /\ step' = "none"
        /\ \/ step # "none"
           \/ pc = "flush" /\ pending[QueueOrder[qi]] = <<>>
           \/ pc = "check" /\ Len(pending[QueueOrder[qi]]) < MaxPending
     \/ /\ pc = "check" /\ step = "none" /\ qi > 3
        /\ pc' = "take" /\ step' = "none" /\ qi' = 1
     \/ /\ pc = "flush" /\ step = "none" /\ qi > 3
        /\ pc' = "urgent" /\ step' = "none" /\ qi' = 1
     \/ pc = "take" /\ pc' = "check" /\ step' = "none" /\ qi' = 1
     \/ pc = "check" /\ pc' = "ended" /\ step' = step /\ qi' = qi
     \/ pc' = "dead" /\ step = "none" /\ step' = step /\ qi' = qi

LEMMA ScanSteps ==
  ASSUME Types, ScanQueue
  PROVE  Scans \/ Turns
  <1> DEFINE q == QueueOrder[qi]
  <1>1. /\ pc \in {"check", "flush"} /\ step = "none" /\ qi \in 1 .. 3
        /\ q \in Queues /\ pending[q] \in Seq(Nat)
    BY TheQueues, LensAreNat DEF ScanQueue, Types
  <1>2. UNCHANGED <<m_nSIType, kind, sendQueue, urgent, pc>>
    BY DEF ScanQueue, raised
  <1>3. CASE Wanted(q)
    <2>1. HandOver(pending[q]) /\ pending' = [pending EXCEPT ![q] = <<>>]
          /\ qi' = qi
      BY <1>3 DEF ScanQueue
    <2>2. sent' = sent \o pending[q] /\ step' \in {"token", "finish"}
      BY <1>1, <2>1, HandsOver
    <2> QED BY <1>1, <1>2, <2>1, <2>2 DEF Scans
  <1>4. CASE ~Wanted(q)
    <2>1. UNCHANGED <<pending, sent>> /\ step' = "none" /\ qi' = qi + 1
      BY <1>1, <1>4 DEF ScanQueue, reports
    <2>2. pc = "flush" => pending[q] = <<>>
      BY <1>4 DEF Wanted
    <2>3. pc = "check" => Len(pending[q]) < MaxPending
      BY <1>1, <1>4, BoundsAssumption, LensAreNat DEF Wanted, Due
    <2> QED BY <1>1, <1>2, <2>1, <2>2, <2>3 DEF Turns
  <1> QED BY <1>3, <1>4

LEMMA TurnSteps ==
  ASSUME Types, Control,
         FinishQueue \/ ScanDone \/ EndLoop \/ NothingToTake \/ TextTooLong
  PROVE  Turns
  <1> USE DEF raised, queueVars, reports
  <1>1. CASE FinishQueue
    <2>1. step = "finish" /\ qi \in 1 .. 3
      BY <1>1 DEF FinishQueue, Return, Types, Control
    <2> QED BY <1>1, <2>1 DEF FinishQueue, Turns
  <1>2. CASE ScanDone
    BY <1>2, TheQueues DEF ScanDone, Goto, Turns
  <1>3. CASE EndLoop
    BY <1>3 DEF EndLoop, LoopHead, Turns
  <1>4. CASE NothingToTake
    BY <1>4 DEF NothingToTake, Goto, Turns
  <1>5. CASE TextTooLong
    BY <1>5 DEF TextTooLong, Turns
  <1> QED BY <1>1, <1>2, <1>3, <1>4, <1>5

(* An urgent event is taken, another is, one is reported, and is done with. *)
TakesUrgent ==
  /\ pc = "take" /\ sendQueue # <<>> /\ sendQueue' = Tail(sendQueue)
  /\ urgent' = Head(sendQueue) /\ IsUrgent(kind[urgent'])
  /\ pc' = "flush" /\ step' = "none" /\ qi' = 1
  /\ UNCHANGED <<m_nSIType, kind, pending, sent>>

TakesOther ==
  /\ pc = "take" /\ sendQueue # <<>> /\ sendQueue' = Tail(sendQueue)
  /\ ~IsUrgent(kind[Head(sendQueue)]) /\ Push(Head(sendQueue))
  /\ urgent' = 0 /\ pc' = "check" /\ step' = "none" /\ qi' = 1
  /\ UNCHANGED <<m_nSIType, kind, sent>>

Urges ==
  /\ pc = "urgent" /\ step = "none"
  /\ sent' = sent \o <<urgent>> /\ step' \in {"token", "finish"}
  /\ UNCHANGED <<m_nSIType, kind, sendQueue, pending, urgent, pc, qi>>

Urged ==
  /\ pc = "urgent" /\ step # "none" /\ Push(urgent)
  /\ urgent' = 0 /\ pc' = "check" /\ step' = "none" /\ qi' = 1
  /\ UNCHANGED <<m_nSIType, kind, sendQueue, sent>>

LEMMA EventSteps ==
  ASSUME Types, TakeEvent \/ ReportUrgent \/ FinishUrgent
  PROVE  TakesUrgent \/ TakesOther \/ Urges \/ Urged
  <1> USE DEF raised, queueVars, reports
  <1>1. CASE TakeEvent
    BY <1>1 DEF TakeEvent, Goto, TakesUrgent, TakesOther
  <1>2. CASE ReportUrgent
    <2>1. <<urgent>> \in Seq(Nat)
      BY Single DEF Types
    <2>2. sent' = sent \o <<urgent>> /\ step' \in {"token", "finish"}
      BY <1>2, <2>1, HandsOver DEF ReportUrgent
    <2> QED BY <1>2, <2>2 DEF ReportUrgent, Urges
  <1>3. CASE FinishUrgent
    BY <1>3 DEF FinishUrgent, Return, Goto, Urged
  <1> QED BY <1>1, <1>2, <1>3

(* All there is to consider.                                                *)
Moves ==
  \/ SendEvent \/ Still \/ Scans \/ Turns
  \/ TakesUrgent \/ TakesOther \/ Urges \/ Urged

LEMMA NextMoves ==
  ASSUME Types, Control, [Next]_vars
  PROVE  Moves
  BY ScanSteps, TurnSteps, EventSteps DEF Next, SendThread, Still, Moves

LEMMA BaseInitially == Init => Base
  <1> SUFFICES ASSUME Init PROVE Base
    OBVIOUS
  <1>1. Types
    BY DEF Init, Types
  <1>2. Waiting
    BY DEF Init, Waiting, Taken
  <1>3. Control
    BY DEF Init, Control
  <1> QED BY <1>1, <1>2, <1>3 DEF Base

LEMMA TypesNext ==
  ASSUME Types, Waiting, Control, Moves
  PROVE  Types'
  <1>1. CASE SendEvent
    BY <1>1, Raises DEF Types
  <1>2. CASE Still
    BY <1>2, StillSteps DEF Types, orderVars
  <1>3. CASE Scans
    <2>1. QueueOrder[qi] \in Queues
      BY <1>3, TheQueues DEF Scans
    <2>2. sent' \in Seq(Nat)
      BY <1>3, <2>1, ConcatProperties, LensAreNat DEF Scans, Types
    <2> QED BY <1>3, <2>1, <2>2 DEF Types, Scans
  <1>4. CASE Turns
    BY <1>4 DEF Types, Turns
  <1>5. CASE TakesUrgent
    BY <1>5, Takes, LensAreNat DEF Types, TakesUrgent
  <1>6. CASE TakesOther
    <2>1. sendQueue' \in Seq(Nat) /\ Head(sendQueue) \in Nat
      BY <1>6, Takes, LensAreNat DEF TakesOther
    <2>2. pending' \in [Queues -> Seq(Nat)]
      BY <1>6, <2>1, Pushes DEF TakesOther
    <2> QED BY <1>6, <2>1, <2>2 DEF Types, TakesOther
  <1>7. CASE Urges
    <2>1. sent' \in Seq(Nat)
      BY <1>7, Single, ConcatProperties DEF Urges, Types
    <2> QED BY <1>7, <2>1 DEF Types, Urges
  <1>8. CASE Urged
    <2>1. pending' \in [Queues -> Seq(Nat)]
      BY <1>8, Pushes DEF Types, Urged
    <2> QED BY <1>8, <2>1 DEF Types, Urged
  <1> QED BY <1>1, <1>2, <1>3, <1>4, <1>5, <1>6, <1>7, <1>8 DEF Moves

LEMMA WaitingNext ==
  ASSUME Types, Waiting, Moves
  PROVE  Waiting'
  <1>1. CASE SendEvent
    <2>1. sendQueue' = Append(sendQueue, Len(kind) + 1) /\ Len(kind) + 1 \in Nat
      BY <1>1, Raises, LensAreNat
    <2>2. /\ DOMAIN sendQueue' = 1 .. Len(sendQueue) + 1
          /\ \A i \in 1 .. Len(sendQueue) : sendQueue'[i] = sendQueue[i]
          /\ sendQueue'[Len(sendQueue) + 1] = Len(kind) + 1
      BY <2>1, AppendProperties, LensAreNat DEF Types
    <2>3. ASSUME NEW i \in DOMAIN sendQueue'
          PROVE  sendQueue'[i] = Taken + i
      <3>1. CASE i <= Len(sendQueue)
        <4>1. i \in DOMAIN sendQueue
          BY <3>1, <2>2, LensAreNat
        <4>2. sendQueue'[i] = sendQueue[i]
          BY <4>1, <2>2, LensAreNat
        <4> QED BY <4>1, <4>2 DEF Waiting
      <3>2. CASE i > Len(sendQueue)
        <4>1. i = Len(sendQueue) + 1 /\ sendQueue'[i] = Len(kind) + 1
          BY <3>2, <2>2, LensAreNat
        <4> QED BY <4>1, LensAreNat DEF Taken
      <3> QED BY <2>2, <3>1, <3>2, LensAreNat
    <2> QED BY <1>1, <2>3, Raises DEF Waiting
  <1>2. CASE TakesUrgent \/ TakesOther
    <2>1. /\ Taken' = Taken + 1 /\ sendQueue' \in Seq(Nat)
          /\ Len(sendQueue') = Len(sendQueue) - 1
          /\ \A i \in DOMAIN sendQueue' : sendQueue'[i] = sendQueue[i + 1]
      BY <1>2, Takes DEF TakesUrgent, TakesOther
    <2>2. Taken \in Nat /\ \A i \in DOMAIN sendQueue : sendQueue[i] = Taken + i
      BY DEF Waiting
    <2>3. ASSUME NEW i \in DOMAIN sendQueue'
          PROVE  sendQueue'[i] = (Taken + 1) + i
      <3>1. i \in Nat /\ i + 1 \in DOMAIN sendQueue
        BY <2>1, LensAreNat
      <3> QED BY <2>1, <2>2, <3>1
    <2> QED BY <2>1, <2>2, <2>3 DEF Waiting
  <1>3. CASE UNCHANGED <<kind, sendQueue>>
    BY <1>3 DEF Waiting, Taken
  <1> QED BY <1>1, <1>2, <1>3, StillSteps
      DEF Moves, orderVars, Scans, Turns, Urges, Urged

LEMMA ControlNext ==
  ASSUME Types, Waiting, Control, Moves
  PROVE  Control'
  <1>1. CASE SendEvent
    <2>1. pc \in {"flush", "urgent"} => urgent \in DOMAIN kind
      BY LensAreNat DEF Control, Waiting, Taken, Types
    <2> QED BY <1>1, <2>1, Raises DEF Control
  <1>2. CASE Still
    <2> USE DEF orderVars
    <2>1. Taken' = Taken
      BY <1>2, StillSteps DEF Taken
    <2> QED BY <1>2, <2>1, StillSteps DEF Control
  <1>3. CASE Scans
    <2>1. QueueOrder[qi] \in Queues /\ pending'[QueueOrder[qi]] = <<>>
      BY <1>3, TheQueues DEF Scans, Types
    <2>2. \A q \in Queues : pending[q] = <<>> => pending'[q] = <<>>
      BY <1>3, <2>1 DEF Scans, Types
    <2>3. \A i \in 1 .. 3 : QueueOrder[i] \in Queues
      BY TheQueues
    <2>4. Taken' = Taken
      BY <1>3 DEF Scans, Taken
    <2> QED BY <1>3, <2>1, <2>2, <2>3, <2>4 DEF Scans, Control
  <1>4. CASE Turns
    <2>1. Taken' = Taken
      BY <1>4 DEF Turns, Taken
    <2>2. pc' = "urgent" => \A q \in Queues : pending'[q] = <<>>
      BY <1>4, TheQueues DEF Turns, Control, Types
    <2>3. pc' = "flush" =>
            \A i \in 1 .. 3 : i < qi' \/ (i = qi' /\ step' # "none") =>
              pending'[QueueOrder[i]] = <<>>
      BY <1>4 DEF Turns, Control, Types
    <2>4. pc' \in {"check", "flush"} /\ step' # "none" => qi' <= 3
      BY <1>4 DEF Turns, Control
    <2>5. pc' \in {"check", "take", "ended"} => urgent' = 0
      BY <1>4 DEF Turns, Control
    <2>6. pc' \in {"flush", "urgent"} =>
            urgent' # 0 /\ urgent' = Taken' /\ IsUrgent(kind'[urgent'])
      BY <1>4, <2>1 DEF Turns, Control
    <2> QED BY <2>2, <2>3, <2>4, <2>5, <2>6 DEF Control
  <1>5. CASE TakesUrgent
    BY <1>5, Takes DEF TakesUrgent, Control, Waiting
  <1>6. CASE TakesOther
    BY <1>6 DEF TakesOther, Control
  <1>7. CASE Urges
    BY <1>7 DEF Urges, Control, Taken
  <1>8. CASE Urged
    BY <1>8 DEF Urged, Control
  <1> QED BY <1>1, <1>2, <1>3, <1>4, <1>5, <1>6, <1>7, <1>8 DEF Moves

-----------------------------------------------------------------------------
(* The order of the reports                                                 *)

(* Reports that are added, each no younger than what they may not follow.   *)
LEMMA ReportsAdded ==
  ASSUME Types, ReportsInOrder, UNCHANGED kind,
         NEW es \in Seq(Nat), sent' = sent \o es,
         \A i, j \in DOMAIN es : i < j => es[i] <= es[j],
         \A i \in DOMAIN sent : \A j \in DOMAIN es :
           \/ IsUrgent(kind[sent[i]])
           \/ QueueOf(kind[sent[i]]) = QueueOf(kind[es[j]])
              /\ ~IsUrgent(kind[es[j]])
           => sent[i] <= es[j]
  PROVE  /\ ReportsInOrder'
         /\ \A i \in DOMAIN sent' :
              \/ i \in DOMAIN sent /\ sent'[i] = sent[i]
              \/ \E j \in DOMAIN es : sent'[i] = es[j]
  <1>1. /\ Len(sent) \in Nat /\ DOMAIN sent = 1 .. Len(sent)
        /\ Len(es) \in Nat /\ DOMAIN es = 1 .. Len(es)
    BY LensAreNat
  <1>2. /\ DOMAIN sent' = 1 .. Len(sent) + Len(es)
        /\ \A i \in 1 .. Len(sent) + Len(es) : sent'[i] =
             IF i <= Len(sent) THEN sent[i] ELSE es[i - Len(sent)]
    BY <1>1, ConcatProperties DEF Types
  <1>3. \A i \in DOMAIN sent' : i > Len(sent) => i - Len(sent) \in DOMAIN es
    BY <1>1, <1>2
  <1>4. ASSUME NEW j \in DOMAIN sent', NEW i \in 1 .. j - 1,
               \/ IsUrgent(kind[sent'[i]])
               \/ /\ ~IsUrgent(kind[sent'[j]])
                  /\ QueueOf(kind[sent'[i]]) = QueueOf(kind[sent'[j]])
        PROVE  sent'[i] <= sent'[j]
    <2>1. i \in DOMAIN sent' /\ i < j /\ i \in Nat /\ j \in Nat
      BY <1>1, <1>2
    <2>2. CASE j <= Len(sent)
      <3>1. /\ sent'[i] = sent[i] /\ sent'[j] = sent[j]
            /\ j \in DOMAIN sent /\ i \in 1 .. j - 1
        BY <1>1, <1>2, <2>1, <2>2
      <3> QED BY <1>4, <3>1 DEF ReportsInOrder
    <2>3. CASE i <= Len(sent) /\ j > Len(sent)
      <3>1. /\ sent'[i] = sent[i] /\ i \in DOMAIN sent
            /\ sent'[j] = es[j - Len(sent)] /\ j - Len(sent) \in DOMAIN es
        BY <1>1, <1>2, <1>3, <2>1, <2>3
      <3> QED BY <1>4, <3>1
    <2>4. CASE i > Len(sent)
      <3>1. i - Len(sent) \in DOMAIN es /\ j - Len(sent) \in DOMAIN es
        BY <1>1, <1>3, <2>1, <2>4
      <3>2. sent'[i] = es[i - Len(sent)] /\ sent'[j] = es[j - Len(sent)]
        BY <1>1, <1>2, <2>1, <2>4
      <3>3. i - Len(sent) < j - Len(sent)
        BY <1>1, <2>1
      <3> QED BY <3>1, <3>2, <3>3
    <2> QED BY <1>1, <2>1, <2>2, <2>3, <2>4
  <1>5. ReportsInOrder'
    BY <1>4 DEF ReportsInOrder
  <1>6. \A i \in DOMAIN sent' :
          \/ i \in DOMAIN sent /\ sent'[i] = sent[i]
          \/ \E j \in DOMAIN es : sent'[i] = es[j]
    BY <1>1, <1>2, <1>3
  <1> QED BY <1>5, <1>6

LEMMA OrderInitially == Init => InOrder
  BY DEF Init, InOrder, PendingFits, UrgentIsOldest, SentIsOlder, ReportsInOrder

(* Neither the queues nor the reports change, nor the kinds of the events   *)
(* there.                                                                   *)
LEMMA OrderSame ==
  ASSUME Types, InOrder, UNCHANGED <<pending, sent>>,
         \A e \in 1 .. Taken : kind'[e] = kind[e],
         Taken' \in Int, Taken <= Taken'
  PROVE  InOrder'
  <1>1. Taken \in Int /\ 1 .. Taken \subseteq 1 .. Taken'
    BY LensAreNat
  <1>2. /\ \A q \in Queues : \A i \in DOMAIN pending[q] :
             kind'[pending[q][i]] = kind[pending[q][i]]
        /\ \A i \in DOMAIN sent : kind'[sent[i]] = kind[sent[i]]
    BY DEF InOrder, PendingFits, SentIsOlder
  <1>3. PendingFits'
    BY <1>1, <1>2 DEF InOrder, PendingFits
  <1>4. UrgentIsOldest'
    BY <1>2 DEF InOrder, UrgentIsOldest
  <1>5. SentIsOlder'
    BY <1>1, <1>2 DEF InOrder, SentIsOlder
  <1>6. ReportsInOrder'
    <2>1. \A j \in DOMAIN sent : \A i \in 1 .. j - 1 : i \in DOMAIN sent
      BY LensAreNat
    <2> QED BY <1>2, <2>1 DEF InOrder, ReportsInOrder
  <1> QED BY <1>3, <1>4, <1>5, <1>6 DEF InOrder

(* An event no older than any that is reported or pending is pushed; if it  *)
(* was urgent, nothing is pending.                                          *)
LEMMA OrderPushed ==
  ASSUME Types, Waiting, InOrder, NEW e \in Nat, Push(e),
         UNCHANGED <<kind, sent>>,
         Taken' \in Nat, Taken <= Taken', e = Taken', e # 0,
         IsUrgent(kind[e]) => \A q \in Queues : pending[q] = <<>>
  PROVE  InOrder'
  <1>1. \A q \in Queues : \A i \in DOMAIN pending'[q] :
          \/ i \in DOMAIN pending[q] /\ pending'[q][i] = pending[q][i]
          \/ /\ pending'[q][i] = e /\ q = QueueOf(kind[e])
             /\ i > Len(pending[q])
    BY Pushes
  <1>2. Taken \in Nat /\ 1 .. Taken \subseteq 1 .. Taken' /\ e \in 1 .. Taken'
    BY LensAreNat DEF Waiting
  <1>3. \A q \in Queues : \A i \in DOMAIN pending[q] :
          /\ pending[q][i] \in 1 .. Taken /\ pending[q][i] <= e
          /\ i <= Len(pending[q]) /\ i \in Nat
    BY <1>2, LensAreNat DEF InOrder, PendingFits
  <1>4. \A q \in Queues : \A i \in DOMAIN pending'[q] : i \in Nat
    <2>1. \A q \in Queues : pending'[q] \in Seq(Nat)
      BY Pushes
    <2>2. \A s \in Seq(Nat) : \A i \in DOMAIN s : i \in Nat
      OBVIOUS
    <2> QED BY <2>1, <2>2
  <1>5. PendingFits'
    <2>1. ASSUME NEW q \in Queues, NEW i \in DOMAIN pending'[q]
          PROVE  /\ pending'[q][i] \in 1 .. Taken'
                 /\ QueueOf(kind[pending'[q][i]]) = q
      BY <1>1, <1>2 DEF InOrder, PendingFits
    <2>2. ASSUME NEW q \in Queues, NEW i \in DOMAIN pending'[q],
                 NEW j \in DOMAIN pending'[q], i < j
          PROVE  pending'[q][i] <= pending'[q][j]
      <3>1. CASE j \in DOMAIN pending[q] /\ pending'[q][j] = pending[q][j]
        <4>1. i \in DOMAIN pending[q] /\ pending'[q][i] = pending[q][i]
          BY <1>1, <1>3, <1>4, <2>2, <3>1, LensAreNat
        <4> QED BY <2>2, <3>1, <4>1 DEF InOrder, PendingFits
      <3>2. CASE pending'[q][j] = e
        BY <1>1, <1>2, <1>3, <3>2
      <3> QED BY <1>1, <3>1, <3>2
    <2> QED BY <2>1, <2>2 DEF PendingFits
  <1>6. UrgentIsOldest'
    <2>1. ASSUME NEW q \in Queues, NEW i \in DOMAIN pending'[q],
                 IsUrgent(kind[pending'[q][i]]),
                 NEW p \in Queues, NEW j \in DOMAIN pending'[p]
          PROVE  pending'[q][i] <= pending'[p][j]
      <3>1. CASE i \in DOMAIN pending[q] /\ pending'[q][i] = pending[q][i]
        <4>1. CASE j \in DOMAIN pending[p] /\ pending'[p][j] = pending[p][j]
          BY <2>1, <3>1, <4>1 DEF InOrder, UrgentIsOldest
        <4>2. CASE pending'[p][j] = e
          BY <1>3, <3>1, <4>2
        <4> QED BY <1>1, <4>1, <4>2
      <3>2. CASE pending'[q][i] = e
        <4>1. \A r \in Queues : pending[r] = <<>>
          BY <2>1, <3>2
        <4>2. pending'[p][j] = e
          BY <1>1, <4>1
        <4> QED BY <3>2, <4>2
      <3> QED BY <1>1, <3>1, <3>2
    <2> QED BY <2>1 DEF UrgentIsOldest
  <1>7. SentIsOlder'
    <2>1. \A i \in DOMAIN sent : sent[i] \in 1 .. Taken /\ sent[i] <= e
      BY <1>2 DEF InOrder, SentIsOlder
    <2>2. ASSUME NEW i \in DOMAIN sent, NEW q \in Queues,
                 IsUrgent(kind[sent[i]]) \/ QueueOf(kind[sent[i]]) = q,
                 NEW j \in DOMAIN pending'[q]
          PROVE  sent[i] <= pending'[q][j]
      BY <1>1, <2>1, <2>2 DEF InOrder, SentIsOlder
    <2> QED BY <1>2, <2>1, <2>2 DEF SentIsOlder
  <1> QED BY <1>5, <1>6, <1>7 DEF InOrder, ReportsInOrder

(* A class queue is handed over.                                            *)
LEMMA OrderScanned ==
  ASSUME Types, Waiting, InOrder, Scans
  PROVE  InOrder'
  <1> DEFINE q == QueueOrder[qi]
             es == pending[q]
  <1>1. /\ q \in Queues /\ es \in Seq(Nat) /\ sent' = sent \o es
        /\ pending' = [pending EXCEPT ![q] = <<>>] /\ UNCHANGED <<kind, sendQueue>>
    BY TheQueues, LensAreNat DEF Scans
  <1> HIDE DEF q
  <1>2. \A p \in Queues : pending'[p] = IF p = q THEN <<>> ELSE pending[p]
    BY <1>1 DEF Types
  <1>3. Taken' = Taken
    BY <1>1 DEF Taken
  <1>4. \A i, j \in DOMAIN es : i < j => es[i] <= es[j]
    BY <1>1 DEF InOrder, PendingFits
  <1>5. \A j \in DOMAIN es : es[j] \in 1 .. Taken /\ QueueOf(kind[es[j]]) = q
    BY <1>1 DEF InOrder, PendingFits
  <1>6. \A i \in DOMAIN sent : \A j \in DOMAIN es :
          \/ IsUrgent(kind[sent[i]])
          \/ QueueOf(kind[sent[i]]) = QueueOf(kind[es[j]])
             /\ ~IsUrgent(kind[es[j]])
          => sent[i] <= es[j]
    BY <1>1, <1>5 DEF InOrder, SentIsOlder
  <1>7. /\ ReportsInOrder'
        /\ \A i \in DOMAIN sent' :
             \/ i \in DOMAIN sent /\ sent'[i] = sent[i]
             \/ \E j \in DOMAIN es : sent'[i] = es[j]
    <2> HIDE DEF es
    <2> QED BY <1>1, <1>4, <1>6, ReportsAdded DEF InOrder
  <1>8. PendingFits'
    <2>1. ASSUME NEW p \in Queues, p # q PROVE pending'[p] = pending[p]
      BY <1>2, <2>1
    <2>2. pending'[q] = <<>>
      BY <1>1, <1>2
    <2> QED BY <1>1, <1>3, <2>1, <2>2 DEF InOrder, PendingFits
  <1>9. UrgentIsOldest'
    <2>1. \A p \in Queues : \A i \in DOMAIN pending'[p] :
            i \in DOMAIN pending[p] /\ pending'[p][i] = pending[p][i]
      BY <1>2
    <2> QED BY <1>1, <2>1 DEF InOrder, UrgentIsOldest
  <1>10. SentIsOlder'
    <2>1. \A p \in Queues : \A j \in DOMAIN pending'[p] :
            /\ p # q /\ j \in DOMAIN pending[p] /\ pending'[p][j] = pending[p][j]
      BY <1>2
    <2>2. ASSUME NEW i \in DOMAIN sent'
          PROVE  /\ sent'[i] \in 1 .. Taken
                 /\ \A p \in Queues :
                      IsUrgent(kind[sent'[i]]) \/ QueueOf(kind[sent'[i]]) = p =>
                        \A j \in DOMAIN pending'[p] : sent'[i] <= pending'[p][j]
      <3>1. CASE i \in DOMAIN sent /\ sent'[i] = sent[i]
        BY <2>1, <3>1 DEF InOrder, SentIsOlder
      <3>2. CASE \E j \in DOMAIN es : sent'[i] = es[j]
        <4>1. PICK j \in DOMAIN es : sent'[i] = es[j]
          BY <3>2
        <4>2. QueueOf(kind[es[j]]) = q /\ es[j] \in 1 .. Taken
          BY <1>5
        <4>3. IsUrgent(kind[es[j]]) =>
                \A p \in Queues : \A k \in DOMAIN pending[p] :
                  es[j] <= pending[p][k]
          BY <1>1 DEF InOrder, UrgentIsOldest
        <4> QED BY <2>1, <4>1, <4>2, <4>3
      <3> QED BY <1>7, <3>1, <3>2
    <2> QED BY <1>1, <1>3, <2>2 DEF SentIsOlder
  <1> QED BY <1>7, <1>8, <1>9, <1>10 DEF InOrder

(* An urgent event is reported: the youngest of all, when nothing is        *)
(* pending.                                                                 *)
LEMMA OrderUrged ==
  ASSUME Types, Waiting, Control, InOrder, Urges
  PROVE  InOrder'
  <1>1. /\ <<urgent>> \in Seq(Nat) /\ DOMAIN <<urgent>> = {1}
        /\ <<urgent>>[1] = urgent /\ sent' = sent \o <<urgent>>
        /\ UNCHANGED <<kind, pending>> /\ Taken' = Taken
    BY Single DEF Urges, Types, Taken
  <1>2. /\ urgent = Taken /\ urgent \in 1 .. Taken
        /\ \A q \in Queues : pending[q] = <<>>
    BY DEF Urges, Control, Waiting
  <1>3. \A i \in DOMAIN sent : sent[i] \in 1 .. Taken /\ sent[i] <= urgent
    BY <1>2 DEF InOrder, SentIsOlder
  <1> DEFINE es == <<urgent>>
  <1>4. /\ \A i, j \in DOMAIN es : i < j => es[i] <= es[j]
        /\ \A i \in DOMAIN sent : \A j \in DOMAIN es : sent[i] <= es[j]
    BY <1>1, <1>3
  <1>5. es \in Seq(Nat) /\ sent' = sent \o es /\ \A j \in DOMAIN es : es[j] = urgent
    BY <1>1
  <1> HIDE DEF es
  <1>6. /\ ReportsInOrder'
        /\ \A i \in DOMAIN sent' :
             \/ i \in DOMAIN sent /\ sent'[i] = sent[i]
             \/ \E j \in DOMAIN es : sent'[i] = es[j]
    BY <1>1, <1>4, <1>5, ReportsAdded DEF InOrder
  <1>7. SentIsOlder'
    BY <1>1, <1>2, <1>3, <1>5, <1>6 DEF SentIsOlder
  <1>8. PendingFits' /\ UrgentIsOldest'
    BY <1>1, <1>2 DEF PendingFits, UrgentIsOldest
  <1> QED BY <1>6, <1>7, <1>8 DEF InOrder

LEMMA OrderNext ==
  ASSUME Base, InOrder, Moves
  PROVE  InOrder'
  <1> USE DEF Base
  <1>0. Taken \in Nat
    BY DEF Waiting
  <1>1. CASE SendEvent
    <2>1. \A e \in 1 .. Taken : kind'[e] = kind[e]
      <3>1. 1 .. Taken \subseteq DOMAIN kind
        BY LensAreNat DEF Taken
      <3> QED BY <1>1, <3>1, Raises
    <2> QED BY <1>0, <1>1, <2>1, Raises, OrderSame
  <1>2. CASE Still
    <2>1. UNCHANGED <<kind, sendQueue, pending, sent>>
      BY <1>2, StillSteps DEF orderVars
    <2> QED BY <1>0, <2>1, OrderSame DEF Taken
  <1>3. CASE Scans
    BY <1>3, OrderScanned
  <1>4. CASE Turns
    BY <1>0, <1>4, OrderSame DEF Turns, Taken
  <1>5. CASE TakesUrgent
    <2>1. Taken' = Taken + 1
      BY <1>5, Takes DEF TakesUrgent
    <2> QED BY <1>0, <1>5, <2>1, OrderSame DEF TakesUrgent
  <1>6. CASE TakesOther
    <2>1. Taken' = Taken + 1 /\ Head(sendQueue) = Taken + 1
      BY <1>6, Takes DEF TakesOther
    <2> DEFINE e == Head(sendQueue)
    <2>2. e \in Nat /\ e = Taken' /\ e # 0 /\ ~IsUrgent(kind[e]) /\ Push(e)
      BY <1>0, <1>6, <2>1 DEF TakesOther
    <2> HIDE DEF e
    <2> QED BY <1>0, <1>6, <2>1, <2>2, OrderPushed DEF TakesOther
  <1>7. CASE Urges
    BY <1>7, OrderUrged
  <1>8. CASE Urged
    <2>1. /\ urgent \in Nat /\ urgent # 0 /\ urgent = Taken
          /\ \A q \in Queues : pending[q] = <<>>
      BY <1>8 DEF Urged, Control, Types
    <2> QED BY <1>0, <1>8, <2>1, OrderPushed DEF Urged, Taken
  <1> QED BY <1>1, <1>2, <1>3, <1>4, <1>5, <1>6, <1>7, <1>8 DEF Moves

-----------------------------------------------------------------------------
(* How often an event is reported                                           *)

Held(e) ==
  Count(e, sent) + Count(e, pending["line"]) + Count(e, pending["gas"])
                 + Count(e, pending["spy"])

LEMMA HeldType ==
  ASSUME Types, NEW e
  PROVE  /\ Count(e, sent) \in Nat
         /\ \A q \in Queues : Count(e, pending[q]) \in Nat
         /\ Held(e) \in Nat
  <1>1. Count(e, sent) \in Nat
    BY CountType DEF Types
  <1>2. \A q \in Queues : Count(e, pending[q]) \in Nat
    BY CountType, LensAreNat
  <1> QED BY <1>1, <1>2, TheQueues DEF Held

(* An event that is not taken yet is in no queue of a class and in no report.*)
LEMMA HeldZero ==
  ASSUME Types, Waiting, InOrder, NEW e \in Nat, e > Taken
  PROVE  Held(e) = 0
  <1>1. \A i \in DOMAIN sent : sent[i] # e
    BY DEF Waiting, InOrder, SentIsOlder
  <1>2. \A q \in Queues : \A i \in DOMAIN pending[q] : pending[q][i] # e
    BY DEF Waiting, InOrder, PendingFits
  <1>3. Count(e, sent) = 0
    BY <1>1, CountZero DEF Types
  <1>4. \A q \in Queues : Count(e, pending[q]) = 0
    BY <1>2, CountZero, LensAreNat
  <1> QED BY <1>3, <1>4, TheQueues DEF Held

LEMMA HeldScanned ==
  ASSUME Types, Scans, NEW e
  PROVE  Held(e)' = Held(e)
  <1> DEFINE q == QueueOrder[qi]
  <1>1. /\ q \in Queues /\ sent' = sent \o pending[q]
        /\ pending' = [pending EXCEPT ![q] = <<>>]
    BY TheQueues DEF Scans
  <1> HIDE DEF q
  <1>2. Count(e, sent') = Count(e, sent) + Count(e, pending[q])
    BY <1>1, CountConcat, LensAreNat DEF Types
  <1>3. Count(e, <<>>) = 0
    <2>1. <<>> \in Seq(Nat) /\ \A i \in DOMAIN <<>> : FALSE
      OBVIOUS
    <2> QED BY <2>1, CountZero
  <1>4. \A p \in Queues : Count(e, pending'[p]) =
                            IF p = q THEN 0 ELSE Count(e, pending[p])
    BY <1>1, <1>3 DEF Types
  <1> QED BY <1>1, <1>2, <1>4, HeldType, TheQueues DEF Held

LEMMA HeldPushed ==
  ASSUME Types, NEW x \in Nat, Push(x), sent' = sent, NEW e
  PROVE  Held(e)' = Held(e) + IF e = x THEN Copies(kind[x]) ELSE 0
  <1> DEFINE n == Copies(kind[x])
             p == QueueOf(kind[x])
             copies == [i \in 1 .. n |-> x]
  <1>1. n \in Nat /\ p \in Queues
    BY TheQueues DEF Copies
  <1>2. \A q \in Queues : pending'[q] =
          IF q = p /\ n # 0 THEN pending[q] \o copies ELSE pending[q]
    BY Pushes
  <1> HIDE DEF n, p, copies
  <1>3. copies \in Seq(Nat) /\ Count(e, copies) = IF e = x THEN n ELSE 0
    <2>1. copies = [i \in 1 .. n |-> x]
      BY DEF copies
    <2>2. copies \in Seq(Nat) /\ Count(e, copies) = IF x = e THEN n ELSE 0
      BY <1>1, <2>1, CountCopies
    <2> QED BY <2>2
  <1>4. Count(e, pending[p] \o copies) =
          Count(e, pending[p]) + IF e = x THEN n ELSE 0
    BY <1>1, <1>3, CountConcat, LensAreNat
  <1>5. /\ \A q \in Queues : q # p => Count(e, pending'[q]) = Count(e, pending[q])
        /\ Count(e, pending'[p]) = Count(e, pending[p]) + IF e = x THEN n ELSE 0
    <2>1. Count(e, pending[p]) \in Nat
      BY <1>1, HeldType
    <2> QED BY <1>1, <1>2, <1>4, <2>1
  <1>6. Count(e, sent') = Count(e, sent)
    OBVIOUS
  <1>7. (IF e = x THEN n ELSE 0) \in Nat
    BY <1>1
  <1>8. p = "line" \/ p = "gas" \/ p = "spy"
    BY <1>1, TheQueues
  <1>9. /\ Count(e, sent) \in Nat /\ Count(e, pending["line"]) \in Nat
        /\ Count(e, pending["gas"]) \in Nat /\ Count(e, pending["spy"]) \in Nat
    BY HeldType, TheQueues
  <1>10. Held(e)' = Held(e) + IF e = x THEN n ELSE 0
    BY <1>5, <1>6, <1>7, <1>8, <1>9, TheQueues DEF Held
  <1> QED BY <1>10 DEF n

LEMMA HeldUrged ==
  ASSUME Types, Urges, NEW e
  PROVE  Held(e)' = Held(e) + IF e = urgent THEN 1 ELSE 0
  <1>1. Count(e, <<urgent>>) = IF e = urgent THEN 1 ELSE 0
    BY Single DEF Types
  <1>2. Count(e, sent') = Count(e, sent) + IF e = urgent THEN 1 ELSE 0
    <2> DEFINE es == <<urgent>>
    <2>1. /\ es \in Seq(Nat) /\ sent' = sent \o es /\ sent \in Seq(Nat)
          /\ Count(e, es) = IF e = urgent THEN 1 ELSE 0
      BY <1>1, Single DEF Urges, Types
    <2> HIDE DEF es
    <2>2. Count(e, sent \o es) = Count(e, sent) + Count(e, es)
      BY <2>1, CountConcat
    <2> QED BY <2>1, <2>2
  <1>3. pending' = pending
    BY DEF Urges
  <1> QED BY <1>2, <1>3, HeldType, TheQueues DEF Held

LEMMA KeptInitially == Init => Kept
  BY DEF Init, Kept

LEMMA KeptNext ==
  ASSUME Base, InOrder, Kept, Moves
  PROVE  Kept'
  <1> USE DEF Base
  <1>0. /\ Taken \in Nat
        /\ \A e \in DOMAIN kind : e \in Nat \ {0} /\ Held(e) = Owed(e)
        /\ \A e \in DOMAIN kind : Copies(kind[e]) \in Nat
    BY LensAreNat DEF Waiting, Kept, Held, Copies
  <1> SUFFICES ASSUME NEW e \in DOMAIN kind'
               PROVE  Held(e)' = Owed(e)'
    BY DEF Kept, Held
  <1>1. CASE SendEvent
    <2>1. Held(e)' = Held(e)
      BY <1>1, Raises DEF Held
    <2>2. CASE e \in DOMAIN kind
      BY <1>0, <1>1, <2>1, <2>2, Raises DEF Owed
    <2>3. CASE e \notin DOMAIN kind
      <3>1. e \in Nat /\ e > Taken
        <4>1. /\ DOMAIN kind' = 1 .. Len(kind) + 1 /\ DOMAIN kind = 1 .. Len(kind)
              /\ Len(kind) \in Nat
          BY <1>1, Raises, LensAreNat
        <4>2. Taken <= Len(kind)
          BY LensAreNat DEF Taken
        <4> QED BY <1>0, <2>3, <4>1, <4>2
      <3>2. Held(e) = 0
        BY <3>1, HeldZero
      <3> QED BY <1>1, <2>1, <3>1, <3>2, Raises DEF Owed
    <2> QED BY <2>2, <2>3
  <1>2. CASE Still
    <2> USE DEF orderVars
    <2>1. Held(e)' = Held(e) /\ kind' = kind /\ Taken' = Taken
      BY <1>2, StillSteps DEF Held, Taken
    <2>2. Owed(e)' = Owed(e)
      BY <1>2, <2>1, StillSteps DEF Owed
    <2> QED BY <1>0, <2>1, <2>2
  <1>3. CASE Scans
    <2>1. Held(e)' = Held(e)
      BY <1>3, HeldScanned
    <2>2. kind' = kind /\ Taken' = Taken /\ urgent' = urgent /\ pc' = pc
          /\ pc # "urgent"
      BY <1>3 DEF Scans, Taken
    <2>3. Owed(e)' = Owed(e)
      BY <2>2 DEF Owed
    <2> QED BY <1>0, <2>1, <2>2, <2>3
  <1>4. CASE Turns
    <2>1. Held(e)' = Held(e) /\ kind' = kind /\ Taken' = Taken /\ urgent' = urgent
      BY <1>4 DEF Turns, Held, Taken
    <2>2. ~(pc = "urgent" /\ step # "none") /\ ~(pc' = "urgent" /\ step' # "none")
      BY <1>4 DEF Turns
    <2>3. Owed(e)' = Owed(e)
      BY <2>1, <2>2 DEF Owed
    <2> QED BY <1>0, <2>1, <2>3
  <1>5. CASE TakesUrgent
    <2>1. /\ kind' = kind /\ Taken' = Taken + 1 /\ urgent' = Taken'
          /\ urgent = 0 /\ pc' = "flush" /\ pc = "take"
      BY <1>5, Takes DEF TakesUrgent, Control
    <2>2. Held(e)' = Held(e)
      BY <1>5 DEF TakesUrgent, Held
    <2> QED BY <1>0, <2>1, <2>2 DEF Owed
  <1>6. CASE TakesOther
    <2> DEFINE x == Head(sendQueue)
    <2>1. /\ kind' = kind /\ Taken' = Taken + 1 /\ x = Taken + 1
          /\ urgent = 0 /\ urgent' = 0 /\ ~IsUrgent(kind[x]) /\ Push(x)
          /\ sent' = sent /\ pc = "take"
      BY <1>6, Takes DEF TakesOther, Control
    <2> HIDE DEF x
    <2>2. x \in Nat
      BY <1>0, <2>1
    <2>3. Held(e)' = Held(e) + IF e = x THEN Copies(kind[x]) ELSE 0
      BY <2>1, <2>2, HeldPushed
    <2> QED BY <1>0, <2>1, <2>3 DEF Owed
  <1>7. CASE Urges
    <2>1. Held(e)' = Held(e) + IF e = urgent THEN 1 ELSE 0
      BY <1>7, HeldUrged
    <2>2. /\ kind' = kind /\ Taken' = Taken /\ urgent' = urgent /\ urgent = Taken
          /\ pc' = "urgent" /\ pc = "urgent" /\ step = "none" /\ step' # "none"
      BY <1>7 DEF Urges, Control, Taken
    <2> QED BY <1>0, <2>1, <2>2 DEF Owed
  <1>8. CASE Urged
    <2>1. /\ kind' = kind /\ Taken' = Taken /\ urgent' = 0 /\ urgent = Taken
          /\ urgent # 0 /\ IsUrgent(kind[urgent]) /\ Push(urgent)
          /\ sent' = sent /\ pc = "urgent" /\ step # "none"
      BY <1>8 DEF Urged, Control, Taken
    <2>2. Held(e)' = Held(e) + IF e = urgent THEN Copies(kind[urgent]) ELSE 0
      BY <2>1, HeldPushed DEF Types
    <2> QED BY <1>0, <2>1, <2>2 DEF Owed
  <1> QED BY <1>1, <1>2, <1>3, <1>4, <1>5, <1>6, <1>7, <1>8 DEF Moves

-----------------------------------------------------------------------------
(* The length of the queues                                                 *)

LEMMA SizesInitially == Init => Sizes
  <1>1. Init => \A q \in Queues : Len(pending[q]) = 0
    BY DEF Init
  <1> QED BY <1>1, TheQueues, BoundsAssumption DEF Sizes

LEMMA SizesNext ==
  ASSUME Base, Sizes, Moves
  PROVE  Sizes'
  <1> USE DEF Base
  <1>0. /\ MaxPending \in Nat \ {0}
        /\ \A i \in 1 .. 3 : /\ QueueOrder[i] \in Queues
                             /\ Len(pending[QueueOrder[i]]) \in Nat
                             /\ Len(pending[QueueOrder[i]]) <= MaxPending + 1
                             /\ Looked(i) => Len(pending[QueueOrder[i]]) < MaxPending
    BY BoundsAssumption, TheQueues, LensAreNat DEF Sizes
  <1> SUFFICES ASSUME NEW i \in 1 .. 3
               PROVE  /\ Len(pending'[QueueOrder[i]]) <= MaxPending + 1
                      /\ Looked(i)' => Len(pending'[QueueOrder[i]]) < MaxPending
    BY DEF Sizes
  <1>1. CASE SendEvent
    BY <1>0, <1>1, Raises DEF Looked
  <1>2. CASE Still
    BY <1>0, <1>2, StillSteps DEF Looked, orderVars
  <1>3. CASE Scans
    <2>1. /\ QueueOrder[qi] \in Queues /\ qi \in 1 .. 3 /\ Len(<<>>) = 0
          /\ pending' = [pending EXCEPT ![QueueOrder[qi]] = <<>>]
      BY <1>0, <1>3 DEF Scans
    <2>2. CASE QueueOrder[i] = QueueOrder[qi]
      <3>1. Len(pending'[QueueOrder[i]]) = 0
        BY <2>1, <2>2 DEF Types
      <3> QED BY <1>0, <3>1
    <2>3. CASE QueueOrder[i] # QueueOrder[qi]
      <3>1. pending'[QueueOrder[i]] = pending[QueueOrder[i]] /\ i # qi
        BY <1>0, <2>1, <2>3 DEF Types
      <3>2. Looked(i)' => Looked(i)
        BY <1>3, <3>1 DEF Scans, Looked
      <3> QED BY <1>0, <3>1, <3>2
    <2> QED BY <2>2, <2>3
  <1>4. CASE Turns
    <2>1. pending' = pending
      BY <1>4 DEF Turns
    <2>2. Looked(i)' => Looked(i) \/ Len(pending[QueueOrder[i]]) < MaxPending
      BY <1>4 DEF Turns, Looked, Types
    <2> QED BY <1>0, <2>1, <2>2
  <1>5. CASE TakesUrgent
    BY <1>0, <1>5 DEF TakesUrgent, Looked
  <1>6. CASE TakesOther \/ Urged
    <2>1. ~Looked(i)' /\ Len(pending[QueueOrder[i]]) < MaxPending
      <3>1. Urged => Len(pending[QueueOrder[i]]) = 0
        BY <1>0 DEF Urged, Control
      <3>2. TakesOther => Looked(i)
        BY DEF TakesOther, Looked
      <3> QED BY <1>0, <1>6, <3>1, <3>2 DEF TakesOther, Urged, Looked
    <2>2. PICK e \in Nat : Push(e)
      BY <1>6, Takes DEF TakesOther, Urged, Types, Waiting
    <2>3. Copies(kind[e]) \in 0 .. 2
      BY DEF Copies
    <2>4. Len(pending'[QueueOrder[i]]) = Len(pending[QueueOrder[i]]) +
            IF QueueOrder[i] = QueueOf(kind[e]) THEN Copies(kind[e]) ELSE 0
      BY <1>0, <2>2, Pushes
    <2> QED BY <1>0, <2>1, <2>3, <2>4
  <1>7. CASE Urges
    BY <1>0, <1>7 DEF Urges, Looked
  <1> QED BY <1>1, <1>2, <1>3, <1>4, <1>5, <1>6, <1>7 DEF Moves

-----------------------------------------------------------------------------
(* The clock, and the wait for an answer                                    *)

LEMMA ClockArithmetic ==
  ASSUME NEW now \in Ticks
  PROVE  /\ \A t \in Ticks : (now - t) % TickModulus =
              IF now >= t THEN now - t ELSE now - t + TickModulus
         /\ \A d \in Int : (now + d) % TickModulus \in Ticks
         /\ (now + 1) % TickModulus = IF now + 1 = TickModulus THEN 0 ELSE now + 1
         /\ 0 \in Ticks
  <1>1. TickModulus \in Nat \ {0} /\ now \in 0 .. TickModulus - 1
    BY BoundsAssumption DEF Ticks
  <1>2. \A m \in Nat \ {0} : \A a \in 0 .. m - 1 : a % m = a
    OBVIOUS
  <1>3. \A m \in Nat \ {0} : \A a \in 1 .. m - 1 : (a - m) % m = a
    OBVIOUS
  <1>4. \A m \in Nat \ {0} : \A a \in Int : a % m \in 0 .. m - 1
    OBVIOUS
  <1>5. \A m \in Nat \ {0} : m % m = 0
    OBVIOUS
  <1>6. ASSUME NEW t \in Ticks
        PROVE  (now - t) % TickModulus =
                 IF now >= t THEN now - t ELSE now - t + TickModulus
    <2>1. t \in 0 .. TickModulus - 1
      BY DEF Ticks
    <2>2. CASE now >= t
      <3>1. now - t \in 0 .. TickModulus - 1
        BY <1>1, <2>1, <2>2
      <3> QED BY <1>1, <1>2, <2>2, <3>1
    <2>3. CASE now < t
      <3>1. now - t + TickModulus \in 1 .. TickModulus - 1
        BY <1>1, <2>1, <2>3
      <3>2. ((now - t + TickModulus) - TickModulus) % TickModulus =
              now - t + TickModulus
        BY <1>1, <1>3, <3>1
      <3>3. (now - t + TickModulus) - TickModulus = now - t
        BY <1>1, <2>1
      <3>4. ~(now >= t)
        BY <1>1, <2>1, <2>3
      <3> QED BY <3>2, <3>3, <3>4
    <2> QED BY <1>1, <2>1, <2>2, <2>3
  <1>7. \A d \in Int : (now + d) % TickModulus \in Ticks
    BY <1>1, <1>4 DEF Ticks
  <1>8. (now + 1) % TickModulus = IF now + 1 = TickModulus THEN 0 ELSE now + 1
    BY <1>1, <1>2, <1>5
  <1> QED BY <1>1, <1>6, <1>7, <1>8 DEF Ticks

(* The same of GetTickCount.                                                *)
LEMMA TickArithmetic ==
  ASSUME tick \in Ticks
  PROVE  /\ \A t \in Ticks : Elapsed(t) =
              IF tick >= t THEN tick - t ELSE tick - t + TickModulus
         /\ \A d \in Int : Plus(tick, d) \in Ticks
         /\ Plus(tick, 1) = IF tick + 1 = TickModulus THEN 0 ELSE tick + 1
         /\ 0 \in Ticks
  BY ClockArithmetic DEF Elapsed, Plus

LEMMA ClockInitially == Init => Clock
  <1> SUFFICES ASSUME Init PROVE Clock
    OBVIOUS
  <1>1. tick \in Ticks /\ m_dwToken = 0 /\ dwLastTime = 0 /\ step = "none"
    BY DEF Init
  <1> QED BY <1>1, TickArithmetic DEF Clock, AnswerIsSeen

(* Outside of the wait only the time may pass.                              *)
LEMMA ClockElsewhere ==
  ASSUME Clock, step' \notin {"reset", "await"}, tick' \in Ticks,
         m_dwToken' \in Ticks, dwLastTime' \in Ticks
  PROVE  Clock'
  BY DEF Clock, AnswerIsSeen

LEMMA ClockNext ==
  ASSUME Types, Clock, [Next]_vars
  PROVE  Clock'
  <1> USE DEF raised, queueVars, control, batchVars, reports, tokenVars
  <1>0. tick \in Ticks /\ m_dwToken \in Ticks /\ dwLastTime \in Ticks
    BY DEF Clock
  <1>1. CASE UNCHANGED <<tick, step, m_dwToken, dwLastTime, request>>
    BY <1>1 DEF Clock, AnswerIsSeen, Elapsed
  <1>2. CASE Answer
    <2>1. Elapsed(dwLastTime)' = Elapsed(dwLastTime)
      BY <1>2 DEF Answer, Elapsed
    <2>2. AnswerIsSeen'
      <3>1. CASE request' = "failed" \/ step' # "await"
        BY <3>1 DEF AnswerIsSeen
      <3>2. CASE m_dwToken' = tick
        BY <1>0, <1>2, <3>2 DEF Answer, AnswerIsSeen, Ticks
      <3> QED BY <1>2, <3>1, <3>2 DEF Answer
    <2> QED BY <1>2, <2>1, <2>2 DEF Answer, Clock
  <1>3. CASE AskForToken
    <2>1. CASE step' = "reset"
      BY <1>0, <1>3, <2>1 DEF AskForToken, Clock, AnswerIsSeen
    <2>2. CASE step' = "alarm"
      BY <1>0, <1>3, <2>2, ClockElsewhere DEF AskForToken
    <2> QED BY <1>3, <2>1, <2>2 DEF AskForToken
  <1>4. CASE ClearToken
    <2>1. Elapsed(dwLastTime)' = Elapsed(dwLastTime) /\ dwLastTime = tick
      BY <1>4 DEF ClearToken, Elapsed, Clock
    <2>2. Elapsed(dwLastTime) = 0
      BY <1>0, <2>1, TickArithmetic DEF Ticks
    <2>3. 0 <= Delay + 1
      BY BoundsAssumption
    <2> QED BY <1>0, <1>4, <2>1, <2>2, <2>3, TickArithmetic
        DEF ClearToken, Clock, AnswerIsSeen
  <1>5. CASE AwaitToken
    <2>1. CASE WaitOver
      BY <1>0, <1>5, <2>1, ClockElsewhere DEF AwaitToken
    <2>2. CASE ~WaitOver
      <3>1. /\ step = "await" /\ step' = "await" /\ tick' = Plus(tick, 1)
            /\ UNCHANGED <<m_dwToken, dwLastTime, request>>
        BY <1>5, <2>2 DEF AwaitToken
      <3>2. /\ TickModulus \in Nat /\ Delay \in Nat /\ Delay + 1 < TickModulus
            /\ tick \in 0 .. TickModulus - 1 /\ dwLastTime \in 0 .. TickModulus - 1
            /\ m_dwToken \in Nat
        BY <1>0, BoundsAssumption DEF Ticks
      <3>3. Elapsed(dwLastTime) =
              IF tick >= dwLastTime THEN tick - dwLastTime
              ELSE tick - dwLastTime + TickModulus
        BY <1>0, TickArithmetic
      <3>4. tick' = IF tick + 1 = TickModulus THEN 0 ELSE tick + 1
        BY <1>0, <3>1, TickArithmetic
      <3>5. tick' \in Ticks
        BY <3>2, <3>4 DEF Ticks
      <3>6. (tick' - dwLastTime) % TickModulus =
              IF tick' >= dwLastTime THEN tick' - dwLastTime
              ELSE tick' - dwLastTime + TickModulus
        BY <1>0, <3>5, ClockArithmetic
      <3>7. Elapsed(dwLastTime)' = (tick' - dwLastTime) % TickModulus
        BY <3>1 DEF Elapsed
      <3>8. Elapsed(dwLastTime) <= Delay /\ ~(m_dwToken > 0)
        BY <2>2, <3>2, <3>3 DEF WaitOver
      <3>9. Elapsed(dwLastTime)' <= Delay + 1
        BY <3>2, <3>3, <3>4, <3>6, <3>7, <3>8
      <3>10. request = "answered" => dwLastTime = 0 \/ tick < dwLastTime
        BY <3>1, <3>8 DEF Clock, AnswerIsSeen
      <3>11. request = "answered" => dwLastTime = 0 \/ tick' < dwLastTime
        BY <3>2, <3>3, <3>4, <3>8, <3>10
      <3> QED BY <1>0, <3>1, <3>5, <3>9, <3>11 DEF Clock, AnswerIsSeen
    <2> QED BY <2>1, <2>2
  <1>6. CASE SendAlarm
    <2>1. /\ step' = "finish" /\ dwLastTime' = 0 /\ m_dwToken' = m_dwToken
          /\ \E d \in 0 .. MaxStall : tick' = Plus(tick, d)
      BY <1>6 DEF SendAlarm
    <2> QED BY <1>0, <2>1, TickArithmetic, ClockElsewhere
  <1>7. CASE ScanQueue \/ ReportUrgent
    <2>1. /\ UNCHANGED <<m_dwToken, dwLastTime>>
          /\ step' \in {"none", "token", "finish"}
          /\ tick' = tick \/ \E d \in 0 .. MaxStall : tick' = Plus(tick, d)
      <3>1. ASSUME NEW es, Tell(es)
            PROVE  \E d \in 0 .. MaxStall : tick' = Plus(tick, d)
        BY <3>1 DEF Tell
      <3>2. ASSUME NEW es, HandOver(es)
            PROVE  /\ step' \in {"token", "finish"}
                   /\ \E d \in 0 .. MaxStall : tick' = Plus(tick, d)
        BY <3>1, <3>2 DEF HandOver
      <3> QED BY <1>7, <3>2 DEF ScanQueue, ReportUrgent
    <2> QED BY <1>0, <2>1, TickArithmetic, ClockElsewhere
  <1>8. CASE FinishQueue \/ ScanDone \/ TakeEvent \/ FinishUrgent
    BY <1>0, <1>8, ClockElsewhere
       DEF FinishQueue, ScanDone, TakeEvent, FinishUrgent, Goto
  <1>9. CASE NothingToTake
    BY <1>0, <1>9, TickArithmetic, ClockElsewhere DEF NothingToTake, Goto
  <1>10. \/ SendEvent \/ StopSendEventThread \/ TextTooLong \/ EndLoop
         \/ UNCHANGED vars
         => UNCHANGED <<tick, step, m_dwToken, dwLastTime, request>>
    BY DEF SendEvent, StopSendEventThread, TextTooLong, EndLoop, vars
  <1> QED BY <1>1, <1>2, <1>3, <1>4, <1>5, <1>6, <1>7, <1>8, <1>9, <1>10
      DEF Next, SendThread

-----------------------------------------------------------------------------
(* What holds of the sending thread                                         *)

IInv == Base /\ InOrder /\ Kept /\ Sizes /\ Clock

LEMMA Invariance == Spec => []IInv
  <1>1. Init => IInv
    BY BaseInitially, OrderInitially, KeptInitially, SizesInitially, ClockInitially
       DEF IInv
  <1>2. IInv /\ [Next]_vars => IInv'
    <2> SUFFICES ASSUME IInv, [Next]_vars PROVE IInv'
      OBVIOUS
    <2>1. Moves
      BY NextMoves DEF IInv, Base
    <2> QED BY <2>1, TypesNext, WaitingNext, ControlNext, OrderNext, KeptNext,
               SizesNext, ClockNext DEF IInv, Base
  <1> QED BY <1>1, <1>2, PTL DEF Spec

-----------------------------------------------------------------------------
(* The rest of the state: what is told of each report, and the alarms       *)

Places == {[occur |-> r.occur, no |-> r.no] : r \in Reports[m_nSIType]}

(* The events raised are such as the receiver raises, their kind and their  *)
(* place noted together.                                                    *)
Raised ==
  /\ Len(kind) <= MaxRaised
  /\ place \in Seq(Places) /\ Len(place) = Len(kind)
  /\ \A e \in DOMAIN kind : \E r \in Reports[m_nSIType] :
       kind[e] = r.kind /\ place[e] = [occur |-> r.occur, no |-> r.no]

Rest ==
  /\ stamp \in [Queues -> Ticks] /\ atZero \subseteq Queues
  /\ g_bThread \in BOOLEAN
  /\ first \in Events \cup {0} /\ size \in Nat /\ urgent \in Events \cup {0}
  /\ request \in {"none", "open", "early", "answered", "failed"}

(* KOCOM and COMMAX are told, or not, of each report in its turn.           *)
Tellings == [event : Events, outcome : {"none", "missed", "reached"}]

ToldFits ==
  /\ told \in Seq(Tellings) /\ Len(told) = Len(sent)
  /\ \A i \in DOMAIN told :
       /\ told[i].event = sent[i]
       /\ told[i].outcome # "none" <=> Tells(sent[i])

(* How many events were reported when the alarm before the n-th was pushed. *)
From(n) == IF n = 1 THEN 0 ELSE alarms[n - 1].upTo

InHand == step \in {"token", "reset", "await", "alarm"}

(* The share of an alarm follows that of the one before; what is reported   *)
(* after the last is the share of the one in hand.                          *)
SharesFollow ==
  /\ \A n \in DOMAIN alarms :
       /\ alarms[n].first = sent[From(n) + 1] /\ alarms[n].upTo <= Len(sent)
       /\ alarms[n].upTo = From(n) + alarms[n].more + 1
  /\ From(Len(alarms) + 1) + (IF InHand THEN size ELSE 0) = Len(sent)
  /\ InHand => first = sent[From(Len(alarms) + 1) + 1]

AlarmsFit ==
  /\ alarms \in Seq([first : Events, more : Nat, upTo : Nat])
  /\ pc = "take" => step = "none"
  /\ InHand => m_nSIType = "SI_TEST" /\ size > 0 /\ first # 0
  /\ m_nSIType = "SI_TEST" => SharesFollow

RInv == Raised /\ Rest /\ ToldFits /\ AlarmsFit

LEMMA NumbersTaken ==
  ASSUME IInv, Raised
  PROVE  /\ Taken \in Nat /\ Taken <= Len(kind) /\ Taken <= MaxRaised
         /\ 1 .. Taken \subseteq Events /\ 1 .. Taken \subseteq DOMAIN kind
         /\ DOMAIN kind = DOMAIN place
  <1>1. /\ Taken \in Nat /\ Len(sendQueue) \in Nat
        /\ Len(kind) \in Nat /\ DOMAIN kind = 1 .. Len(kind)
    BY LensAreNat DEF IInv, Base, Waiting
  <1>2. Taken <= Len(kind)
    BY <1>1 DEF Taken
  <1>3. DOMAIN place = 1 .. Len(place) /\ Len(place) = Len(kind)
    BY DEF Raised
  <1> HIDE DEF Taken
  <1> QED BY <1>1, <1>2, <1>3, BoundsAssumption DEF Raised, Events

(* What a sequence put behind another does to it.                           *)
LEMMA PutBehind ==
  ASSUME NEW S, NEW s \in Seq(S), NEW t \in Seq(S), NEW u, u = s \o t
  PROVE  /\ u \in Seq(S) /\ Len(u) = Len(s) + Len(t)
         /\ Len(s) \in Nat /\ Len(t) \in Nat
         /\ DOMAIN u = 1 .. Len(s) + Len(t)
         /\ \A i \in 1 .. Len(s) : u[i] = s[i]
         /\ \A i \in 1 .. Len(t) : u[Len(s) + i] = t[i]
         /\ \A i \in DOMAIN u : i > Len(s) =>
              i - Len(s) \in 1 .. Len(t) /\ u[i] = t[i - Len(s)]
  <1>1. /\ u \in Seq(S) /\ Len(u) = Len(s) + Len(t)
        /\ \A i \in 1 .. Len(s) + Len(t) :
             u[i] = IF i <= Len(s) THEN s[i] ELSE t[i - Len(s)]
    BY ConcatProperties
  <1>2. Len(s) \in Nat /\ Len(t) \in Nat /\ DOMAIN u = 1 .. Len(s) + Len(t)
    BY <1>1
  <1>3. ASSUME NEW i \in 1 .. Len(t) PROVE u[Len(s) + i] = t[i]
    <2>1. /\ Len(s) + i \in 1 .. Len(s) + Len(t) /\ ~(Len(s) + i <= Len(s))
          /\ (Len(s) + i) - Len(s) = i
      BY <1>2
    <2> QED BY <1>1, <2>1
  <1> QED BY <1>1, <1>2, <1>3

(* The events es, taken before, are handed over.                            *)
Hands(es) ==
  /\ es \in Seq(Nat) /\ es # <<>>
  /\ \A n \in 1 .. Len(es) : es[n] \in 1 .. Taken
  /\ step = "none" /\ HandOver(es)
  /\ UNCHANGED <<raised, alarms>> /\ pc' = pc /\ pc # "take"

LEMMA HandSteps ==
  ASSUME IInv, ScanQueue \/ ReportUrgent
  PROVE  \/ \E es : Hands(es)
         \/ UNCHANGED <<raised, alarms, reports, batchVars, step, pc>>
  <1> USE DEF IInv, Base
  <1>1. CASE ScanQueue
    <2> DEFINE q == QueueOrder[qi]
    <2>1. /\ pc \in {"check", "flush"} /\ step = "none" /\ qi \in 1 .. 3
          /\ q \in Queues
      BY <1>1, TheQueues DEF ScanQueue, Types
    <2>2. UNCHANGED <<raised, alarms, pc>>
      BY <1>1 DEF ScanQueue
    <2>3. CASE Wanted(q)
      <3>1. HandOver(pending[q])
        BY <1>1, <2>3 DEF ScanQueue
      <3>2. /\ pending[q] \in Seq(Nat) /\ Len(pending[q]) \in Nat
            /\ DOMAIN pending[q] = 1 .. Len(pending[q])
        BY <2>1, LensAreNat
      <3>3. pending[q] # <<>>
        <4>1. Len(pending[q]) >= MaxPending => Len(pending[q]) # 0
          BY <3>2, BoundsAssumption
        <4> QED BY <2>3, <4>1 DEF Wanted, Due
      <3>4. \A n \in 1 .. Len(pending[q]) : pending[q][n] \in 1 .. Taken
        BY <2>1, <3>2 DEF InOrder, PendingFits
      <3> QED BY <2>1, <2>2, <3>1, <3>2, <3>3, <3>4 DEF Hands
    <2>4. CASE ~Wanted(q)
      BY <1>1, <2>2, <2>4 DEF ScanQueue
    <2> QED BY <2>3, <2>4
  <1>2. CASE ReportUrgent
    <2>1. /\ pc = "urgent" /\ step = "none" /\ HandOver(<<urgent>>)
          /\ UNCHANGED <<raised, alarms, pc>>
      BY <1>2 DEF ReportUrgent
    <2>2. /\ <<urgent>> \in Seq(Nat) /\ Len(<<urgent>>) = 1
          /\ <<urgent>>[1] = urgent /\ <<urgent>> # <<>>
      BY Single DEF Types
    <2>3. urgent \in 1 .. Taken
      BY <2>1 DEF Control, Waiting, Types
    <2>4. \A n \in 1 .. Len(<<urgent>>) : <<urgent>>[n] \in 1 .. Taken
      BY <2>2, <2>3
    <2> QED BY <2>1, <2>2, <2>4 DEF Hands
  <1> QED BY <1>1, <1>2

LEMMA Handed ==
  ASSUME IInv, Raised, NEW es, Hands(es)
  PROVE  /\ sent \in Seq(Nat) /\ sent' \in Seq(Nat) /\ Len(sent) \in Nat
         /\ Len(es) \in Nat \ {0} /\ Len(sent') = Len(sent) + Len(es)
         /\ \A i \in 1 .. Len(sent) : sent'[i] = sent[i]
         /\ \A i \in 1 .. Len(es) : sent'[Len(sent) + i] = es[i]
         /\ \A n \in 1 .. Len(es) : es[n] \in Events /\ es[n] \in DOMAIN kind
         /\ first' = es[1] /\ first' \in Events /\ size' = Len(es)
         /\ step' = IF m_nSIType = "SI_TEST" THEN "token" ELSE "finish"
         /\ Tell(es)
  <1>1. /\ es \in Seq(Nat) /\ es # <<>> /\ HandOver(es)
        /\ \A n \in 1 .. Len(es) : es[n] \in 1 .. Taken
    BY DEF Hands
  <1>2. sent \in Seq(Nat)
    BY DEF IInv, Base, Types
  <1>3. sent' = sent \o es /\ Tell(es)
        /\ first' = es[1] /\ size' = Len(es)
        /\ step' = IF m_nSIType = "SI_TEST" THEN "token" ELSE "finish"
    BY <1>1 DEF HandOver
  <1>4. Len(es) \in Nat \ {0}
    BY <1>1
  <1>5. \A n \in 1 .. Len(es) : es[n] \in Events /\ es[n] \in DOMAIN kind
    BY <1>1, NumbersTaken
  <1>6. /\ sent' \in Seq(Nat) /\ Len(sent') = Len(sent) + Len(es)
        /\ Len(sent) \in Nat
        /\ \A i \in 1 .. Len(sent) : sent'[i] = sent[i]
        /\ \A i \in 1 .. Len(es) : sent'[Len(sent) + i] = es[i]
    BY <1>1, <1>2, <1>3, PutBehind
  <1>7. first' \in Events
    BY <1>3, <1>4, <1>5
  <1> QED BY <1>2, <1>3, <1>4, <1>5, <1>6, <1>7

(* Who is told of an event depends on its kind and place alone.             *)
LEMMA TellsSame ==
  ASSUME NEW e, UNCHANGED m_nSIType, kind'[e] = kind[e], place'[e] = place[e]
  PROVE  Tells(e)' <=> Tells(e)
  <1>1. Event(e)' = Event(e)
    BY DEF Event
  <1> QED BY <1>1 DEF Tells

LEMMA Told ==
  ASSUME NEW es \in Seq(Nat), \A n \in 1 .. Len(es) : es[n] \in Events,
         Tell(es), told \in Seq(Tellings)
  PROVE  /\ told' \in Seq(Tellings) /\ Len(told') = Len(told) + Len(es)
         /\ Len(told) \in Nat /\ DOMAIN told' = 1 .. Len(told) + Len(es)
         /\ \A i \in 1 .. Len(told) : told'[i] = told[i]
         /\ \A i \in DOMAIN told' : i > Len(told) =>
              /\ i - Len(told) \in 1 .. Len(es)
              /\ told'[i].event = es[i - Len(told)]
              /\ told'[i].outcome # "none" <=> Tells(es[i - Len(told)])
  <1> DEFINE due == {n \in 1 .. Len(es) : Tells(es[n])}
  <1>1. PICK reached \in SUBSET due :
          told' = told \o [n \in 1 .. Len(es) |->
                   [event |-> es[n],
                    outcome |-> IF n \notin due THEN "none"
                                ELSE IF n \in reached THEN "reached" ELSE "missed"]]
    BY DEF Tell
  <1> DEFINE new == [n \in 1 .. Len(es) |->
                   [event |-> es[n],
                    outcome |-> IF n \notin due THEN "none"
                                ELSE IF n \in reached THEN "reached" ELSE "missed"]]
  <1>2. Len(es) \in Nat
    OBVIOUS
  <1>3. \A n \in 1 .. Len(es) : new[n] \in Tellings
    BY DEF Tellings
  <1>4. new \in Seq(Tellings) /\ Len(new) = Len(es)
    <2>1. new \in [1 .. Len(es) -> Tellings]
      BY <1>3
    <2> HIDE DEF new
    <2> QED BY <1>2, <2>1
  <1>5. \A n \in 1 .. Len(es) :
          /\ new[n].event = es[n]
          /\ new[n].outcome # "none" <=> Tells(es[n])
    OBVIOUS
  <1>6. told' = told \o new
    BY <1>1
  <1> HIDE DEF new, due
  <1>7. /\ told' \in Seq(Tellings) /\ Len(told') = Len(told) + Len(es)
        /\ Len(told) \in Nat /\ DOMAIN told' = 1 .. Len(told) + Len(es)
        /\ \A i \in 1 .. Len(told) : told'[i] = told[i]
        /\ \A i \in DOMAIN told' : i > Len(told) =>
             i - Len(told) \in 1 .. Len(es) /\ told'[i] = new[i - Len(told)]
    <2>1. /\ told' \in Seq(Tellings) /\ Len(told') = Len(told) + Len(new)
          /\ Len(told) \in Nat /\ DOMAIN told' = 1 .. Len(told) + Len(new)
          /\ \A i \in 1 .. Len(told) : told'[i] = told[i]
          /\ \A i \in DOMAIN told' : i > Len(told) =>
               i - Len(told) \in 1 .. Len(new) /\ told'[i] = new[i - Len(told)]
      <3>1. told \in Seq(Tellings) /\ new \in Seq(Tellings)
        BY <1>4
      <3> QED BY ONLY <1>6, <3>1, PutBehind
    <2> QED BY <1>4, <2>1
  <1> QED BY <1>5, <1>7

LEMMA ToldHanded ==
  ASSUME IInv, Raised, ToldFits, NEW es, Hands(es)
  PROVE  ToldFits'
  <1>1. /\ es \in Seq(Nat) /\ Tell(es) /\ Len(es) \in Nat
        /\ \A n \in 1 .. Len(es) : es[n] \in Events
        /\ Len(sent) \in Nat /\ Len(sent') = Len(sent) + Len(es)
        /\ \A i \in 1 .. Len(sent) : sent'[i] = sent[i]
        /\ \A i \in 1 .. Len(es) : sent'[Len(sent) + i] = es[i]
    BY Handed DEF Hands
  <1>2. told \in Seq(Tellings) /\ Len(told) = Len(sent) /\ DOMAIN told = 1 .. Len(told)
    BY DEF ToldFits
  <1>3. /\ told' \in Seq(Tellings) /\ Len(told') = Len(told) + Len(es)
        /\ DOMAIN told' = 1 .. Len(told) + Len(es)
        /\ \A i \in 1 .. Len(told) : told'[i] = told[i]
        /\ \A i \in DOMAIN told' : i > Len(told) =>
             /\ i - Len(told) \in 1 .. Len(es)
             /\ told'[i].event = es[i - Len(told)]
             /\ told'[i].outcome # "none" <=> Tells(es[i - Len(told)])
    BY <1>1, <1>2, Told
  <1>4. \A e : Tells(e)' <=> Tells(e)
    BY TellsSame DEF Hands, raised
  <1>5. ASSUME NEW i \in DOMAIN told'
        PROVE  /\ told'[i].event = sent'[i]
               /\ told'[i].outcome # "none" <=> Tells(sent[i])'
    <2>1. PICK e : e = sent'[i]
      OBVIOUS
    <2>2. told'[i].event = e /\ (told'[i].outcome # "none" <=> Tells(e))
      <3>1. CASE i <= Len(told)
        <4>1. i \in DOMAIN told /\ told'[i] = told[i] /\ e = sent[i]
          BY <1>1, <1>2, <1>3, <2>1, <3>1
        <4> QED BY <4>1 DEF ToldFits
      <3>2. CASE i > Len(told)
        <4>1. /\ i - Len(told) \in 1 .. Len(es)
              /\ told'[i].event = es[i - Len(told)]
              /\ told'[i].outcome # "none" <=> Tells(es[i - Len(told)])
          BY <1>3, <3>2
        <4>2. Len(sent) + (i - Len(told)) = i
          BY <1>1, <1>2, <1>3
        <4>3. e = es[i - Len(told)]
          BY <1>1, <2>1, <4>1, <4>2
        <4> QED BY <4>1, <4>3
      <3> QED BY <1>1, <1>2, <1>3, <3>1, <3>2
    <2>3. Tells(e)' <=> Tells(sent[i])'
      BY <2>1
    <2> QED BY <1>4, <2>1, <2>2, <2>3
  <1> QED BY <1>1, <1>2, <1>3, <1>5 DEF ToldFits

LEMMA FromType ==
  ASSUME AlarmsFit
  PROVE  /\ Len(alarms) \in Nat /\ DOMAIN alarms = 1 .. Len(alarms)
         /\ \A n \in DOMAIN alarms :
              alarms[n].upTo \in Nat /\ alarms[n].more \in Nat
         /\ \A n \in 1 .. Len(alarms) + 1 : From(n) \in Nat
  <1>1. alarms \in Seq([first : Events, more : Nat, upTo : Nat])
    BY DEF AlarmsFit
  <1>2. Len(alarms) \in Nat /\ DOMAIN alarms = 1 .. Len(alarms)
    BY <1>1
  <1>3. \A n \in DOMAIN alarms :
          alarms[n] \in [first : Events, more : Nat, upTo : Nat]
    BY <1>1, <1>2, ElementOfSeq
  <1>4. \A n \in DOMAIN alarms : alarms[n].upTo \in Nat /\ alarms[n].more \in Nat
    BY <1>3
  <1>5. ASSUME NEW n \in 1 .. Len(alarms) + 1 PROVE From(n) \in Nat
    <2>1. n # 1 => n - 1 \in DOMAIN alarms
      BY <1>2
    <2>2. n # 1 => alarms[n - 1].upTo \in Nat
      BY <1>4, <2>1
    <2> QED BY <2>2 DEF From
  <1> QED BY <1>2, <1>4, <1>5

LEMMA AlarmsHanded ==
  ASSUME IInv, Raised, AlarmsFit, NEW es, Hands(es)
  PROVE  AlarmsFit'
  <1>1. /\ step = "none" /\ UNCHANGED <<m_nSIType, alarms>> /\ pc' = pc /\ pc # "take"
        /\ ~InHand
    BY DEF Hands, raised, InHand
  <1>2. /\ Len(sent) \in Nat /\ Len(es) \in Nat \ {0}
        /\ Len(sent') = Len(sent) + Len(es)
        /\ \A i \in 1 .. Len(sent) : sent'[i] = sent[i]
        /\ \A i \in 1 .. Len(es) : sent'[Len(sent) + i] = es[i]
        /\ first' = es[1] /\ first' \in Events /\ size' = Len(es)
        /\ step' = IF m_nSIType = "SI_TEST" THEN "token" ELSE "finish"
    BY Handed
  <1>3. InHand' <=> m_nSIType = "SI_TEST"
    BY <1>2 DEF InHand
  <1>4. first' # 0
    BY <1>2 DEF Events
  <1>5. ASSUME m_nSIType = "SI_TEST" PROVE SharesFollow'
    <2>1. SharesFollow
      BY <1>5 DEF AlarmsFit
    <2>2. \A n : From(n)' = From(n)
      BY <1>1 DEF From
    <2>3. From(Len(alarms) + 1) = Len(sent)
      <3>1. From(Len(alarms) + 1) + 0 = Len(sent)
        BY <1>1, <2>1 DEF SharesFollow
      <3>2. From(Len(alarms) + 1) \in Nat
        BY FromType
      <3> QED BY <3>1, <3>2
    <2>4. ASSUME NEW n \in DOMAIN alarms
          PROVE  /\ alarms[n].first = sent'[From(n) + 1]
                 /\ alarms[n].upTo <= Len(sent')
                 /\ alarms[n].upTo = From(n) + alarms[n].more + 1
      <3>1. /\ alarms[n].first = sent[From(n) + 1] /\ alarms[n].upTo <= Len(sent)
            /\ alarms[n].upTo = From(n) + alarms[n].more + 1
        BY <2>1 DEF SharesFollow
      <3>2. alarms[n].more \in Nat /\ alarms[n].upTo \in Nat
        BY FromType
      <3>3. From(n) \in Nat
        BY FromType
      <3>4. From(n) + 1 \in 1 .. Len(sent)
        BY <1>2, <3>1, <3>2, <3>3
      <3> QED BY <1>2, <3>1, <3>2, <3>4
    <2>5. From(Len(alarms) + 1) + size' = Len(sent')
          /\ first' = sent'[From(Len(alarms) + 1) + 1]
      BY <1>2, <2>3
    <2>6. From(Len(alarms) + 1)' = From(Len(alarms) + 1)
      BY <1>1 DEF From
    <2> QED BY <1>1, <1>3, <1>5, <2>2, <2>4, <2>5, <2>6 DEF SharesFollow
  <1> QED BY <1>1, <1>2, <1>3, <1>4, <1>5 DEF AlarmsFit

LEMMA AlarmsPushed ==
  ASSUME IInv, Rest, AlarmsFit, SendAlarm
  PROVE  AlarmsFit'
  <1> DEFINE a == [first |-> first, more |-> size - 1, upTo |-> Len(sent)]
  <1>0. PICK m : m = Len(alarms)
    OBVIOUS
  <1>1. /\ step = "alarm" /\ step' = "finish" /\ alarms' = Append(alarms, a)
        /\ UNCHANGED <<m_nSIType, sent, pc>>
    BY DEF SendAlarm, Alarm, raised, reports
  <1>2. InHand /\ ~InHand' /\ m_nSIType = "SI_TEST"
    BY <1>1 DEF InHand, AlarmsFit
  <1>3. first \in Events /\ size \in Nat \ {0} /\ Len(sent) \in Nat
    BY <1>2, LensAreNat DEF AlarmsFit, Rest, IInv, Base
  <1>4. a \in [first : Events, more : Nat, upTo : Nat]
    BY <1>3
  <1>5. a.first = first /\ a.more = size - 1 /\ a.upTo = Len(sent)
    OBVIOUS
  <1> HIDE DEF a
  <1>6. /\ m \in Nat /\ DOMAIN alarms = 1 .. m
        /\ \A n \in 1 .. m + 1 : From(n) \in Nat
    BY <1>0, FromType
  <1>7. /\ alarms' \in Seq([first : Events, more : Nat, upTo : Nat])
        /\ Len(alarms') = m + 1
        /\ \A n \in 1 .. m : alarms'[n] = alarms[n]
        /\ alarms'[m + 1] = a
    BY <1>0, <1>1, <1>4, AppendProperties DEF AlarmsFit
  <1>8. \A n \in 1 .. m + 1 : From(n)' = From(n)
    <2> SUFFICES ASSUME NEW n \in 1 .. m + 1 PROVE From(n)' = From(n)
      OBVIOUS
    <2>1. n # 1 => n - 1 \in 1 .. m
      BY <1>6
    <2> QED BY <1>7, <2>1 DEF From
  <1>9. SharesFollow
    BY <1>2 DEF AlarmsFit
  <1>10. From(m + 1) + size = Len(sent) /\ first = sent[From(m + 1) + 1]
    BY <1>0, <1>2, <1>9 DEF SharesFollow
  <1>11. DOMAIN alarms' = 1 .. m + 1
    BY <1>6, <1>7
  <1>12. ASSUME NEW n \in DOMAIN alarms'
         PROVE  /\ alarms'[n].first = sent[From(n) + 1]
                /\ alarms'[n].upTo <= Len(sent)
                /\ alarms'[n].upTo = From(n) + alarms'[n].more + 1
    <2>1. CASE n \in 1 .. m
      BY <1>6, <1>7, <1>9, <2>1 DEF SharesFollow
    <2>2. CASE n = m + 1
      <3>1. alarms'[n] = a /\ From(n) = From(m + 1) /\ From(m + 1) \in Nat
        BY <1>6, <1>7, <2>2
      <3>2. From(m + 1) + (size - 1) + 1 = From(m + 1) + size
        BY <1>3, <3>1
      <3> QED BY <1>3, <1>5, <1>10, <3>1, <3>2
    <2> QED BY <1>6, <1>11, <2>1, <2>2
  <1>13. From(m + 2)' = Len(sent)
    <2>1. m + 2 # 1 /\ (m + 2) - 1 = m + 1
      BY <1>6
    <2> QED BY <1>5, <1>7, <2>1 DEF From
  <1>14. SharesFollow'
    <2>1. \A n \in DOMAIN alarms' :
            /\ alarms'[n].first = sent'[From(n)' + 1]
            /\ alarms'[n].upTo <= Len(sent')
            /\ alarms'[n].upTo = From(n)' + alarms'[n].more + 1
      BY <1>1, <1>8, <1>11, <1>12
    <2>2. From(Len(alarms) + 1)' = Len(sent')
      <3>1. Len(alarms') + 1 = m + 2
        BY <1>6, <1>7
      <3> QED BY <1>1, <1>13, <3>1
    <2>3. Len(sent') + 0 = Len(sent')
      BY <1>1, <1>3
    <2> QED BY <1>2, <2>1, <2>2, <2>3 DEF SharesFollow
  <1> QED BY <1>1, <1>2, <1>7, <1>14 DEF AlarmsFit

(* The steps that neither report nor push an alarm.                         *)
Quiet ==
  /\ UNCHANGED <<m_nSIType, sent, told, alarms>>
  /\ InHand' <=> InHand
  /\ InHand => UNCHANGED <<first, size>>
  /\ pc' = "take" => step' = "none"

LEMMA QuietSteps ==
  ASSUME IInv, AlarmsFit, [Next]_vars, ~SendAlarm, ~ScanQueue, ~ReportUrgent
  PROVE  Quiet
  <1> USE DEF InHand, raised, reports, batchVars, Quiet
  <1>1. pc = "take" => step = "none"
    BY DEF AlarmsFit
  <1>2. CASE SendEvent
    BY <1>1, <1>2 DEF SendEvent, control
  <1>3. CASE StopSendEventThread
    BY <1>1, <1>3 DEF StopSendEventThread, control
  <1>4. CASE Answer
    BY <1>1, <1>4 DEF Answer, control
  <1>5. CASE AskForToken
    BY <1>1, <1>5 DEF AskForToken
  <1>6. CASE ClearToken
    BY <1>1, <1>6 DEF ClearToken
  <1>7. CASE AwaitToken
    BY <1>1, <1>7 DEF AwaitToken
  <1>8. CASE TextTooLong
    BY <1>8 DEF TextTooLong
  <1>9. CASE FinishQueue
    BY <1>9 DEF FinishQueue, Return
  <1>10. CASE ScanDone
    BY <1>10 DEF ScanDone, Goto
  <1>11. CASE TakeEvent
    BY <1>1, <1>11 DEF TakeEvent, Goto
  <1>12. CASE FinishUrgent
    BY <1>12 DEF FinishUrgent, Return, Goto
  <1>13. CASE NothingToTake
    BY <1>1, <1>13 DEF NothingToTake, Goto
  <1>14. CASE EndLoop
    BY <1>14 DEF EndLoop
  <1>15. CASE UNCHANGED vars
    BY <1>1, <1>15 DEF vars, control
  <1> QED BY <1>2, <1>3, <1>4, <1>5, <1>6, <1>7, <1>8, <1>9, <1>10, <1>11,
             <1>12, <1>13, <1>14, <1>15 DEF Next, SendThread

LEMMA AlarmsQuiet ==
  ASSUME AlarmsFit, Quiet
  PROVE  AlarmsFit'
  <1>1. \A n : From(n)' = From(n)
    BY DEF Quiet, From
  <1>2. SharesFollow => SharesFollow'
    <2>1. UNCHANGED <<sent, alarms>> /\ (InHand' <=> InHand)
          /\ (InHand => UNCHANGED <<first, size>>)
      BY DEF Quiet
    <2>2. From(Len(alarms) + 1)' = From(Len(alarms) + 1)
      BY <2>1 DEF From
    <2> QED BY <1>1, <2>1, <2>2 DEF SharesFollow
  <1> QED BY <1>2 DEF AlarmsFit, Quiet

LEMMA RaisedNext ==
  ASSUME IInv, Raised, [Next]_vars
  PROVE  /\ Raised' /\ m_nSIType' = m_nSIType
         /\ \A e \in DOMAIN kind : kind'[e] = kind[e] /\ place'[e] = place[e]
  <1>1. CASE SendEvent
    <2>1. PICK r \in Reports[m_nSIType] :
            /\ kind' = Append(kind, r.kind)
            /\ place' = Append(place, [occur |-> r.occur, no |-> r.no])
      BY <1>1 DEF SendEvent
    <2>2. m_nSIType' = m_nSIType /\ Len(kind) < MaxRaised
      BY <1>1 DEF SendEvent
    <2>3. /\ kind \in Seq(AllKinds) /\ r.kind \in AllKinds
          /\ [occur |-> r.occur, no |-> r.no] \in Places
      BY SITypesAssumption DEF IInv, Base, Types, Places
    <2>4. /\ kind' \in Seq(AllKinds) /\ Len(kind') = Len(kind) + 1
          /\ \A e \in 1 .. Len(kind) : kind'[e] = kind[e]
          /\ kind'[Len(kind) + 1] = r.kind
      BY <2>1, <2>3, AppendProperties
    <2>5. /\ place' \in Seq(Places) /\ Len(place') = Len(place) + 1
          /\ \A e \in 1 .. Len(place) : place'[e] = place[e]
          /\ place'[Len(place) + 1] = [occur |-> r.occur, no |-> r.no]
      BY <2>1, <2>3, AppendProperties DEF Raised
    <2>6. /\ Len(kind) \in Nat /\ DOMAIN kind = 1 .. Len(kind)
          /\ DOMAIN kind' = 1 .. Len(kind) + 1 /\ Len(place) = Len(kind)
      BY <2>3, <2>4 DEF Raised
    <2>7. Places' = Places
      BY <2>2 DEF Places
    <2>8. ASSUME NEW e \in DOMAIN kind'
          PROVE  \E x \in Reports[m_nSIType] :
                   kind'[e] = x.kind /\ place'[e] = [occur |-> x.occur, no |-> x.no]
      <3>1. CASE e \in DOMAIN kind
        <4>1. kind'[e] = kind[e] /\ place'[e] = place[e]
          BY <2>4, <2>5, <2>6, <3>1
        <4> QED BY <3>1, <4>1 DEF Raised
      <3>2. CASE e = Len(kind) + 1
        BY <2>4, <2>5, <2>6, <3>2
      <3> QED BY <2>6, <3>1, <3>2
    <2>9. Len(kind') <= MaxRaised
      BY <2>2, <2>4, <2>6, BoundsAssumption
    <2> QED BY <2>2, <2>4, <2>5, <2>6, <2>7, <2>8, <2>9 DEF Raised
  <1>2. CASE UNCHANGED raised
    BY <1>2 DEF raised, Raised, Places
  <1>3. SendEvent \/ UNCHANGED raised
    BY DEF Next, SendThread, vars, StopSendEventThread, Answer, AskForToken,
           ClearToken, AwaitToken, SendAlarm, ScanQueue, TextTooLong, FinishQueue,
           ScanDone, TakeEvent, ReportUrgent, FinishUrgent, NothingToTake, EndLoop
  <1> QED BY <1>1, <1>2, <1>3

LEMMA ToldQuiet ==
  ASSUME IInv, Raised, ToldFits, UNCHANGED <<m_nSIType, sent, told>>,
         \A e \in DOMAIN kind : kind'[e] = kind[e] /\ place'[e] = place[e]
  PROVE  ToldFits'
  <1>1. \A e \in DOMAIN kind : Tells(e)' <=> Tells(e)
    BY TellsSame
  <1>2. ASSUME NEW i \in DOMAIN told
        PROVE  told[i].outcome # "none" <=> Tells(sent[i])'
    <2>1. PICK e : e = sent[i]
      OBVIOUS
    <2>2. i \in DOMAIN sent
      BY LensAreNat DEF ToldFits, IInv, Base
    <2>3. e \in DOMAIN kind
      BY <2>1, <2>2, NumbersTaken DEF IInv, InOrder, SentIsOlder
    <2>4. Tells(e)' <=> Tells(sent[i])'
      BY <2>1
    <2> QED BY <1>1, <2>1, <2>3, <2>4 DEF ToldFits
  <1> QED BY <1>2 DEF ToldFits

LEMMA RestNext ==
  ASSUME IInv, Clock', Raised, Rest, [Next]_vars
  PROVE  Rest'
  <1> USE DEF Rest, control, queueVars, tokenVars, batchVars
  <1>1. ASSUME NEW e, Push(e)
        PROVE  stamp' \in [Queues -> Ticks] /\ atZero' \subseteq Queues
    <2>1. tick \in Ticks /\ QueueOf(kind[e]) \in Queues
      BY TheQueues DEF IInv, Clock
    <2> QED BY <1>1, <2>1 DEF Push
  <1>2. CASE SendEvent
    BY <1>2 DEF SendEvent
  <1>3. CASE StopSendEventThread
    BY <1>3 DEF StopSendEventThread
  <1>4. CASE Answer
    BY <1>4 DEF Answer
  <1>5. CASE AskForToken
    BY <1>5 DEF AskForToken
  <1>6. CASE ClearToken
    BY <1>6 DEF ClearToken
  <1>7. CASE AwaitToken
    BY <1>7 DEF AwaitToken
  <1>8. CASE SendAlarm
    BY <1>8 DEF SendAlarm
  <1>9. CASE ScanQueue \/ ReportUrgent
    <2>1. UNCHANGED <<stamp, atZero, g_bThread, request, urgent>>
      BY <1>9 DEF ScanQueue, ReportUrgent
    <2>2. first' \in Events \cup {0} /\ size' \in Nat
      <3>1. CASE \E es : Hands(es)
        BY <3>1, Handed
      <3>2. CASE UNCHANGED batchVars
        BY <3>2
      <3> QED BY <1>9, <3>1, <3>2, HandSteps
    <2> QED BY <2>1, <2>2
  <1>10. CASE TextTooLong
    BY <1>10 DEF TextTooLong
  <1>11. CASE FinishQueue
    <2>1. 0 \in Ticks
      BY BoundsAssumption DEF Ticks
    <2> QED BY <1>11, <2>1 DEF FinishQueue, Return
  <1>12. CASE ScanDone
    BY <1>12 DEF ScanDone
  <1>13. CASE TakeEvent
    <2>1. UNCHANGED queueVars \/ Push(Head(sendQueue))
      BY <1>13 DEF TakeEvent
    <2>2. UNCHANGED <<g_bThread, batchVars, request>>
      BY <1>13 DEF TakeEvent
    <2>3. urgent' \in {0, Head(sendQueue)}
      BY <1>13 DEF TakeEvent
    <2>4. Head(sendQueue) \in DOMAIN kind
      BY <1>13, Takes DEF TakeEvent, IInv, Base, raised
    <2>5. Head(sendQueue) \in Events
      BY <2>4, LensAreNat, BoundsAssumption DEF Raised, Events, IInv, Base
    <2> QED BY <1>1, <2>1, <2>2, <2>3, <2>5
  <1>14. CASE FinishUrgent
    BY <1>1, <1>14 DEF FinishUrgent, Return
  <1>15. CASE NothingToTake
    BY <1>15 DEF NothingToTake
  <1>16. CASE EndLoop
    BY <1>16 DEF EndLoop
  <1>17. CASE UNCHANGED vars
    BY <1>17 DEF vars
  <1> QED BY <1>2, <1>3, <1>4, <1>5, <1>6, <1>7, <1>8, <1>9, <1>10, <1>11,
             <1>12, <1>13, <1>14, <1>15, <1>16, <1>17 DEF Next, SendThread

LEMMA RestInitially == Init => RInv
  <1> SUFFICES ASSUME Init PROVE RInv
    OBVIOUS
  <1>1. Raised
    BY BoundsAssumption DEF Init, Raised
  <1>2. Rest
    BY BoundsAssumption DEF Init, Rest, Ticks
  <1>3. ToldFits
    BY DEF Init, ToldFits
  <1>4. ~InHand /\ alarms = <<>> /\ sent = <<>> /\ pc = "check"
    BY DEF Init, InHand
  <1>5. SharesFollow
    <2>1. From(Len(alarms) + 1) = 0 /\ Len(sent) = 0 /\ DOMAIN alarms = {}
      BY <1>4 DEF From
    <2> QED BY <1>4, <2>1 DEF SharesFollow
  <1>6. AlarmsFit
    BY <1>4, <1>5 DEF AlarmsFit
  <1> QED BY <1>1, <1>2, <1>3, <1>6 DEF RInv

LEMMA RestInvariance == Spec => [](IInv /\ RInv)
  <1>1. IInv /\ IInv' /\ RInv /\ [Next]_vars => RInv'
    <2> SUFFICES ASSUME IInv, IInv', RInv, [Next]_vars PROVE RInv'
      OBVIOUS
    <2>1. Raised /\ Rest /\ ToldFits /\ AlarmsFit
      BY DEF RInv
    <2>2. /\ Raised' /\ m_nSIType' = m_nSIType
          /\ \A e \in DOMAIN kind : kind'[e] = kind[e] /\ place'[e] = place[e]
      BY <2>1, RaisedNext
    <2>3. Rest'
      BY <2>1, RestNext DEF IInv
    <2>4. CASE \E es : Hands(es)
      BY <2>1, <2>2, <2>3, <2>4, ToldHanded, AlarmsHanded DEF RInv
    <2>5. CASE SendAlarm
      BY <2>1, <2>2, <2>3, <2>5, AlarmsPushed, ToldQuiet DEF SendAlarm, reports, RInv
    <2>6. CASE Quiet
      BY <2>1, <2>2, <2>3, <2>6, AlarmsQuiet, ToldQuiet DEF Quiet, RInv
    <2>7. CASE UNCHANGED <<raised, alarms, reports, batchVars, step, pc>>
      <3>1. Quiet
        BY <2>1, <2>7 DEF Quiet, AlarmsFit, InHand, raised, reports, batchVars
      <3> QED BY <2>6, <3>1
    <2> QED BY <2>1, <2>4, <2>5, <2>6, <2>7, HandSteps, QuietSteps
  <1> QED BY <1>1, RestInitially, Invariance, PTL DEF Spec

(* However raising, waiting and answers interleave, no event is reported    *)
(* after a fire or reset event that was raised after it, and the events of  *)
(* one queue are reported in the order they were raised.                    *)
THEOREM OrderKept == Spec => []ReportsInOrder
  <1>1. IInv => ReportsInOrder
    BY DEF IInv, InOrder
  <1> QED BY <1>1, Invariance, PTL

(* Every event taken is reported or pending as often as its kind asks for:  *)
(* none is lost between the queues of SendThreadLoop and none doubled.      *)
THEOREM NoneIsLost == Spec => []EachAsAskedFor
  <1>1. IInv => EachAsAskedFor
    <2> SUFFICES ASSUME IInv, NEW e \in DOMAIN kind
                 PROVE  Held(e) =
                   IF Count(e, sendQueue) > 0 THEN 0
                   ELSE IF e = urgent
                        THEN (IF pc = "urgent" /\ step # "none" THEN 1 ELSE 0)
                   ELSE Copies(kind[e]) + (IF IsUrgent(kind[e]) THEN 1 ELSE 0)
      BY DEF EachAsAskedFor, Held
    <2> USE DEF IInv, Base
    <2>1. Held(e) = Owed(e)
      BY DEF Kept, Held
    <2>2. Count(e, sendQueue) \in Nat
      BY CountType DEF Types
    <2>3. Count(e, sendQueue) > 0 <=> e > Taken
      <3>1. Count(e, sendQueue) = 0 <=> \A i \in DOMAIN sendQueue : sendQueue[i] # e
        BY CountZero DEF Types
      <3>2. CASE e > Taken
        <4>1. e - Taken \in DOMAIN sendQueue
          BY <3>2, LensAreNat DEF Taken
        <4>2. sendQueue[e - Taken] = e
          BY <4>1, LensAreNat DEF Waiting
        <4> QED BY <2>2, <3>1, <3>2, <4>1, <4>2
      <3>3. CASE ~(e > Taken)
        <4>1. \A i \in DOMAIN sendQueue : i >= 1 /\ i \in Nat
          BY LensAreNat
        <4>2. \A i \in DOMAIN sendQueue : sendQueue[i] # e
          BY <3>3, <4>1, LensAreNat DEF Waiting
        <4> QED BY <3>1, <3>3, <4>2
      <3> QED BY <3>2, <3>3
    <2> QED BY <2>1, <2>3 DEF Owed
  <1> QED BY <1>1, Invariance, PTL

(* No class queue gets longer than one event beyond the length at which     *)
(* CheckAndSend hands it over, although only every other step looks at it.  *)
QueuesBounded == \A q \in Queues : Len(pending[q]) <= MaxPending + 1

THEOREM QueuesStayShort == Spec => []QueuesBounded
  <1>1. IInv => QueuesBounded
    BY TheQueues DEF IInv, Sizes, QueuesBounded
  <1> QED BY <1>1, Invariance, PTL

(* The types of the whole state, and that no queue gets longer than one     *)
(* event beyond the length at which CheckAndSend hands it over.             *)
THEOREM TypeCorrect == Spec => []TypeOK
  <1>1. IInv /\ RInv => TypeOK
    <2> SUFFICES ASSUME IInv, RInv PROVE TypeOK
      OBVIOUS
    <2>1. Types /\ Waiting /\ Sizes /\ Clock /\ Raised /\ Rest /\ ToldFits /\ AlarmsFit
      BY DEF IInv, Base, RInv
    <2>2. 1 .. Taken \subseteq Events
      BY <2>1, NumbersTaken
    <2>3. sendQueue \in Seq(Events)
      <3>1. \A i \in 1 .. Len(sendQueue) : sendQueue[i] = Taken + i
        BY <2>1, LensAreNat DEF Waiting
      <3>2. \A i \in 1 .. Len(sendQueue) : sendQueue[i] \in Events
        BY <2>1, <3>1, LensAreNat, BoundsAssumption
           DEF Waiting, Raised, Taken, Events
      <3> QED BY <2>1, <3>2, SeqDef DEF Types
    <2>4. sent \in Seq(Events)
      <3>1. \A i \in 1 .. Len(sent) : sent[i] \in Events
        BY <2>1, <2>2, LensAreNat DEF IInv, InOrder, SentIsOlder
      <3> QED BY <2>1, <3>1, SeqDef DEF Types
    <2>5. pending \in [Queues -> Seq(Events)]
      <3> SUFFICES ASSUME NEW q \in Queues PROVE pending[q] \in Seq(Events)
        BY <2>1 DEF Types
      <3>1. pending[q] \in Seq(Nat) /\ DOMAIN pending[q] = 1 .. Len(pending[q])
        BY <2>1, LensAreNat
      <3>2. \A i \in 1 .. Len(pending[q]) : pending[q][i] \in Events
        BY <2>2, <3>1 DEF IInv, InOrder, PendingFits
      <3> QED BY <3>1, <3>2, SeqDef
    <2>6. \A q \in Queues : Len(pending[q]) <= MaxPending + 1
      BY <2>1, TheQueues DEF Sizes
    <2>7. /\ urgent \in Events \cup {0} /\ first \in Events \cup {0} /\ size \in Nat
          /\ stamp \in [Queues -> Ticks] /\ atZero \subseteq Queues
          /\ g_bThread \in BOOLEAN
          /\ request \in {"none", "open", "early", "answered", "failed"}
      BY <2>1 DEF Rest
    <2>8. qi \in 1 .. Len(QueueOrder) + 1
      BY <2>1, TheQueues DEF Types
    <2>9. /\ Len(kind) <= MaxRaised /\ Len(place) = Len(kind)
          /\ \A e \in DOMAIN place : \E r \in Reports[m_nSIType] :
               place[e] = [occur |-> r.occur, no |-> r.no]
      <3>1. DOMAIN kind = DOMAIN place
        BY <2>1, NumbersTaken
      <3> QED BY <2>1, <3>1 DEF Raised
    <2>10. told \in Seq([event : Events, outcome : {"none", "missed", "reached"}])
      BY <2>1 DEF ToldFits, Tellings
    <2>11. alarms \in Seq([first : Events, more : Nat, upTo : Nat])
      BY <2>1 DEF AlarmsFit
    <2>12. /\ m_nSIType \in SITypes /\ kind \in Seq(AllKinds)
           /\ pc \in {"check", "flush", "urgent", "take", "ended", "dead"}
           /\ step \in {"none", "token", "reset", "await", "alarm", "finish"}
      BY <2>1 DEF Types
    <2>13. tick \in Ticks /\ m_dwToken \in Ticks /\ dwLastTime \in Ticks
      BY <2>1 DEF Clock
    <2> QED BY <2>3, <2>4, <2>5, <2>6, <2>7, <2>8, <2>9, <2>10, <2>11, <2>12, <2>13
            DEF TypeOK
  <1> QED BY <1>1, RestInvariance, PTL

(* With the test server every report, and only a report, is in the share of *)
(* exactly one alarm, pushed or in hand: the event an alarm shows is the    *)
(* first of its share, and the number it adds is that of the others.        *)
THEOREM AlarmsCover == Spec => []AlarmsCoverReports
  <1>1. IInv /\ RInv => AlarmsCoverReports
    <2> SUFFICES ASSUME IInv, RInv, m_nSIType = "SI_TEST" PROVE AlarmsCoverReports
      BY DEF AlarmsCoverReports
    <2> DEFINE open == IF step \in {"token", "reset", "await", "alarm"} THEN <<Alarm>> ELSE <<>>
               all == alarms \o open
               from(n) == IF n = 1 THEN 0 ELSE all[n - 1].upTo
               Pushed == [first : Events, more : Nat, upTo : Nat]
    <2>1. Rest /\ AlarmsFit /\ SharesFollow
      BY DEF RInv, AlarmsFit
    <2>2. /\ alarms \in Seq(Pushed)
          /\ Len(alarms) \in Nat /\ DOMAIN alarms = 1 .. Len(alarms)
          /\ \A n \in 1 .. Len(alarms) + 1 : From(n) \in Nat
      BY <2>1, FromType DEF AlarmsFit
    <2>3. Len(sent) \in Nat
      BY LensAreNat DEF IInv, Base
    <2>4. InHand => /\ Alarm \in Pushed /\ Alarm.first = first
                    /\ Alarm.more = size - 1 /\ Alarm.upTo = Len(sent)
      BY <2>1, <2>3 DEF Alarm, Rest, AlarmsFit
    <2>5. /\ open \in Seq(Pushed) /\ Len(open) = IF InHand THEN 1 ELSE 0
          /\ InHand => open[1] = Alarm
      <3>1. open = IF InHand THEN <<Alarm>> ELSE <<>>
        BY DEF InHand
      <3>2. <<>> \in Seq(Pushed) /\ Len(<<>>) = 0
        OBVIOUS
      <3>3. CASE InHand
        <4>1. open = <<Alarm>> /\ Alarm \in Pushed
          BY <2>4, <3>1, <3>3
        <4> HIDE DEF open, Pushed
        <4> QED BY <3>3, <4>1
      <3>4. CASE ~InHand
        BY <3>1, <3>2, <3>4
      <3> QED BY <3>3, <3>4
    <2> HIDE DEF open, Pushed
    <2>6. /\ all \in Seq(Pushed) /\ Len(all) = Len(alarms) + Len(open)
          /\ \A n \in 1 .. Len(alarms) : all[n] = alarms[n]
          /\ \A n \in 1 .. Len(open) : all[Len(alarms) + n] = open[n]
      <3>1. all = alarms \o open /\ alarms \in Seq(Pushed) /\ open \in Seq(Pushed)
        BY <2>2, <2>5
      <3> HIDE DEF all
      <3> QED BY ONLY <3>1, PutBehind
    <2> HIDE DEF all
    <2>7. ASSUME NEW n \in 1 .. Len(alarms) + 1 PROVE from(n) = From(n)
      <3>1. n # 1 => n - 1 \in 1 .. Len(alarms)
        BY <2>2
      <3> QED BY <2>6, <3>1 DEF From
    <2>8. from(Len(all) + 1) = Len(sent)
      <3>1. CASE InHand
        <4>1. Len(all) = Len(alarms) + 1 /\ all[Len(alarms) + 1] = Alarm
          BY <2>5, <2>6, <3>1
        <4>2. Len(all) + 1 # 1 /\ (Len(all) + 1) - 1 = Len(alarms) + 1
          BY <2>2, <4>1
        <4> QED BY <2>4, <3>1, <4>1, <4>2
      <3>2. CASE ~InHand
        <4>1. Len(all) = Len(alarms)
          BY <2>2, <2>5, <2>6, <3>2
        <4>2. From(Len(alarms) + 1) = Len(sent)
          BY <2>1, <2>2, <3>2 DEF SharesFollow
        <4> QED BY <2>2, <2>7, <4>1, <4>2
      <3> QED BY <3>1, <3>2
    <2>9. ASSUME NEW n \in 1 .. Len(all)
          PROVE  /\ all[n].first = sent[from(n) + 1]
                 /\ all[n].upTo = from(n) + all[n].more + 1
      <3>1. CASE n \in 1 .. Len(alarms)
        <4>1. all[n] = alarms[n]
          BY <2>6, <3>1
        <4>2. from(n) = From(n)
          BY <2>2, <2>7, <3>1
        <4>3. /\ alarms[n].first = sent[From(n) + 1]
              /\ alarms[n].upTo = From(n) + alarms[n].more + 1
          BY <2>1, <2>2, <3>1 DEF SharesFollow
        <4> QED BY <4>1, <4>2, <4>3
      <3>2. CASE n \notin 1 .. Len(alarms)
        <4>1. InHand /\ n = Len(alarms) + 1 /\ all[n] = Alarm
          BY <2>2, <2>5, <2>6, <3>2
        <4>2. from(n) = From(Len(alarms) + 1) /\ From(Len(alarms) + 1) \in Nat
          BY <2>2, <2>7, <4>1
        <4>3. first = sent[From(Len(alarms) + 1) + 1]
              /\ From(Len(alarms) + 1) + size = Len(sent) /\ size \in Nat
          BY <2>1, <4>1 DEF SharesFollow, Rest
        <4>4. From(Len(alarms) + 1) + (size - 1) + 1 = Len(sent)
          BY <4>2, <4>3
        <4> QED BY <2>4, <4>1, <4>2, <4>3, <4>4
      <3> QED BY <3>1, <3>2
    <2>10. DOMAIN all = 1 .. Len(all)
      BY <2>6
    <2> QED BY <2>8, <2>9, <2>10 DEF AlarmsCoverReports, open, all
  <1> QED BY <1>1, RestInvariance, PTL

(* Which events KOCOM and COMMAX are told of.                               *)
LEMMA WhatIsTold ==
  ASSUME IInv, Raised, NEW e \in DOMAIN kind
  PROVE  Tells(e) <=>
           /\ m_nSIType # "SI_TEST"
           /\ \/ kind[e] = "R"
              \/ /\ Command(kind[e]) = "F" /\ place[e].occur \in {"N", "F"}
                 /\ (place[e].no # ResetNo /\ Listed(place[e].no)) =>
                      Info(place[e].no).building # 0
  <1> DEFINE ev == Event(e)
  <1>1. /\ ev.command = Command(kind[e]) /\ ev.occur = place[e].occur
        /\ ev.no = place[e].no
    BY DEF Event
  <1>2. PICK r \in Reports[m_nSIType] :
          kind[e] = r.kind /\ place[e] = [occur |-> r.occur, no |-> r.no]
    BY DEF Raised
  <1>3. m_nSIType \in SITypes
    BY DEF IInv, Base, Types
  <1>4. kind[e] \in AllKinds /\ (kind[e] = "R" => ev.no = ResetNo)
    BY <1>1, <1>2, <1>3, SITypesAssumption
  <1>5. m_nSIType \in {"SI_TEST", "KOCOM", "COMMAX"}
    BY <1>3, SITypesAssumption
  <1>6. ev.command = "R" <=> kind[e] = "R"
    BY <1>1, <1>4 DEF Command, AllKinds
  <1> HIDE DEF ev
  <1>7. FireType(ev) # "none" <=>
          ev.command = "R" \/ (ev.command = "F" /\ ev.occur \in {"N", "F"})
    BY DEF FireType
  <1>8. CASE ev.command = "R"
    <2>1. ~HasPlace(ev)
      BY <1>4, <1>6, <1>8 DEF HasPlace
    <2>2. KocomPlace(ev).dong = 101
      BY <2>1 DEF KocomPlace
    <2>3. KocomTells(ev) /\ CommaxTells(ev)
      BY <1>7, <1>8, <2>1, <2>2 DEF KocomTells, CommaxTells
    <2> QED BY <1>5, <1>6, <1>8, <2>3 DEF Tells, ev
  <1>9. CASE ev.command # "R"
    <2>1. KocomPlace(ev).dong = IF HasPlace(ev) THEN Info(ev.no).building ELSE 101
      BY <1>9 DEF KocomPlace
    <2>2. HasPlace(ev) => CommaxPlace(ev).dong = Info(ev.no).building
      BY <1>9 DEF CommaxPlace
    <2>3. KocomTells(ev) <=> /\ ev.command = "F" /\ ev.occur \in {"N", "F"}
                             /\ HasPlace(ev) => Info(ev.no).building # 0
      BY <1>7, <1>9, <2>1 DEF KocomTells
    <2>4. CommaxTells(ev) <=> KocomTells(ev)
      BY <1>7, <1>9, <2>2, <2>3 DEF CommaxTells
    <2>5. Tells(e) <=> m_nSIType # "SI_TEST" /\ KocomTells(ev)
      BY <1>5, <2>4 DEF Tells, ev
    <2> QED BY <1>1, <1>6, <1>9, <2>3, <2>5 DEF HasPlace
  <1> QED BY <1>8, <1>9

(* KOCOM and COMMAX are told once for each report of every reset, of every  *)
(* fire of an apartment block and of every fire at a circuit that is not in *)
(* the table, and of nothing else, whatever the table.                      *)
THEOREM ToldOnce == Spec => []ToldOfFires
  <1>1. IInv /\ RInv => ToldOfFires
    <2> SUFFICES ASSUME IInv, RInv, NEW e \in DOMAIN kind
                 PROVE  Quantify(DOMAIN told, LAMBDA i :
                                   told[i].event = e /\ told[i].outcome # "none") =
                          IF Tells(e) THEN Count(e, sent) ELSE 0
      BY WhatIsTold DEF ToldOfFires, RInv
    <2> DEFINE of == {i \in DOMAIN told : told[i].event = e /\ told[i].outcome # "none"}
    <2>1. Quantify(DOMAIN told, LAMBDA i :
                     told[i].event = e /\ told[i].outcome # "none") = Cardinality(of)
      BY DEF Quantify
    <2>2. /\ DOMAIN told = DOMAIN sent /\ sent \in Seq(Nat)
          /\ \A i \in DOMAIN told :
               /\ told[i].event = sent[i]
               /\ told[i].outcome # "none" <=> Tells(sent[i])
      BY LensAreNat DEF RInv, ToldFits, IInv, Base, Types
    <2>3. CASE Tells(e)
      <3>1. of = {i \in DOMAIN sent : sent[i] = e}
        BY <2>2, <2>3
      <3>2. Count(e, sent) = Cardinality({i \in DOMAIN sent : sent[i] = e})
        BY <2>2, CountType
      <3> QED BY <2>1, <2>3, <3>1, <3>2
    <2>4. CASE ~Tells(e)
      <3>1. of = {}
        BY <2>2, <2>4
      <3> QED BY <2>1, <2>4, <3>1, FS_EmptySet
    <2> QED BY <2>3, <2>4
  <1> QED BY <1>1, RestInvariance, PTL

(* However the thread is interrupted, no event is lost or doubled on its    *)
(* way from the send queue to the reports, nor from there to the alarms and *)
(* to those who are told.                                                   *)
THEOREM EveryEventIsAccounted == Spec => []EveryEventAccounted
  <1>1. EachAsAskedFor /\ AlarmsCoverReports /\ ToldOfFires => EveryEventAccounted
    BY DEF EveryEventAccounted
  <1> QED BY <1>1, NoneIsLost, AlarmsCover, ToldOnce, PTL

(* Whatever the length of the wait and wherever GetTickCount wraps, an      *)
(* answer that came while the thread waits ends the wait, unless it came at *)
(* tick 0 and the time began before it.                                     *)
THEOREM AnswersAreSeen == Spec => []AnswerIsSeen
  <1>1. IInv => AnswerIsSeen
    BY DEF IInv, Clock
  <1> QED BY <1>1, Invariance, PTL

-----------------------------------------------------------------------------
(* What KOCOM, COMMAX and the GFS clients are told of one event, compared,  *)
(* for every table of circuits.                                             *)

IsFire(e) == e.command = "F" /\ e.occur \in {"N", "F"}

(* A fire, or the end of one, in an apartment block the table knows: all    *)
(* three are told, of the same building and, KOCOM and COMMAX, of the same  *)
(* floor, and all take it for the same of the two.                          *)
THEOREM ApartmentFireToldAlike ==
  ASSUME NEW e, IsFire(e), HasPlace(e), Info(e.no).building # 0
  PROVE  /\ KocomTells(e) /\ CommaxTells(e) /\ GfsTells(e)
         /\ KocomAlarm(e).place.dong = Info(e.no).building
         /\ ~CommaxMessage(e).all
         /\ CommaxMessage(e).place.dong = KocomAlarm(e).place.dong
         /\ CommaxMessage(e).place.floor = KocomAlarm(e).place.floor
         /\ GfsEvent(e).place = {Info(e.no)}
         /\ CommaxMessage(e).emergency = KocomAlarm(e).nAlarm
         /\ (KocomAlarm(e).nAlarm = "clear") =
              (GfsEvent(e).occurrence = "restoration")
  <1>1. e.command = "F" /\ e.occur \in {"N", "F"} /\ Listed(e.no)
    BY DEF IsFire, HasPlace
  <1>2. KocomPlace(e).dong = Info(e.no).building
        /\ CommaxPlace(e).dong = Info(e.no).building
        /\ KocomPlace(e).floor = CommaxPlace(e).floor
    BY <1>1 DEF KocomPlace, CommaxPlace
  <1>3. FireType(e) = IF e.occur = "N" THEN "occurred" ELSE "clear"
    BY <1>1 DEF FireType
  <1>4. KocomTells(e) /\ CommaxTells(e) /\ GfsTells(e)
    BY <1>1, <1>2, <1>3 DEF KocomTells, CommaxTells, GfsTells
  <1>5. /\ KocomAlarm(e).nAlarm = FireType(e)
        /\ KocomAlarm(e).place = KocomPlace(e)
    BY DEF KocomAlarm
  <1>6. /\ CommaxMessage(e).emergency = FireType(e) /\ ~CommaxMessage(e).all
        /\ CommaxMessage(e).place = CommaxPlace(e)
    BY <1>1 DEF CommaxMessage
  <1>7. GfsEvent(e).place = {Info(e.no)}
        /\ GfsEvent(e).occurrence = IF e.occur = "F" THEN "restoration"
                                    ELSE "occurrence"
    BY <1>1 DEF GfsEvent, GfsOccurrence
  <1> QED BY <1>1, <1>2, <1>3, <1>4, <1>5, <1>6, <1>7

(* A fire of a circuit the table does not have: KOCOM is told that it is in *)
(* apartment 101 of block 101, COMMAX of no place and the GFS clients are   *)
(* not told.                                                                *)
THEOREM UnlistedFireToldUnlike ==
  ASSUME NEW e, IsFire(e), e.no # ResetNo, ~Listed(e.no)
  PROVE  /\ KocomTells(e) /\ CommaxTells(e) /\ ~GfsTells(e)
         /\ KocomAlarm(e).place =
              [dong |-> 101, ho |-> 101, floor |-> 1, text |-> "unset"]
         /\ CommaxMessage(e).place = [dong |-> 0, floor |-> 0, stair |-> 0]
  <1>1. e.command = "F" /\ e.occur \in {"N", "F"} /\ ~HasPlace(e)
    BY DEF IsFire, HasPlace
  <1>2. FireType(e) # "none"
    BY <1>1 DEF FireType
  <1>3. KocomPlace(e) = [dong |-> 101, ho |-> 101, floor |-> 1,
                         text |-> "unset"]
    BY <1>1 DEF KocomPlace
  <1>4. CommaxPlace(e) = [dong |-> 0, floor |-> 0, stair |-> 0]
    BY <1>1 DEF CommaxPlace
  <1>5. KocomTells(e) /\ CommaxTells(e) /\ ~GfsTells(e)
    BY <1>1, <1>2, <1>3 DEF KocomTells, CommaxTells, GfsTells
  <1>6. CommaxMessage(e).place = CommaxPlace(e)
    BY <1>1 DEF CommaxMessage
  <1> QED BY <1>3, <1>4, <1>5, <1>6 DEF KocomAlarm

(* The end of a fire is told to whom the fire was told, and at its place,   *)
(* whatever the table says of the circuit.                                  *)
THEOREM ClearFollowsFire ==
  ASSUME NEW e, NEW f, IsFire(e), IsFire(f), e.no = f.no
  PROVE  /\ KocomTells(e) = KocomTells(f)
         /\ KocomAlarm(e).place = KocomAlarm(f).place
         /\ CommaxTells(e) = CommaxTells(f)
         /\ CommaxMessage(e).place = CommaxMessage(f).place
         /\ GfsTells(e) = GfsTells(f) /\ GfsEvent(e).place = GfsEvent(f).place
  <1>1. /\ e.command = "F" /\ e.occur \in {"N", "F"}
        /\ f.command = "F" /\ f.occur \in {"N", "F"}
        /\ HasPlace(e) = HasPlace(f)
    BY DEF IsFire, HasPlace
  <1>2. FireType(e) # "none" /\ FireType(f) # "none"
    BY <1>1 DEF FireType
  <1>3. KocomPlace(e) = KocomPlace(f)
    BY <1>1 DEF KocomPlace
  <1>4. CommaxPlace(e) = CommaxPlace(f)
    BY <1>1 DEF CommaxPlace
  <1>5. KocomTells(e) = KocomTells(f) /\ CommaxTells(e) = CommaxTells(f)
    BY <1>1, <1>2, <1>3, <1>4 DEF KocomTells, CommaxTells
  <1>6. KocomAlarm(e).place = KocomAlarm(f).place
    BY <1>3 DEF KocomAlarm
  <1>7. CommaxMessage(e).place = CommaxMessage(f).place
    BY <1>1, <1>4 DEF CommaxMessage
  <1>8. GfsTells(e) = GfsTells(f)
    BY <1>1 DEF GfsTells
  <1>9. GfsEvent(e).place = GfsEvent(f).place
    BY <1>1 DEF GfsEvent
  <1> QED BY <1>5, <1>6, <1>7, <1>8, <1>9

(* A reset of the receiver, which has no number of a circuit, is told to    *)
(* KOCOM and COMMAX as the end of every fire, and to the GFS clients if it  *)
(* has one of the two occurrences.  COMMAX is not told of one that has the  *)
(* number of a circuit of the table.                                        *)
THEOREM ResetTold ==
  ASSUME NEW e, e.command = "R"
  PROVE  /\ KocomTells(e) /\ KocomAlarm(e).nAlarm = "allClear"
         /\ CommaxTells(e) = ~HasPlace(e)
         /\ e.no = ResetNo => CommaxTells(e) /\ CommaxMessage(e).all
         /\ GfsTells(e) <=> e.occur \in {"N", "F"}
  <1>1. FireType(e) = "allClear"
    BY DEF FireType
  <1>2. KocomPlace(e).dong = 101
    BY DEF KocomPlace
  <1>3. HasPlace(e) => CommaxPlace(e).dong = 0
    BY DEF CommaxPlace
  <1>4. e.no = ResetNo => ~HasPlace(e)
    BY DEF HasPlace
  <1>5. KocomTells(e) /\ KocomAlarm(e).nAlarm = "allClear"
    BY <1>1, <1>2 DEF KocomTells, KocomAlarm
  <1>6. CommaxTells(e) = ~HasPlace(e)
    BY <1>1, <1>3 DEF CommaxTells
  <1>7. CommaxMessage(e).all
    BY DEF CommaxMessage
  <1>8. GfsTells(e) <=> e.occur \in {"N", "F"}
    BY DEF GfsTells
  <1> QED BY <1>4, <1>5, <1>6, <1>7, <1>8

(* The last of a nonempty set of the indices of a sequence.                 *)
LEMMA LastExists ==
  ASSUME NEW n \in Nat, NEW S \in SUBSET (1 .. n), S # {}
  PROVE  \E i \in S : \A j \in S : j <= i
  <1> DEFINE T == {n - i : i \in S}
  <1>1. T \in SUBSET Nat /\ T # {}
    <2>1. \A i \in S : n - i \in Nat
      OBVIOUS
    <2>2. T \subseteq Nat
      BY <2>1
    <2>3. PICK i : i \in S
      OBVIOUS
    <2>4. n - i \in T
      BY <2>3
    <2> QED BY <2>2, <2>4
  <1>2. IsWellFoundedOn(OpToRel(<, Nat), Nat)
    BY NatLessThanWellFounded
  <1>3. PICK x \in T : \A y \in T : ~(<<y, x>> \in OpToRel(<, Nat))
    BY <1>1, <1>2, WFMin
  <1>4. \A y \in T : ~(y < x)
    BY <1>1, <1>3 DEF OpToRel
  <1>5. PICK i \in S : x = n - i
    BY <1>3
  <1>6. \A j \in S : j <= i
    BY <1>4, <1>5
  <1> QED BY <1>6

(* In a table read from the CSV file a circuit that is listed has the place *)
(* of its last line: no later one is about it.                              *)
THEOREM LastLineCounts ==
  ASSUME NEW no, CsvFound, Listed(no)
  PROVE  /\ LastRow(no) \in DOMAIN Rows /\ Rows[LastRow(no)].no = no
         /\ \A j \in DOMAIN Rows : j > LastRow(no) => Rows[j].no # no
  <1> DEFINE S == {i \in DOMAIN Rows : Rows[i].no = no}
  <1>1. Rows \in Seq(Lines)
    BY LinesAssumption, EmptySeq, HeadTailProperties DEF Rows, CsvRows
  <1>2. Len(Rows) \in Nat /\ DOMAIN Rows = 1 .. Len(Rows)
    BY <1>1, LenProperties
  <1>3. S \in SUBSET (1 .. Len(Rows)) /\ S # {}
    BY <1>2 DEF Listed
  <1>4. \E i \in S : \A j \in S : j <= i
    BY <1>2, <1>3, LastExists
  <1>5. /\ LastRow(no) \in DOMAIN Rows /\ Rows[LastRow(no)].no = no
        /\ \A j \in DOMAIN Rows : Rows[j].no = no => j <= LastRow(no)
    BY <1>4 DEF LastRow
  <1> QED BY <1>2, <1>5
=============================================================================
