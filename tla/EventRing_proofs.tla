-------------------------- MODULE EventRing_proofs --------------------------
(***************************************************************************)
(* With one writer, for every size of the ring, every number of readers    *)
(* and every number of events:                                             *)
(*   1. control: the types, and where each thread can be (Control);        *)
(*   2. the readers' index stays in step with the writer's (Follow);       *)
(*   3. every slot holds the event its position calls for (Filled);        *)
(*   4. queued pointers point at the copies made for them (Pointers);      *)
(*   5. the ring implements the feed.                                      *)
(***************************************************************************)
EXTENDS EventRing, SequenceTheorems, TLAPS

USE EventMaxAssumption, MaxRaisedAssumption

-----------------------------------------------------------------------------
(* 1. Control                                                               *)

WriterControl ==
  \A w \in Writers :
    /\ wpc[w] = "reset" => SMIndex = EventMax
    /\ wpc[w] = "load" => SMIndex < EventMax
    /\ wpc[w] = "store" => SMIndex < EventMax /\ wreg[w] = SMIndex
    /\ wpc[w] = "copy" => SMIndex >= 0

ReaderControl ==
  \A r \in Readers :
    /\ rpc[r] \in {"start", "check", "count"} =>
         nEventCount[r] = 0 /\ ~bOverflow[r]
    /\ rpc[r] = "send" => nEventCount[r] > 0 /\ nBufPos[r] > 0
    /\ rpc[r] \in {"loop", "send"} => nSMIndex[r] + Unread(r) <= EventMax
    /\ bOverflow[r] => nSMIndex[r] + Unread(r) = EventMax
    /\ SMIndex = -1 => nSMIndex[r] = -1 /\ rpc[r] \in {"start", "check"}

Control == TypeOK /\ WriterControl /\ ReaderControl

(* Control holds initially.                                                 *)
LEMMA ControlInit == Init => Control
  BY DEF Init, Control, TypeOK, WriterControl, ReaderControl, WriterTypes, ReaderTypes,
         QueueTypes, HistoryTypes, QueueEntry, Slots, BufSlots

(* A writer's step keeps Control.                                           *)
LEMMA ControlWriter ==
  ASSUME SingleWriter, Control, NEW w \in Writers, Writer(w)
  PROVE  Control'
<1> USE DEF Control, TypeOK, Slots
<1>1. CASE WriteEvent(w)
  <2> USE DEF WriteEvent, WriterAt, shmVars, localVars
  <2>1. WriterTypes'
    BY <1>1 DEF WriterTypes
  <2>2. ReaderTypes' /\ QueueTypes' /\ HistoryTypes'
    BY <1>1 DEF ReaderTypes, QueueTypes, HistoryTypes
  <2>3. WriterControl'
    BY <1>1 DEF WriterControl, SingleWriter, WriterTypes
  <2>4. ReaderControl'
    BY <1>1 DEF ReaderControl, Unread
  <2> QED
    BY <2>1, <2>2, <2>3, <2>4
<1>2. CASE ResetIndex(w)
  <2> USE DEF ResetIndex, WriterAt, Advance, localVars
  <2>1. WriterTypes'
    BY <1>2 DEF WriterTypes
  <2>2. ReaderTypes' /\ QueueTypes'
    BY <1>2 DEF ReaderTypes, QueueTypes
  <2>3. HistoryTypes'
    BY <1>2 DEF HistoryTypes
  <2>4. WriterControl'
    BY <1>2 DEF WriterControl, SingleWriter, WriterTypes
  <2>5. ReaderControl'
    BY <1>2 DEF ReaderControl, WriterControl, Unread
  <2> QED
    BY <2>1, <2>2, <2>3, <2>4, <2>5
<1>3. CASE LoadIndex(w)
  <2> USE DEF LoadIndex, WriterAt, shmVars, localVars
  <2>1. WriterTypes'
    BY <1>3 DEF WriterTypes
  <2>2. ReaderTypes' /\ QueueTypes' /\ HistoryTypes'
    BY <1>3 DEF ReaderTypes, QueueTypes, HistoryTypes
  <2>3. WriterControl'
    BY <1>3 DEF WriterControl, SingleWriter, WriterTypes
  <2>4. ReaderControl'
    BY <1>3 DEF ReaderControl, Unread
  <2> QED
    BY <2>1, <2>2, <2>3, <2>4
<1>4. CASE StoreIndex(w)
  <2> USE DEF StoreIndex, WriterAt, Advance, localVars
  <2>1. SMIndex' = SMIndex + 1 /\ SMIndex' \in 0 .. EventMax
    BY <1>4 DEF WriterControl, WriterTypes
  <2>2. WriterTypes'
    BY <1>4, <2>1 DEF WriterTypes
  <2>3. ReaderTypes' /\ QueueTypes'
    BY <1>4 DEF ReaderTypes, QueueTypes
  <2>4. HistoryTypes'
    BY <1>4 DEF HistoryTypes
  <2>5. WriterControl'
    BY <1>4, <2>1 DEF WriterControl, SingleWriter, WriterTypes
  <2>6. ReaderControl'
    BY <1>4, <2>1 DEF ReaderControl, Unread
  <2> QED
    BY <2>2, <2>3, <2>4, <2>5, <2>6
<1>5. CASE CopyEvent(w)
  <2> USE DEF CopyEvent, WriterAt, localVars
  <2>1. WriterTypes'
    BY <1>5 DEF WriterTypes
  <2>2. ReaderTypes' /\ QueueTypes' /\ HistoryTypes'
    BY <1>5 DEF ReaderTypes, QueueTypes, HistoryTypes
  <2>3. WriterControl'
    BY <1>5 DEF WriterControl, SingleWriter, WriterTypes
  <2>4. ReaderControl'
    BY <1>5 DEF ReaderControl, Unread
  <2> QED
    BY <2>1, <2>2, <2>3, <2>4
<1> QED
  BY <1>1, <1>2, <1>3, <1>4, <1>5 DEF Writer

(* A step of one reader.                                                    *)
Reader(r) ==
  ReaderStart(r) \/ Spin(r) \/ ReadLoop(r) \/ TakeEvent(r)

(* A reader's step keeps Control.                                           *)
LEMMA ControlReader ==
  ASSUME Control, NEW r \in Readers, Reader(r)
  PROVE  Control'
<1> USE DEF Control, TypeOK
<1>1. CASE ReaderStart(r)
  <2> USE DEF ReaderStart, ReaderAt, shmVars, writerVars, localVars
  <2>1. WriterTypes' /\ QueueTypes' /\ HistoryTypes' /\ WriterControl'
    BY <1>1 DEF WriterTypes, QueueTypes, HistoryTypes, WriterControl
  <2>2. ReaderTypes'
    BY <1>1 DEF ReaderTypes, WriterTypes, Slots
  <2>3. ReaderControl'
    BY <1>1 DEF ReaderControl, Unread, ReaderTypes
  <2> QED
    BY <2>1, <2>2, <2>3
<1>2. CASE Spin(r)
  BY <1>2 DEF Spin, vars, shmVars, writerVars, localVars, WriterTypes,
    ReaderTypes, QueueTypes, HistoryTypes, WriterControl, ReaderControl, Unread
<1>3. CASE CheckSMIndexChanged(r)
  <2> USE DEF CheckSMIndexChanged, ReaderAt, shmVars, writerVars, localVars
  <2>1. WriterTypes' /\ QueueTypes' /\ HistoryTypes' /\ WriterControl'
    BY <1>3 DEF WriterTypes, QueueTypes, HistoryTypes, WriterControl
  <2>2. ReaderTypes'
    BY <1>3 DEF ReaderTypes
  <2>3. ReaderControl'
    BY <1>3 DEF ReaderControl, Unread, ReaderTypes
  <2> QED
    BY <2>1, <2>2, <2>3
<1>4. CASE CountEvents(r)
  <2> USE DEF CountEvents, ReaderAt, shmVars, writerVars
  <2>1. WriterTypes' /\ QueueTypes' /\ HistoryTypes' /\ WriterControl'
    BY <1>4 DEF WriterTypes, QueueTypes, HistoryTypes, WriterControl
  <2>2. nSMIndex[r] \in -1 .. EventMax /\ SMIndex \in -1 .. EventMax
    BY DEF ReaderTypes, WriterTypes, Slots
  <2>3. ReaderTypes'
    BY <1>4, <2>2 DEF ReaderTypes, Slots
  <2>4. ReaderControl'
    BY <1>4, <2>2 DEF ReaderControl, Unread, ReaderTypes
  <2> QED
    BY <2>1, <2>3, <2>4
<1>5. CASE ReadNext(r)
  <2>1. /\ UNCHANGED <<SMIndex, event, raised, wpc, wreg, wdata>>
        /\ UNCHANGED <<nEventCount, bOverflow, sendQueue, head, lapped>>
        /\ rpc[r] = "loop" /\ nEventCount[r] > 0
        /\ rpc' = [rpc EXCEPT ![r] = "send"]
        /\ nSMIndex' = [nSMIndex EXCEPT ![r] = @ + 1]
        /\ nBufPos' = [nBufPos EXCEPT ![r] = BufEntry(r) + 1]
        /\ lag' = [lag EXCEPT ![r] = @ - 1]
    BY <1>5 DEF ReadNext, ReaderAt, shmVars, writerVars
  <2>2. WriterTypes' /\ QueueTypes' /\ HistoryTypes' /\ WriterControl'
    BY <2>1 DEF WriterTypes, QueueTypes, HistoryTypes, WriterControl
  <2>3. /\ nSMIndex[r] \in -1 .. EventMax /\ SMIndex \in -1 .. EventMax
        /\ nEventCount[r] \in 0 .. EventMax + 1
        /\ nSMIndex[r] + nEventCount[r] <= EventMax
    BY <2>1 DEF ReaderTypes, WriterTypes, Slots, ReaderControl, Unread
  <2>4. BufEntry(r) \in BufSlots
    BY DEF BufEntry, BufSlots, ReaderTypes
  <2>5. ringBuffer' \in [Readers -> [BufSlots -> Nat]]
    <3>1. ReadEventBuf(nSMIndex[r] + 1, ringBuffer[r][BufEntry(r)]) \in Nat
      BY <2>4 DEF ReadEventBuf, WriterTypes, ReaderTypes
    <3> HIDE DEF ReadEventBuf
    <3> QED
      BY <1>5, <2>4, <3>1 DEF ReadNext, ReaderTypes
  <2>6. /\ nSMIndex[r] + 1 \in 0 .. EventMax
        /\ BufEntry(r) + 1 \in 1 .. EventMax
    BY <2>1, <2>3, <2>4 DEF BufSlots
  <2>7. /\ nSMIndex' \in [Readers -> Slots \cup {-1}]
        /\ nBufPos' \in [Readers -> 0 .. EventMax]
        /\ nSMIndex'[r] = nSMIndex[r] + 1 /\ nBufPos'[r] > 0
    BY <2>1, <2>6 DEF ReaderTypes, Slots
  <2>8. ReaderTypes'
    BY <2>1, <2>5, <2>7 DEF ReaderTypes
  <2>9. ASSUME NEW q \in Readers, q # r
        PROVE  UNCHANGED <<rpc[q], nSMIndex[q], nBufPos[q]>>
    BY <2>1, <2>9 DEF ReaderTypes
  <2>10. ReaderControl'
    BY <2>1, <2>3, <2>7, <2>9 DEF ReaderControl, Unread, ReaderTypes
  <2> QED
    BY <2>2, <2>8, <2>10
<1>6. CASE SendEvent(r)
  <2> USE DEF SendEvent, ReaderAt, shmVars, writerVars
  <2>1. WriterTypes' /\ HistoryTypes' /\ WriterControl'
    BY <1>6 DEF WriterTypes, HistoryTypes, WriterControl
  <2>2. ReaderTypes'
    BY <1>6 DEF ReaderTypes, ReaderControl
  <2>3. ReaderControl'
    BY <1>6 DEF ReaderControl, Unread, ReaderTypes
  <2>4. QueueTypes'
    <3> DEFINE e == [buf |-> nBufPos[r] - 1, due |-> head - lag[r],
                     got |-> ringBuffer[r][nBufPos[r] - 1]]
    <3>1. nBufPos[r] - 1 \in BufSlots
      BY <1>6 DEF ReaderControl, ReaderTypes, BufSlots
    <3>2. ringBuffer[r][nBufPos[r] - 1] \in Nat
      BY <3>1 DEF ReaderTypes
    <3>3. e \in QueueEntry
      BY <3>1, <3>2 DEF HistoryTypes, QueueEntry
    <3>4. sendQueue' = [sendQueue EXCEPT ![r] = Append(@, e)]
      BY <1>6
    <3> HIDE DEF e
    <3>5. Append(sendQueue[r], e) \in Seq(QueueEntry)
      BY <3>3, AppendProperties DEF QueueTypes
    <3> QED
      BY <3>4, <3>5 DEF QueueTypes
  <2> QED
    BY <2>1, <2>2, <2>3, <2>4
<1>7. CASE EndBatch(r)
  <2> USE DEF EndBatch, ReaderAt, shmVars, writerVars
  <2>1. WriterTypes' /\ QueueTypes' /\ HistoryTypes' /\ WriterControl'
    BY <1>7 DEF WriterTypes, QueueTypes, HistoryTypes, WriterControl
  <2>2. ReaderTypes'
    BY <1>7 DEF ReaderTypes, Slots
  <2>3. ReaderControl'
    BY <1>7 DEF ReaderControl, Unread, ReaderTypes
  <2> QED
    BY <2>1, <2>2, <2>3
<1>8. CASE TakeEvent(r)
  <2> USE DEF TakeEvent, shmVars, writerVars
  <2>1. WriterTypes' /\ ReaderTypes' /\ HistoryTypes' /\ WriterControl'
    BY <1>8 DEF WriterTypes, ReaderTypes, HistoryTypes, WriterControl
  <2>2. ReaderControl'
    BY <1>8 DEF ReaderControl, Unread
  <2>3. Tail(sendQueue[r]) \in Seq(QueueEntry)
    BY <1>8, HeadTailProperties DEF QueueTypes
  <2>4. QueueTypes'
    BY <1>8, <2>3 DEF QueueTypes
  <2> QED
    BY <2>1, <2>2, <2>4
<1> QED
  BY <1>1, <1>2, <1>3, <1>4, <1>5, <1>6, <1>7, <1>8 DEF Reader, ReadLoop

(* Control is preserved by every step when there is one writer.             *)
LEMMA ControlNext ==
  ASSUME SingleWriter, Control, [Next]_vars
  PROVE  Control'
<1>1. CASE UNCHANGED vars
  BY <1>1 DEF Control, TypeOK, vars, shmVars, writerVars, localVars,
    WriterTypes, ReaderTypes, QueueTypes, HistoryTypes, WriterControl,
    ReaderControl, Unread
<1>2. CASE \E w \in Writers : Writer(w)
  BY <1>2, ControlWriter
<1>3. CASE \E r \in Readers : Reader(r)
  BY <1>3, ControlReader
<1> QED
  BY <1>1, <1>2, <1>3 DEF Next, Reader

(* Every variable keeps its type, for every size of the ring.               *)
THEOREM TypeCorrect ==
  ASSUME SingleWriter
  PROVE  Spec => []TypeOK
<1>1. Control => TypeOK
  BY DEF Control
<1> QED
  BY <1>1, ControlInit, ControlNext, PTL DEF Spec

-----------------------------------------------------------------------------
(* 2. Follow                                                                *)

FollowAt(r) ==
  /\ rpc[r] = "start" => lag[r] = 0 /\ ~lapped[r]
  /\ lag[r] <= head
  /\ Following(r) =>
       /\ lag[r] \in 0 .. EventMax
       /\ SMIndex - nSMIndex[r] \in {lag[r], lag[r] - (EventMax + 1)}
       /\ bOverflow[r] => SMIndex - nSMIndex[r] = lag[r] - (EventMax + 1)
       /\ rpc[r] \in {"loop", "send"} => Unread(r) <= lag[r]

Follow == \A r \in Readers : FollowAt(r)

(* Nobody is behind at the start.                                           *)
LEMMA FollowInit == Init => Follow
  BY DEF Init, Follow, FollowAt, Following

(* A step that changes nothing Follow speaks of.                            *)
LEMMA FollowFrame ==
  ASSUME Follow,
         UNCHANGED <<SMIndex, head, lag, lapped, rpc, nSMIndex, nEventCount,
                     bOverflow>>
  PROVE  Follow'
  BY DEF Follow, FollowAt, Following, Unread

(* The index moves one slot on, or from the last slot to the first.         *)
LEMMA FollowAdvance ==
  ASSUME Control, Follow,
         \/ SMIndex = EventMax /\ Advance(0)
         \/ SMIndex < EventMax /\ Advance(SMIndex + 1)
  PROVE  Follow'
<1> USE DEF Control, TypeOK
<1>1. /\ head' = head + 1
      /\ lag' = [r \in Readers |-> IF rpc[r] = "start" THEN 0 ELSE lag[r] + 1]
      /\ lapped' = [r \in Readers |-> lapped[r] \/ lag'[r] > EventMax]
      /\ UNCHANGED <<rpc, nSMIndex, nEventCount, bOverflow>>
      /\ \/ SMIndex = EventMax /\ SMIndex' = 0
         \/ SMIndex < EventMax /\ SMIndex' = SMIndex + 1
  BY DEF Advance, localVars
<1> SUFFICES ASSUME NEW r \in Readers
             PROVE  FollowAt(r)'
  BY DEF Follow
<1>2. /\ SMIndex \in -1 .. EventMax /\ nSMIndex[r] \in -1 .. EventMax
      /\ lag[r] \in Int /\ head \in Nat
      /\ nEventCount[r] \in Int
  BY DEF WriterTypes, ReaderTypes, HistoryTypes, Slots
<1>3. rpc'[r] = "start" => lag'[r] = 0 /\ ~lapped'[r]
  <2>1. CASE rpc[r] = "start"
    <3>1. lag'[r] = 0 /\ ~lapped[r]
      BY <1>1, <2>1 DEF Follow, FollowAt
    <3>2. lapped'[r] <=> (lapped[r] \/ lag'[r] > EventMax)
      BY <1>1
    <3> QED
      BY <3>1, <3>2
  <2> QED
    BY <1>1, <2>1
<1>4. lag'[r] <= head'
  BY <1>1, <1>2 DEF Follow, FollowAt
<1>5. ASSUME Following(r)'
      PROVE  /\ lag'[r] = lag[r] + 1 /\ lag[r] + 1 <= EventMax
             /\ Following(r)
  <2>1. rpc[r] # "start" /\ ~lapped'[r]
    BY <1>1, <1>5 DEF Following
  <2>2. lag'[r] = lag[r] + 1
    BY <1>1, <2>1
  <2>3. ~lapped[r] /\ ~(lag'[r] > EventMax)
    BY <1>1, <2>1
  <2> QED
    BY <1>2, <2>1, <2>2, <2>3 DEF Following
<1>6. ASSUME Following(r)'
      PROVE  /\ lag'[r] \in 0 .. EventMax
             /\ SMIndex' - nSMIndex'[r] \in
                  {lag'[r], lag'[r] - (EventMax + 1)}
             /\ bOverflow'[r] =>
                  SMIndex' - nSMIndex'[r] = lag'[r] - (EventMax + 1)
             /\ rpc'[r] \in {"loop", "send"} => Unread(r)' <= lag'[r]
  <2>1. /\ lag[r] \in 0 .. EventMax - 1
        /\ SMIndex - nSMIndex[r] \in {lag[r], lag[r] - (EventMax + 1)}
        /\ bOverflow[r] => SMIndex - nSMIndex[r] = lag[r] - (EventMax + 1)
        /\ rpc[r] \in {"loop", "send"} => Unread(r) <= lag[r]
    BY <1>2, <1>5, <1>6 DEF Follow, FollowAt
  <2>2. CASE SMIndex = EventMax
    BY <2>1, <2>2, <1>1, <1>2, <1>5, <1>6 DEF Unread
  <2>3. CASE SMIndex < EventMax
    BY <2>1, <2>3, <1>1, <1>2, <1>5, <1>6 DEF Unread
  <2> QED
    BY <2>2, <2>3, <1>2
<1> QED
  BY <1>3, <1>4, <1>6 DEF FollowAt

(* A writer's step keeps Follow: it puts every reader one event behind.     *)
LEMMA FollowWriter ==
  ASSUME Control, Follow, NEW w \in Writers, Writer(w)
  PROVE  Follow'
<1>1. CASE WriteEvent(w)
  BY <1>1, FollowFrame DEF WriteEvent, shmVars, localVars
<1>2. CASE ResetIndex(w)
  BY <1>2, FollowAdvance DEF ResetIndex, WriterAt, Control, WriterControl
<1>3. CASE LoadIndex(w)
  BY <1>3, FollowFrame DEF LoadIndex, shmVars, localVars
<1>4. CASE StoreIndex(w)
  BY <1>4, FollowAdvance DEF StoreIndex, WriterAt, Control, WriterControl
<1>5. CASE CopyEvent(w)
  BY <1>5, FollowFrame DEF CopyEvent, localVars
<1> QED
  BY <1>1, <1>2, <1>3, <1>4, <1>5 DEF Writer

(* A reader's step keeps Follow, over the end of its private index too.     *)
LEMMA FollowReader ==
  ASSUME Control, Follow, NEW r \in Readers, Reader(r)
  PROVE  Follow'
<1> USE DEF Control, TypeOK
<1>1. /\ SMIndex \in -1 .. EventMax /\ nSMIndex[r] \in -1 .. EventMax
      /\ lag[r] \in Int /\ head \in Nat /\ nEventCount[r] \in Int
      /\ FollowAt(r)
  BY DEF WriterTypes, ReaderTypes, HistoryTypes, Slots, Follow
<1>2. UNCHANGED <<SMIndex, head, lapped>>
  BY DEF Reader, ReadLoop, ReaderStart, Spin, CheckSMIndexChanged, CountEvents,
    ReadNext, SendEvent, EndBatch, TakeEvent, vars, shmVars
<1>3. ASSUME NEW q \in Readers, q # r
      PROVE  FollowAt(q)'
  <2>1. UNCHANGED <<lag[q], rpc[q], nSMIndex[q], nEventCount[q], bOverflow[q]>>
    BY <1>3 DEF Reader, ReadLoop, ReaderStart, Spin, CheckSMIndexChanged,
      CountEvents, ReadNext, SendEvent, EndBatch, TakeEvent, ReaderAt, vars,
      localVars, ReaderTypes, HistoryTypes
  <2> QED
    BY <1>2, <1>3, <2>1 DEF Follow, FollowAt, Following, Unread
<1>4. FollowAt(r)'
  <2> USE DEF FollowAt, Following, Unread
  <2>1. CASE ReaderStart(r)
    <3>1. /\ lag[r] = 0 /\ lag' = lag /\ nSMIndex'[r] = SMIndex
          /\ rpc'[r] = "check" /\ bOverflow' = bOverflow /\ ~bOverflow[r]
      BY <2>1, <1>1 DEF ReaderStart, ReaderAt, localVars, ReaderTypes,
        ReaderControl
    <3> QED
      BY <1>1, <1>2, <3>1
  <2>2. CASE Spin(r)
    BY <1>1, <2>2 DEF Spin, vars, shmVars, localVars
  <2>3. CASE CheckSMIndexChanged(r)
    BY <1>1, <1>2, <2>3 DEF CheckSMIndexChanged, ReaderAt, localVars, ReaderTypes
  <2>4. CASE CountEvents(r)
    BY <1>1, <1>2, <2>4 DEF CountEvents, ReaderAt, ReaderTypes, ReaderControl
  <2>5. CASE ReadNext(r)
    <3>1. /\ UNCHANGED <<nEventCount, bOverflow>>
          /\ rpc[r] = "loop" /\ nEventCount[r] > 0 /\ rpc'[r] = "send"
          /\ nSMIndex'[r] = nSMIndex[r] + 1 /\ lag'[r] = lag[r] - 1
      BY <2>5 DEF ReadNext, ReaderAt, ReaderTypes, HistoryTypes
    <3> QED
      BY <1>1, <1>2, <3>1
  <2>6. CASE SendEvent(r)
    BY <1>1, <1>2, <2>6 DEF SendEvent, ReaderAt, ReaderTypes
  <2>7. CASE EndBatch(r)
    <3>1. /\ rpc[r] = "loop" /\ rpc'[r] = "check" /\ nEventCount[r] <= 0
          /\ lag' = lag /\ ~bOverflow'[r]
          /\ nSMIndex'[r] = IF bOverflow[r] THEN -1 ELSE nSMIndex[r]
      BY <2>7 DEF EndBatch, ReaderAt, ReaderTypes
    <3>2. bOverflow[r] => nSMIndex[r] = EventMax
      BY <3>1, <1>1 DEF ReaderControl, ReaderTypes
    <3> QED
      BY <1>1, <1>2, <3>1, <3>2
  <2>8. CASE TakeEvent(r)
    BY <1>1, <1>2, <2>8 DEF TakeEvent
  <2> QED
    BY <2>1, <2>2, <2>3, <2>4, <2>5, <2>6, <2>7, <2>8 DEF Reader, ReadLoop
<1> QED
  BY <1>3, <1>4 DEF Follow

(* Every step keeps Follow.                                                 *)
LEMMA FollowNext ==
  ASSUME Control, Follow, [Next]_vars
  PROVE  Follow'
<1>1. CASE UNCHANGED vars
  BY <1>1, FollowFrame DEF vars, shmVars, localVars
<1>2. CASE \E w \in Writers : Writer(w)
  BY <1>2, FollowWriter
<1>3. CASE \E r \in Readers : Reader(r)
  BY <1>3, FollowReader
<1> QED
  BY <1>1, <1>2, <1>3 DEF Next, Reader

(* The readers' private indexes stay in step with the shared one over every *)
(* wrap, and a batch of ThreadSMCheck never runs ahead of the writer,       *)
(* whatever the size of the ring.                                           *)
THEOREM IndexesInStep ==
  ASSUME SingleWriter
  PROVE  Spec => []IndexInStep
<1>1. Control /\ Follow => IndexInStep
  BY DEF Control, ReaderControl, Follow, FollowAt, IndexInStep
<1> QED
  BY <1>1, ControlInit, ControlNext, FollowInit, FollowNext, PTL DEF Spec

-----------------------------------------------------------------------------
(* 3. Filled                                                                *)

Copying == \E w \in Writers : wpc[w] = "copy"

(* The number of the event that slot s holds once no copy is under way.     *)
Position(s) == head - SMIndex + s - (IF s <= SMIndex THEN 0 ELSE EventMax + 1)

Filled ==
  /\ SMIndex < head
  /\ \A w \in Writers :
       /\ wpc[w] = "idle" => raised = head
       /\ wpc[w] \in {"reset", "load", "store"} =>
            raised = head + 1 /\ wdata[w] = head + 1
       /\ wpc[w] = "copy" => raised = head /\ wdata[w] = head
  /\ \A s \in Slots :
       \/ event[s] = IF Position(s) > 0 THEN Position(s) ELSE 0
       \/ s = SMIndex /\ Copying

(* No slot is due at the start.                                             *)
LEMMA FilledInit == Init => Filled
  BY DEF Init, Filled, Position, Copying, Slots

(* Readers write nothing that Filled speaks of.                             *)
LEMMA FilledFrame ==
  ASSUME Filled, UNCHANGED <<SMIndex, event, raised, wpc, wdata, head>>
  PROVE  Filled'
  BY DEF Filled, Position, Copying

(* A writer fills the slot it has advanced SMIndex to.                      *)
LEMMA FilledWriter ==
  ASSUME SingleWriter, Control, Filled, NEW w \in Writers, Writer(w)
  PROVE  Filled'
<1> USE DEF Control, TypeOK
<1>0. /\ SMIndex \in -1 .. EventMax /\ head \in Nat /\ raised \in Nat
      /\ wpc \in [Writers -> {"idle", "reset", "load", "store", "copy"}]
      /\ wdata \in [Writers -> Nat]
      /\ \A v \in Writers : v = w
  BY DEF WriterTypes, HistoryTypes, Slots, SingleWriter
<1>1. CASE WriteEvent(w)
  <2>1. /\ UNCHANGED <<SMIndex, event, head>>
        /\ raised' = raised + 1 /\ wdata'[w] = raised' /\ wpc[w] = "idle"
        /\ wpc'[w] \in {"reset", "load"}
    BY <1>0, <1>1 DEF WriteEvent, WriterAt, shmVars
  <2>2. ~Copying /\ ~Copying'
    BY <1>0, <2>1 DEF Copying
  <2> QED
    BY <1>0, <2>1, <2>2 DEF Filled, Position
<1>2. CASE ResetIndex(w)
  <2>1. /\ UNCHANGED <<event, raised, wdata>>
        /\ SMIndex = EventMax /\ SMIndex' = 0 /\ head' = head + 1
        /\ wpc[w] = "reset" /\ wpc'[w] = "copy"
    BY <1>0, <1>2 DEF ResetIndex, WriterAt, Advance, WriterControl
  <2>2. ~Copying /\ Copying'
    BY <1>0, <2>1 DEF Copying
  <2>3. ASSUME NEW s \in Slots, s # 0
        PROVE  event'[s] = (IF Position(s)' > 0 THEN Position(s)' ELSE 0)
    <3>1. /\ Position(s) = head - EventMax + s
          /\ Position(s)' = head + 1 + s - (EventMax + 1)
      BY <1>0, <2>1, <2>3 DEF Position, Slots
    <3>2. event[s] = IF Position(s) > 0 THEN Position(s) ELSE 0
      BY <2>2 DEF Filled
    <3> QED
      BY <1>0, <2>1, <3>1, <3>2 DEF Slots
  <2> QED
    BY <1>0, <2>1, <2>2, <2>3 DEF Filled
<1>3. CASE LoadIndex(w)
  <2>1. /\ UNCHANGED <<SMIndex, event, raised, wdata, head>>
        /\ wpc[w] = "load" /\ wpc'[w] = "store"
    BY <1>0, <1>3 DEF LoadIndex, WriterAt, shmVars
  <2>2. ~Copying /\ ~Copying'
    BY <1>0, <2>1 DEF Copying
  <2> QED
    BY <1>0, <2>1, <2>2 DEF Filled, Position
<1>4. CASE StoreIndex(w)
  <2>1. /\ UNCHANGED <<event, raised, wdata>>
        /\ SMIndex < EventMax /\ SMIndex' = SMIndex + 1 /\ head' = head + 1
        /\ wpc[w] = "store" /\ wpc'[w] = "copy"
    BY <1>0, <1>4 DEF StoreIndex, WriterAt, Advance, WriterControl
  <2>2. ~Copying /\ Copying'
    BY <1>0, <2>1 DEF Copying
  <2>3. ASSUME NEW s \in Slots, s # SMIndex'
        PROVE  event'[s] = (IF Position(s)' > 0 THEN Position(s)' ELSE 0)
    <3>1. Position(s)' = Position(s)
      BY <1>0, <2>1, <2>3 DEF Position, Slots
    <3> QED
      BY <2>1, <2>2, <3>1 DEF Filled
  <2> QED
    BY <1>0, <2>1, <2>2, <2>3 DEF Filled
<1>5. CASE CopyEvent(w)
  <2>1. /\ UNCHANGED <<SMIndex, raised, wdata, head>>
        /\ wpc[w] = "copy" /\ wpc'[w] = "idle"
        /\ event' = [s \in Slots |-> IF s = SMIndex THEN wdata[w] ELSE event[s]]
    BY <1>0, <1>5 DEF CopyEvent, WriterAt
  <2>2. wdata[w] = head /\ raised = head /\ head > 0
    BY <1>0, <2>1 DEF Filled, WriterControl
  <2>3. ASSUME NEW s \in Slots
        PROVE  event'[s] = (IF Position(s)' > 0 THEN Position(s)' ELSE 0)
    <3>1. Position(s)' = Position(s)
      BY <2>1 DEF Position
    <3>2. CASE s = SMIndex
      BY <1>0, <2>1, <2>2, <3>1, <3>2 DEF Position
    <3>3. CASE s # SMIndex
      BY <2>1, <3>1, <3>3 DEF Filled
    <3> QED
      BY <3>2, <3>3
  <2> QED
    BY <1>0, <2>1, <2>2, <2>3 DEF Filled
<1> QED
  BY <1>1, <1>2, <1>3, <1>4, <1>5 DEF Writer

(* Every step keeps Filled.                                                 *)
LEMMA FilledNext ==
  ASSUME SingleWriter, Control, Filled, [Next]_vars
  PROVE  Filled'
<1>1. CASE UNCHANGED vars
  BY <1>1, FilledFrame DEF vars, shmVars, writerVars
<1>2. CASE \E w \in Writers : Writer(w)
  BY <1>2, FilledWriter
<1>3. CASE \E r \in Readers : Reader(r)
  BY <1>3, FilledFrame DEF Reader, ReadLoop, ReaderStart, Spin,
    CheckSMIndexChanged, CountEvents, ReadNext, SendEvent, EndBatch, TakeEvent,
    vars, shmVars, writerVars
<1> QED
  BY <1>1, <1>2, <1>3 DEF Next, Reader

(* What a reader that is not lapped copies is the event it is after, unless *)
(* that is the newest event and its copy into the ring is under way.        *)
LEMMA ReadIsFresh ==
  ASSUME Control, Follow, Filled, NEW r \in Readers, ReadNext(r), ~lapped[r]
  PROVE  \/ ringBuffer'[r][BufEntry(r)] = head - lag[r] + 1
         \/ lag[r] = 1 /\ Copying
<1> USE DEF Control, TypeOK
<1>1. /\ SMIndex \in -1 .. EventMax /\ nSMIndex[r] \in -1 .. EventMax
      /\ lag[r] \in Int /\ head \in Nat /\ nEventCount[r] \in Int
      /\ rpc[r] = "loop" /\ nEventCount[r] > 0
  BY DEF WriterTypes, ReaderTypes, HistoryTypes, Slots, ReadNext, ReaderAt
<1> DEFINE s == nSMIndex[r] + 1
<1>2. s \in Slots /\ SMIndex >= 0
  BY <1>1 DEF ReaderControl, Unread, Slots
<1>3. /\ lag[r] \in 1 .. EventMax /\ lag[r] <= head
      /\ SMIndex - nSMIndex[r] \in {lag[r], lag[r] - (EventMax + 1)}
  BY <1>1 DEF Follow, FollowAt, Following, Unread
<1>4. Position(s) = head - lag[r] + 1
  BY <1>1, <1>3 DEF Position
<1>5. ringBuffer'[r][BufEntry(r)] = event[s]
  <2>1. BufEntry(r) \in BufSlots
    BY DEF BufEntry, BufSlots, ReaderTypes
  <2>2. ringBuffer'[r][BufEntry(r)] =
          ReadEventBuf(s, ringBuffer[r][BufEntry(r)])
    BY <2>1 DEF ReadNext, ReaderTypes
  <2> QED
    BY <1>2, <2>2 DEF ReadEventBuf
<1>6. s = SMIndex => lag[r] = 1
  BY <1>1, <1>3
<1> QED
  BY <1>1, <1>2, <1>3, <1>4, <1>5, <1>6 DEF Filled

(* A stale copy can only be one of the newest event, taken between the two  *)
(* steps of WriteEventToSharedMemory.                                       *)
THEOREM StaleReads ==
  ASSUME SingleWriter
  PROVE  Spec => StaleOnlyDuringCopy
<1>1. Control /\ Follow /\ Filled /\ [Next]_vars =>
        [\A r \in Readers : ReadNext(r) /\ ~lapped[r] =>
           \/ ringBuffer'[r][BufEntry(r)] = head - lag[r] + 1
           \/ lag[r] = 1 /\ \E w \in Writers : wpc[w] = "copy"]_vars
  BY ReadIsFresh DEF Copying
<1> QED
  BY <1>1, ControlInit, ControlNext, FollowInit, FollowNext, FilledInit,
    FilledNext, PTL DEF Spec, StaleOnlyDuringCopy

-----------------------------------------------------------------------------
(* 4. Pointers                                                              *)

(* How many copies the reader has made after that of the j-th pointer.      *)
CopiesAfter(r, j) ==
  Len(sendQueue[r]) - j + (IF rpc[r] = "send" THEN 1 ELSE 0)

(* The entry of ringBuffer written d copies before the last one.            *)
EntryBefore(r, d) ==
  IF nBufPos[r] - 1 - d >= 0 THEN nBufPos[r] - 1 - d
  ELSE nBufPos[r] - 1 - d + EventMax

PointerAt(r, j) ==
  /\ nBufPos[r] > 0
  /\ CopiesAfter(r, j) < EventMax =>
       /\ sendQueue[r][j].buf = EntryBefore(r, CopiesAfter(r, j))
       /\ ringBuffer[r][sendQueue[r][j].buf] = sendQueue[r][j].got

Pointers ==
  \A r \in Readers : \A j \in 1 .. Len(sendQueue[r]) : PointerAt(r, j)

(* Nothing is queued at the start.                                          *)
LEMMA PointersInit == Init => Pointers
  BY DEF Init, Pointers

(* A step that makes no copy and leaves the queue alone.                    *)
LEMMA PointerFrame ==
  ASSUME NEW r \in Readers, NEW j \in 1 .. Len(sendQueue[r]), PointerAt(r, j),
         UNCHANGED <<nBufPos[r], ringBuffer[r], sendQueue[r]>>,
         (rpc[r] = "send") <=> (rpc'[r] = "send")
  PROVE  PointerAt(r, j)'
<1>1. CopiesAfter(r, j)' = CopiesAfter(r, j)
  BY DEF CopiesAfter
<1>2. EntryBefore(r, CopiesAfter(r, j))' = EntryBefore(r, CopiesAfter(r, j))
  BY <1>1 DEF EntryBefore
<1> QED
  BY <1>1, <1>2 DEF PointerAt

(* A new copy overwrites the one EventMax entries older, no other.          *)
LEMMA PointersRead ==
  ASSUME Control, NEW r \in Readers, ReadNext(r),
         NEW j \in 1 .. Len(sendQueue[r]), PointerAt(r, j)
  PROVE  PointerAt(r, j)'
<1> USE DEF Control, TypeOK
<1>1. /\ sendQueue' = sendQueue /\ rpc[r] = "loop" /\ rpc'[r] = "send"
      /\ nBufPos'[r] = BufEntry(r) + 1
      /\ \A b \in BufSlots : b # BufEntry(r) =>
           ringBuffer'[r][b] = ringBuffer[r][b]
  BY DEF ReadNext, ReaderAt, ReaderTypes
<1>2. /\ nBufPos[r] \in 1 .. EventMax
      /\ BufEntry(r) = (IF nBufPos[r] = EventMax THEN 0 ELSE nBufPos[r])
  BY DEF BufEntry, ReaderTypes, PointerAt
<1>3. sendQueue[r] \in Seq(QueueEntry) /\ Len(sendQueue[r]) \in Nat
  BY DEF QueueTypes
<1>4. CopiesAfter(r, j)' = CopiesAfter(r, j) + 1 /\ CopiesAfter(r, j) \in Nat
  BY <1>1, <1>3 DEF CopiesAfter
<1>5. CASE CopiesAfter(r, j)' < EventMax
  <2>1. /\ sendQueue[r][j].buf = EntryBefore(r, CopiesAfter(r, j))
        /\ ringBuffer[r][sendQueue[r][j].buf] = sendQueue[r][j].got
    BY <1>4, <1>5 DEF PointerAt
  <2>2. EntryBefore(r, CopiesAfter(r, j))' = EntryBefore(r, CopiesAfter(r, j))
    BY <1>1, <1>2, <1>4, <1>5 DEF EntryBefore
  <2>3. /\ EntryBefore(r, CopiesAfter(r, j)) \in BufSlots
        /\ EntryBefore(r, CopiesAfter(r, j)) # BufEntry(r)
    BY <1>2, <1>4, <1>5 DEF EntryBefore, BufSlots
  <2> QED
    BY <1>1, <1>2, <2>1, <2>2, <2>3 DEF PointerAt
<1>6. CASE ~(CopiesAfter(r, j)' < EventMax)
  BY <1>1, <1>2, <1>6 DEF PointerAt
<1> QED
  BY <1>5, <1>6

(* SendEvent queues the pointer to the newest copy.                         *)
LEMMA PointersSend ==
  ASSUME Control, NEW r \in Readers, SendEvent(r),
         \A j \in 1 .. Len(sendQueue[r]) : PointerAt(r, j),
         NEW j \in 1 .. Len(sendQueue'[r])
  PROVE  PointerAt(r, j)'
<1> USE DEF Control, TypeOK
<1> DEFINE e == [buf |-> nBufPos[r] - 1, due |-> head - lag[r],
                 got |-> ringBuffer[r][nBufPos[r] - 1]]
<1>1. /\ sendQueue'[r] = Append(sendQueue[r], e)
      /\ rpc[r] = "send" /\ rpc'[r] = "loop"
      /\ nBufPos' = nBufPos /\ ringBuffer' = ringBuffer
      /\ nBufPos[r] \in 1 .. EventMax
  BY DEF SendEvent, ReaderAt, ReaderTypes, QueueTypes, ReaderControl
<1>2. e \in QueueEntry
  <2>1. nBufPos[r] - 1 \in BufSlots
    BY <1>1 DEF BufSlots
  <2>2. ringBuffer[r][nBufPos[r] - 1] \in Nat
    BY <2>1 DEF ReaderTypes
  <2> QED
    BY <2>1, <2>2 DEF HistoryTypes, QueueEntry
<1>3. e.buf = nBufPos[r] - 1 /\ e.got = ringBuffer[r][nBufPos[r] - 1]
  OBVIOUS
<1> HIDE DEF e
<1>4. /\ sendQueue[r] \in Seq(QueueEntry) /\ Len(sendQueue[r]) \in Nat
      /\ Len(sendQueue'[r]) = Len(sendQueue[r]) + 1
      /\ \A i \in 1 .. Len(sendQueue[r]) : sendQueue'[r][i] = sendQueue[r][i]
      /\ sendQueue'[r][Len(sendQueue[r]) + 1] = e
  BY <1>1, <1>2, AppendProperties DEF QueueTypes
<1>5. CASE j \in 1 .. Len(sendQueue[r])
  <2>1. CopiesAfter(r, j)' = CopiesAfter(r, j)
    BY <1>1, <1>4, <1>5 DEF CopiesAfter
  <2>2. EntryBefore(r, CopiesAfter(r, j))' = EntryBefore(r, CopiesAfter(r, j))
    BY <1>1, <2>1 DEF EntryBefore
  <2> QED
    BY <1>1, <1>4, <1>5, <2>1, <2>2 DEF PointerAt
<1>6. CASE j = Len(sendQueue[r]) + 1
  <2>1. CopiesAfter(r, j)' = 0
    BY <1>1, <1>4, <1>6 DEF CopiesAfter
  <2>2. EntryBefore(r, CopiesAfter(r, j))' = nBufPos[r] - 1
    BY <1>1, <2>1 DEF EntryBefore
  <2> QED
    BY <1>1, <1>3, <1>4, <1>6, <2>2 DEF PointerAt
<1> QED
  BY <1>4, <1>5, <1>6

(* Taking the oldest pointer leaves the others in place.                    *)
LEMMA PointersTake ==
  ASSUME Control, NEW r \in Readers, TakeEvent(r),
         \A j \in 1 .. Len(sendQueue[r]) : PointerAt(r, j),
         NEW j \in 1 .. Len(sendQueue'[r])
  PROVE  PointerAt(r, j)'
<1> USE DEF Control, TypeOK
<1>1. /\ sendQueue[r] # <<>> /\ sendQueue'[r] = Tail(sendQueue[r])
      /\ sendQueue[r] \in Seq(QueueEntry) /\ Len(sendQueue[r]) \in Nat
      /\ rpc' = rpc /\ nBufPos' = nBufPos /\ ringBuffer' = ringBuffer
  BY DEF TakeEvent, QueueTypes
<1>2. /\ Len(sendQueue'[r]) = Len(sendQueue[r]) - 1
      /\ sendQueue'[r][j] = sendQueue[r][j + 1]
      /\ j + 1 \in 1 .. Len(sendQueue[r])
      /\ j \in Nat
  BY <1>1, HeadTailProperties
<1>3. CopiesAfter(r, j)' = CopiesAfter(r, j + 1)
  <2>1. Len(sendQueue'[r]) - j = Len(sendQueue[r]) - (j + 1)
    BY <1>1, <1>2
  <2>2. rpc'[r] = rpc[r]
    BY <1>1
  <2> QED
    BY <2>1, <2>2 DEF CopiesAfter
<1>4. EntryBefore(r, CopiesAfter(r, j))' = EntryBefore(r, CopiesAfter(r, j + 1))
  BY <1>1, <1>3 DEF EntryBefore
<1> QED
  BY <1>1, <1>2, <1>3, <1>4 DEF PointerAt

(* Every step keeps Pointers.                                               *)
LEMMA PointersNext ==
  ASSUME Control, Pointers, [Next]_vars
  PROVE  Pointers'
<1> USE DEF Control, TypeOK
<1> SUFFICES ASSUME NEW r \in Readers, NEW j \in 1 .. Len(sendQueue'[r])
             PROVE  PointerAt(r, j)'
  BY DEF Pointers
<1>0. \A i \in 1 .. Len(sendQueue[r]) : PointerAt(r, i)
  BY DEF Pointers
<1>1. ASSUME UNCHANGED <<nBufPos[r], ringBuffer[r], sendQueue[r]>>,
             (rpc[r] = "send") <=> (rpc'[r] = "send")
      PROVE  PointerAt(r, j)'
  BY <1>0, <1>1, PointerFrame
<1>2. CASE UNCHANGED vars
  BY <1>1, <1>2 DEF vars, localVars
<1>3. CASE \E w \in Writers : Writer(w)
  BY <1>1, <1>3 DEF Writer, WriteEvent, ResetIndex, LoadIndex, StoreIndex,
    CopyEvent, Advance, localVars
<1>4. ASSUME NEW q \in Readers, q # r, Reader(q)
      PROVE  PointerAt(r, j)'
  BY <1>1, <1>4 DEF Reader, ReadLoop, ReaderStart, Spin, CheckSMIndexChanged,
    CountEvents, ReadNext, SendEvent, EndBatch, TakeEvent, ReaderAt, vars,
    localVars, ReaderTypes, QueueTypes
<1>5. CASE ReaderStart(r) \/ Spin(r) \/ CheckSMIndexChanged(r)
  BY <1>1, <1>5 DEF ReaderStart, Spin, CheckSMIndexChanged, ReaderAt, vars,
    localVars, ReaderTypes
<1>6. CASE CountEvents(r) \/ EndBatch(r)
  BY <1>1, <1>6 DEF CountEvents, EndBatch, ReaderAt, ReaderTypes
<1>7. CASE ReadNext(r)
  BY <1>0, <1>7, PointersRead DEF ReadNext
<1>8. CASE SendEvent(r)
  BY <1>0, <1>8, PointersSend
<1>9. CASE TakeEvent(r)
  BY <1>0, <1>9, PointersTake
<1> QED
  BY <1>2, <1>3, <1>4, <1>5, <1>6, <1>7, <1>8, <1>9 DEF Next, Reader, ReadLoop

(* The pointer of a queued event points at the copy made for it until       *)
(* EventMax further events are copied, for every size of the ring.          *)
THEOREM PointersIntact ==
  ASSUME SingleWriter
  PROVE  Spec => []PointerIntact
<1>1. Control /\ Pointers => PointerIntact
  BY DEF Control, TypeOK, QueueTypes, Pointers, PointerAt, CopiesAfter,
    PointerIntact
<1> QED
  BY <1>1, ControlInit, ControlNext, PointersInit, PointersNext, PTL DEF Spec

-----------------------------------------------------------------------------
(* 5. The feed                                                              *)

(* The initial states of the ring are initial states of the feed.           *)
LEMMA FeedInitially == Init => Feed!FeedInit
  BY DEF Init, Feed!FeedInit, FeedCursor, Handed, FeedStatus, Following

(* A step that changes what one reader has been handed.                     *)
LEMMA FeedMove ==
  ASSUME NEW r \in Readers, NEW c, Handed(r)' = c,
         \A q \in Readers : q # r => Handed(q)' = Handed(q)
  PROVE  FeedCursor' = [FeedCursor EXCEPT ![r] = c]
<1> DEFINE Next_(q) == Handed(q)'
<1>1. \A q \in Readers : Next_(q) = IF q = r THEN c ELSE Handed(q)
  OBVIOUS
<1>2. FeedCursor' = [q \in Readers |-> Next_(q)]
  BY DEF FeedCursor
<1> HIDE DEF Next_
<1> QED
  BY <1>1, <1>2 DEF FeedCursor

(* An advance of the index is one more event of the feed.                   *)
LEMMA FeedPublish ==
  ASSUME Control, Follow, NEW index, Advance(index)
  PROVE  Feed!Publish
<1> USE DEF Control, TypeOK
<1> DEFINE Dropped == {r \in Readers : Following(r) /\ lapped'[r]}
           Gone(r) == r \in Dropped
<1>1. /\ head' = head + 1 /\ head \in Nat
      /\ lag' = [r \in Readers |-> IF rpc[r] = "start" THEN 0 ELSE lag[r] + 1]
      /\ lapped' = [r \in Readers |-> lapped[r] \/ lag'[r] > EventMax]
      /\ rpc' = rpc
  BY DEF Advance, HistoryTypes
<1>2. ASSUME NEW r \in Readers
      PROVE  /\ lag[r] \in Int
             /\ rpc[r] # "start" => lag'[r] = lag[r] + 1
             /\ lapped'[r] <=> (lapped[r] \/ lag'[r] > EventMax)
  BY <1>1 DEF HistoryTypes
<1>3. Dropped \in SUBSET {r \in Readers : /\ FeedStatus[r] = "live"
                                          /\ head' - FeedCursor[r] > EventMax}
  <2> SUFFICES ASSUME NEW r \in Dropped
               PROVE  /\ FeedStatus[r] = "live"
                      /\ head' - FeedCursor[r] > EventMax
    OBVIOUS
  <2>1. FeedStatus[r] = "live"
    BY DEF FeedStatus, Following
  <2>2. lag'[r] = lag[r] + 1 /\ lag'[r] > EventMax
    BY <1>2 DEF Following
  <2>3. FeedCursor[r] = head - lag[r] - (IF rpc[r] = "send" THEN 1 ELSE 0)
    BY DEF FeedCursor, Handed
  <2> QED
    BY <1>1, <1>2, <2>1, <2>2, <2>3
<1>4. FeedStatus' = [r \in Readers |->
                       IF r \in Dropped THEN "overrun" ELSE FeedStatus[r]]
  <2>1. ASSUME NEW r \in Readers
        PROVE  (IF rpc'[r] = "start" THEN "off"
                ELSE IF lapped'[r] THEN "overrun" ELSE "live")
               = IF Gone(r) THEN "overrun" ELSE FeedStatus[r]
    <3>1. CASE rpc[r] = "start"
      BY <1>1, <3>1 DEF FeedStatus, Following
    <3>2. CASE rpc[r] # "start" /\ lapped[r]
      BY <1>1, <1>2, <3>2 DEF FeedStatus, Following
    <3>3. CASE rpc[r] # "start" /\ ~lapped[r]
      BY <1>1, <1>2, <3>3 DEF FeedStatus, Following
    <3> QED
      BY <3>1, <3>2, <3>3
  <2> QED
    BY <2>1 DEF FeedStatus
<1>5. FeedCursor' = [r \in Readers |->
                       IF r \in Dropped THEN 0 ELSE FeedCursor[r]]
  <2>1. ASSUME NEW r \in Readers
        PROVE  FeedCursor'[r] = IF Gone(r) THEN 0 ELSE FeedCursor[r]
    <3>1. Following(r)' <=> Following(r) /\ ~Gone(r)
      BY <1>1, <1>2 DEF Following
    <3>2. CASE Following(r)'
      BY <1>1, <1>2, <3>1, <3>2 DEF FeedCursor, Handed, Following
    <3>3. CASE ~Following(r)' /\ Following(r)
      BY <3>1, <3>3 DEF FeedCursor, Handed
    <3>4. CASE ~Following(r)' /\ ~Following(r)
      BY <3>1, <3>4 DEF FeedCursor, Handed
    <3> QED
      BY <3>2, <3>3, <3>4
  <2> QED
    BY <2>1 DEF FeedCursor
<1> HIDE DEF Dropped, Gone
<1> QED
  BY <1>1, <1>3, <1>4, <1>5 DEF Feed!Publish

(* A step that moves no reader and no index is none of the feed.            *)
LEMMA FeedStutter ==
  ASSUME UNCHANGED <<head, lag, lapped>>,
         \A r \in Readers : /\ (rpc[r] = "start") <=> (rpc'[r] = "start")
                            /\ (rpc[r] = "send") <=> (rpc'[r] = "send")
  PROVE  UNCHANGED Feed!feedVars
<1>1. FeedStatus' = FeedStatus
  BY DEF FeedStatus
<1>2. FeedCursor' = FeedCursor
  BY DEF FeedCursor, Handed, Following
<1> QED
  BY <1>1, <1>2 DEF Feed!feedVars

(* Every step of the ring is a step of the feed or leaves it as it is.      *)
LEMMA FeedStep ==
  ASSUME Control, Follow, [Next]_vars
  PROVE  [Feed!FeedNext]_(Feed!feedVars)
<1> USE DEF Control, TypeOK
<1>1. CASE UNCHANGED vars
  BY <1>1, FeedStutter DEF vars
<1>2. ASSUME NEW w \in Writers, Writer(w)
      PROVE  Feed!Publish \/ UNCHANGED Feed!feedVars
  <2>1. CASE WriteEvent(w) \/ LoadIndex(w) \/ CopyEvent(w)
    BY <2>1, FeedStutter DEF WriteEvent, LoadIndex, CopyEvent
  <2>2. CASE ResetIndex(w) \/ StoreIndex(w)
    BY <2>2, FeedPublish DEF ResetIndex, StoreIndex
  <2> QED
    BY <1>2, <2>1, <2>2 DEF Writer
<1>3. ASSUME NEW r \in Readers, Reader(r)
      PROVE  Feed!Subscribe(r) \/ Feed!Deliver(r) \/ UNCHANGED Feed!feedVars
  <2>0. /\ \A q \in Readers : lag[q] \in Int
        /\ head \in Nat
    BY DEF HistoryTypes
  <2>1. CASE ReaderStart(r)
    <3>1. /\ UNCHANGED <<head, lag, lapped>>
          /\ rpc[r] = "start" /\ rpc' = [rpc EXCEPT ![r] = "check"]
          /\ lag[r] = 0 /\ ~lapped[r]
      BY <2>1 DEF ReaderStart, ReaderAt, Follow, FollowAt
    <3>2. FeedStatus[r] = "off"
      BY <3>1 DEF FeedStatus
    <3>3. FeedStatus' = [FeedStatus EXCEPT ![r] = "live"]
      BY <3>1 DEF FeedStatus, ReaderTypes
    <3>4. FeedCursor' = [FeedCursor EXCEPT ![r] = head]
      <4>1. Handed(r)' = head
        BY <2>0, <3>1 DEF Handed, Following, ReaderTypes
      <4>2. \A q \in Readers : q # r => Handed(q)' = Handed(q)
        BY <3>1 DEF Handed, Following, ReaderTypes
      <4> QED
        BY <4>1, <4>2, FeedMove
    <3> QED
      BY <3>1, <3>2, <3>3, <3>4 DEF Feed!Subscribe
  <2>2. CASE Spin(r) \/ TakeEvent(r)
    BY <2>2, FeedStutter DEF Spin, TakeEvent, vars
  <2>3. CASE CheckSMIndexChanged(r) \/ CountEvents(r) \/ EndBatch(r)
    BY <2>3, FeedStutter DEF CheckSMIndexChanged, CountEvents, EndBatch,
      ReaderAt, ReaderTypes
  <2>4. CASE ReadNext(r)
    <3>1. /\ UNCHANGED <<head, lapped>>
          /\ rpc[r] = "loop" /\ rpc' = [rpc EXCEPT ![r] = "send"]
          /\ lag' = [lag EXCEPT ![r] = @ - 1]
      BY <2>4 DEF ReadNext, ReaderAt
    <3>2. FeedStatus' = FeedStatus
      BY <3>1 DEF FeedStatus, ReaderTypes
    <3>3. FeedCursor' = FeedCursor
      <4>1. Handed(r)' = Handed(r)
        <5>1. lag'[r] = lag[r] - 1 /\ rpc'[r] = "send"
          BY <3>1 DEF ReaderTypes, HistoryTypes
        <5> QED
          BY <2>0, <3>1, <5>1 DEF Handed, Following
      <4>2. \A q \in Readers : q # r => Handed(q)' = Handed(q)
        BY <3>1 DEF Handed, Following, ReaderTypes, HistoryTypes
      <4>3. FeedCursor' = [FeedCursor EXCEPT ![r] = Handed(r)]
        BY <4>1, <4>2, FeedMove
      <4> QED
        BY <4>3 DEF FeedCursor
    <3> QED
      BY <3>1, <3>2, <3>3 DEF Feed!feedVars
  <2>5. CASE SendEvent(r)
    <3>1. /\ UNCHANGED <<head, lag, lapped>>
          /\ rpc[r] = "send" /\ rpc' = [rpc EXCEPT ![r] = "loop"]
      BY <2>5 DEF SendEvent, ReaderAt
    <3>2. FeedStatus' = FeedStatus
      BY <3>1 DEF FeedStatus, ReaderTypes
    <3>3. CASE lapped[r]
      <4>1. FeedCursor' = FeedCursor
        BY <2>0, <3>1, <3>3 DEF FeedCursor, Handed, Following, ReaderTypes
      <4> QED
        BY <3>1, <3>2, <4>1 DEF Feed!feedVars
    <3>4. CASE ~lapped[r]
      <4>1. FeedCursor' = [FeedCursor EXCEPT ![r] = @ + 1]
        <5>1. Handed(r)' = Handed(r) + 1
          BY <2>0, <3>1, <3>4 DEF Handed, Following, ReaderTypes
        <5>2. \A q \in Readers : q # r => Handed(q)' = Handed(q)
          BY <3>1 DEF Handed, Following, ReaderTypes
        <5>3. FeedCursor' = [FeedCursor EXCEPT ![r] = Handed(r) + 1]
          BY <5>1, <5>2, FeedMove
        <5> QED
          BY <5>3 DEF FeedCursor
      <4>2. FeedStatus[r] = "live"
        BY <3>1, <3>4 DEF FeedStatus
      <4>3. FeedCursor[r] < head
        BY <2>0, <3>1, <3>4 DEF FeedCursor, Handed, Follow, FollowAt, Following
      <4> QED
        BY <3>1, <3>2, <4>1, <4>2, <4>3 DEF Feed!Deliver
    <3> QED
      BY <3>3, <3>4
  <2> QED
    BY <1>3, <2>1, <2>2, <2>3, <2>4, <2>5 DEF Reader, ReadLoop
<1> QED
  BY <1>1, <1>2, <1>3 DEF Next, Reader, Feed!FeedNext

(* The ring implements the feed: for every size of the ring and any number  *)
(* of readers, each event is handed to each reader that is not lapped, once *)
(* and in order.                                                            *)
THEOREM RingImplementsFeed ==
  ASSUME SingleWriter
  PROVE  Spec => Feed!FeedSafety
<1> QED
  BY FeedInitially, FeedStep, ControlInit, ControlNext, FollowInit, FollowNext,
    PTL DEF Spec, Feed!FeedSafety
=============================================================================
