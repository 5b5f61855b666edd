----------------------------- MODULE EventRing -----------------------------
(***************************************************************************)
(* The event buffer in shared memory (Include/SM.cpp): Broker's threads    *)
(* write the receiver's events into it, the ThreadSMCheck thread of every  *)
(* SISender and of GFSServer polls the index of the last event, copies     *)
(* each new event into a ring of its own and queues a POINTER into that    *)
(* ring for the process' sending thread.                                   *)
(*                                                                         *)
(* No lock protects the buffer.  A step is at most one access to SMIndex   *)
(* or one copy of a slot, so every interleaving of the processes is a      *)
(* behaviour.  An event is the number of its raising, 1, 2, ...; 0 is a    *)
(* slot nobody has written.                                                *)
(***************************************************************************)
EXTENDS Integers, Sequences

CONSTANTS
  EventMax,   \* EVENT_MAX_COUNT
  Writers,    \* threads of Broker: the serial port's, the test dialog's
  Readers,    \* ThreadSMCheck threads, one per reading process
  MaxRaised   \* bound: how many events are raised

ASSUME EventMaxAssumption == EventMax \in Nat \ {0}
ASSUME MaxRaisedAssumption == MaxRaised \in Nat

(* The writer wraps after index EventMax, not EventMax - 1: it uses one     *)
(* slot more than event[] declares.  The last one lies behind the           *)
(* structure, in the same page of the mapping.                              *)
Slots    == 0 .. EventMax
BufSlots == 0 .. EventMax - 1

VARIABLES
  SMIndex,      \* index of the last event, -1 before the first
  event,        \* the slots
  raised,       \* number of events raised
  wpc, wreg, wdata,   \* each writer: where it is, its register, its event
  rpc,          \* each reader: where it is
  nSMIndex,     \* m_nSMIndex: index of the last event it has read
  nEventCount,  \* events of the current batch still to be read
  bOverflow,    \* the batch ends at the end of the buffer
  nBufPos,      \* next entry of ringBuffer
  ringBuffer,   \* its own copies
  sendQueue,    \* m_sendQueue: pointers into ringBuffer
  \* history, read by no action of the program:
  head,         \* number of times SMIndex was advanced
  lag,          \* of these, how many each reader has still to read
  lapped        \* has the writer ever been more than EventMax ahead of it?

shmVars    == <<SMIndex, event>>
writerVars == <<raised, wpc, wreg, wdata>>
localVars  == <<nEventCount, bOverflow, nBufPos, ringBuffer, sendQueue>>
vars == <<shmVars, writerVars, rpc, nSMIndex, localVars, head, lag, lapped>>

Init ==
  /\ SMIndex = -1
  /\ event = [s \in Slots |-> 0]
  /\ raised = 0
  /\ wpc = [w \in Writers |-> "idle"]
  /\ wreg = [w \in Writers |-> 0]
  /\ wdata = [w \in Writers |-> 0]
  /\ rpc = [r \in Readers |-> "start"]
  /\ nSMIndex = [r \in Readers |-> -1]
  /\ nEventCount = [r \in Readers |-> 0]
  /\ bOverflow = [r \in Readers |-> FALSE]
  /\ nBufPos = [r \in Readers |-> 0]
  /\ ringBuffer = [r \in Readers |-> [b \in BufSlots |-> 0]]
  /\ sendQueue = [r \in Readers |-> <<>>]
  /\ head = 0
  /\ lag = [r \in Readers |-> 0]
  /\ lapped = [r \in Readers |-> FALSE]

-----------------------------------------------------------------------------
(* CSM::WriteEventToSharedMemory                                            *)

WriterAt(w, from, to) ==
  /\ wpc[w] = from
  /\ wpc' = [wpc EXCEPT ![w] = to]

(* Mutant: the writer wraps one slot later.                                 *)
WriteEventLate(w) ==
  /\ raised < MaxRaised
  /\ raised' = raised + 1
  /\ wdata' = [wdata EXCEPT ![w] = raised']
  /\ WriterAt(w, "idle", IF SMIndex > EventMax THEN "reset" ELSE "load")
  /\ UNCHANGED <<shmVars, wreg, rpc, nSMIndex, localVars, head, lag, lapped>>

(* A call with a new event; the test of SMIndex picks the branch.           *)
WriteEvent(w) ==
  /\ raised < MaxRaised
  /\ raised' = raised + 1
  /\ wdata' = [wdata EXCEPT ![w] = raised']
  /\ WriterAt(w, "idle", IF SMIndex = EventMax THEN "reset" ELSE "load")
  /\ UNCHANGED <<shmVars, wreg, rpc, nSMIndex, localVars, head, lag, lapped>>

(* SMIndex takes a new value, and the readers are one event further behind. *)
Advance(index) ==
  /\ SMIndex' = index
  /\ head' = head + 1
  /\ lag' = [r \in Readers |-> IF rpc[r] = "start" THEN 0 ELSE lag[r] + 1]
  /\ lapped' = [r \in Readers |-> lapped[r] \/ lag'[r] > EventMax]
  /\ UNCHANGED <<event, raised, wdata, rpc, nSMIndex, localVars>>

ResetIndex(w) ==
  /\ WriterAt(w, "reset", "copy")
  /\ Advance(0)
  /\ UNCHANGED wreg

(* SMIndex++ is a load and a store.                                         *)
LoadIndex(w) ==
  /\ WriterAt(w, "load", "store")
  /\ wreg' = [wreg EXCEPT ![w] = SMIndex]
  /\ UNCHANGED <<shmVars, raised, wdata, rpc, nSMIndex, localVars,
                 head, lag, lapped>>

StoreIndex(w) ==
  /\ WriterAt(w, "store", "copy")
  /\ Advance(wreg[w] + 1)
  /\ UNCHANGED wreg

(* The memcpy reads SMIndex again.  A copy to an index outside Slots lands  *)
(* in memory that is not part of this model.                                *)
CopyEvent(w) ==
  /\ WriterAt(w, "copy", "idle")
  /\ event' = [s \in Slots |-> IF s = SMIndex THEN wdata[w] ELSE event[s]]
  /\ UNCHANGED <<SMIndex, raised, wreg, wdata, rpc, nSMIndex, localVars,
                 head, lag, lapped>>

-----------------------------------------------------------------------------
(* ThreadSMCheck                                                            *)

ReaderAt(r, from, to) ==
  /\ rpc[r] = from
  /\ rpc' = [rpc EXCEPT ![r] = to]

ReaderStart(r) ==
  /\ ReaderAt(r, "start", "check")
  /\ nSMIndex' = [nSMIndex EXCEPT ![r] = SMIndex]
  /\ UNCHANGED <<shmVars, writerVars, localVars, head, lag, lapped>>

(* Mutant: only a larger index counts as a change.                          *)
CheckSMIndexGrown(r) ==
  /\ SMIndex > nSMIndex[r]
  /\ ReaderAt(r, "check", "count")
  /\ UNCHANGED <<shmVars, writerVars, nSMIndex, localVars, head, lag, lapped>>

(* CheckSMIndexChanged.  While nothing changed the thread spins.            *)
CheckSMIndexChanged(r) ==
  /\ SMIndex # nSMIndex[r]
  /\ ReaderAt(r, "check", "count")
  /\ UNCHANGED <<shmVars, writerVars, nSMIndex, localVars, head, lag, lapped>>

Spin(r) ==
  /\ rpc[r] = "check"
  /\ SMIndex = nSMIndex[r]
  /\ UNCHANGED vars

(* SMIndex is read a second time; an index behind the reader's own means    *)
(* that the writer has wrapped, and the batch goes to the end of the ring.  *)
CountEvents(r) ==
  /\ ReaderAt(r, "count", "loop")
  /\ LET ahead == SMIndex - nSMIndex[r] IN
       /\ nEventCount' = [nEventCount EXCEPT ![r] =
                            IF ahead < 0 THEN EventMax - nSMIndex[r] ELSE ahead]
       /\ bOverflow' = [bOverflow EXCEPT ![r] = @ \/ ahead < 0]
  /\ UNCHANGED <<shmVars, writerVars, nSMIndex, nBufPos, ringBuffer, sendQueue,
                 head, lag, lapped>>

(* Mutant: the newest slot is read instead of the reader's.                 *)
ReadEventBufNewest(index, old) == IF SMIndex \in Slots THEN event[SMIndex] ELSE old

(* CSM::ReadEventBufFromSharedMemory leaves the buffer alone when there is  *)
(* no event; an index behind Slots is outside this model.                   *)
ReadEventBuf(index, old) ==
  IF index \in Slots /\ SMIndex >= 0 THEN event[index] ELSE old

(* Mutant: the reader's ring is one entry shorter.                          *)
BufEntryShort(r) == IF nBufPos[r] >= EventMax - 1 THEN 0 ELSE nBufPos[r]

BufEntry(r) == IF nBufPos[r] = EventMax THEN 0 ELSE nBufPos[r]

ReadNext(r) ==
  /\ nEventCount[r] > 0
  /\ ReaderAt(r, "loop", "send")
  /\ nSMIndex' = [nSMIndex EXCEPT ![r] = @ + 1]
  /\ ringBuffer' = [ringBuffer EXCEPT ![r][BufEntry(r)] =
                      ReadEventBuf(nSMIndex[r] + 1, @)]
  /\ nBufPos' = [nBufPos EXCEPT ![r] = BufEntry(r) + 1]
  /\ lag' = [lag EXCEPT ![r] = @ - 1]
  /\ UNCHANGED <<shmVars, writerVars, nEventCount, bOverflow, sendQueue,
                 head, lapped>>

(* CEventSend::SendEvent queues the pointer.  With it the queue entry       *)
(* carries, as history, the number of the event the reader is after and     *)
(* the one it has copied.                                                   *)
SendEvent(r) ==
  /\ ReaderAt(r, "send", "loop")
  /\ sendQueue' = [sendQueue EXCEPT ![r] =
                     Append(@, [buf |-> nBufPos[r] - 1,
                                due |-> head - lag[r],
                                got |-> ringBuffer[r][nBufPos[r] - 1]])]
  /\ nEventCount' = [nEventCount EXCEPT ![r] = @ - 1]
  /\ UNCHANGED <<shmVars, writerVars, nSMIndex, bOverflow, nBufPos, ringBuffer,
                 head, lag, lapped>>

(* Mutant: the reader restarts at 0 and misses the slot of that index.      *)
EndBatchAtZero(r) ==
  /\ nEventCount[r] <= 0
  /\ ReaderAt(r, "loop", "check")
  /\ nSMIndex' = [nSMIndex EXCEPT ![r] = IF bOverflow[r] THEN 0 ELSE @]
  /\ bOverflow' = [bOverflow EXCEPT ![r] = FALSE]
  /\ UNCHANGED <<shmVars, writerVars, nEventCount, nBufPos, ringBuffer,
                 sendQueue, head, lag, lapped>>

EndBatch(r) ==
  /\ nEventCount[r] <= 0
  /\ ReaderAt(r, "loop", "check")
  /\ nSMIndex' = [nSMIndex EXCEPT ![r] = IF bOverflow[r] THEN -1 ELSE @]
  /\ bOverflow' = [bOverflow EXCEPT ![r] = FALSE]
  /\ UNCHANGED <<shmVars, writerVars, nEventCount, nBufPos, ringBuffer,
                 sendQueue, head, lag, lapped>>

(* The sending thread takes the oldest pointer.                             *)
TakeEvent(r) ==
  /\ sendQueue[r] # <<>>
  /\ sendQueue' = [sendQueue EXCEPT ![r] = Tail(@)]
  /\ UNCHANGED <<shmVars, writerVars, rpc, nSMIndex, nEventCount, bOverflow,
                 nBufPos, ringBuffer, head, lag, lapped>>

-----------------------------------------------------------------------------
Writer(w) ==
  \/ WriteEvent(w) \/ ResetIndex(w) \/ LoadIndex(w) \/ StoreIndex(w)
  \/ CopyEvent(w)

ReadLoop(r) ==
  \/ CheckSMIndexChanged(r) \/ CountEvents(r) \/ ReadNext(r) \/ SendEvent(r)
  \/ EndBatch(r)

Next ==
  \/ \E w \in Writers : Writer(w)
  \/ \E r \in Readers : ReaderStart(r) \/ Spin(r) \/ ReadLoop(r) \/ TakeEvent(r)

Spec == Init /\ [][Next]_vars

(* A reader's loop never blocks: it runs whenever the scheduler lets it.    *)
FairSpec == Spec /\ \A r \in Readers : WF_vars(ReadLoop(r))

-----------------------------------------------------------------------------
WriterTypes ==
  /\ SMIndex \in Slots \cup {-1}
  /\ event \in [Slots -> Nat]
  /\ raised \in 0 .. MaxRaised
  /\ wpc \in [Writers -> {"idle", "reset", "load", "store", "copy"}]
  /\ wreg \in [Writers -> Slots \cup {-1}]
  /\ wdata \in [Writers -> Nat]

ReaderTypes ==
  /\ rpc \in [Readers -> {"start", "check", "count", "loop", "send"}]
  /\ nSMIndex \in [Readers -> Slots \cup {-1}]
  /\ nEventCount \in [Readers -> 0 .. EventMax + 1]
  /\ bOverflow \in [Readers -> BOOLEAN]
  /\ nBufPos \in [Readers -> 0 .. EventMax]
  /\ ringBuffer \in [Readers -> [BufSlots -> Nat]]

QueueEntry == [buf : BufSlots, due : Int, got : Nat]

QueueTypes == sendQueue \in [Readers -> Seq(QueueEntry)]

HistoryTypes ==
  /\ head \in Nat
  /\ lag \in [Readers -> Int]
  /\ lapped \in [Readers -> BOOLEAN]

(* Types: every variable stays in its declared range, SMIndex included.     *)
TypeOK == WriterTypes /\ ReaderTypes /\ QueueTypes /\ HistoryTypes

(* Broker's serial thread alone writes.                                     *)
SingleWriter == \A v, w \in Writers : v = w

(* What CommonDefines.h says of EVENT_MAX_COUNT, the largest number of      *)
(* events: the index never passes it (WriteEventToSharedMemory wraps).      *)
IndexWithinMaximum == SMIndex <= EventMax

(* A reader the writer has not lapped.                                      *)
Following(r) == rpc[r] # "start" /\ ~lapped[r]

(* How many events of its batch the reader has still to read.               *)
Unread(r) == IF rpc[r] = "send" THEN nEventCount[r] - 1 ELSE nEventCount[r]

(* The reader's private index and the shared one stay in step over every    *)
(* wrap of either: their difference is the number of unread events, or that *)
(* number less one turn of the ring.  (CheckSMIndexChanged and the          *)
(* subtraction in ThreadSMCheck depend on it, and on the -1 that restarts   *)
(* the private index.)  A batch never runs ahead of the writer, and one that*)
(* is to end at the end of the ring ends exactly there (nEventCount).       *)
IndexInStep ==
  \A r \in Readers : Following(r) =>
    /\ lag[r] \in 0 .. EventMax
    /\ SMIndex - nSMIndex[r] \in {lag[r], lag[r] - (EventMax + 1)}
    /\ rpc[r] \in {"loop", "send"} =>
         /\ Unread(r) <= lag[r]
         /\ bOverflow[r] => nSMIndex[r] + Unread(r) = EventMax

(* The only wrong copy a reader can take from the ring is the one of the    *)
(* newest event while a writer has advanced SMIndex and not yet filled the  *)
(* slot (WriteEventToSharedMemory advances first).                          *)
StaleOnlyDuringCopy ==
  [][\A r \in Readers : ReadNext(r) /\ ~lapped[r] =>
       \/ ringBuffer'[r][BufEntry(r)] = head - lag[r] + 1
       \/ lag[r] = 1 /\ \E w \in Writers : wpc[w] = "copy"]_vars

(* A queued pointer still points at the copy made for it as long as fewer   *)
(* than EventMax events were copied after it: the ring of ThreadSMCheck     *)
(* is reused only behind the pointers the sending thread has taken.         *)
PointerIntact ==
  \A r \in Readers : \A j \in DOMAIN sendQueue[r] :
    Len(sendQueue[r]) - j + (IF rpc[r] = "send" THEN 1 ELSE 0) < EventMax =>
      ringBuffer[r][sendQueue[r][j].buf] = sendQueue[r][j].got

(* What SISenderDlg.h says of CheckSMIndexChanged: SMIndex is the index of  *)
(* the last event in the shared memory, so a reader that follows it copies  *)
(* the event it is after and no older content of the slot.                  *)
IndexedEventIsPresent ==
  \A r \in Readers : Following(r) =>
    \A j \in DOMAIN sendQueue[r] : sendQueue[r][j].got = sendQueue[r][j].due

-----------------------------------------------------------------------------
(* The ring implements the feed of EventFeed: every event is handed to      *)
(* every subscriber that is not lapped, once and in order, and a pending    *)
(* one is handed over eventually.  (It does not say WHAT the copy holds:    *)
(* that is StaleOnlyDuringCopy.)                                            *)
FeedStatus ==
  [r \in Readers |-> IF rpc[r] = "start" THEN "off"
                     ELSE IF lapped[r] THEN "overrun" ELSE "live"]

Handed(r) == IF Following(r)
             THEN head - lag[r] - (IF rpc[r] = "send" THEN 1 ELSE 0)
             ELSE 0

FeedCursor == [r \in Readers |-> Handed(r)]

Feed == INSTANCE EventFeed WITH cursor <- FeedCursor, status <- FeedStatus

FeedSpec == Feed!FeedSpec
=============================================================================
