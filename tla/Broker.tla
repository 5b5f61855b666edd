------------------------------- MODULE Broker -------------------------------
(***************************************************************************)
(* Broker between the fire receiver's serial port and the shared memory    *)
(* (Broker/SerialComm.cpp and the start, stop and timers of BrokerDlg.cpp).*)
(* The thread ThreadWatchComm cuts the bytes of the port into lines, copies*)
(* each into the ring m_pRingBuffer and writes it to the shared memory; the*)
(* dialog opens and closes the port, after an error by itself.             *)
(*                                                                         *)
(* Bytes are numbered as the receiver sends them; an event is the sequence *)
(* of the bytes of its line.  What the shared memory makes of an event is  *)
(* EventRing's.                                                            *)
(***************************************************************************)
EXTENDS Integers, Sequences, FiniteSets, SequencesExt

CONSTANTS
  BUFF_SIZE,   \* bytes of m_RecvBuff and of one read
  RingSize,    \* bytes of m_pRingBuffer
  Margin,      \* m_nRingBuffer starts anew within this many bytes of the end
  MaxBytes,    \* bound: bytes the receiver sends
  MaxBreaks,   \* bound: losses of the serial device and calls that fail for once
  MaxPosted    \* bound: errors posted to the dialog and not yet handled

ASSUME BrokerAssumption ==
  /\ {BUFF_SIZE, RingSize, Margin, MaxBytes, MaxBreaks, MaxPosted} \subseteq Nat
  /\ 0 < Margin /\ Margin <= BUFF_SIZE /\ BUFF_SIZE + 1 < RingSize

VARIABLES
  \* the dialog
  m_bStarted,
  gpc, after,  \* where it is; why Stop is under way
  timers,      \* those set: 2 ends a failed start, 3 and 10 start
  recent,      \* less than 7.5 s since g_dwErrorTime
  posted,      \* errors of the port in the dialog's message queue
  \* CSerialComm
  m_bConnected,
  m_hComm,     \* "none", "open", or "dead": open, its device lost
  m_hThreadWatchComm,  \* has it been set?
  m_RecvBuff, m_nRingBuffer,
  \* ThreadWatchComm
  wpc, pBuff,  \* where it is, bytes it has read and not yet looked at
  G_hShutdown_Event,
  \* outside
  present,     \* the serial device is there
  leaked,      \* a handle nobody can close has it open
  breaks,
  inQue,       \* received by the driver and not yet read
  sent, ends,  \* bytes the receiver has sent, and those that end a line
  events,      \* history: the events written to the shared memory
  cut,         \* history: bytes no event contains
  deaf,        \* history: the device was lost before the thread could wait
  fault        \* what damaged or hung the program, "none" so far

port       == <<m_bConnected, m_hComm, m_hThreadWatchComm, leaked>>
parsing    == <<m_RecvBuff, m_nRingBuffer, events>>
device     == <<present, breaks>>
stream     == <<sent, ends>>
dialog     == <<m_bStarted, gpc, after, timers, recent>>
watch      == <<wpc, pBuff>>
vars == <<dialog, posted, port, parsing, watch, G_hShutdown_Event, device,
          inQue, stream, cut, deaf, fault>>

Init ==
  /\ m_bStarted = FALSE /\ gpc = "idle" /\ after = "none"
  /\ timers = {3} /\ recent = FALSE /\ posted = 0
  /\ m_bConnected = FALSE /\ m_hComm = "none" /\ m_hThreadWatchComm = FALSE
  /\ m_RecvBuff = <<>> /\ m_nRingBuffer = 0
  /\ wpc = "none" /\ pBuff = <<>> /\ G_hShutdown_Event = FALSE
  /\ present \in BOOLEAN /\ leaked = FALSE /\ breaks = 0
  /\ inQue = <<>> /\ sent = 0 /\ ends = {}
  /\ events = <<>> /\ cut = {} /\ deaf = FALSE /\ fault = "none"

Runs == fault = "none"

-----------------------------------------------------------------------------
(* The receiver and the serial device                                       *)

(* Whether a byte that is lost ends a line makes no difference.             *)
Receive(isEnd) ==
  /\ Runs
  /\ present /\ sent < MaxBytes
  /\ sent' = sent + 1
  /\ ends' = IF isEnd THEN ends \cup {sent + 1} ELSE ends
  /\ IF m_hComm = "open"
     THEN inQue' = Append(inQue, sent + 1) /\ UNCHANGED cut
     ELSE ~isEnd /\ cut' = cut \cup {sent + 1} /\ UNCHANGED inQue
  /\ UNCHANGED <<dialog, posted, port, parsing, watch, G_hShutdown_Event,
                 device, deaf, fault>>

Break ==
  /\ Runs
  /\ present /\ breaks < MaxBreaks
  /\ present' = FALSE /\ breaks' = breaks + 1
  /\ m_hComm' = IF m_hComm = "open" THEN "dead" ELSE m_hComm
  /\ inQue' = <<>> /\ cut' = cut \cup ToSet(inQue)
  /\ UNCHANGED <<dialog, posted, m_bConnected, m_hThreadWatchComm, leaked,
                 parsing, watch, G_hShutdown_Event, stream, deaf, fault>>

Mend ==
  /\ Runs
  /\ ~present /\ present' = TRUE
  /\ UNCHANGED <<dialog, posted, port, parsing, watch, G_hShutdown_Event,
                 breaks, inQue, stream, cut, deaf, fault>>

-----------------------------------------------------------------------------
(* ThreadWatchComm                                                          *)

Watch(from) == Runs /\ wpc = from

(* The first SetCommMask: a thread that fails here ends without a word.     *)
WatchBegin ==
  /\ Watch("begin")
  /\ wpc' = IF m_hComm = "dead" THEN "ended" ELSE "test"
  /\ deaf' = (m_hComm = "dead")
  /\ UNCHANGED <<dialog, posted, port, parsing, pBuff, G_hShutdown_Event,
                 device, inQue, stream, cut, fault>>

(* WaitCommEvent fails, and not because it has to wait.                     *)
(* Mutant: to have to wait is taken for an error, too.                      *)
WaitFailsOrWaits == m_hComm = "dead" \/ inQue = <<>>
WaitFails == m_hComm = "dead"

(* The dialog is told of an error; the thread goes on all the same.         *)
WatchTest ==
  /\ Watch("test")
  /\ wpc' = IF G_hShutdown_Event THEN "ended" ELSE "wait"
  /\ posted' = IF ~G_hShutdown_Event /\ WaitFails /\ posted < MaxPosted
               THEN posted + 1 ELSE posted
  /\ UNCHANGED <<dialog, port, parsing, pBuff, G_hShutdown_Event, device, inQue,
                 stream, cut, deaf, fault>>

(* The wait ends with bytes to read, or after five seconds without.         *)
WatchWait ==
  /\ Watch("wait")
  /\ wpc' = IF ~m_bConnected THEN "ended"
            ELSE IF inQue # <<>> THEN "read" ELSE "test"
  /\ UNCHANGED <<dialog, posted, port, parsing, pBuff, G_hShutdown_Event, device,
                 inQue, stream, cut, deaf, fault>>

(* ReadComm is called until it reads nothing.                               *)
ReadComm ==
  /\ Watch("read")
  /\ pBuff = <<>>
  /\ LET dwRead == IF Len(inQue) < BUFF_SIZE THEN Len(inQue) ELSE BUFF_SIZE IN
       /\ wpc' = IF dwRead = 0 THEN "test" ELSE "read"
       /\ pBuff' = SubSeq(inQue, 1, dwRead)
       /\ inQue' = SubSeq(inQue, dwRead + 1, Len(inQue))
  /\ UNCHANGED <<dialog, posted, port, parsing, G_hShutdown_Event, device, stream,
                 cut, deaf, fault>>

(* A byte within a line.  At BUFF_SIZE bytes it is stored into the low byte *)
(* of m_nRecvCnt, which lies behind m_RecvBuff and is over the limit all    *)
(* the same: the line so far is dropped.                                    *)
StoreByte ==
  /\ Watch("read")
  /\ pBuff # <<>> /\ Head(pBuff) \notin ends
  /\ pBuff' = Tail(pBuff)
  /\ LET line == Append(m_RecvBuff, Head(pBuff)) IN
       IF Len(line) > BUFF_SIZE
       THEN m_RecvBuff' = <<>> /\ cut' = cut \cup ToSet(line)
       ELSE m_RecvBuff' = line /\ UNCHANGED cut
  /\ UNCHANGED <<dialog, posted, port, m_nRingBuffer, events, wpc,
                 G_hShutdown_Event, device, inQue, stream, deaf, fault>>

(* Where a line of cnt bytes, the 0 behind it included, is copied to, and   *)
(* where the next one is: m_nRecvCnt + 1 bytes are cleared before the copy. *)
Cleared(cnt) == m_nRingBuffer + cnt + 1

(* Mutant: the ring starts anew only at its very end.                       *)
NextInRingLate(cnt) ==
  IF Cleared(cnt) >= RingSize THEN 0 ELSE Cleared(cnt)

NextInRing(cnt) ==
  IF Cleared(cnt) + Margin >= RingSize THEN 0 ELSE Cleared(cnt)

(* What m_RecvBuff holds after an event; mutant: m_nRecvCnt is not reset.   *)
NextLineGoesOn(line) == line
NextLine(line) == <<>>

(* The end of a line: the 0, the copy and WriteEventToSharedMemory.  A line *)
(* of BUFF_SIZE bytes before its end overwrites m_nRecvCnt and with it      *)
(* perhaps m_pRingBuffer; a long one may be cleared past the ring's end.    *)
EndLine ==
  /\ Watch("read")
  /\ pBuff # <<>> /\ Head(pBuff) \in ends
  /\ pBuff' = Tail(pBuff)
  /\ LET line == Append(m_RecvBuff, Head(pBuff))
         cnt  == Len(line) + 1 IN
       /\ events' = Append(events, line)
       /\ m_nRingBuffer' = NextInRing(cnt)
       /\ fault' \in {"none"}
                     \cup (IF Len(line) > BUFF_SIZE THEN {"smashed"} ELSE {})
                     \cup (IF Cleared(cnt) > RingSize THEN {"overrun"} ELSE {})
       /\ m_RecvBuff' = NextLine(line)
  /\ UNCHANGED <<dialog, posted, port, wpc, G_hShutdown_Event, device, inQue,
                 stream, cut, deaf>>

-----------------------------------------------------------------------------
(* The dialog handles a posted message before a click and before a timer.   *)

Idle == Runs /\ gpc = "idle" /\ posted = 0

(* Init of CSerialComm: the port is opened and the thread created; it is    *)
(* not there or somebody has it; CreateFile or CreateThread fails, and what *)
(* was opened is closed; or SetCommState fails, and the handle just opened  *)
(* is forgotten.  A failed start is ended by timer 2.                       *)
Opened ==
  /\ present /\ ~leaked
  /\ m_hComm' = "open" /\ m_bConnected' = TRUE /\ m_hThreadWatchComm' = TRUE
  /\ wpc' = "begin"
  /\ UNCHANGED <<leaked, breaks>>

NotOpened ==
  /\ \/ (~present \/ leaked) /\ UNCHANGED <<leaked, breaks>>
     \/ /\ present /\ ~leaked
        /\ \/ breaks < MaxBreaks /\ breaks' = breaks + 1 /\ UNCHANGED leaked
           \/ leaked' = TRUE /\ UNCHANGED breaks
  /\ m_hThreadWatchComm' = FALSE
  /\ UNCHANGED <<m_hComm, m_bConnected, wpc>>

(* OnBnClickedButtonStart, with the timers old set before.                  *)
Start(old) ==
  /\ ~m_bStarted
  /\ m_bStarted' = TRUE
  /\ G_hShutdown_Event' = FALSE
  /\ m_RecvBuff' = <<>> /\ m_nRingBuffer' = 0
  /\ \/ Opened /\ timers' = old
     \/ NotOpened /\ timers' = old \cup {2}
  /\ UNCHANGED <<gpc, after, recent, posted, events, pBuff, present, inQue,
                 stream, cut, deaf, fault>>

(* OnBnClickedButtonStop, up to the wait for the thread.                    *)
Stop(why) ==
  /\ m_bStarted
  /\ gpc' = "join" /\ after' = why
  /\ G_hShutdown_Event' = TRUE

ClosePort ==
  m_bConnected' = FALSE /\ m_hComm' = "none" /\ inQue' = <<>>

(* Timers after a Stop; mutant: nothing starts Broker after an error.       *)
RestartNever(why) == timers
Restart(why) == IF why = "error" THEN timers \cup {10} ELSE timers

(* The rest of it: Close, Delete, and what the handler of an error does     *)
(* next.  After a failed start the handle waited for is not set: the wait   *)
(* fails at once, or it is one that nobody ever signals.                    *)
StopJoin ==
  /\ Runs
  /\ gpc = "join"
  /\ m_hThreadWatchComm => wpc = "ended"
  /\ fault' \in IF m_hThreadWatchComm THEN {"none"} ELSE {"none", "hung"}
  /\ gpc' = "idle" /\ after' = "none" /\ m_bStarted' = FALSE
  /\ timers' = Restart(after) /\ recent' = (recent \/ after = "error")
  /\ ClosePort /\ wpc' = "none" /\ m_RecvBuff' = <<>>
  /\ cut' = cut \cup ToSet(inQue) \cup ToSet(m_RecvBuff)
  /\ deaf' = FALSE
  /\ UNCHANGED <<posted, m_hThreadWatchComm, leaked, m_nRingBuffer, events,
                 pBuff, G_hShutdown_Event, device, stream>>

ClickStart == Idle /\ Start(timers)

ClickStop ==
  /\ Idle /\ Stop("user")
  /\ UNCHANGED <<m_bStarted, timers, recent, posted, port, parsing, watch,
                 device, inQue, stream, cut, deaf, fault>>

(* Timer 2 ends whatever has been started by now.                           *)
Timer2 ==
  /\ Idle /\ 2 \in timers
  /\ timers' = timers \ {2}
  /\ \/ Stop("timer")
     \/ ~m_bStarted /\ UNCHANGED <<gpc, after, G_hShutdown_Event>>
  /\ UNCHANGED <<m_bStarted, recent, posted, port, parsing, watch, device,
                 inQue, stream, cut, deaf, fault>>

Timer3 == Idle /\ 3 \in timers /\ Start(timers \ {3})

(* Set by the first error and never killed.                                 *)
Timer10 == Idle /\ 10 \in timers /\ Start(timers)

(* OnTrayNotification, with 999: one error in 7.5 s is looked at.           *)
PortError ==
  /\ Runs /\ gpc = "idle" /\ posted > 0
  /\ posted' = posted - 1
  /\ \/ recent /\ UNCHANGED <<gpc, after, G_hShutdown_Event, timers, recent>>
     \/ ~recent /\ Stop("error") /\ UNCHANGED <<timers, recent>>
     \/ /\ ~recent /\ ~m_bStarted
        /\ timers' = Restart("error") /\ recent' = TRUE
        /\ UNCHANGED <<gpc, after, G_hShutdown_Event>>
  /\ UNCHANGED <<m_bStarted, port, parsing, watch, device, inQue, stream, cut,
                 deaf, fault>>

(* A message does not wait for seconds, unless the dialog does or more come.*)
Elapse ==
  /\ Runs /\ recent
  /\ posted = 0 \/ gpc = "join" \/ m_hComm = "dead"
  /\ recent' = FALSE
  /\ UNCHANGED <<m_bStarted, gpc, after, timers, posted, port, parsing, watch,
                 G_hShutdown_Event, device, inQue, stream, cut, deaf, fault>>

-----------------------------------------------------------------------------
ThreadWatchComm ==
  WatchBegin \/ WatchTest \/ WatchWait \/ ReadComm \/ StoreByte \/ EndLine

Dialog == StopJoin \/ Timer2 \/ Timer3 \/ Timer10 \/ PortError

User == ClickStart \/ ClickStop

Outside == Break \/ Mend \/ \E isEnd \in BOOLEAN : Receive(isEnd)

Next == ThreadWatchComm \/ Dialog \/ User \/ Outside \/ Elapse

Spec == Init /\ [][Next]_vars

(* Windows schedules both threads, delivers messages and timers, and time   *)
(* passes.  Users and devices need do nothing.                              *)
FairSpec ==
  /\ Spec
  /\ WF_vars(ThreadWatchComm)
  /\ WF_vars(StopJoin) /\ WF_vars(PortError)
  /\ WF_vars(Timer2) /\ WF_vars(Timer3) /\ WF_vars(Timer10)
  /\ SF_vars(Elapse)

-----------------------------------------------------------------------------
(* Types; the port is closed and the thread gone whenever Broker is not     *)
(* started.                                                                 *)
TypeOK ==
  /\ {m_bStarted, recent, m_bConnected, m_hThreadWatchComm, G_hShutdown_Event,
      present, leaked, deaf} \subseteq BOOLEAN
  /\ gpc \in {"idle", "join"} /\ after \in {"none", "user", "timer", "error"}
  /\ timers \subseteq {2, 3, 10}
  /\ posted \in 0 .. MaxPosted /\ breaks \in 0 .. MaxBreaks
  /\ m_hComm \in {"none", "open", "dead"}
  /\ wpc \in {"none", "begin", "test", "wait", "read", "ended"}
  /\ sent \in 0 .. MaxBytes /\ {ends, cut} \subseteq SUBSET (1 .. sent)
  /\ {m_RecvBuff, pBuff, inQue} \subseteq Seq(1 .. sent)
  /\ events \in Seq(Seq(1 .. sent))
  /\ m_nRingBuffer \in 0 .. RingSize
  /\ fault \in {"none", "smashed", "overrun", "hung"}
  /\ ~m_bStarted => m_hComm = "none" /\ ~m_bConnected /\ wpc = "none"

(* Every byte sent is in one event, waits in order for the end of its line  *)
(* or is lost.  An event is one line, whole unless the bytes before it were *)
(* lost, and events keep their order, however the bytes were read and       *)
(* however often the port was closed and opened.                            *)
Contiguous(s) == \A k \in 2 .. Len(s) : s[k] = s[k - 1] + 1

EventsAreLines ==
  LET waiting == m_RecvBuff \o pBuff \o inQue
      kept    == ToSet(waiting) \cup UNION {ToSet(e) : e \in ToSet(events)}
  IN
    /\ kept \cup cut = 1 .. sent /\ kept \cap cut = {}
    /\ Contiguous(waiting)
    /\ \A a, b \in 1 .. Len(events) : a < b => Last(events[a]) < Head(events[b])
    /\ \A e \in ToSet(events) :
         /\ Contiguous(e) /\ ToSet(e) \cap ends = {Last(e)}
         /\ Head(e) - 1 \in {0} \cup ends \cup cut
         /\ \A w \in ToSet(waiting) : Last(e) < w

(* No line shorter than the margin is copied past the end of the ring, and  *)
(* none of less than BUFF_SIZE bytes is stored past the end of m_RecvBuff.  *)
ShortLinesFit ==
  /\ fault = "overrun" => Len(Last(events)) >= Margin
  /\ Len(m_RecvBuff) <= BUFF_SIZE

(* A port that works is stopped by the user, or by the timer of a start     *)
(* that failed before it; never by an error of the port opened before.      *)
StoppedForCause ==
  [][gpc = "idle" /\ gpc' = "join" /\ m_hComm = "open" =>
       after' \in {"user", "timer"}]_vars

Receiving == m_hComm = "open" /\ wpc \in {"test", "wait", "read"}

(* Once Broker has met an error of its port, it receives again when the     *)
(* device is back for good, unless it was stopped for another reason before *)
(* an error was handled, a handle was forgotten or the thread has ended     *)
(* without a word.                                                          *)
ReceivesAgain ==
  [](10 \in timers \/ m_hComm = "dead" =>
       \/ <>Receiving
       \/ <>(after \in {"user", "timer"} /\ 10 \notin timers)
       \/ <>(~present \/ leaked \/ deaf \/ fault # "none"))
=============================================================================
