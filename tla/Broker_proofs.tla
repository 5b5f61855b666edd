---------------------------- MODULE Broker_proofs ----------------------------
(* That events are lines, that short lines fit the ring, and that no error  *)
(* of an old port stops a new one: for any sizes of the buffers, any number *)
(* of bytes, losses of the device and messages.                             *)
EXTENDS Broker, SequenceTheorems, TLAPS

-----------------------------------------------------------------------------
(* Nothing is under way in a Broker that is not started; only a thread that *)
(* reads has bytes before it, and only an open port receives.               *)
ClosedIsEmpty ==
  /\ ~m_bStarted => m_RecvBuff = <<>> /\ gpc = "idle"
  /\ wpc # "read" => pBuff = <<>>
  /\ m_hComm # "open" => inQue = <<>>
  /\ ~m_hThreadWatchComm => wpc = "none"

(* An error that waits for the dialog is one of the port that is open.      *)
ErrorsAreOfThisPort == posted > 0 => m_hComm # "open"

RingFits == m_nRingBuffer + Margin < RingSize

-----------------------------------------------------------------------------
InEvent(n) ==
  \E a \in 1 .. Len(events) : \E k \in 1 .. Len(events[a]) : events[a][k] = n

(* The last byte that waits for the end of its line, when b is the last     *)
(* before the line under way.                                               *)
Top(b) == b + Len(m_RecvBuff) + Len(pBuff) + Len(inQue)

WaitsFrom(b) ==
  /\ Top(b) <= sent /\ (m_hComm = "open" => Top(b) = sent)
  /\ b \in {0} \cup ends \cup cut
  /\ \A k \in 1 .. Len(m_RecvBuff) : m_RecvBuff[k] = b + k /\ b + k \notin ends
  /\ \A k \in 1 .. Len(pBuff) : pBuff[k] = b + Len(m_RecvBuff) + k
  /\ \A k \in 1 .. Len(inQue) :
       inQue[k] = b + Len(m_RecvBuff) + Len(pBuff) + k
  /\ \A n \in 1 .. sent : n \in cut <=> ~InEvent(n) /\ ~(b < n /\ n <= Top(b))
  /\ \A a \in 1 .. Len(events) : events[a][Len(events[a])] <= b

(* Event a is a line.                                                       *)
IsLine(a) ==
  LET e == events[a] IN
    /\ Len(e) > 0 /\ e[1] > 0
    /\ \A k \in 1 .. Len(e) : e[k] = e[1] + k - 1
    /\ \A k \in 1 .. Len(e) : e[k] \in ends <=> k = Len(e)
    /\ e[1] - 1 \in {0} \cup ends \cup cut

LinesInv ==
  /\ \E b \in 0 .. sent : WaitsFrom(b)
  /\ \A a \in 1 .. Len(events) : IsLine(a)
  /\ \A a, c \in 1 .. Len(events) :
       a < c => events[a][Len(events[a])] < events[c][1]

(* The types of what a step changes.                                        *)
Control ==
  /\ gpc \in {"idle", "join"} /\ after \in {"none", "user", "timer", "error"}
  /\ timers \subseteq {2, 3, 10}
  /\ posted \in 0 .. MaxPosted
  /\ wpc \in {"none", "begin", "test", "wait", "read", "ended"}

Flags ==
  /\ m_bStarted \in BOOLEAN /\ recent \in BOOLEAN /\ m_bConnected \in BOOLEAN
  /\ m_hThreadWatchComm \in BOOLEAN /\ G_hShutdown_Event \in BOOLEAN
  /\ present \in BOOLEAN /\ leaked \in BOOLEAN /\ deaf \in BOOLEAN

Port ==
  /\ breaks \in 0 .. MaxBreaks
  /\ m_hComm \in {"none", "open", "dead"}
  /\ fault \in {"none", "smashed", "overrun", "hung"}
  /\ ~m_bStarted => m_hComm = "none" /\ ~m_bConnected /\ wpc = "none"

Bytes ==
  /\ sent \in 0 .. MaxBytes /\ ends \subseteq 1 .. sent /\ cut \subseteq 1 .. sent
  /\ m_RecvBuff \in Seq(1 .. sent) /\ pBuff \in Seq(1 .. sent)
  /\ inQue \in Seq(1 .. sent) /\ events \in Seq(Seq(1 .. sent))
  /\ m_nRingBuffer \in 0 .. RingSize

IInv == /\ Control /\ Flags /\ Port /\ Bytes
        /\ ClosedIsEmpty /\ ErrorsAreOfThisPort /\ RingFits /\ ShortLinesFit
        /\ LinesInv

-----------------------------------------------------------------------------
LEMMA Sizes ==
  /\ BUFF_SIZE \in Nat /\ RingSize \in Nat /\ Margin \in Nat \ {0}
  /\ MaxBytes \in Nat /\ MaxBreaks \in Nat /\ MaxPosted \in Nat
  /\ Margin <= BUFF_SIZE /\ BUFF_SIZE + 1 < RingSize
  BY BrokerAssumption

LEMMA InitIInv == Init => IInv
  <1> SUFFICES ASSUME Init PROVE IInv
    OBVIOUS
  <1> USE DEF Init
  <1>1. Flags
    BY Zenon DEF Flags
  <1>2. Control /\ Port
    BY Sizes DEF Control, Port
  <1>3. Bytes
    BY Sizes, EmptySeq DEF Bytes
  <1>5. ClosedIsEmpty /\ ErrorsAreOfThisPort
    BY DEF ClosedIsEmpty, ErrorsAreOfThisPort
  <1>6. RingFits /\ ShortLinesFit
    BY Sizes DEF RingFits, ShortLinesFit
  <1>7. WaitsFrom(0)
    BY DEF WaitsFrom, Top
  <1>8. LinesInv
    BY <1>7 DEF LinesInv
  <1> QED BY <1>1, <1>2, <1>3, <1>5, <1>6, <1>8 DEF IInv

-----------------------------------------------------------------------------
LEMMA EventTypes ==
  ASSUME Bytes, NEW a \in 1 .. Len(events)
  PROVE  /\ events[a] \in Seq(1 .. sent) /\ Len(events[a]) \in Nat
         /\ \A k \in 1 .. Len(events[a]) : events[a][k] \in 1 .. sent
  <1>1. events[a] \in Seq(1 .. sent)
    BY ElementOfSeq DEF Bytes
  <1> QED BY <1>1, ElementOfSeq, LenProperties

(* The bytes of the events come before those that wait.                     *)
LEMMA EventsBelow ==
  ASSUME Bytes, NEW b \in 0 .. sent, WaitsFrom(b), LinesInv, NEW n, InEvent(n)
  PROVE  n <= b /\ n \in 1 .. sent
  <1>1. PICK a \in 1 .. Len(events) : \E k \in 1 .. Len(events[a]) : events[a][k] = n
    BY DEF InEvent
  <1>2. PICK k \in 1 .. Len(events[a]) : events[a][k] = n
    BY <1>1
  <1>3. /\ Len(events[a]) \in Nat /\ Len(events[a]) > 0
        /\ events[a][1] \in 1 .. sent /\ n \in 1 .. sent
        /\ n = events[a][1] + k - 1
        /\ events[a][Len(events[a])] = events[a][1] + Len(events[a]) - 1
    BY <1>2, EventTypes DEF LinesInv, IsLine
  <1>4. events[a][Len(events[a])] <= b
    BY DEF WaitsFrom
  <1>5. sent \in Nat
    BY DEF Bytes
  <1> QED BY <1>3, <1>4, <1>5

-----------------------------------------------------------------------------
(* Steps that touch neither the bytes nor the handle of the port.           *)
LEMMA ByteFree ==
  ASSUME IInv,
         UNCHANGED <<m_RecvBuff, m_nRingBuffer, events, pBuff, inQue, sent, ends,
                     cut, m_hComm, fault>>
  PROVE  Bytes' /\ RingFits' /\ ShortLinesFit' /\ LinesInv'
  <1>1. Bytes' /\ RingFits' /\ ShortLinesFit'
    BY DEF IInv, Bytes, RingFits, ShortLinesFit
  <1>2. \A n : InEvent(n)' <=> InEvent(n)
    BY DEF InEvent
  <1>3. \A b : Top(b)' = Top(b)
    BY DEF Top
  <1>4. \A b : WaitsFrom(b) => WaitsFrom(b)'
    BY <1>2, <1>3 DEF WaitsFrom
  <1>5. \A a : IsLine(a) => IsLine(a)'
    BY DEF IsLine
  <1>6. LinesInv'
    BY <1>4, <1>5 DEF IInv, LinesInv
  <1> QED BY <1>1, <1>6

LEMMA MendIInv == IInv /\ Mend => IInv'
  <1> SUFFICES ASSUME IInv, Mend PROVE IInv'
    OBVIOUS
  <1> USE DEF Mend, dialog, port, parsing, watch, device, stream
  <1>1. Bytes' /\ RingFits' /\ ShortLinesFit' /\ LinesInv'
    BY ByteFree
  <1>2. Flags'
    BY Zenon DEF IInv, Flags
  <1>3. Control' /\ Port'
    BY DEF IInv, Control, Port
  <1>4. ClosedIsEmpty' /\ ErrorsAreOfThisPort'
    BY DEF IInv, ClosedIsEmpty, ErrorsAreOfThisPort
  <1> QED BY <1>1, <1>2, <1>3, <1>4 DEF IInv

LEMMA ElapseIInv == IInv /\ Elapse => IInv'
  <1> SUFFICES ASSUME IInv, Elapse PROVE IInv'
    OBVIOUS
  <1> USE DEF Elapse, dialog, port, parsing, watch, device, stream
  <1>1. Bytes' /\ RingFits' /\ ShortLinesFit' /\ LinesInv'
    BY ByteFree
  <1>2. Flags'
    BY Zenon DEF IInv, Flags
  <1>3. Control' /\ Port'
    BY DEF IInv, Control, Port
  <1>4. ClosedIsEmpty' /\ ErrorsAreOfThisPort'
    BY DEF IInv, ClosedIsEmpty, ErrorsAreOfThisPort
  <1> QED BY <1>1, <1>2, <1>3, <1>4 DEF IInv

(* The thread before it reads.                                              *)
LEMMA WatchIInv == IInv /\ (WatchBegin \/ WatchTest \/ WatchWait) => IInv'
  <1> SUFFICES ASSUME IInv, WatchBegin \/ WatchTest \/ WatchWait PROVE IInv'
    OBVIOUS
  <1> USE DEF dialog, port, parsing, watch, device, stream
  <1>1. /\ wpc \in {"begin", "test", "wait"}
        /\ wpc' \in {"test", "wait", "read", "ended"} /\ deaf' \in BOOLEAN
        /\ UNCHANGED <<dialog, port, parsing, pBuff, G_hShutdown_Event, device,
                       inQue, stream, cut, fault>>
    BY DEF WatchBegin, WatchTest, WatchWait, Watch, IInv, Flags
  <1>2. Bytes' /\ RingFits' /\ ShortLinesFit' /\ LinesInv'
    BY <1>1, ByteFree
  <1>3. Flags'
    BY <1>1, Zenon DEF IInv, Flags
  <1>4. posted' \in 0 .. MaxPosted /\ (posted' > 0 => m_hComm' # "open")
    BY Sizes DEF WatchBegin, WatchTest, WatchWait, WaitFails, IInv, Control,
                 ErrorsAreOfThisPort
  <1>5. Control' /\ Port' /\ ErrorsAreOfThisPort'
    BY <1>1, <1>4 DEF IInv, Control, Port, ErrorsAreOfThisPort
  <1>6. ClosedIsEmpty'
    BY <1>1 DEF IInv, ClosedIsEmpty
  <1> QED BY <1>2, <1>3, <1>5, <1>6 DEF IInv

(* The dialog, as long as it neither opens nor closes the port.             *)
LEMMA StopIInv == IInv /\ (ClickStop \/ Timer2 \/ PortError) => IInv'
  <1> SUFFICES ASSUME IInv, ClickStop \/ Timer2 \/ PortError PROVE IInv'
    OBVIOUS
  <1> USE DEF dialog, port, parsing, watch, device, stream
  <1>1. /\ UNCHANGED <<m_bStarted, port, parsing, watch, device, inQue, stream, cut,
                       deaf, fault>>
        /\ posted' \in 0 .. MaxPosted /\ posted' <= posted
        /\ gpc' = "idle" \/ (gpc' = "join" /\ m_bStarted)
    <2>1. CASE ClickStop
      BY <2>1 DEF ClickStop, Stop, IInv, Control, Idle
    <2>2. CASE Timer2
      BY <2>2 DEF Timer2, Stop, IInv, Control, Idle
    <2>3. CASE PortError
      BY <2>3, Sizes DEF PortError, Stop, IInv, Control
    <2> QED BY <2>1, <2>2, <2>3
  <1>2. Bytes' /\ RingFits' /\ ShortLinesFit' /\ LinesInv'
    BY <1>1, ByteFree
  <1>3. recent' \in BOOLEAN /\ G_hShutdown_Event' \in BOOLEAN
    <2>1. CASE ClickStop \/ Timer2
      BY <2>1 DEF ClickStop, Timer2, Stop, IInv, Flags
    <2>2. CASE PortError
      BY <2>2 DEF PortError, Stop, IInv, Flags
    <2> QED BY <2>1, <2>2
  <1>4. Flags'
    BY <1>1, <1>3, Zenon DEF IInv, Flags
  <1>5. Control'
    BY <1>1 DEF ClickStop, Timer2, PortError, Stop, Restart, IInv, Control
  <1>6. Port' /\ ErrorsAreOfThisPort'
    BY <1>1 DEF IInv, Port, Control, ErrorsAreOfThisPort
  <1>7. ClosedIsEmpty'
    BY <1>1 DEF IInv, ClosedIsEmpty
  <1> QED BY <1>2, <1>4, <1>5, <1>6, <1>7 DEF IInv

LEMMA StartIInv ==
  ASSUME IInv, Idle, NEW old, old \subseteq {2, 3, 10}, Start(old)
  PROVE  IInv'
  <1> USE DEF Start, parsing, device, stream
  <1>1. ~m_bStarted /\ m_hComm = "none" /\ wpc = "none" /\ posted = 0
        /\ m_RecvBuff = <<>> /\ pBuff = <<>> /\ inQue = <<>> /\ posted' = 0
        /\ fault = "none" /\ fault' = "none"
    BY DEF IInv, Port, ClosedIsEmpty, Idle, Runs
  <1>2. Flags'
    <2>1. CASE Opened
      BY <2>1 DEF Opened, IInv, Flags
    <2>2. CASE NotOpened
      <3>1. m_hThreadWatchComm' \in BOOLEAN /\ m_bConnected' \in BOOLEAN
        BY <2>2 DEF NotOpened, IInv, Flags
      <3>2. leaked' = leaked \/ leaked' = TRUE
        BY <2>2 DEF NotOpened
      <3>3. leaked' \in BOOLEAN
        BY <3>2 DEF IInv, Flags
      <3> QED BY <3>1, <3>3, Zenon DEF IInv, Flags
    <2> QED BY <2>1, <2>2
  <1>3. Control' /\ Port'
    <2>1. CASE Opened
      BY <1>1, <2>1 DEF Opened, IInv, Control, Port
    <2>2. CASE NotOpened
      <3>1. breaks' = breaks \/ (breaks < MaxBreaks /\ breaks' = breaks + 1)
        BY <2>2 DEF NotOpened
      <3>2. breaks' \in 0 .. MaxBreaks
        BY <3>1, Sizes DEF IInv, Port
      <3>3. m_hComm' = m_hComm /\ m_bConnected' = m_bConnected /\ wpc' = wpc
        BY <2>2 DEF NotOpened
      <3> QED BY <1>1, <3>2, <3>3 DEF IInv, Control, Port
    <2> QED BY <2>1, <2>2
  <1>4. Bytes'
    BY Sizes DEF IInv, Bytes
  <1>5. ClosedIsEmpty' /\ ErrorsAreOfThisPort' /\ RingFits' /\ ShortLinesFit'
    BY <1>1, Sizes
    DEF Opened, NotOpened, IInv, ClosedIsEmpty, ErrorsAreOfThisPort, RingFits,
        ShortLinesFit
  <1>6. LinesInv'
    <2>1. PICK b \in 0 .. sent : WaitsFrom(b)
      BY DEF IInv, LinesInv
    <2>2. b \in Nat /\ sent \in Nat
      BY DEF IInv, Bytes
    <2>3. Top(b) = b /\ Top(sent)' = sent
      BY <1>1, <2>2 DEF Top
    <2>4. \A n : InEvent(n)' <=> InEvent(n)
      BY DEF InEvent
    <2>5. \A n : InEvent(n) => n <= b
      BY EventsBelow, <2>1 DEF IInv
    <2>6. sent \in {0} \cup ends \cup cut
      BY <2>1, <2>2, <2>3, <2>5 DEF WaitsFrom
    <2>7. \A n \in 1 .. sent : n \in cut <=> ~InEvent(n)
      BY <2>1, <2>2, <2>3 DEF WaitsFrom
    <2>8. \A a \in 1 .. Len(events) : events[a][Len(events[a])] <= sent
      BY <2>1, <2>2, EventTypes DEF IInv, LinesInv, IsLine, WaitsFrom
    <2>9. WaitsFrom(sent)'
      BY <1>1, <2>2, <2>3, <2>4, <2>6, <2>7, <2>8 DEF WaitsFrom
    <2>10. \A a : IsLine(a) => IsLine(a)'
      BY DEF IsLine
    <2>11. sent \in 0 .. sent
      BY <2>2
    <2> QED BY <2>9, <2>10, <2>11 DEF IInv, LinesInv
  <1> QED BY <1>2, <1>3, <1>4, <1>5, <1>6 DEF IInv

-----------------------------------------------------------------------------
(* The elements of a run of numbers from c + 1 on.                          *)
LEMMA ToSetRun ==
  ASSUME NEW S, NEW s \in Seq(S), NEW c \in Nat,
         \A k \in 1 .. Len(s) : s[k] = c + k
  PROVE  \A n \in Int : n \in ToSet(s) <=> c < n /\ n <= c + Len(s)
  <1>1. Len(s) \in Nat /\ DOMAIN s = 1 .. Len(s)
    BY LenProperties
  <1>2. ASSUME NEW n \in Int, n \in ToSet(s) PROVE c < n /\ n <= c + Len(s)
    BY <1>1, <1>2 DEF ToSet
  <1>3. ASSUME NEW n \in Int, c < n, n <= c + Len(s) PROVE n \in ToSet(s)
    <2>1. n - c \in DOMAIN s /\ s[n - c] = n
      BY <1>1, <1>3
    <2> QED BY <2>1 DEF ToSet
  <1> QED BY <1>2, <1>3

LEMMA LinesStay ==
  ASSUME Bytes, \A a \in 1 .. Len(events) : IsLine(a), UNCHANGED events,
         ends \subseteq ends', ends' \cap (1 .. sent) \subseteq ends,
         cut \subseteq cut'
  PROVE  \A a \in 1 .. Len(events) : IsLine(a)'
  BY EventTypes DEF IsLine

LEMMA ByteLens ==
  ASSUME Bytes
  PROVE  /\ Len(m_RecvBuff) \in Nat /\ Len(pBuff) \in Nat /\ Len(inQue) \in Nat
         /\ Len(events) \in Nat /\ sent \in Nat
  BY LenProperties DEF Bytes

LEMMA ReceiveIInv ==
  ASSUME IInv, NEW isEnd \in BOOLEAN, Receive(isEnd)
  PROVE  IInv'
  <1> USE DEF Receive, dialog, port, parsing, watch, device
  <1>1. PICK b \in 0 .. sent : WaitsFrom(b)
    BY DEF IInv, LinesInv
  <1>2. /\ Len(m_RecvBuff) \in Nat /\ Len(pBuff) \in Nat /\ Len(inQue) \in Nat
        /\ sent \in Nat /\ b \in Nat
    BY <1>1, ByteLens DEF IInv
  <1>3. /\ sent' = sent + 1 /\ ends \subseteq ends' /\ ends' \subseteq ends \cup {sent + 1}
        /\ UNCHANGED <<m_RecvBuff, m_nRingBuffer, events, pBuff, m_hComm, fault>>
    OBVIOUS
  <1>4. \/ /\ m_hComm = "open" /\ inQue' = Append(inQue, sent + 1) /\ cut' = cut
        \/ /\ m_hComm # "open" /\ inQue' = inQue /\ cut' = cut \cup {sent + 1}
           /\ ends' = ends
    OBVIOUS
  <1>5. Bytes'
    <2>1. 1 .. sent \subseteq 1 .. sent' /\ sent + 1 \in 1 .. sent'
      BY <1>2, <1>3
    <2>2. m_RecvBuff' \in Seq(1 .. sent') /\ pBuff' \in Seq(1 .. sent')
          /\ inQue \in Seq(1 .. sent')
      BY <1>3, <2>1, SeqMonotonic DEF IInv, Bytes
    <2>3. inQue' \in Seq(1 .. sent')
      <3>1. CASE inQue' = Append(inQue, sent + 1)
        BY <2>1, <2>2, <3>1, AppendProperties
      <3>2. CASE inQue' = inQue
        BY <2>2, <3>2
      <3> QED BY <1>4, <3>1, <3>2
    <2>4. Seq(1 .. sent) \subseteq Seq(1 .. sent')
      BY <2>1, SeqMonotonic
    <2>5. events' \in Seq(Seq(1 .. sent'))
      BY <1>3, <2>4, SeqMonotonic DEF IInv, Bytes
    <2>6. sent' \in 0 .. MaxBytes
      BY Sizes DEF IInv, Bytes
    <2> QED
      BY <1>3, <1>4, <2>1, <2>2, <2>3, <2>5, <2>6 DEF IInv, Bytes
  <1>6. \A n : InEvent(n)' <=> InEvent(n)
    BY DEF InEvent
  <1>7. ~InEvent(sent + 1)
    BY <1>1, <1>2, EventsBelow DEF IInv
  <1>8. WaitsFrom(b)'
    <2>1. CASE m_hComm = "open" /\ inQue' = Append(inQue, sent + 1) /\ cut' = cut
      <3>1. Len(inQue') = Len(inQue) + 1 /\ inQue'[Len(inQue) + 1] = sent + 1
            /\ \A k \in 1 .. Len(inQue) : inQue'[k] = inQue[k]
        BY <2>1 DEF IInv, Bytes
      <3>2. b + Len(m_RecvBuff) + Len(pBuff) + Len(inQue) = sent /\ Top(b) = sent
        BY <1>1, <2>1 DEF Top, WaitsFrom
      <3>3. Top(b) = sent /\ Top(b)' = sent + 1
        <4>1. Top(b)' = b + Len(m_RecvBuff) + Len(pBuff) + Len(inQue')
          BY <1>3 DEF Top
        <4> QED BY ONLY <1>2, <3>1, <3>2, <4>1
      <3>4. \A k \in 1 .. Len(inQue) :
              inQue[k] = b + Len(m_RecvBuff) + Len(pBuff) + k
        BY <1>1 DEF WaitsFrom
      <3>5. \A k \in 1 .. Len(inQue') :
              inQue'[k] = b + Len(m_RecvBuff) + Len(pBuff) + k
        BY ONLY <1>2, <3>1, <3>2, <3>4
      <3>6. \A n \in 1 .. sent' : n \in cut' <=> ~InEvent(n)' /\ ~(b < n /\ n <= Top(b)')
        <4> SUFFICES ASSUME NEW n \in 1 .. sent'
                     PROVE  n \in cut' <=> ~InEvent(n)' /\ ~(b < n /\ n <= Top(b)')
          OBVIOUS
        <4>1. CASE n = sent + 1
          BY <1>1, <1>2, <2>1, <3>3, <4>1 DEF IInv, Bytes
        <4>2. CASE n \in 1 .. sent
          BY <1>1, <1>2, <1>6, <2>1, <3>3, <4>2 DEF WaitsFrom
        <4> QED BY <1>2, <1>3, <4>1, <4>2
      <3>7. \A k \in 1 .. Len(m_RecvBuff) : b + k \notin ends'
        <4> SUFFICES ASSUME NEW k \in 1 .. Len(m_RecvBuff) PROVE b + k \notin ends'
          OBVIOUS
        <4>1. b + k \notin ends
          BY <1>1 DEF WaitsFrom
        <4>2. b + k # sent + 1
          BY ONLY <1>2, <3>2, k \in 1 .. Len(m_RecvBuff)
        <4> QED BY <1>3, <4>1, <4>2
      <3>8. /\ Top(b)' <= sent' /\ (m_hComm' = "open" => Top(b)' = sent')
            /\ b \in {0} \cup ends' \cup cut'
        BY <1>1, <1>2, <1>3, <2>1, <3>3 DEF WaitsFrom
      <3>9. /\ \A k \in 1 .. Len(m_RecvBuff') : m_RecvBuff'[k] = b + k /\ b + k \notin ends'
            /\ \A k \in 1 .. Len(pBuff') : pBuff'[k] = b + Len(m_RecvBuff') + k
            /\ \A k \in 1 .. Len(inQue') :
                 inQue'[k] = b + Len(m_RecvBuff') + Len(pBuff') + k
        BY <1>1, <1>3, <3>5, <3>7 DEF WaitsFrom
      <3>10. \A a \in 1 .. Len(events') : events'[a][Len(events'[a])] <= b
        BY <1>1, <1>3 DEF WaitsFrom
      <3> QED BY <3>6, <3>8, <3>9, <3>10, Zenon DEF WaitsFrom
    <2>2. CASE m_hComm # "open" /\ inQue' = inQue /\ cut' = cut \cup {sent + 1}
               /\ ends' = ends
      <3>1. Top(b)' = Top(b) /\ Top(b) <= sent /\ Top(b) \in Nat
        BY <1>1, <1>2, <1>3, <2>2 DEF Top, WaitsFrom
      <3>2. \A n \in 1 .. sent' : n \in cut' <=> ~InEvent(n)' /\ ~(b < n /\ n <= Top(b)')
        <4> SUFFICES ASSUME NEW n \in 1 .. sent'
                     PROVE  n \in cut' <=> ~InEvent(n)' /\ ~(b < n /\ n <= Top(b)')
          OBVIOUS
        <4>1. CASE n = sent + 1
          BY <1>2, <1>6, <1>7, <2>2, <3>1, <4>1
        <4>2. CASE n \in 1 .. sent
          BY <1>1, <1>2, <1>6, <2>2, <3>1, <4>2 DEF WaitsFrom
        <4> QED BY <1>2, <1>3, <4>1, <4>2
      <3> QED BY <1>1, <1>2, <1>3, <2>2, <3>1, <3>2 DEF WaitsFrom
    <2> QED BY <1>4, <2>1, <2>2
  <1>9. LinesInv'
    <2>1. \A a \in 1 .. Len(events) : IsLine(a)'
      BY <1>2, <1>3, <1>4, LinesStay DEF IInv, LinesInv
    <2>2. b \in 0 .. sent'
      BY <1>2, <1>3
    <2> QED BY <1>3, <1>8, <2>1, <2>2 DEF IInv, LinesInv
  <1>10. Flags'
    BY Zenon DEF IInv, Flags
  <1>11. Control' /\ Port'
    BY DEF IInv, Control, Port
  <1>12. ClosedIsEmpty' /\ ErrorsAreOfThisPort' /\ RingFits' /\ ShortLinesFit'
    BY <1>4 DEF IInv, ClosedIsEmpty, ErrorsAreOfThisPort, RingFits, ShortLinesFit
  <1> QED BY <1>5, <1>9, <1>10, <1>11, <1>12 DEF IInv

LEMMA BreakIInv == IInv /\ Break => IInv'
  <1> SUFFICES ASSUME IInv, Break PROVE IInv'
    OBVIOUS
  <1> USE DEF Break, dialog, parsing, watch, stream
  <1>1. PICK b \in 0 .. sent : WaitsFrom(b)
    BY DEF IInv, LinesInv
  <1>2. /\ Len(m_RecvBuff) \in Nat /\ Len(pBuff) \in Nat /\ Len(inQue) \in Nat
        /\ sent \in Nat /\ b \in Nat
    BY <1>1, ByteLens DEF IInv
  <1> DEFINE c == b + Len(m_RecvBuff) + Len(pBuff)
  <1>3. Top(b)' = c /\ Top(b) = c + Len(inQue) /\ c \in Nat /\ Top(b) <= sent
    BY <1>1, <1>2 DEF Top, WaitsFrom
  <1>4. \A n \in Int : n \in ToSet(inQue) <=> c < n /\ n <= Top(b)
    BY <1>1, <1>3, ToSetRun DEF IInv, Bytes, WaitsFrom
  <1>5. Bytes'
    <2>1. ToSet(inQue) \subseteq 1 .. sent
      BY LenProperties DEF ToSet, IInv, Bytes
    <2> QED BY <2>1, EmptySeq DEF IInv, Bytes
  <1>6. \A n : InEvent(n)' <=> InEvent(n)
    BY DEF InEvent
  <1>7. \A n \in 1 .. sent : InEvent(n) => n <= b
    BY <1>1, EventsBelow DEF IInv
  <1>8. \A n \in 1 .. sent : n \in cut' <=> ~InEvent(n)' /\ ~(b < n /\ n <= Top(b)')
    <2> HIDE DEF c
    <2>1. \A n \in 1 .. sent : n \in cut <=> ~InEvent(n) /\ ~(b < n /\ n <= Top(b))
      BY <1>1 DEF WaitsFrom
    <2>2. b <= c
      BY <1>2 DEF c
    <2> QED BY <1>2, <1>3, <1>4, <1>6, <1>7, <2>1, <2>2
  <1>9. m_hComm' # "open"
    BY DEF IInv, Port
  <1>10. WaitsFrom(b)'
    BY <1>1, <1>2, <1>3, <1>8, <1>9 DEF WaitsFrom
  <1>11. LinesInv'
    <2>1. \A a \in 1 .. Len(events) : IsLine(a)'
      BY LinesStay DEF IInv, LinesInv
    <2> QED BY <1>10, <2>1 DEF IInv, LinesInv
  <1>12. Flags'
    BY Zenon DEF IInv, Flags
  <1>13. Control' /\ Port'
    BY Sizes DEF IInv, Control, Port
  <1>14. ClosedIsEmpty' /\ ErrorsAreOfThisPort' /\ RingFits' /\ ShortLinesFit'
    BY <1>9 DEF IInv, ClosedIsEmpty, ErrorsAreOfThisPort, RingFits, ShortLinesFit
  <1> QED BY <1>5, <1>11, <1>12, <1>13, <1>14 DEF IInv

(* A sequence in two parts.                                                 *)
LEMMA Parts ==
  ASSUME NEW S, NEW s \in Seq(S), NEW d \in 0 .. Len(s)
  PROVE  /\ SubSeq(s, 1, d) \in Seq(S) /\ Len(SubSeq(s, 1, d)) = d
         /\ \A k \in 1 .. d : SubSeq(s, 1, d)[k] = s[k]
         /\ SubSeq(s, d + 1, Len(s)) \in Seq(S)
         /\ Len(SubSeq(s, d + 1, Len(s))) = Len(s) - d
         /\ \A k \in 1 .. Len(s) - d : SubSeq(s, d + 1, Len(s))[k] = s[d + k]
  <1>1. /\ SubSeq(s, 1, d) \in Seq(S) /\ Len(SubSeq(s, 1, d)) = d
        /\ \A k \in 1 .. d : SubSeq(s, 1, d)[k] = s[k]
    OBVIOUS
  <1>2. /\ SubSeq(s, d + 1, Len(s)) \in Seq(S)
        /\ Len(SubSeq(s, d + 1, Len(s))) = Len(s) - d
    OBVIOUS
  <1>3. \A k \in 1 .. Len(s) - d : SubSeq(s, d + 1, Len(s))[k] = s[d + k]
    OBVIOUS
  <1> QED BY <1>1, <1>2, <1>3

LEMMA ReadCommIInv == IInv /\ ReadComm => IInv'
  <1> SUFFICES ASSUME IInv, ReadComm PROVE IInv'
    OBVIOUS
  <1> USE DEF ReadComm, dialog, port, parsing, stream, device
  <1>1. PICK b \in 0 .. sent : WaitsFrom(b)
    BY DEF IInv, LinesInv
  <1>2. /\ Len(m_RecvBuff) \in Nat /\ Len(inQue) \in Nat
        /\ sent \in Nat /\ b \in Nat /\ inQue \in Seq(1 .. sent)
    BY <1>1, ByteLens DEF IInv, Bytes
  <1> DEFINE d == IF Len(inQue) < BUFF_SIZE THEN Len(inQue) ELSE BUFF_SIZE
  <1>3. /\ d \in 0 .. Len(inQue)
        /\ pBuff' = SubSeq(inQue, 1, d)
        /\ inQue' = SubSeq(inQue, d + 1, Len(inQue))
        /\ wpc' = IF d = 0 THEN "test" ELSE "read"
    BY <1>2, Sizes
  <1> HIDE DEF d
  <1>4. /\ pBuff' \in Seq(1 .. sent) /\ Len(pBuff') = d
        /\ \A k \in 1 .. d : pBuff'[k] = inQue[k]
        /\ inQue' \in Seq(1 .. sent) /\ Len(inQue') = Len(inQue) - d
        /\ \A k \in 1 .. Len(inQue) - d : inQue'[k] = inQue[d + k]
    <2>1. inQue \in Seq(1 .. sent) /\ d \in 0 .. Len(inQue)
      BY <1>2, <1>3
    <2>2. /\ SubSeq(inQue, 1, d) \in Seq(1 .. sent) /\ Len(SubSeq(inQue, 1, d)) = d
          /\ \A k \in 1 .. d : SubSeq(inQue, 1, d)[k] = inQue[k]
          /\ SubSeq(inQue, d + 1, Len(inQue)) \in Seq(1 .. sent)
          /\ Len(SubSeq(inQue, d + 1, Len(inQue))) = Len(inQue) - d
          /\ \A k \in 1 .. Len(inQue) - d :
               SubSeq(inQue, d + 1, Len(inQue))[k] = inQue[d + k]
      BY ONLY <2>1, Parts
    <2> QED BY ONLY <1>3, <2>2, Zenon
  <1>5. Len(pBuff) = 0
    OBVIOUS
  <1>6. Top(b) = b + Len(m_RecvBuff) + Len(inQue) /\ Top(b)' = Top(b)
    <2>1. Top(b) = b + Len(m_RecvBuff) + 0 + Len(inQue)
      BY <1>5 DEF Top
    <2>2. Top(b)' = b + Len(m_RecvBuff) + d + (Len(inQue) - d)
      BY <1>4 DEF Top
    <2> QED BY ONLY <1>2, <1>3, <2>1, <2>2
  <1>7. \A n : InEvent(n)' <=> InEvent(n)
    BY DEF InEvent
  <1>8. \A k \in 1 .. Len(inQue) : inQue[k] = b + Len(m_RecvBuff) + k
    BY <1>1, <1>2, <1>5 DEF WaitsFrom
  <1>9. /\ \A k \in 1 .. Len(pBuff') : pBuff'[k] = b + Len(m_RecvBuff) + k
        /\ \A k \in 1 .. Len(inQue') :
             inQue'[k] = b + Len(m_RecvBuff) + Len(pBuff') + k
    <2>1. \A k \in 1 .. d : inQue[k] = b + Len(m_RecvBuff) + k
      BY ONLY <1>2, <1>3, <1>8
    <2>2. ASSUME NEW k \in 1 .. Len(inQue) - d
          PROVE  inQue'[k] = b + Len(m_RecvBuff) + d + k
      <3>1. d + k \in 1 .. Len(inQue)
        BY <1>2, <1>3
      <3>2. inQue[d + k] = b + Len(m_RecvBuff) + (d + k)
        BY <1>8, <3>1
      <3>3. inQue'[k] = inQue[d + k]
        BY <1>4
      <3> QED BY ONLY <1>2, <1>3, <3>2, <3>3, k \in 1 .. Len(inQue) - d
    <2> QED BY <1>4, <2>1, <2>2
  <1>10. WaitsFrom(b)'
    BY <1>1, <1>6, <1>7, <1>9 DEF WaitsFrom
  <1>11. LinesInv'
    <2>1. \A a \in 1 .. Len(events) : IsLine(a)'
      BY LinesStay DEF IInv, LinesInv
    <2> QED BY <1>10, <2>1 DEF IInv, LinesInv
  <1>12. Bytes'
    BY <1>4 DEF IInv, Bytes
  <1>13. wpc = "read" /\ wpc' \in {"test", "read"} /\ (wpc' = "test" => pBuff' = <<>>)
    BY <1>2 DEF Watch
  <1>14. m_hComm # "open" => inQue' = <<>>
    BY <1>2, <1>3 DEF IInv, ClosedIsEmpty
  <1>15. Flags'
    BY Zenon DEF IInv, Flags
  <1>16. Control' /\ Port'
    BY <1>13 DEF IInv, Control, Port
  <1>17. ClosedIsEmpty' /\ ErrorsAreOfThisPort' /\ RingFits' /\ ShortLinesFit'
    BY <1>13, <1>14
    DEF IInv, ClosedIsEmpty, ErrorsAreOfThisPort, RingFits, ShortLinesFit
  <1> QED BY <1>11, <1>12, <1>15, <1>16, <1>17 DEF IInv

(* The line under way with the next byte, b being the last one before it.   *)
LEMMA NextByte ==
  ASSUME IInv, NEW b \in 0 .. sent, WaitsFrom(b), pBuff # <<>>
  PROVE  LET line == Append(m_RecvBuff, Head(pBuff)) IN
           /\ Head(pBuff) = b + Len(m_RecvBuff) + 1
           /\ line \in Seq(1 .. sent) /\ Len(line) = Len(m_RecvBuff) + 1
           /\ \A k \in 1 .. Len(line) : line[k] = b + k
           /\ Tail(pBuff) \in Seq(1 .. sent) /\ Len(Tail(pBuff)) = Len(pBuff) - 1
           /\ \A k \in 1 .. Len(Tail(pBuff)) :
                Tail(pBuff)[k] = b + Len(m_RecvBuff) + 1 + k
           /\ b + Len(m_RecvBuff) + 1 <= Top(b) /\ Top(b) <= sent
           /\ Len(m_RecvBuff) \in Nat /\ Len(pBuff) \in Nat /\ Len(inQue) \in Nat
           /\ sent \in Nat /\ b \in Nat
  <1>1. /\ Len(m_RecvBuff) \in Nat /\ Len(pBuff) \in Nat /\ Len(inQue) \in Nat
        /\ sent \in Nat /\ b \in Nat
    BY ByteLens DEF IInv
  <1>2. Len(pBuff) > 0 /\ m_RecvBuff \in Seq(1 .. sent) /\ pBuff \in Seq(1 .. sent)
    BY <1>1, EmptySeq DEF IInv, Bytes
  <1>3. /\ Head(pBuff) = pBuff[1] /\ Head(pBuff) \in 1 .. sent
        /\ Tail(pBuff) \in Seq(1 .. sent) /\ Len(Tail(pBuff)) = Len(pBuff) - 1
        /\ \A k \in 1 .. Len(Tail(pBuff)) : Tail(pBuff)[k] = pBuff[k + 1]
    <2>1. Head(pBuff) = pBuff[1]
      OBVIOUS
    <2> QED BY <1>2, <2>1, HeadTailProperties
  <1>4. /\ \A k \in 1 .. Len(m_RecvBuff) : m_RecvBuff[k] = b + k
        /\ \A k \in 1 .. Len(pBuff) : pBuff[k] = b + Len(m_RecvBuff) + k
        /\ Top(b) <= sent
    BY DEF WaitsFrom
  <1>5. Head(pBuff) = b + Len(m_RecvBuff) + 1
    BY <1>1, <1>2, <1>3, <1>4
  <1> DEFINE line == Append(m_RecvBuff, Head(pBuff))
  <1>6. /\ line \in Seq(1 .. sent) /\ Len(line) = Len(m_RecvBuff) + 1
        /\ \A k \in 1 .. Len(m_RecvBuff) : line[k] = m_RecvBuff[k]
        /\ line[Len(m_RecvBuff) + 1] = Head(pBuff)
    BY <1>2, <1>3, AppendProperties
  <1> HIDE DEF line
  <1>7. \A k \in 1 .. Len(line) : line[k] = b + k
    <2> SUFFICES ASSUME NEW k \in 1 .. Len(line) PROVE line[k] = b + k
      OBVIOUS
    <2>1. CASE k \in 1 .. Len(m_RecvBuff)
      BY <1>4, <1>6, <2>1
    <2>2. CASE k = Len(m_RecvBuff) + 1
      BY <1>1, <1>5, <1>6, <2>2
    <2> QED BY <1>1, <1>6, <2>1, <2>2
  <1>8. \A k \in 1 .. Len(Tail(pBuff)) :
          Tail(pBuff)[k] = b + Len(m_RecvBuff) + 1 + k
    BY <1>1, <1>3, <1>4
  <1>9. b + Len(m_RecvBuff) + 1 <= Top(b)
    BY <1>1, <1>2 DEF Top
  <1> QED BY <1>1, <1>3, <1>4, <1>5, <1>6, <1>7, <1>8, <1>9 DEF line

LEMMA StoreByteIInv == IInv /\ StoreByte => IInv'
  <1> SUFFICES ASSUME IInv, StoreByte PROVE IInv'
    OBVIOUS
  <1> USE DEF dialog, port, stream, device
  <1>1. PICK b \in 0 .. sent : WaitsFrom(b)
    BY DEF IInv, LinesInv
  <1>a. PICK c \in Nat : c = b + Len(m_RecvBuff) + 1
    BY ByteLens, <1>1 DEF IInv
  <1> DEFINE line == Append(m_RecvBuff, Head(pBuff))
  <1>2. /\ Head(pBuff) = c /\ line \in Seq(1 .. sent)
        /\ Len(line) = Len(m_RecvBuff) + 1 /\ \A k \in 1 .. Len(line) : line[k] = b + k
        /\ Tail(pBuff) \in Seq(1 .. sent) /\ Len(Tail(pBuff)) = Len(pBuff) - 1
        /\ \A k \in 1 .. Len(Tail(pBuff)) : Tail(pBuff)[k] = c + k
        /\ c <= Top(b) /\ Top(b) <= sent
        /\ Len(m_RecvBuff) \in Nat /\ Len(pBuff) \in Nat /\ Len(inQue) \in Nat
        /\ sent \in Nat /\ b \in Nat
    BY <1>1, <1>a, NextByte DEF StoreByte
  <1>3. /\ c \notin ends /\ pBuff' = Tail(pBuff) /\ wpc = "read" /\ wpc' = "read"
        /\ UNCHANGED <<dialog, posted, port, m_nRingBuffer, events,
                       G_hShutdown_Event, device, inQue, stream, deaf, fault>>
    BY <1>2 DEF StoreByte, Watch
  <1>4. \/ /\ Len(line) > BUFF_SIZE /\ m_RecvBuff' = <<>> /\ cut' = cut \cup ToSet(line)
        \/ /\ Len(line) <= BUFF_SIZE /\ m_RecvBuff' = line /\ cut' = cut
    BY <1>2, Sizes DEF StoreByte
  <1> HIDE DEF line
  <1>5. \A n \in Int : n \in ToSet(line) <=> b < n /\ n <= c
    <2>1. \A n \in Int : n \in ToSet(line) <=> b < n /\ n <= b + Len(line)
      BY ONLY <1>2, ToSetRun
    <2>2. b + Len(line) = c
      BY <1>2, <1>a
    <2> QED BY <2>1, <2>2
  <1>6. Bytes'
    <2>1. m_RecvBuff' \in Seq(1 .. sent)
      <3>1. CASE m_RecvBuff' = <<>>
        BY <3>1, EmptySeq
      <3>2. CASE m_RecvBuff' = line
        BY <1>2, <3>2
      <3> QED BY <1>4, <3>1, <3>2
    <2>2. cut' \subseteq 1 .. sent
      <3>1. cut \subseteq 1 .. sent
        BY DEF IInv, Bytes
      <3>2. ToSet(line) \subseteq 1 .. sent
        BY <1>2, LenProperties DEF ToSet
      <3> QED BY ONLY <1>4, <3>1, <3>2
    <2> QED BY <1>2, <1>3, <2>1, <2>2 DEF IInv, Bytes
  <1>7. \A n : InEvent(n)' <=> InEvent(n)
    BY <1>3 DEF InEvent
  <1>8. Top(b) = b + Len(m_RecvBuff) + Len(pBuff) + Len(inQue)
    BY DEF Top
  <1>9. \E x \in 0 .. sent' : WaitsFrom(x)'
    <2>1. CASE Len(line) <= BUFF_SIZE /\ m_RecvBuff' = line /\ cut' = cut
      <3>1. Top(b)' = b + Len(line) + (Len(pBuff) - 1) + Len(inQue)
        BY <1>2, <1>3, <2>1 DEF Top
      <3>2. Top(b)' = Top(b)
        BY ONLY <1>2, <1>8, <3>1
      <3>3. \A k \in 1 .. Len(line) : b + k \notin ends
        <4> SUFFICES ASSUME NEW k \in 1 .. Len(line) PROVE b + k \notin ends
          OBVIOUS
        <4>1. CASE k \in 1 .. Len(m_RecvBuff)
          BY <1>1, <4>1 DEF WaitsFrom
        <4>2. CASE b + k = c
          BY <1>3, <4>2
        <4> QED BY <1>2, <1>a, <4>1, <4>2
      <3>4. \A k \in 1 .. Len(Tail(pBuff)) : Tail(pBuff)[k] = b + Len(line) + k
        BY <1>2, <1>a
      <3>5. \A k \in 1 .. Len(inQue) :
              inQue[k] = b + Len(line) + (Len(pBuff) - 1) + k
        <4>1. \A k \in 1 .. Len(inQue) :
                inQue[k] = b + Len(m_RecvBuff) + Len(pBuff) + k
          BY <1>1 DEF WaitsFrom
        <4> QED BY ONLY <1>2, <4>1
      <3>6. \A n \in 1 .. sent : n \in cut <=> ~InEvent(n) /\ ~(b < n /\ n <= Top(b)')
        BY <1>1, <3>2 DEF WaitsFrom
      <3>7. /\ Top(b)' <= sent /\ (m_hComm = "open" => Top(b)' = sent)
            /\ b \in {0} \cup ends \cup cut
            /\ \A a \in 1 .. Len(events) : events[a][Len(events[a])] <= b
        BY <1>1, <3>2 DEF WaitsFrom
      <3>8. WaitsFrom(b)'
        <4>1. /\ Top(b)' <= sent' /\ (m_hComm' = "open" => Top(b)' = sent')
              /\ b \in {0} \cup ends' \cup cut'
              /\ \A a \in 1 .. Len(events') : events'[a][Len(events'[a])] <= b
          BY <1>3, <2>1, <3>7
        <4>2. \A k \in 1 .. Len(m_RecvBuff') : m_RecvBuff'[k] = b + k /\ b + k \notin ends'
          BY <1>2, <1>3, <2>1, <3>3
        <4>3. \A k \in 1 .. Len(pBuff') : pBuff'[k] = b + Len(m_RecvBuff') + k
          BY <1>3, <2>1, <3>4
        <4>4. \A k \in 1 .. Len(inQue') :
                inQue'[k] = b + Len(m_RecvBuff') + Len(pBuff') + k
          BY <1>2, <1>3, <2>1, <3>5
        <4>5. \A n \in 1 .. sent' :
                n \in cut' <=> ~InEvent(n)' /\ ~(b < n /\ n <= Top(b)')
          BY <1>3, <1>7, <2>1, <3>6
        <4> QED BY <4>1, <4>2, <4>3, <4>4, <4>5, Zenon DEF WaitsFrom
      <3> QED
        <4>1. b \in 0 .. sent'
          BY <1>2, <1>3
        <4> QED BY <3>8, <4>1, Zenon
    <2>2. CASE m_RecvBuff' = <<>> /\ cut' = cut \cup ToSet(line)
      <3>1. Top(c)' = c + 0 + (Len(pBuff) - 1) + Len(inQue)
        BY <1>2, <1>3, <2>2 DEF Top
      <3>2. Top(c)' = Top(b) /\ c \in 0 .. sent
        BY <1>2, <1>a, <1>8, <3>1
      <3>3. \A k \in 1 .. Len(Tail(pBuff)) : Tail(pBuff)[k] = c + 0 + k
        BY <1>2
      <3>4. \A k \in 1 .. Len(inQue) : inQue[k] = c + 0 + (Len(pBuff) - 1) + k
        <4>1. \A k \in 1 .. Len(inQue) :
                inQue[k] = b + Len(m_RecvBuff) + Len(pBuff) + k
          BY <1>1 DEF WaitsFrom
        <4> QED BY ONLY <1>2, <1>a, <4>1
      <3>5. \A n \in 1 .. sent : InEvent(n) => n <= b
        BY <1>1, EventsBelow DEF IInv
      <3>6. \A n \in 1 .. sent : n \in cut' <=> ~InEvent(n) /\ ~(c < n /\ n <= Top(c)')
        <4>1. \A n \in 1 .. sent : n \in cut <=> ~InEvent(n) /\ ~(b < n /\ n <= Top(b))
          BY <1>1 DEF WaitsFrom
        <4>2. b < c
          BY <1>2, <1>a
        <4> QED BY <1>2, <1>5, <2>2, <3>2, <3>5, <4>1, <4>2
      <3>7. c \in cut'
        BY <1>2, <1>a, <1>5, <2>2
      <3>8. \A a \in 1 .. Len(events) : events[a][Len(events[a])] <= c
        <4>1. \A a \in 1 .. Len(events) :
                events[a][Len(events[a])] <= b /\ events[a][Len(events[a])] \in Int
          BY <1>1, EventTypes DEF WaitsFrom, IInv, LinesInv, IsLine
        <4> QED BY <1>2, <1>a, <4>1
      <3>9. Top(c)' <= sent /\ (m_hComm = "open" => Top(c)' = sent)
        BY <1>1, <3>2 DEF WaitsFrom
      <3>10. Len(m_RecvBuff') = 0 /\ Len(pBuff') = Len(pBuff) - 1
        BY <1>2, <1>3, <2>2
      <3>11. WaitsFrom(c)'
        <4>1. /\ Top(c)' <= sent' /\ (m_hComm' = "open" => Top(c)' = sent')
              /\ c \in {0} \cup ends' \cup cut'
              /\ \A a \in 1 .. Len(events') : events'[a][Len(events'[a])] <= c
          BY <1>3, <3>7, <3>8, <3>9
        <4>2. \A k \in 1 .. Len(m_RecvBuff') : m_RecvBuff'[k] = c + k /\ c + k \notin ends'
          BY <3>10
        <4>3. \A k \in 1 .. Len(pBuff') : pBuff'[k] = c + Len(m_RecvBuff') + k
          BY <1>3, <3>3, <3>10
        <4>4. \A k \in 1 .. Len(inQue') :
                inQue'[k] = c + Len(m_RecvBuff') + Len(pBuff') + k
          BY <1>3, <3>4, <3>10
        <4>5. \A n \in 1 .. sent' :
                n \in cut' <=> ~InEvent(n)' /\ ~(c < n /\ n <= Top(c)')
          BY <1>3, <1>7, <3>6
        <4> QED BY <4>1, <4>2, <4>3, <4>4, <4>5, Zenon DEF WaitsFrom
      <3>12. c \in 0 .. sent'
        BY <1>3, <3>2
      <3> QED BY <3>11, <3>12, Zenon
    <2> QED BY <1>4, <2>1, <2>2
  <1>10. LinesInv'
    <2>1. \A a \in 1 .. Len(events) : IsLine(a)'
      BY <1>3, <1>4, LinesStay DEF IInv, LinesInv
    <2> QED BY <1>3, <1>9, <2>1 DEF IInv, LinesInv
  <1>11. Flags'
    BY <1>3, Zenon DEF IInv, Flags
  <1>12. Control' /\ Port'
    BY <1>3 DEF IInv, Control, Port
  <1>13. ClosedIsEmpty' /\ ErrorsAreOfThisPort' /\ RingFits'
    BY <1>3 DEF IInv, ClosedIsEmpty, ErrorsAreOfThisPort, RingFits, Port
  <1>14. ShortLinesFit'
    BY <1>3, <1>4, Sizes DEF IInv, ShortLinesFit
  <1> QED BY <1>6, <1>10, <1>11, <1>12, <1>13, <1>14 DEF IInv

(* Events end before what waits.                                            *)
LEMMA EventEnds ==
  ASSUME IInv, NEW b \in 0 .. sent, WaitsFrom(b)
  PROVE  \A a \in 1 .. Len(events) :
           events[a][Len(events[a])] <= b /\ events[a][Len(events[a])] \in Int
  <1> SUFFICES ASSUME NEW a \in 1 .. Len(events)
               PROVE  events[a][Len(events[a])] <= b /\ events[a][Len(events[a])] \in Int
    OBVIOUS
  <1>1. events[a][Len(events[a])] <= b
    BY DEF WaitsFrom
  <1>2. Len(events[a]) > 0
    BY DEF IInv, LinesInv, IsLine
  <1>3. Len(events[a]) \in 1 .. Len(events[a])
    BY <1>2, EventTypes DEF IInv
  <1>4. events[a][Len(events[a])] \in 1 .. sent
    BY <1>3, EventTypes DEF IInv
  <1> QED BY <1>1, <1>4

LEMMA EndLineIInv == IInv /\ EndLine => IInv'
  <1> SUFFICES ASSUME IInv, EndLine PROVE IInv'
    OBVIOUS
  <1> USE DEF dialog, port, stream, device
  <1>1. PICK b \in 0 .. sent : WaitsFrom(b)
    BY DEF IInv, LinesInv
  <1>a. PICK c \in Nat : c = b + Len(m_RecvBuff) + 1
    BY ByteLens, <1>1 DEF IInv
  <1>b. PICK line : line = Append(m_RecvBuff, Head(pBuff))
    OBVIOUS
  <1>2. /\ Head(pBuff) = c /\ line \in Seq(1 .. sent)
        /\ Len(line) = Len(m_RecvBuff) + 1 /\ \A k \in 1 .. Len(line) : line[k] = b + k
        /\ Tail(pBuff) \in Seq(1 .. sent) /\ Len(Tail(pBuff)) = Len(pBuff) - 1
        /\ \A k \in 1 .. Len(Tail(pBuff)) : Tail(pBuff)[k] = c + k
        /\ c <= Top(b) /\ Top(b) <= sent
        /\ Len(m_RecvBuff) \in Nat /\ Len(pBuff) \in Nat /\ Len(inQue) \in Nat
        /\ sent \in Nat /\ b \in Nat
    BY <1>1, <1>a, <1>b, NextByte DEF EndLine
  <1>3. /\ c \in ends /\ pBuff' = Tail(pBuff) /\ wpc = "read" /\ wpc' = "read"
        /\ m_RecvBuff' = <<>> /\ fault = "none"
        /\ UNCHANGED <<dialog, posted, port, G_hShutdown_Event, device, inQue,
                       stream, cut, deaf>>
    BY <1>2 DEF EndLine, Watch, Runs, NextLine
  <1>4. /\ events' = Append(events, line)
        /\ m_nRingBuffer' = NextInRing(Len(line) + 1)
        /\ fault' \in {"none", "smashed", "overrun"}
        /\ fault' = "overrun" => Cleared(Len(line) + 1) > RingSize
    BY <1>b DEF EndLine
  <1>5. /\ events \in Seq(Seq(1 .. sent)) /\ Len(events) \in Nat
        /\ events' \in Seq(Seq(1 .. sent)) /\ Len(events') = Len(events) + 1
        /\ \A a \in 1 .. Len(events) : events'[a] = events[a]
        /\ events'[Len(events) + 1] = line
    <2>1. events \in Seq(Seq(1 .. sent)) /\ Len(events) \in Nat
      BY ByteLens DEF IInv, Bytes
    <2> QED BY <1>2, <1>4, <2>1, AppendProperties
  <1>6. Bytes' /\ RingFits' /\ ShortLinesFit'
    <2>1. m_nRingBuffer' \in 0 .. RingSize /\ RingFits'
      BY <1>2, <1>4, Sizes DEF IInv, Bytes, RingFits, NextInRing, Cleared
    <2>2. ShortLinesFit'
      <3>1. Last(events') = line
        BY <1>5 DEF Last
      <3>2. fault' = "overrun" => Len(line) >= Margin
        BY <1>2, <1>4, Sizes DEF IInv, Bytes, RingFits, Cleared
      <3>3. Len(m_RecvBuff') <= BUFF_SIZE
        BY <1>3, Sizes
      <3> QED BY <3>1, <3>2, <3>3 DEF ShortLinesFit
    <2>3. m_RecvBuff' \in Seq(1 .. sent) /\ pBuff' \in Seq(1 .. sent)
      BY <1>2, <1>3, EmptySeq
    <2> QED BY <1>3, <1>5, <2>1, <2>2, <2>3 DEF IInv, Bytes
  <1>7. \A n \in Int : InEvent(n)' <=> InEvent(n) \/ (b < n /\ n <= c)
    <2> SUFFICES ASSUME NEW n \in Int
                 PROVE  InEvent(n)' <=> InEvent(n) \/ (b < n /\ n <= c)
      OBVIOUS
    <2>1. ASSUME InEvent(n) PROVE InEvent(n)'
      <3>1. PICK a \in 1 .. Len(events) : \E k \in 1 .. Len(events[a]) : events[a][k] = n
        BY <2>1 DEF InEvent
      <3>2. a \in 1 .. Len(events') /\ events'[a] = events[a]
        BY <1>5
      <3> QED BY <3>1, <3>2 DEF InEvent
    <2>2. ASSUME b < n, n <= c PROVE InEvent(n)'
      <3>1. n - b \in 1 .. Len(line) /\ line[n - b] = n
        BY <1>2, <1>a, <2>2
      <3>2. Len(events) + 1 \in 1 .. Len(events')
        BY <1>5
      <3> QED BY <1>5, <3>1, <3>2 DEF InEvent
    <2>3. ASSUME InEvent(n)', ~InEvent(n) PROVE b < n /\ n <= c
      <3>1. PICK a \in 1 .. Len(events') :
              \E k \in 1 .. Len(events'[a]) : events'[a][k] = n
        BY <2>3 DEF InEvent
      <3>2. a \notin 1 .. Len(events)
        BY <1>5, <2>3, <3>1 DEF InEvent
      <3>3. events'[a] = line
        BY <1>5, <3>2
      <3>4. PICK k \in 1 .. Len(line) : line[k] = n
        BY <3>1, <3>3
      <3> QED BY <1>2, <1>a, <3>4
    <2> QED BY <2>1, <2>2, <2>3
  <1>8. Top(b) = b + Len(m_RecvBuff) + Len(pBuff) + Len(inQue)
    BY DEF Top
  <1>9. WaitsFrom(c)'
    <2>1. Len(m_RecvBuff') = 0 /\ Len(pBuff') = Len(pBuff) - 1
      BY <1>2, <1>3
    <2>2. Top(c)' = c + 0 + (Len(pBuff) - 1) + Len(inQue)
      BY <1>2, <1>3, <2>1 DEF Top
    <2>3. Top(c)' = Top(b)
      BY <1>2, <1>a, <1>8, <2>2
    <2>4. /\ Top(c)' <= sent' /\ (m_hComm' = "open" => Top(c)' = sent')
          /\ c \in {0} \cup ends' \cup cut'
      BY <1>1, <1>3, <2>3 DEF WaitsFrom
    <2>5. \A k \in 1 .. Len(m_RecvBuff') : m_RecvBuff'[k] = c + k /\ c + k \notin ends'
      BY <2>1
    <2>6. \A k \in 1 .. Len(pBuff') : pBuff'[k] = c + Len(m_RecvBuff') + k
      BY <1>2, <1>3, <2>1
    <2>7. \A k \in 1 .. Len(inQue') :
            inQue'[k] = c + Len(m_RecvBuff') + Len(pBuff') + k
      <3>1. \A k \in 1 .. Len(inQue) :
              inQue[k] = b + Len(m_RecvBuff) + Len(pBuff) + k
        BY <1>1 DEF WaitsFrom
      <3>2. \A k \in 1 .. Len(inQue) : inQue[k] = c + 0 + (Len(pBuff) - 1) + k
        BY ONLY <1>2, <1>a, <3>1
      <3> QED BY <1>3, <2>1, <3>2
    <2>8. \A n \in 1 .. sent' :
            n \in cut' <=> ~InEvent(n)' /\ ~(c < n /\ n <= Top(c)')
      <3>1. \A n \in 1 .. sent : n \in cut <=> ~InEvent(n) /\ ~(b < n /\ n <= Top(b))
        BY <1>1 DEF WaitsFrom
      <3>2. b < c /\ c <= Top(b) /\ Top(b) \in Int
        BY <1>2, <1>a, <1>8
      <3>3. \A n \in 1 .. sent : InEvent(n) => n <= b
        BY <1>1, EventsBelow DEF IInv
      <3>4. cut' = cut /\ sent' = sent
        BY <1>3
      <3> QED BY <1>2, <1>7, <2>3, <3>1, <3>2, <3>3, <3>4
    <2>9. \A a \in 1 .. Len(events') : events'[a][Len(events'[a])] <= c
      <3> SUFFICES ASSUME NEW a \in 1 .. Len(events')
                   PROVE  events'[a][Len(events'[a])] <= c
        OBVIOUS
      <3>1. CASE a \in 1 .. Len(events)
        <4>1. events[a][Len(events[a])] <= b /\ events[a][Len(events[a])] \in Int
          BY <1>1, <3>1, EventEnds
        <4>2. events'[a] = events[a]
          BY <1>5, <3>1
        <4>3. b <= c /\ b \in Int /\ c \in Int
          BY <1>2, <1>a
        <4>4. events[a][Len(events[a])] <= c
          BY ONLY <4>1, <4>3
        <4> QED BY ONLY <4>2, <4>4, Zenon
      <3>2. CASE a = Len(events) + 1
        <4>1. events'[a] = line
          BY <1>5, <3>2
        <4>2. Len(line) \in 1 .. Len(line) /\ b + Len(line) = c /\ c <= c
          BY <1>2, <1>a
        <4>3. line[Len(line)] = c
          BY <1>2, <4>2
        <4> QED BY <4>1, <4>2, <4>3, Zenon
      <3> QED BY <1>5, <3>1, <3>2
    <2> QED BY <2>4, <2>5, <2>6, <2>7, <2>8, <2>9, Zenon DEF WaitsFrom
  <1>10. \A a \in 1 .. Len(events') : IsLine(a)'
    <2> SUFFICES ASSUME NEW a \in 1 .. Len(events') PROVE IsLine(a)'
      OBVIOUS
    <2>1. CASE a \in 1 .. Len(events)
      <3>1. IsLine(a) /\ events'[a] = events[a]
        BY <1>5, <2>1 DEF IInv, LinesInv
      <3> QED BY <1>3, <3>1 DEF IsLine
    <2>2. CASE a = Len(events) + 1
      <3>1. events'[a] = line
        BY <1>5, <2>2
      <3>2. Len(line) > 0 /\ line[1] = b + 1 /\ line[1] > 0
        BY <1>2
      <3>3. \A k \in 1 .. Len(line) : line[k] = line[1] + k - 1
        BY <1>2, <3>2
      <3>4. \A k \in 1 .. Len(line) : line[k] \in ends <=> k = Len(line)
        <4>1. \A k \in 1 .. Len(m_RecvBuff) : b + k \notin ends
          BY <1>1 DEF WaitsFrom
        <4>2. line[Len(line)] = c /\ c \in ends
          BY <1>2, <1>3, <1>a
        <4>3. ASSUME NEW k \in 1 .. Len(line), k # Len(line) PROVE line[k] \notin ends
          <5>1. k \in 1 .. Len(m_RecvBuff) /\ line[k] = b + k
            BY <1>2, <4>3
          <5> QED BY ONLY <4>1, <5>1
        <4> QED BY ONLY <4>2, <4>3
      <3>5. line[1] - 1 \in {0} \cup ends \cup cut
        <4>1. b \in {0} \cup ends \cup cut
          BY <1>1 DEF WaitsFrom
        <4>2. line[1] - 1 = b
          BY <1>2, <3>2
        <4> QED BY <4>1, <4>2
      <3> QED BY <1>3, <3>1, <3>2, <3>3, <3>4, <3>5 DEF IsLine
    <2> QED BY <1>5, <2>1, <2>2
  <1>11. \A a, d \in 1 .. Len(events') :
           a < d => events'[a][Len(events'[a])] < events'[d][1]
    <2> SUFFICES ASSUME NEW a \in 1 .. Len(events'), NEW d \in 1 .. Len(events'), a < d
                 PROVE  events'[a][Len(events'[a])] < events'[d][1]
      OBVIOUS
    <2>1. a \in 1 .. Len(events) /\ events'[a] = events[a]
      BY <1>5
    <2>2. CASE d \in 1 .. Len(events)
      BY <1>5, <2>1, <2>2 DEF IInv, LinesInv
    <2>3. CASE d = Len(events) + 1
      <3>1. events[a][Len(events[a])] <= b /\ events[a][Len(events[a])] \in Int
        BY <1>1, <2>1, EventEnds
      <3>2. events'[d] = line /\ 1 \in 1 .. Len(line)
        BY <1>2, <1>5, <2>3
      <3>3. line[1] = b + 1
        BY <1>2, <3>2
      <3>4. b \in Int
        BY <1>2
      <3>5. events[a][Len(events[a])] < line[1]
        BY ONLY <3>1, <3>3, <3>4
      <3> QED BY ONLY <2>1, <3>2, <3>5, Zenon
    <2> QED BY <1>5, <2>2, <2>3
  <1>12. LinesInv'
    <2>1. c \in 0 .. sent'
      BY <1>2, <1>3
    <2> QED BY <1>9, <1>10, <1>11, <2>1, Zenon DEF LinesInv
  <1>13. Flags'
    BY <1>3, Zenon DEF IInv, Flags
  <1>14. Control' /\ Port'
    BY <1>3, <1>4 DEF IInv, Control, Port
  <1>15. ClosedIsEmpty' /\ ErrorsAreOfThisPort'
    BY <1>3 DEF IInv, ClosedIsEmpty, ErrorsAreOfThisPort, Port
  <1> QED BY <1>6, <1>12, <1>13, <1>14, <1>15 DEF IInv

(* Close: what waits is lost.                                               *)
LEMMA StopJoinIInv == IInv /\ StopJoin => IInv'
  <1> SUFFICES ASSUME IInv, StopJoin PROVE IInv'
    OBVIOUS
  <1> USE DEF stream, device
  <1>1. PICK b \in 0 .. sent : WaitsFrom(b)
    BY DEF IInv, LinesInv
  <1>2. /\ Len(m_RecvBuff) \in Nat /\ Len(pBuff) \in Nat /\ Len(inQue) \in Nat
        /\ sent \in Nat /\ b \in Nat
    BY <1>1, ByteLens DEF IInv
  <1>3. /\ m_hComm' = "none" /\ m_bConnected' = FALSE /\ wpc' = "none"
        /\ m_RecvBuff' = <<>> /\ inQue' = <<>> /\ fault = "none"
        /\ fault' \in {"none", "hung"} /\ gpc' = "idle" /\ m_bStarted' = FALSE
        /\ cut' = cut \cup ToSet(inQue) \cup ToSet(m_RecvBuff)
        /\ UNCHANGED <<posted, m_hThreadWatchComm, leaked, m_nRingBuffer, events,
                       pBuff, G_hShutdown_Event, device, stream>>
    BY DEF StopJoin, ClosePort, Runs
  <1>4. pBuff = <<>> /\ Len(pBuff) = 0
    BY DEF StopJoin, IInv, ClosedIsEmpty
  <1>5. Top(b) = b + Len(m_RecvBuff) + Len(inQue) /\ Top(b)' = b /\ Top(b) <= sent
    <2>1. Top(b) = b + Len(m_RecvBuff) + Len(pBuff) + Len(inQue)
      BY DEF Top
    <2>2. Top(b)' = b + 0 + 0 + 0
      BY <1>3, <1>4 DEF Top
    <2> QED BY <1>1, <1>2, <1>4, <2>1, <2>2 DEF WaitsFrom
  <1>6. \A n \in Int : n \in ToSet(m_RecvBuff) <=> b < n /\ n <= b + Len(m_RecvBuff)
    <2>1. /\ m_RecvBuff \in Seq(1 .. sent)
          /\ \A k \in 1 .. Len(m_RecvBuff) : m_RecvBuff[k] = b + k
      BY <1>1 DEF IInv, Bytes, WaitsFrom
    <2> QED BY ONLY <1>2, <2>1, ToSetRun
  <1>7. \A n \in Int : n \in ToSet(inQue) <=> b + Len(m_RecvBuff) < n /\ n <= Top(b)
    <2>1. PICK c \in Nat : c = b + Len(m_RecvBuff)
      BY <1>2
    <2>2. inQue \in Seq(1 .. sent) /\ \A k \in 1 .. Len(inQue) : inQue[k] = c + k
      BY <1>1, <1>2, <1>4, <2>1 DEF IInv, Bytes, WaitsFrom
    <2>3. \A n \in Int : n \in ToSet(inQue) <=> c < n /\ n <= c + Len(inQue)
      BY ONLY <2>1, <2>2, ToSetRun
    <2> QED BY <1>2, <1>5, <2>1, <2>3
  <1>8. \A n : InEvent(n)' <=> InEvent(n)
    BY <1>3 DEF InEvent
  <1>9. \A n \in 1 .. sent : n \in cut' <=> ~InEvent(n)' /\ ~(b < n /\ n <= Top(b)')
    <2>1. \A n \in 1 .. sent : n \in cut <=> ~InEvent(n) /\ ~(b < n /\ n <= Top(b))
      BY <1>1 DEF WaitsFrom
    <2>2. \A n \in 1 .. sent : InEvent(n) => n <= b
      BY <1>1, EventsBelow DEF IInv
    <2> QED BY <1>2, <1>3, <1>5, <1>6, <1>7, <1>8, <2>1, <2>2
  <1>10. WaitsFrom(b)'
    <2>1. /\ Top(b)' <= sent' /\ (m_hComm' = "open" => Top(b)' = sent')
          /\ b \in {0} \cup ends' \cup cut'
      BY <1>1, <1>2, <1>3, <1>5 DEF WaitsFrom
    <2>2. Len(m_RecvBuff') = 0 /\ Len(pBuff') = 0 /\ Len(inQue') = 0
      BY <1>3, <1>4
    <2>3. /\ \A k \in 1 .. Len(m_RecvBuff') : m_RecvBuff'[k] = b + k /\ b + k \notin ends'
          /\ \A k \in 1 .. Len(pBuff') : pBuff'[k] = b + Len(m_RecvBuff') + k
          /\ \A k \in 1 .. Len(inQue') :
               inQue'[k] = b + Len(m_RecvBuff') + Len(pBuff') + k
      BY <2>2
    <2>4. \A a \in 1 .. Len(events') : events'[a][Len(events'[a])] <= b
      BY <1>1, <1>3 DEF WaitsFrom
    <2>5. \A n \in 1 .. sent' : n \in cut' <=> ~InEvent(n)' /\ ~(b < n /\ n <= Top(b)')
      BY <1>3, <1>9
    <2> QED BY <2>1, <2>3, <2>4, <2>5, Zenon DEF WaitsFrom
  <1>11. LinesInv'
    <2>1. \A a \in 1 .. Len(events) : IsLine(a)'
      BY <1>3, LinesStay DEF IInv, LinesInv
    <2>2. b \in 0 .. sent'
      BY <1>3
    <2> QED BY <1>3, <1>10, <2>1, <2>2 DEF IInv, LinesInv
  <1>12. Bytes'
    <2>1. ToSet(inQue) \subseteq 1 .. sent /\ ToSet(m_RecvBuff) \subseteq 1 .. sent
      BY LenProperties DEF ToSet, IInv, Bytes
    <2> QED BY <1>3, <2>1, EmptySeq DEF IInv, Bytes
  <1>13. Flags'
    <2>1. recent' \in BOOLEAN /\ deaf' \in BOOLEAN
      BY DEF StopJoin, IInv, Flags
    <2> QED BY <1>3, <2>1, Zenon DEF IInv, Flags
  <1>14. Control' /\ Port'
    BY <1>3 DEF StopJoin, Restart, IInv, Control, Port
  <1>15. ClosedIsEmpty' /\ ErrorsAreOfThisPort' /\ RingFits' /\ ShortLinesFit'
    BY <1>3, <1>4, Sizes
    DEF ClosedIsEmpty, ErrorsAreOfThisPort, RingFits, ShortLinesFit, IInv
  <1> QED BY <1>11, <1>12, <1>13, <1>14, <1>15 DEF IInv

LEMMA NextIInv == IInv /\ [Next]_vars => IInv'
  <1> SUFFICES ASSUME IInv, [Next]_vars PROVE IInv'
    OBVIOUS
  <1>1. CASE ThreadWatchComm
    BY <1>1, WatchIInv, ReadCommIInv, StoreByteIInv, EndLineIInv DEF ThreadWatchComm
  <1>2. CASE Dialog \/ User
    <2>1. {2, 3, 10} \ {3} \subseteq {2, 3, 10}
      OBVIOUS
    <2>2. ASSUME Timer3 \/ Timer10 \/ ClickStart PROVE IInv'
      <3>1. Idle /\ timers \subseteq {2, 3, 10}
        BY <2>2 DEF Timer3, Timer10, ClickStart, IInv, Control
      <3>2. Start(timers) \/ Start(timers \ {3})
        BY <2>2 DEF Timer3, Timer10, ClickStart
      <3>3. timers \ {3} \subseteq {2, 3, 10}
        BY <3>1
      <3> QED BY <3>1, <3>2, <3>3, StartIInv
    <2> QED BY <1>2, <2>2, StopJoinIInv, StopIInv DEF Dialog, User
  <1>3. CASE Outside
    BY <1>3, BreakIInv, MendIInv, ReceiveIInv DEF Outside
  <1>4. CASE Elapse
    BY <1>4, ElapseIInv
  <1>5. CASE UNCHANGED vars
    <2> USE <1>5 DEF vars, dialog, port, parsing, watch, device, stream
    <2>1. Bytes' /\ RingFits' /\ ShortLinesFit' /\ LinesInv'
      BY ByteFree
    <2>2. Flags'
      BY Zenon DEF IInv, Flags
    <2>3. Control' /\ Port' /\ ClosedIsEmpty' /\ ErrorsAreOfThisPort'
      BY DEF IInv, Control, Port, ClosedIsEmpty, ErrorsAreOfThisPort
    <2> QED BY <2>1, <2>2, <2>3 DEF IInv
  <1> QED BY <1>1, <1>2, <1>3, <1>4, <1>5 DEF Next

LEMMA Inductive == Spec => []IInv
  <1>1. Init => IInv
    BY InitIInv
  <1>2. IInv /\ [Next]_vars => IInv'
    BY NextIInv
  <1> QED BY <1>1, <1>2, PTL DEF Spec

-----------------------------------------------------------------------------
LEMMA TypeParts == TypeOK <=> Control /\ Flags /\ Port /\ Bytes
  <1>1. {m_bStarted, recent, m_bConnected, m_hThreadWatchComm, G_hShutdown_Event,
         present, leaked, deaf} \subseteq BOOLEAN <=> Flags
    BY Zenon DEF Flags
  <1>2. {ends, cut} \subseteq SUBSET (1 .. sent)
          <=> ends \subseteq 1 .. sent /\ cut \subseteq 1 .. sent
    OBVIOUS
  <1>3. {m_RecvBuff, pBuff, inQue} \subseteq Seq(1 .. sent)
          <=> /\ m_RecvBuff \in Seq(1 .. sent) /\ pBuff \in Seq(1 .. sent)
              /\ inQue \in Seq(1 .. sent)
    BY Zenon
  <1> QED BY <1>1, <1>2, <1>3, Zenon DEF TypeOK, Control, Port, Bytes


(* Types; the port is closed and the thread gone whenever Broker is not     *)
(* started.                                                                 *)
THEOREM TypeCorrect == Spec => []TypeOK
  <1>1. IInv => TypeOK
    BY TypeParts DEF IInv
  <1> QED BY <1>1, Inductive, PTL

(* No line shorter than the margin is copied past the end of the ring, and  *)
(* none of less than BUFF_SIZE bytes is stored past the end of m_RecvBuff,  *)
(* whatever the sizes of the two are.                                       *)
THEOREM ShortLinesStay == Spec => []ShortLinesFit
  <1>1. IInv => ShortLinesFit
    BY DEF IInv
  <1> QED BY <1>1, Inductive, PTL

(* A port that works is not stopped by an error: the errors that wait for   *)
(* the dialog are of the port before, which it closed, or of this one.      *)
THEOREM StopsForCause == Spec => StoppedForCause
  <1>1. IInv /\ [Next]_vars =>
          [gpc = "idle" /\ gpc' = "join" /\ m_hComm = "open" =>
             after' \in {"user", "timer"}]_vars
    <2> SUFFICES ASSUME IInv, Next, gpc = "idle", gpc' = "join", m_hComm = "open"
                 PROVE  after' \in {"user", "timer"}
      OBVIOUS
    <2>1. posted = 0
      BY DEF IInv, ErrorsAreOfThisPort, Control
    <2>2. ~PortError
      BY <2>1 DEF PortError
    <2>3. CASE ClickStop \/ Timer2
      BY <2>3 DEF ClickStop, Timer2, Stop
    <2>4. CASE ThreadWatchComm \/ StopJoin \/ Timer3 \/ Timer10 \/ ClickStart
               \/ Outside \/ Elapse
      BY <2>4 DEF ThreadWatchComm, WatchBegin, WatchTest, WatchWait, ReadComm,
                  StoreByte, EndLine, StopJoin, Timer3, Timer10, ClickStart, Start,
                  Outside, Break, Mend, Receive, Elapse, dialog
    <2> QED BY <2>2, <2>3, <2>4 DEF Next, Dialog, User
  <1> QED BY <1>1, Inductive, PTL DEF Spec, StoppedForCause

(* Two runs of numbers one after the other.                                 *)
LEMMA ConcatRuns ==
  ASSUME NEW S, NEW s \in Seq(S), NEW t \in Seq(S), NEW c \in Nat,
         \A k \in 1 .. Len(s) : s[k] = c + k,
         \A k \in 1 .. Len(t) : t[k] = c + Len(s) + k
  PROVE  /\ s \o t \in Seq(S) /\ Len(s \o t) = Len(s) + Len(t)
         /\ \A k \in 1 .. Len(s \o t) : (s \o t)[k] = c + k
  <1>1. /\ s \o t \in Seq(S) /\ Len(s \o t) = Len(s) + Len(t)
        /\ \A k \in 1 .. Len(s) + Len(t) :
             (s \o t)[k] = IF k <= Len(s) THEN s[k] ELSE t[k - Len(s)]
    BY ConcatProperties
  <1>2. Len(s) \in Nat /\ Len(t) \in Nat
    BY LenProperties
  <1>3. ASSUME NEW k \in 1 .. Len(s) + Len(t) PROVE (s \o t)[k] = c + k
    <2>1. CASE k <= Len(s)
      BY <1>1, <1>2, <2>1
    <2>2. CASE Len(s) < k
      <3>1. k - Len(s) \in 1 .. Len(t) /\ ~(k <= Len(s))
        BY <1>2, <2>2
      <3>2. t[k - Len(s)] = c + Len(s) + (k - Len(s))
        BY <3>1
      <3>3. (s \o t)[k] = t[k - Len(s)]
        BY <1>1, <3>1
      <3> QED BY ONLY <1>2, <3>2, <3>3, c \in Nat, k \in 1 .. Len(s) + Len(t)
    <2> QED BY <1>2, <2>1, <2>2
  <1> QED BY <1>1, <1>3

LEMMA LinesInEvents == IInv => EventsAreLines
  <1> SUFFICES ASSUME IInv PROVE EventsAreLines
    OBVIOUS
  <1>1. PICK b \in 0 .. sent : WaitsFrom(b)
    BY DEF IInv, LinesInv
  <1>2. /\ Len(m_RecvBuff) \in Nat /\ Len(pBuff) \in Nat /\ Len(inQue) \in Nat
        /\ sent \in Nat /\ b \in Nat
    BY <1>1, ByteLens DEF IInv
  <1> DEFINE waiting == m_RecvBuff \o pBuff \o inQue
             told == UNION {ToSet(e) : e \in ToSet(events)}
  <1>3. /\ waiting \in Seq(1 .. sent) /\ b + Len(waiting) = Top(b)
        /\ \A k \in 1 .. Len(waiting) : waiting[k] = b + k
    <2>1. /\ m_RecvBuff \in Seq(1 .. sent) /\ pBuff \in Seq(1 .. sent)
          /\ inQue \in Seq(1 .. sent)
      BY DEF IInv, Bytes
    <2>2. /\ \A k \in 1 .. Len(m_RecvBuff) : m_RecvBuff[k] = b + k
          /\ \A k \in 1 .. Len(pBuff) : pBuff[k] = b + Len(m_RecvBuff) + k
          /\ \A k \in 1 .. Len(inQue) :
               inQue[k] = b + Len(m_RecvBuff) + Len(pBuff) + k
      BY <1>1 DEF WaitsFrom
    <2>3. PICK s : s = m_RecvBuff \o pBuff
      OBVIOUS
    <2>4. /\ s \in Seq(1 .. sent) /\ Len(s) = Len(m_RecvBuff) + Len(pBuff)
          /\ \A k \in 1 .. Len(s) : s[k] = b + k
      BY ONLY <1>2, <2>1, <2>2, <2>3, ConcatRuns
    <2>5. \A k \in 1 .. Len(inQue) : inQue[k] = b + Len(s) + k
      BY ONLY <1>2, <2>2, <2>4
    <2>9. PICK t : t = s \o inQue
      OBVIOUS
    <2>6. /\ t \in Seq(1 .. sent) /\ Len(t) = Len(s) + Len(inQue)
          /\ \A k \in 1 .. Len(t) : t[k] = b + k
      <3>1. /\ b \in Nat /\ s \in Seq(1 .. sent) /\ inQue \in Seq(1 .. sent)
            /\ Len(s) \in Nat /\ Len(inQue) \in Nat
            /\ \A k \in 1 .. Len(s) : s[k] = b + k
        BY <1>2, <2>1, <2>4
      <3>2. /\ s \o inQue \in Seq(1 .. sent) /\ Len(s \o inQue) = Len(s) + Len(inQue)
            /\ \A k \in 1 .. Len(s \o inQue) : (s \o inQue)[k] = b + k
        BY ONLY <2>5, <3>1, ConcatRuns
      <3> QED BY ONLY <2>9, <3>2, Zenon
    <2>7. b + Len(t) = Top(b)
      BY <1>2, <2>4, <2>6 DEF Top
    <2>8. waiting = t
      BY <2>3, <2>9
    <2> QED BY ONLY <2>6, <2>7, <2>8
  <1> HIDE DEF waiting
  <1>4. \A n \in Int : n \in ToSet(waiting) <=> b < n /\ n <= Top(b)
    <2>1. b \in Nat
      BY <1>2
    <2>2. \A n \in Int : n \in ToSet(waiting) <=> b < n /\ n <= b + Len(waiting)
      BY ONLY <1>3, <2>1, ToSetRun
    <2>3. b + Len(waiting) = Top(b)
      BY <1>3
    <2> SUFFICES ASSUME NEW n \in Int PROVE n \in ToSet(waiting) <=> b < n /\ n <= Top(b)
      OBVIOUS
    <2>4. n <= b + Len(waiting) <=> n <= Top(b)
      BY ONLY <2>3
    <2> QED BY ONLY n \in Int, <2>2, <2>4, Zenon
  <1>5. ToSet(waiting) \subseteq 1 .. sent
    <2>1. DOMAIN waiting = 1 .. Len(waiting)
      BY <1>3, LenProperties
    <2>2. \A k \in DOMAIN waiting : waiting[k] \in 1 .. sent
      BY <1>3, <2>1, ElementOfSeq
    <2> QED BY <2>2, Zenon DEF ToSet
  <1>6. DOMAIN events = 1 .. Len(events) /\ Len(events) \in Nat
    BY LenProperties DEF IInv, Bytes
  <1>7. \A a \in 1 .. Len(events) :
          /\ DOMAIN events[a] = 1 .. Len(events[a]) /\ Len(events[a]) \in Nat
          /\ events[a] \in Seq(1 .. sent) /\ Len(events[a]) > 0
          /\ Head(events[a]) = events[a][1]
          /\ Last(events[a]) = events[a][Len(events[a])]
    <2> SUFFICES ASSUME NEW a \in 1 .. Len(events)
                 PROVE  /\ DOMAIN events[a] = 1 .. Len(events[a])
                        /\ Len(events[a]) \in Nat
                        /\ events[a] \in Seq(1 .. sent) /\ Len(events[a]) > 0
                        /\ Head(events[a]) = events[a][1]
                        /\ Last(events[a]) = events[a][Len(events[a])]
      OBVIOUS
    <2>1. events[a] \in Seq(1 .. sent) /\ Len(events[a]) \in Nat
      BY EventTypes DEF IInv
    <2>2. Len(events[a]) > 0
      BY DEF IInv, LinesInv, IsLine
    <2>3. Head(events[a]) = events[a][1]
      BY <2>1, <2>2
    <2>4. Last(events[a]) = events[a][Len(events[a])]
      BY DEF Last
    <2>5. DOMAIN events[a] = 1 .. Len(events[a])
      BY <2>1, LenProperties
    <2> QED BY <2>1, <2>2, <2>3, <2>4, <2>5
  <1>8. \A n : n \in told <=> InEvent(n)
    <2>1. \A n : n \in told <=> \E e \in ToSet(events) : n \in ToSet(e)
      BY Zenon DEF told
    <2>2. \A e : e \in ToSet(events) <=> \E a \in 1 .. Len(events) : e = events[a]
      BY <1>6, Zenon DEF ToSet
    <2>3. \A a \in 1 .. Len(events) : \A n :
            n \in ToSet(events[a]) <=> \E k \in 1 .. Len(events[a]) : events[a][k] = n
      <3> SUFFICES ASSUME NEW a \in 1 .. Len(events), NEW n
                   PROVE  n \in ToSet(events[a])
                            <=> \E k \in 1 .. Len(events[a]) : events[a][k] = n
        OBVIOUS
      <3>1. DOMAIN events[a] = 1 .. Len(events[a])
        BY <1>7
      <3> QED BY <3>1 DEF ToSet
    <2> SUFFICES ASSUME NEW n PROVE n \in told <=> InEvent(n)
      OBVIOUS
    <2>4. ASSUME n \in told PROVE InEvent(n)
      <3>1. PICK e \in ToSet(events) : n \in ToSet(e)
        BY <2>1, <2>4
      <3>2. PICK a \in 1 .. Len(events) : e = events[a]
        BY <2>2
      <3>3. n \in ToSet(events[a])
        BY <3>1, <3>2
      <3> QED BY <2>3, <3>3 DEF InEvent
    <2>5. ASSUME InEvent(n) PROVE n \in told
      BY <2>1, <2>2, <2>3, <2>5 DEF InEvent
    <2> QED BY <2>4, <2>5
  <1> HIDE DEF told
  <1>9. told \subseteq 1 .. sent
    BY <1>1, <1>8, EventsBelow DEF IInv
  <1>10. (ToSet(waiting) \cup told) \cup cut = 1 .. sent
         /\ (ToSet(waiting) \cup told) \cap cut = {}
    <2>1. \A n \in 1 .. sent : n \in cut <=> ~InEvent(n) /\ ~(b < n /\ n <= Top(b))
      BY <1>1 DEF WaitsFrom
    <2>2. cut \subseteq 1 .. sent
      BY DEF IInv, Bytes
    <2>3. \A n \in 1 .. sent : n \in cut <=> n \notin told /\ n \notin ToSet(waiting)
      BY <1>4, <1>8, <2>1
    <2> QED BY <1>5, <1>9, <2>2, <2>3
  <1>11. Contiguous(waiting)
    <2> SUFFICES ASSUME NEW k \in 2 .. Len(waiting) PROVE waiting[k] = waiting[k - 1] + 1
      BY DEF Contiguous
    <2>1. k \in 1 .. Len(waiting) /\ k - 1 \in 1 .. Len(waiting) /\ k \in Int
      OBVIOUS
    <2>2. waiting[k] = b + k /\ waiting[k - 1] = b + (k - 1)
      BY <1>3, <2>1
    <2> QED BY ONLY <1>2, <2>1, <2>2
  <1>12. \A a, c \in 1 .. Len(events) : a < c => Last(events[a]) < Head(events[c])
    BY <1>7 DEF IInv, LinesInv
  <1>13. ASSUME NEW e \in ToSet(events)
         PROVE  /\ Contiguous(e) /\ ToSet(e) \cap ends = {Last(e)}
                /\ Head(e) - 1 \in {0} \cup ends \cup cut
                /\ \A w \in ToSet(waiting) : Last(e) < w
    <2>1. PICK a \in 1 .. Len(events) : e = events[a]
      BY <1>6 DEF ToSet
    <2>2. /\ DOMAIN e = 1 .. Len(e) /\ Len(e) \in Nat /\ Len(e) > 0
          /\ Head(e) = e[1] /\ Last(e) = e[Len(e)] /\ e[1] \in Int
      BY <1>7, <2>1, EventTypes DEF IInv
    <2>3. /\ \A k \in 1 .. Len(e) : e[k] = e[1] + k - 1
          /\ \A k \in 1 .. Len(e) : e[k] \in ends <=> k = Len(e)
          /\ e[1] - 1 \in {0} \cup ends \cup cut
      BY <2>1 DEF IInv, LinesInv, IsLine
    <2>4. Contiguous(e)
      <3> SUFFICES ASSUME NEW k \in 2 .. Len(e) PROVE e[k] = e[k - 1] + 1
        BY DEF Contiguous
      <3>1. k \in 1 .. Len(e) /\ k - 1 \in 1 .. Len(e) /\ k \in Int
        BY <2>2
      <3>2. e[k] = e[1] + k - 1 /\ e[k - 1] = e[1] + (k - 1) - 1
        BY <2>3, <3>1
      <3> QED BY ONLY <2>2, <3>1, <3>2
    <2>5. ToSet(e) \cap ends = {Last(e)}
      <3>1. Len(e) \in 1 .. Len(e)
        BY <2>2
      <3>2. \A n : n \in ToSet(e) <=> \E k \in 1 .. Len(e) : e[k] = n
        BY <2>2, Zenon DEF ToSet
      <3>3. Last(e) \in ToSet(e) /\ Last(e) \in ends
        BY <2>2, <2>3, <3>1, <3>2
      <3>4. ASSUME NEW n \in ToSet(e) \cap ends PROVE n = Last(e)
        BY <2>2, <2>3, <3>2, <3>4
      <3> QED BY <3>3, <3>4
    <2>6. \A w \in ToSet(waiting) : Last(e) < w
      <3>1. Last(e) <= b /\ Last(e) \in Int
        BY <1>1, <2>1, <2>2, EventEnds
      <3>2. \A w \in ToSet(waiting) : b < w /\ w \in Int
        BY <1>4, <1>5
      <3> QED BY <1>2, <3>1, <3>2
    <2> QED BY <2>2, <2>3, <2>4, <2>5, <2>6
  <1> QED BY <1>10, <1>11, <1>12, <1>13, Zenon DEF EventsAreLines, waiting, told

(* Every byte sent is in one event, waits in order for the end of its line  *)
(* or is lost; an event is one line, whole unless the bytes before it were  *)
(* lost, and events keep their order.                                       *)
THEOREM LinesArriveWhole == Spec => []EventsAreLines
  BY Inductive, LinesInEvents, PTL
=============================================================================
