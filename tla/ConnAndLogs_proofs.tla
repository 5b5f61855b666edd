------------------------- MODULE ConnAndLogs_proofs -------------------------
(***************************************************************************)
(* Two components that share no state, their names kept apart:             *)
(*                                                                         *)
(* of ClientConn, that a client in the list is served, that a connection   *)
(* is kept until it is lost and that the watchdog spares who is answered,  *)
(* for any number of connections, faults, alarms, sends and answers;       *)
(*                                                                         *)
(* of LogRemover, that no line of a log is deleted before its time, for    *)
(* every length of the term and of the calendar.                           *)
(***************************************************************************)
EXTENDS ClientConn, LogRemover, FiniteSetTheorems, WellFoundedInduction,
        NaturalsInduction, TLAPS

-----------------------------------------------------------------------------
(* The invariant of the connection                                          *)

(* An operation that is out has not ended; a removal is not one.            *)
GoodItem(w) ==
  /\ w.type = "REMOVE" => w.at = "queued"
  /\ w.at = "pending" =>
       \/ w.type = "SEND" /\ w.res \in {"alive", "alarm", "bind"}
       \/ w.type = "CONNECT" /\ w.res = "ok" /\ w.n = 1
       \/ w.type = "RECV" /\ w.res = "ok"

ItemsFit ==
  \A w \in work :
    /\ GoodItem(w) /\ w.conn <= m_nConn
    /\ w.type = "CONNECT" /\ w.at = "pending" /\ w.conn = m_nConn => net = "connecting"
    /\ net = "none" => w.conn # m_nConn

SenderFits ==
  /\ sender.at = "idle" => sender = Idle
  /\ sender.at = "try" => m_nConn = 0 /\ ~m_listClient /\ sender.msg = "connect"
  /\ sender.at \in {"num", "post"} => sender.msg \in {"alive", "alarm", "bind"}
  /\ m_Socket => m_nConn > 0
  /\ proc = "up" => (dlg = "send" <=> sender.msg = "alive")
  /\ proc = "up" /\ dlg = "idle" => since <= 2

(* As long as the network keeps the connection nothing is on its way that   *)
(* destroys it, and until it is accepted only its ConnectEx is out.         *)
KeptFits ==
  proc = "up" /\ ~mixed /\ net \in {"connecting", "open"} =>
    /\ m_Socket /\ m_listClient
    /\ \A w \in work : w.conn = m_nConn =>
         w.type # "REMOVE" /\ ~(w.at = "handle" /\ w.res = "close")
    /\ sender.at = "post" => m_State = "CONNECTED"
    /\ net = "connecting" =>
         /\ m_State = "CREATED"
         /\ \A w \in work : w.conn = m_nConn =>
              w.type = "CONNECT" /\ w.at = "pending"

(* A keep-alive answered sets the time of the watchdog.  Without a fault    *)
(* there is one connection, and it stays as soon as a keep-alive was sent.  *)
WatchFits ==
  proc = "up" =>
    /\ alive \in {"sent", "answered"} => dlg # "idle"
    /\ alive = "answered" => since = 0
    /\ before = "answered" => since <= IF dlg = "idle" THEN 0 ELSE 1
    /\ before # "never" => alive # "never"

NoFaultFits ==
  proc = "up" /\ faults = 0 =>
    /\ ~mixed /\ m_nConn <= 1
    /\ net \in {"none", "connecting", "open"}
    /\ net = "none" => sender.at = "try" /\ alive = "never"
    /\ alive # "never" => net = "open" /\ m_State = "CONNECTED"
    /\ m_nSIType = "KOCOM" /\ alive # "never" =>
         before # "dropped" /\ (dlg = "check" => alive # "dropped")

(* The types, those of the connection and the others.                       *)
ConnTypes ==
  /\ {m_listClient, m_Socket, bound, mixed, unheard} \subseteq BOOLEAN
  /\ m_State \in {"CREATED", "CONNECTED", "CLOSED"}
  /\ m_nConn \in 0 .. MaxConns[m_nSIType]
  /\ net \in {"none", "connecting", "open", "fin", "reset"}
  /\ inbox \in Seq(Answers) /\ Len(inbox) <= MaxInbox
  /\ work \subseteq Items /\ IsFiniteSet(work)
  /\ faults \in 0 .. MaxFaults

OtherTypes ==
  /\ m_nSIType \in SITypes
  /\ proc \in {"up", "quitting", "quit", "fault"}
  /\ sender \in [msg : {"none", "connect", "alive", "alarm", "bind"},
                 at : {"idle", "try", "num", "post"}]
  /\ dlg \in {"idle", "send", "check"}
  /\ since \in 0 .. 3
  /\ alarms \in 0 .. MaxAlarms
  /\ {alive, before} \subseteq {"never", "dropped", "sent", "answered"}

Typed == ConnTypes /\ OtherTypes

ConnInv ==
  /\ Typed /\ ItemsFit /\ SenderFits
  /\ ListedIsServed /\ KeptFits /\ WatchFits /\ NoFaultFits

-----------------------------------------------------------------------------
(* The operations                                                           *)

(* There is a number those of K leave free, and a least one.                *)
LEMMA FreeNumber ==
  ASSUME NEW W, IsFiniteSet(W), NEW K \in SUBSET W
  PROVE  \E n \in 1 .. Cardinality(W) + 1 :
           /\ \A w \in K : w.n # n
           /\ \A k \in 1 .. n - 1 : \E w \in K : w.n = k
  <1> DEFINE c == Cardinality(W)
             free == {n \in 1 .. c + 1 : \A w \in K : w.n # n}
  <1>1. c \in Nat
    BY FS_CardinalityType
  <1> HIDE DEF c
  <1>2. free # {}
    <2> SUFFICES ASSUME \A n \in 1 .. c + 1 : \E w \in K : w.n = n PROVE FALSE
      OBVIOUS
    <2> DEFINE f == [n \in 1 .. c + 1 |-> CHOOSE w \in W : w.n = n]
    <2>1. f \in [1 .. c + 1 -> W] /\ \A n \in 1 .. c + 1 : f[n].n = n
      <3>1. \A n \in 1 .. c + 1 : f[n] \in W /\ f[n].n = n
        OBVIOUS
      <3> QED BY <3>1
    <2>2. IsFiniteSet(1 .. c + 1) /\ Cardinality(1 .. c + 1) = c + 1
      BY <1>1, FS_Interval
    <2>3. c < Cardinality(1 .. c + 1)
      BY <1>1, <2>2
    <2> HIDE DEF f
    <2>4. \E x, y \in 1 .. c + 1 : x # y /\ f[x] = f[y]
      <3> DEFINE S == 1 .. c + 1
      <3>1. IsFiniteSet(S) /\ Cardinality(W) < Cardinality(S) /\ f \in [S -> W]
        BY <2>1, <2>2, <2>3 DEF c
      <3> HIDE DEF S
      <3>2. \E x, y \in S : x # y /\ f[x] = f[y]
        BY ONLY <3>1, FS_PigeonHole, IsFiniteSet(W)
      <3> QED BY <3>2 DEF S
    <2> QED BY <2>1, <2>4
  <1>3. free \in SUBSET Nat
    BY <1>1
  <1>4. IsWellFoundedOn(OpToRel(<, Nat), Nat)
    BY NatLessThanWellFounded
  <1>5. PICK n \in free : \A m \in free : ~(<<m, n>> \in OpToRel(<, Nat))
    BY <1>2, <1>3, <1>4, WFMin
  <1>6. \A m \in free : ~(m < n)
    BY <1>3, <1>5 DEF OpToRel
  <1>7. ASSUME NEW k \in 1 .. n - 1 PROVE \E w \in K : w.n = k
    <2>1. k \in 1 .. c + 1 /\ k < n
      BY <1>1
    <2> QED BY <1>6, <2>1
  <1> QED BY <1>7 DEF c

LEMMA ItemFields ==
  ASSUME Typed, NEW type, NEW at, NEW res
  PROVE  LET i == Item(type, at, res) IN
           /\ i.conn = m_nConn /\ i.type = type /\ i.at = at /\ i.res = res
           /\ i.n \in Nat \ {0}
           /\ i = [conn |-> m_nConn, type |-> type, at |-> at, res |-> res, n |-> i.n]
  <1> DEFINE K == {w \in work : w.conn = m_nConn /\ w.type = type}
             P(n) == /\ \A w \in work : <<w.conn, w.type>> = <<m_nConn, type>> => w.n # n
                     /\ \A k \in 1 .. n - 1 : \E w \in work :
                          <<w.conn, w.type, w.n>> = <<m_nConn, type, k>>
             last == Cardinality(work) + 1
  <1>1. PICK n \in 1 .. last :
          /\ \A w \in K : w.n # n
          /\ \A k \in 1 .. n - 1 : \E w \in K : w.n = k
    BY FreeNumber DEF Typed, ConnTypes
  <1>2. P(n)
    BY <1>1
  <1>3. Cardinality(work) \in Nat
    BY FS_CardinalityType DEF Typed, ConnTypes
  <1> DEFINE m == CHOOSE x : x \in 1 .. last /\ P(x)
  <1>4. m \in 1 .. last
    <2>1. \E x : x \in 1 .. last /\ P(x)
      BY <1>2
    <2> HIDE DEF P, last
    <2> QED BY <2>1, Zenon
  <1>5. Item(type, at, res) =
          [conn |-> m_nConn, type |-> type, at |-> at, res |-> res, n |-> m]
    BY DEF Item
  <1> HIDE DEF m
  <1>6. m \in Nat \ {0}
    BY <1>3, <1>4
  <1> QED BY <1>5, <1>6

(* What a callback makes of a completed operation.                          *)
LEMMA CallbackCases ==
  ASSUME NEW w, NEW res, Callback(w, res)
  PROVE  \/ ~m_listClient /\ work' = (work \ {w}) \cup {}
         \/ m_listClient /\ res = "error" /\ work' = (work \ {w}) \cup {Removal(w)}
         \/ res = "ok" /\ w.type = "SEND" /\ work' = (work \ {w}) \cup {}
         \/ /\ m_listClient /\ res # "error" /\ ~(res = "ok" /\ w.type = "SEND")
            /\ work' = (work \ {w}) \cup {[w EXCEPT !.at = "handle", !.res = res]}
  <1>1. CASE ~m_listClient
    BY <1>1, Zenon DEF Callback, IsAlive
  <1>2. CASE m_listClient /\ res = "error"
    <2>1. res # "ok"
      BY <1>2
    <2> QED BY <1>2, <2>1, Zenon DEF Callback, IsAlive
  <1>3. CASE m_listClient /\ res = "ok" /\ w.type = "SEND"
    <2>1. res # "error"
      BY <1>3
    <2> QED BY <1>3, <2>1, Zenon DEF Callback, IsAlive
  <1>4. CASE m_listClient /\ res # "error" /\ ~(res = "ok" /\ w.type = "SEND")
    BY <1>4, Zenon DEF Callback, IsAlive
  <1> QED BY <1>1, <1>2, <1>3, <1>4

(* It leaves at most one thing in the place of w: a handler's call for the  *)
(* result, or the removal.                                                  *)
LEMMA CallbackFits ==
  ASSUME Typed, ItemsFit, NEW w \in work, w.at = "pending",
         NEW res \in {"ok", "error", "close"} \cup Answers, Callback(w, res)
  PROVE  \E v \in Items :
           /\ work' = work \ {w} \/ work' = (work \ {w}) \cup {v}
           /\ m_listClient /\ w.type \in {"CONNECT", "RECV"} => work' = (work \ {w}) \cup {v}
           /\ v.conn = w.conn /\ GoodItem(v) /\ v.at # "pending"
           /\ IF res = "error" THEN v.type = "REMOVE"
              ELSE v.type = w.type /\ v.at = "handle" /\ v.res = res
  <1> DEFINE h == [w EXCEPT !.at = "handle", !.res = res]
             r == [w EXCEPT !.type = "REMOVE", !.at = "queued", !.res = w.type]
  <1>1. w \in Items /\ w.type \in {"CONNECT", "RECV", "SEND"}
    BY DEF Typed, ConnTypes, ItemsFit, GoodItem
  <1>2. /\ h \in Items /\ h.conn = w.conn /\ h.type = w.type /\ h.at = "handle"
        /\ h.res = res
    BY <1>1 DEF Items
  <1>3. r \in Items /\ r.conn = w.conn /\ r.type = "REMOVE" /\ r.at = "queued"
    BY <1>1 DEF Items
  <1>4. GoodItem(h) /\ GoodItem(r)
    BY <1>1, <1>2, <1>3 DEF GoodItem
  <1>5. r = Removal(w)
    BY DEF Removal
  <1> HIDE DEF h, r
  <1>6. CASE res = "error"
    BY <1>3, <1>4, <1>5, <1>6, CallbackCases
  <1>7. CASE res # "error"
    <2>1. \/ work' = work \ {w} /\ (~m_listClient \/ w.type = "SEND")
          \/ work' = (work \ {w}) \cup {h}
      BY <1>7, CallbackCases DEF h
    <2> QED BY <1>1, <1>2, <1>4, <1>7, <2>1
  <1> QED BY <1>6, <1>7

LEMMA AnswerFits ==
  ASSUME NEW msg \in {"alive", "alarm", "bind"}
  PROVE  Answer(msg) \in Answers
  <1>1. CASE msg = "bind"
    <2>1. msg # "alive" /\ msg # "alarm"
      BY <1>1
    <2> QED BY <1>1 DEF Answer, Answers
  <1>2. CASE m_nSIType = "KOCOM" /\ ~bound /\ msg # "bind"
    BY <1>2 DEF Answer, Answers
  <1>3. CASE msg = "alive" /\ ~(m_nSIType = "KOCOM" /\ ~bound)
    BY <1>3 DEF Answer, Answers
  <1>4. CASE msg = "alarm" /\ ~(m_nSIType = "KOCOM" /\ ~bound)
    BY <1>4 DEF Answer, Answers
  <1> QED BY <1>1, <1>2, <1>3, <1>4

LEMMA WorkIsFinite ==
  ASSUME IsFiniteSet(work), NEW w, NEW v
  PROVE  /\ IsFiniteSet(work \ {w}) /\ IsFiniteSet((work \ {w}) \cup {v})
         /\ IsFiniteSet(work \cup {v})
  BY FS_Subset, FS_AddElement, FS_Difference

-----------------------------------------------------------------------------
(* Connecting and entering Send                                             *)

LEMMA BoundsAreNat ==
  ASSUME Typed
  PROVE  /\ MaxConns[m_nSIType] \in Nat \ {0}
         /\ MaxFaults \in Nat /\ MaxAlarms \in Nat /\ MaxInbox \in Nat \ {0}
         /\ m_nSIType \in {"KOCOM", "GFS"}
         /\ m_nConn \in Nat /\ faults \in Nat /\ since \in Nat /\ alarms \in Nat
  BY ConstantsAssumption DEF Typed, ConnTypes, OtherTypes

LEMMA InitConnInv == Init => ConnInv
  <1> SUFFICES ASSUME Init PROVE ConnInv
    OBVIOUS
  <1>1. IsFiniteSet({}) /\ m_nSIType \in SITypes
    BY FS_EmptySet DEF Init
  <1>2. MaxConns[m_nSIType] \in Nat /\ MaxFaults \in Nat /\ MaxAlarms \in Nat
        /\ MaxInbox \in Nat
    BY <1>1, ConstantsAssumption
  <1>3. <<>> \in Seq(Answers) /\ Len(<<>>) = 0
    OBVIOUS
  <1>4. Typed
    <2>1. inbox \in Seq(Answers) /\ Len(inbox) <= MaxInbox
      BY <1>2, <1>3 DEF Init
    <2>2. ConnTypes
      <3>1. /\ m_listClient = FALSE /\ m_Socket = FALSE /\ bound = FALSE
            /\ mixed = FALSE /\ unheard = FALSE
            /\ m_State = "CLOSED" /\ m_nConn = 0 /\ net = "none" /\ work = {} /\ faults = 0
        BY DEF Init
      <3>2. {m_listClient, m_Socket, bound, mixed, unheard} \subseteq BOOLEAN
        BY <3>1
      <3>3. m_nConn \in 0 .. MaxConns[m_nSIType] /\ faults \in 0 .. MaxFaults
        BY <1>2, <3>1
      <3>4. work \subseteq Items /\ IsFiniteSet(work)
        BY <1>1, <3>1
      <3> QED BY <2>1, <3>1, <3>2, <3>3, <3>4 DEF ConnTypes
    <2>3. OtherTypes
      BY <1>1, <1>2 DEF Init, OtherTypes
    <2> QED BY <2>2, <2>3 DEF Typed
  <1>5. ItemsFit /\ SenderFits /\ ListedIsServed /\ KeptFits
    BY DEF Init, ItemsFit, SenderFits, ListedIsServed, KeptFits
  <1>6. WatchFits /\ NoFaultFits
    BY DEF Init, WatchFits, NoFaultFits
  <1> QED BY <1>4, <1>5, <1>6 DEF ConnInv

LEMMA Connects ==
  ASSUME ConnInv, proc = "up", ~m_listClient, NEW W \in SUBSET work, Connect(W),
         sender.at \in {"idle", "try"}, UNCHANGED <<m_nSIType, proc>>, sender' = Idle
  PROVE  /\ ConnTypes' /\ ItemsFit' /\ ListedIsServed' /\ KeptFits' /\ NoFaultFits'
         /\ m_Socket' => m_nConn' > 0
         /\ UNCHANGED <<alive, before>>
  <1> USE DEF ConnInv
  <1>1. IsFiniteSet(W) /\ W \subseteq Items
    BY FS_Subset DEF Typed, ConnTypes
  <1>2. sender'.at = "idle"
    BY DEF Idle
  <1>3. /\ MaxConns[m_nSIType] \in Nat \ {0} /\ MaxFaults \in Nat
        /\ m_nConn \in Nat /\ faults \in Nat
    BY BoundsAreNat
  <1>4. CASE Fault /\ work' = W /\ UNCHANGED <<client, network, history>>
    <2> USE DEF client, network, history
    <2>1. faults' = faults + 1 /\ faults' \in 0 .. MaxFaults
      BY <1>3, <1>4 DEF Fault, Typed, ConnTypes
    <2>2. ConnTypes'
      BY <1>1, <1>4, <2>1 DEF Typed, ConnTypes, Items
    <2>3. ItemsFit'
      BY <1>4 DEF ItemsFit, GoodItem
    <2>4. ListedIsServed'
      BY <1>4 DEF ListedIsServed
    <2>5. KeptFits'
      BY <1>4 DEF KeptFits
    <2>6. NoFaultFits'
      BY <1>3, <2>1 DEF NoFaultFits
    <2>7. m_Socket' => m_nConn' > 0
      BY <1>4 DEF SenderFits
    <2> QED BY <1>4, <2>2, <2>3, <2>4, <2>5, <2>6, <2>7
  <1>5. ASSUME m_nConn < MaxConns[m_nSIType],
               m_nConn' = m_nConn + 1, m_listClient', m_State' = "CREATED", m_Socket',
               inbox' = <<>>, bound' = FALSE, mixed' = FALSE, unheard' = FALSE,
               UNCHANGED <<alive, before>>,
               \/ /\ net' = "connecting" /\ UNCHANGED faults
                  /\ work' = W \cup {[conn |-> m_nConn', type |-> "CONNECT", n |-> 1,
                                      at |-> "pending", res |-> "ok"]}
               \/ /\ net' = "none" /\ Fault
                  /\ work' = W
        PROVE  /\ ConnTypes' /\ ItemsFit' /\ ListedIsServed' /\ KeptFits' /\ NoFaultFits'
               /\ m_Socket' => m_nConn' > 0
    <2> DEFINE v == [conn |-> m_nConn + 1, type |-> "CONNECT", n |-> 1,
                     at |-> "pending", res |-> "ok"]
    <2>1. /\ m_nConn + 1 \in 1 .. MaxConns[m_nSIType]
          /\ v.conn = m_nConn + 1 /\ v.type = "CONNECT" /\ v.at = "pending"
          /\ v.res = "ok" /\ v.n = 1
      BY <1>3, <1>5
    <2>2. v \in Items /\ GoodItem(v)
      BY <2>1 DEF Items, GoodItem
    <2>3. \/ net' = "connecting" /\ faults' = faults /\ work' = W \cup {v}
          \/ net' = "none" /\ Fault /\ work' = W
      BY <1>5
    <2> HIDE DEF v
    <2>4. Fault => faults' = faults + 1 /\ faults' \in 0 .. MaxFaults
      BY <1>3 DEF Fault, Typed, ConnTypes
    <2>5. IsFiniteSet(work')
      BY <1>1, <2>3, FS_AddElement
    <2>6. ConnTypes'
      <3>1. <<>> \in Seq(Answers) /\ Len(<<>>) <= MaxInbox
        BY BoundsAreNat
      <3>2. m_nConn' \in 0 .. MaxConns[m_nSIType]
        BY <1>5, <2>1
      <3>3. Items' = Items
        BY DEF Items
      <3> QED BY <1>1, <1>5, <2>2, <2>3, <2>4, <2>5, <3>1, <3>2, <3>3
              DEF ConnTypes, Typed
    <2>7. \A w \in W : GoodItem(w) /\ w.conn <= m_nConn /\ w.conn \in Nat
                       /\ w.conn # m_nConn + 1
      BY <1>1, <1>3 DEF ItemsFit, Items
    <2>8. ItemsFit'
      BY <1>3, <1>5, <2>1, <2>2, <2>3, <2>7 DEF ItemsFit, GoodItem
    <2>9. ListedIsServed'
      BY <1>5, <2>1, <2>3 DEF ListedIsServed
    <2>10. KeptFits'
      BY <1>2, <1>5, <2>1, <2>3, <2>7 DEF KeptFits
    <2>11. NoFaultFits'
      <3>1. CASE faults' = 0
        <4>1. faults = 0 /\ net' = "connecting"
          BY <1>3, <2>3, <2>4, <3>1
        <4>2. net = "none" /\ m_nConn = 0 /\ alive = "never"
          BY <4>1 DEF NoFaultFits, KeptFits, SenderFits
        <4> QED BY <1>5, <4>1, <4>2 DEF NoFaultFits
      <3> QED BY <3>1 DEF NoFaultFits
    <2> QED BY <1>3, <1>5, <2>6, <2>8, <2>9, <2>10, <2>11
  <1> QED BY <1>4, <1>5 DEF Connect, history

(* Entering Send leaves the connection alone, or connects.                  *)
LEMMA Enters ==
  ASSUME ConnInv, proc = "up", NEW W \in SUBSET work, NEW msg, Enter(msg, W),
         UNCHANGED <<m_nSIType, proc>>
  PROVE  /\ sender = Idle
         /\ \/ /\ m_listClient /\ sender' = [msg |-> msg, at |-> "num"] /\ work' = W
               /\ UNCHANGED <<client, network, history, faults>>
            \/ /\ ~m_listClient /\ sender' = Idle
               /\ ConnTypes' /\ ItemsFit' /\ ListedIsServed' /\ KeptFits' /\ NoFaultFits'
               /\ m_Socket' => m_nConn' > 0
               /\ UNCHANGED <<alive, before>>
  <1>1. sender = Idle /\ sender.at = "idle"
    BY DEF Enter, Idle
  <1>2. CASE m_listClient
    BY <1>1, <1>2 DEF Enter
  <1>3. CASE ~m_listClient
    <2>1. Connect(W) /\ sender' = Idle
      BY <1>1, <1>3 DEF Enter
    <2> QED BY <1>1, <1>3, <2>1, Connects
  <1> QED BY <1>2, <1>3

(* A step that changes neither the connection nor what is on its way, nor   *)
(* puts a sender into PostSend.                                             *)
LEMMA ConnSame ==
  ASSUME ConnTypes, ItemsFit, ListedIsServed, KeptFits,
         UNCHANGED <<m_nSIType, proc, client, network, work, faults, mixed, unheard>>,
         sender'.at = "post" => sender.at = "post"
  PROVE  ConnTypes' /\ ItemsFit' /\ ListedIsServed' /\ KeptFits'
  <1> USE DEF client, network
  <1>1. ConnTypes'
    BY DEF ConnTypes, Items
  <1>2. ItemsFit'
    BY DEF ItemsFit, GoodItem
  <1>3. ListedIsServed'
    BY DEF ListedIsServed
  <1>4. KeptFits'
    BY DEF KeptFits
  <1> QED BY <1>1, <1>2, <1>3, <1>4

LEMMA TryConnectionInv == ConnInv /\ TryConnection => ConnInv'
  <1> SUFFICES ASSUME ConnInv, TryConnection PROVE ConnInv'
    OBVIOUS
  <1>1. /\ proc = "up" /\ sender.at = "try" /\ Connect(work) /\ sender' = Idle
        /\ UNCHANGED <<m_nSIType, proc, timing, alarms>>
    BY DEF TryConnection
  <1>2. ~m_listClient /\ sender.msg = "connect"
    BY <1>1 DEF ConnInv, SenderFits
  <1>3. /\ ConnTypes' /\ ItemsFit' /\ ListedIsServed' /\ KeptFits' /\ NoFaultFits'
        /\ m_Socket' => m_nConn' > 0
        /\ UNCHANGED <<alive, before>>
    BY <1>1, <1>2, Connects
  <1>4. OtherTypes'
    BY <1>1, <1>3 DEF ConnInv, Typed, OtherTypes, Idle, timing
  <1>5. SenderFits'
    BY <1>1, <1>2, <1>3 DEF ConnInv, SenderFits, Idle, timing
  <1>6. WatchFits'
    BY <1>1, <1>3 DEF ConnInv, WatchFits, timing
  <1> QED BY <1>3, <1>4, <1>5, <1>6 DEF ConnInv, Typed

LEMMA LookInv == ConnInv /\ Look => ConnInv'
  <1> SUFFICES ASSUME ConnInv, Look PROVE ConnInv'
    OBVIOUS
  <1> USE DEF ConnInv
  <1>1. /\ proc = "up" /\ proc' = "up" /\ sender.at = "num"
        /\ UNCHANGED <<m_nSIType, proc, client, network, work, since, bounds, history>>
    BY DEF Look
  <1>2. sender.msg \in {"alive", "alarm", "bind"}
    BY <1>1 DEF SenderFits
  <1>3. \/ /\ m_listClient /\ m_State = "CONNECTED" /\ dlg' = dlg
           /\ sender' = [sender EXCEPT !.at = "post"]
        \/ /\ ~(m_listClient /\ m_State = "CONNECTED") /\ sender' = Idle
           /\ dlg' = IF sender.msg = "alive" THEN "check" ELSE dlg
    BY DEF Look, Leave
  <1>4. /\ sender' \in [msg : {"none", "connect", "alive", "alarm", "bind"},
                        at : {"idle", "try", "num", "post"}]
        /\ \/ m_State = "CONNECTED" /\ sender'.at = "post" /\ sender'.msg = sender.msg
           \/ sender' = Idle /\ sender'.at = "idle" /\ sender'.msg = "none"
    BY <1>3 DEF Typed, OtherTypes, Idle
  <1>5. OtherTypes'
    BY <1>1, <1>3, <1>4 DEF Typed, OtherTypes, bounds, history
  <1>6. ConnTypes' /\ ItemsFit' /\ ListedIsServed'
    BY <1>1 DEF Typed, ConnTypes, Items, ItemsFit, GoodItem, ListedIsServed,
                client, network, bounds, history
  <1>7. KeptFits'
    <2>1. UNCHANGED <<proc, m_listClient, m_State, m_Socket, m_nConn, net, work, mixed>>
      BY <1>1 DEF client, network, history
    <2>2. sender'.at = "post" => m_State' = "CONNECTED"
      BY <1>4, <2>1
    <2> QED BY <2>1, <2>2 DEF KeptFits
  <1>8. SenderFits'
    <2>1. UNCHANGED <<proc, m_listClient, m_Socket, m_nConn, since>>
      BY <1>1 DEF client
    <2>2. CASE sender' = Idle /\ dlg' = IF sender.msg = "alive" THEN "check" ELSE dlg
      <3>1. sender'.at = "idle" /\ sender'.msg = "none"
        BY <2>2 DEF Idle
      <3>2. dlg' # "send" /\ (dlg' = "idle" => dlg = "idle")
        BY <1>1, <2>2 DEF SenderFits
      <3> QED BY <1>1, <2>1, <2>2, <3>1, <3>2 DEF SenderFits
    <2>3. CASE sender' = [sender EXCEPT !.at = "post"] /\ dlg' = dlg
      <3>1. sender'.at = "post" /\ sender'.msg = sender.msg
        BY <2>3 DEF Typed, OtherTypes
      <3> QED BY <1>1, <1>2, <2>1, <2>3, <3>1 DEF SenderFits
    <2> QED BY <1>3, <2>2, <2>3
  <1>9. WatchFits'
    <2>1. UNCHANGED <<proc, since, alive, before>>
      BY <1>1 DEF history
    <2>2. dlg' = "idle" <=> dlg = "idle"
      BY <1>1, <1>3 DEF SenderFits
    <2> QED BY <2>1, <2>2 DEF WatchFits
  <1>10. NoFaultFits'
    <2> USE DEF client, network, bounds, history
    <2> SUFFICES ASSUME faults = 0
                 PROVE  /\ net = "none" => sender'.at = "try" /\ alive = "never"
                        /\ m_nSIType = "KOCOM" /\ alive # "never" =>
                             (dlg' = "check" => alive # "dropped")
      BY <1>1 DEF NoFaultFits
    <2>1. net # "none"
      BY <1>1 DEF NoFaultFits
    <2>2. alive # "never" => m_listClient /\ m_State = "CONNECTED"
      BY <1>1 DEF NoFaultFits, KeptFits
    <2> QED BY <1>1, <1>3, <2>1, <2>2 DEF NoFaultFits
  <1> QED BY <1>5, <1>6, <1>7, <1>8, <1>9, <1>10 DEF Typed

LEMMA SendAlarmInv == ConnInv /\ SendAlarm => ConnInv'
  <1> SUFFICES ASSUME ConnInv, SendAlarm PROVE ConnInv'
    OBVIOUS
  <1> USE DEF ConnInv
  <1>1. /\ proc = "up" /\ proc' = "up" /\ alarms < MaxAlarms /\ alarms' = alarms + 1
        /\ Enter("alarm", work)
        /\ UNCHANGED <<m_nSIType, proc, timing>>
    BY DEF SendAlarm
  <1>2. alarms' \in 0 .. MaxAlarms
    BY <1>1, BoundsAreNat DEF Typed, OtherTypes
  <1>3. CASE /\ m_listClient /\ sender = Idle /\ sender' = [msg |-> "alarm", at |-> "num"]
             /\ work' = work /\ UNCHANGED <<client, network, history, faults>>
    <2>1. ConnTypes' /\ ItemsFit' /\ ListedIsServed' /\ KeptFits'
      BY <1>1, <1>3, ConnSame DEF Typed, history
    <2>2. OtherTypes'
      BY <1>1, <1>2, <1>3 DEF Typed, OtherTypes, timing, history
    <2>3. SenderFits'
      BY <1>1, <1>3 DEF SenderFits, Idle, client, timing
    <2>4. WatchFits' /\ NoFaultFits'
      BY <1>1, <1>3 DEF WatchFits, NoFaultFits, Idle, client, network, timing, history
    <2> QED BY <2>1, <2>2, <2>3, <2>4 DEF Typed
  <1>4. CASE /\ ~m_listClient /\ sender = Idle /\ sender' = Idle
             /\ ConnTypes' /\ ItemsFit' /\ ListedIsServed' /\ KeptFits' /\ NoFaultFits'
             /\ m_Socket' => m_nConn' > 0
             /\ UNCHANGED <<alive, before>>
    <2>1. OtherTypes'
      BY <1>1, <1>2, <1>4 DEF Typed, OtherTypes, Idle, timing
    <2>2. SenderFits' /\ WatchFits'
      BY <1>1, <1>4 DEF SenderFits, WatchFits, Idle, timing
    <2> QED BY <1>4, <2>1, <2>2 DEF Typed
  <1> QED BY <1>1, <1>3, <1>4, Enters

LEMMA BindInv == ASSUME ConnInv, NEW w \in work, Bind(w) PROVE ConnInv'
  <1> USE DEF ConnInv
  <1>1. /\ proc = "up" /\ proc' = "up" /\ w.at = "bind"
        /\ Enter("bind", work \ {w})
        /\ UNCHANGED <<m_nSIType, proc, timing, alarms>>
    BY DEF Bind
  <1>2. CASE /\ m_listClient /\ sender = Idle /\ sender' = [msg |-> "bind", at |-> "num"]
             /\ work' = work \ {w} /\ UNCHANGED <<client, network, history, faults>>
    <2> USE DEF client, network, history
    <2>1. ConnTypes'
      BY <1>1, <1>2, WorkIsFinite DEF Typed, ConnTypes, Items
    <2>2. ItemsFit'
      BY <1>2 DEF ItemsFit, GoodItem
    <2>3. ListedIsServed'
      BY <1>1, <1>2 DEF ListedIsServed, ItemsFit, GoodItem
    <2>4. KeptFits'
      BY <1>1, <1>2 DEF KeptFits
    <2>5. OtherTypes'
      BY <1>1, <1>2 DEF Typed, OtherTypes, timing
    <2>6. SenderFits'
      BY <1>1, <1>2 DEF SenderFits, Idle, timing
    <2>7. WatchFits' /\ NoFaultFits'
      BY <1>1, <1>2 DEF WatchFits, NoFaultFits, Idle, timing
    <2> QED BY <2>1, <2>2, <2>3, <2>4, <2>5, <2>6, <2>7 DEF Typed
  <1>3. CASE /\ ~m_listClient /\ sender = Idle /\ sender' = Idle
             /\ ConnTypes' /\ ItemsFit' /\ ListedIsServed' /\ KeptFits' /\ NoFaultFits'
             /\ m_Socket' => m_nConn' > 0
             /\ UNCHANGED <<alive, before>>
    <2>1. OtherTypes'
      BY <1>1, <1>3 DEF Typed, OtherTypes, Idle, timing
    <2>2. SenderFits' /\ WatchFits'
      BY <1>1, <1>3 DEF SenderFits, WatchFits, Idle, timing
    <2> QED BY <1>3, <2>1, <2>2 DEF Typed
  <1>4. work \ {w} \in SUBSET work
    OBVIOUS
  <1> QED BY <1>1, <1>2, <1>3, <1>4, Enters

LEMMA TimerFiresInv == ConnInv /\ TimerFires => ConnInv'
  <1> SUFFICES ASSUME ConnInv, TimerFires PROVE ConnInv'
    OBVIOUS
  <1> USE DEF ConnInv
  <1>1. /\ proc = "up" /\ proc' = "up" /\ dlg = "idle" /\ since' = since + 1
        /\ UNCHANGED <<m_nSIType, proc, alarms>>
    BY DEF TimerFires
  <1>2. since' \in 1 .. 3 /\ alive \notin {"sent", "answered"}
        /\ (before = "answered" => since' <= 1)
    BY <1>1, BoundsAreNat DEF SenderFits, WatchFits, Typed, OtherTypes
  <1>3. CASE /\ m_listClient /\ sender = Idle /\ sender' = [msg |-> "alive", at |-> "num"]
             /\ dlg' = "send"
             /\ work' = work /\ UNCHANGED <<client, network, history, faults>>
    <2>1. ConnTypes' /\ ItemsFit' /\ ListedIsServed' /\ KeptFits'
      BY <1>1, <1>3, ConnSame DEF Typed, history
    <2>2. OtherTypes'
      BY <1>1, <1>2, <1>3 DEF Typed, OtherTypes, history
    <2>3. SenderFits'
      BY <1>1, <1>3 DEF SenderFits, client
    <2>4. WatchFits'
      BY <1>1, <1>2, <1>3 DEF WatchFits, history
    <2>5. NoFaultFits'
      BY <1>1, <1>3 DEF NoFaultFits, Idle, client, network, history
    <2> QED BY <2>1, <2>2, <2>3, <2>4, <2>5 DEF Typed
  <1>4. CASE /\ ~m_listClient /\ sender = Idle /\ sender' = Idle /\ dlg' = "check"
             /\ ConnTypes' /\ ItemsFit' /\ ListedIsServed' /\ KeptFits' /\ NoFaultFits'
             /\ m_Socket' => m_nConn' > 0
             /\ UNCHANGED <<alive, before>>
    <2>1. OtherTypes'
      BY <1>1, <1>2, <1>4 DEF Typed, OtherTypes, Idle
    <2>2. SenderFits' /\ WatchFits'
      BY <1>1, <1>2, <1>4 DEF SenderFits, WatchFits, Idle
    <2> QED BY <1>4, <2>1, <2>2 DEF Typed
  <1>5. CASE /\ m_nSIType = "GFS" /\ dlg' = "check"
             /\ UNCHANGED <<client, network, work, sender, faults, history>>
    <2>1. ConnTypes' /\ ItemsFit' /\ ListedIsServed' /\ KeptFits'
      BY <1>1, <1>5, ConnSame DEF Typed, history
    <2>2. OtherTypes'
      BY <1>1, <1>2, <1>5 DEF Typed, OtherTypes, history
    <2>3. SenderFits'
      BY <1>1, <1>5 DEF SenderFits, client
    <2>4. WatchFits'
      BY <1>1, <1>2, <1>5 DEF WatchFits, history
    <2>5. NoFaultFits'
      BY <1>1, <1>5 DEF NoFaultFits, client, network, history
    <2> QED BY <2>1, <2>2, <2>3, <2>4, <2>5 DEF Typed
  <1>6. CASE Enter("alive", work) /\ dlg' = IF m_listClient THEN "send" ELSE "check"
    BY <1>1, <1>3, <1>4, <1>6, Enters
  <1> QED BY <1>5, <1>6 DEF TimerFires

LEMMA CheckLateInv == ConnInv /\ CheckLate => ConnInv'
  <1> SUFFICES ASSUME ConnInv, CheckLate PROVE ConnInv'
    OBVIOUS
  <1> USE DEF ConnInv
  <1>1. /\ proc = "up" /\ dlg = "check" /\ dlg' = "idle"
        /\ proc' \in {"up", "quitting"} /\ (proc' = "up" => since <= 2)
        /\ before' = alive /\ alive' = IF alive = "never" THEN "never" ELSE "dropped"
        /\ UNCHANGED <<m_nSIType, client, network, work, sender, since, bounds,
                       mixed, unheard>>
    BY BoundsAreNat DEF CheckLate, IsLate
  <1>2. OtherTypes'
    BY <1>1 DEF Typed, OtherTypes, bounds
  <1>3. ConnTypes' /\ ItemsFit'
    BY <1>1 DEF Typed, ConnTypes, Items, ItemsFit, GoodItem, client, network, bounds
  <1>4. ListedIsServed' /\ KeptFits'
    BY <1>1 DEF ListedIsServed, KeptFits, client, network
  <1>5. SenderFits'
    BY <1>1 DEF SenderFits, client
  <1>6. WatchFits'
    BY <1>1 DEF WatchFits
  <1>7. NoFaultFits'
    BY <1>1 DEF NoFaultFits, client, network, bounds
  <1> QED BY <1>2, <1>3, <1>4, <1>5, <1>6, <1>7 DEF Typed

LEMMA TryShutdownInv == ConnInv /\ TryShutdown => ConnInv'
  <1> SUFFICES ASSUME ConnInv, TryShutdown PROVE ConnInv'
    OBVIOUS
  <1> USE DEF ConnInv
  <1>1. /\ proc' = "quit" /\ m_listClient' = FALSE /\ m_State' = "CLOSED"
        /\ m_Socket' = FALSE
        /\ UNCHANGED <<m_nSIType, m_nConn, network, work, sender, timing, bounds, history>>
    BY DEF TryShutdown, Destroy
  <1>2. OtherTypes'
    BY <1>1 DEF Typed, OtherTypes, timing, bounds, history
  <1>3. ConnTypes' /\ ItemsFit'
    BY <1>1 DEF Typed, ConnTypes, Items, ItemsFit, GoodItem, network, bounds, history
  <1>4. SenderFits'
    BY <1>1 DEF SenderFits
  <1>5. ListedIsServed' /\ KeptFits' /\ WatchFits' /\ NoFaultFits'
    BY <1>1 DEF ListedIsServed, KeptFits, WatchFits, NoFaultFits
  <1> QED BY <1>2, <1>3, <1>4, <1>5 DEF Typed

(* The image of the work under what PostSend may do to it.                  *)
LEMMA OverwrittenWork ==
  ASSUME Typed, ItemsFit, NEW over \in BOOLEAN, NEW msg \in {"alive", "alarm", "bind"},
         NEW W, W = {IF over /\ w.type = "SEND" /\ w.at = "pending" /\ ~Closed(w)
                       THEN [w EXCEPT !.res = msg] ELSE w : w \in work}
  PROVE  /\ IsFiniteSet(W) /\ W \subseteq Items
         /\ \A v \in W : GoodItem(v) /\
              \E w \in work : v.conn = w.conn /\ v.type = w.type /\ v.at = w.at
                               /\ (w.at = "handle" => v.res = w.res)
         /\ \A w \in work : w.type # "SEND" => w \in W
  <1> DEFINE f == [w \in work |-> IF over /\ w.type = "SEND" /\ w.at = "pending" /\ ~Closed(w)
                                   THEN [w EXCEPT !.res = msg] ELSE w]
  <1>1. W = {f[w] : w \in work} /\ IsFiniteSet(work) /\ work \subseteq Items
    BY DEF Typed, ConnTypes
  <1>2. ASSUME NEW w \in work
        PROVE  /\ f[w] \in Items /\ GoodItem(f[w])
               /\ f[w].conn = w.conn /\ f[w].type = w.type /\ f[w].at = w.at
               /\ w.at = "handle" => f[w].res = w.res
               /\ w.type # "SEND" => f[w] = w
    <2>1. w \in Items /\ GoodItem(w)
      BY <1>1 DEF ItemsFit
    <2>2. CASE over /\ w.type = "SEND" /\ w.at = "pending" /\ ~Closed(w)
      <3> DEFINE v == [w EXCEPT !.res = msg]
      <3>1. v \in Items /\ v.conn = w.conn /\ v.type = w.type /\ v.at = w.at /\ v.res = msg
        BY <2>1 DEF Items
      <3>2. f[w] = v
        BY <2>2
      <3> HIDE DEF f, v
      <3> QED BY <2>1, <2>2, <3>1, <3>2 DEF GoodItem
    <2>3. CASE ~(over /\ w.type = "SEND" /\ w.at = "pending" /\ ~Closed(w))
      <3>1. f[w] = w
        BY <2>3
      <3> HIDE DEF f
      <3> QED BY <2>1, <3>1
    <2> QED BY <2>2, <2>3
  <1>3. f \in Surjection(work, W)
    BY <1>1 DEF Surjection
  <1> HIDE DEF f
  <1>4. IsFiniteSet(W)
    BY <1>1, <1>3, FS_Surjection
  <1> QED BY <1>1, <1>2, <1>4

LEMMA PostSendInv == ConnInv /\ PostSend => ConnInv'
  <1> SUFFICES ASSUME ConnInv, PostSend PROVE ConnInv'
    OBVIOUS
  <1> USE DEF ConnInv
  <1>1. /\ proc = "up" /\ sender.at = "post" /\ sender.msg \in {"alive", "alarm", "bind"}
        /\ UNCHANGED <<m_nSIType, network, since, bounds, mixed, unheard, before>>
    BY DEF PostSend, SenderFits
  <1>2. CASE ~m_Socket /\ proc' = "fault" /\ UNCHANGED <<client, work, sender, dlg, alive>>
    <2>1. OtherTypes'
      BY <1>1, <1>2 DEF Typed, OtherTypes, bounds
    <2>2. ConnTypes' /\ ItemsFit'
      BY <1>1, <1>2 DEF Typed, ConnTypes, Items, ItemsFit, GoodItem, client, network, bounds
    <2>3. SenderFits'
      BY <1>2 DEF SenderFits, client
    <2>4. ListedIsServed' /\ KeptFits' /\ WatchFits' /\ NoFaultFits'
      BY <1>2 DEF ListedIsServed, KeptFits, WatchFits, NoFaultFits
    <2> QED BY <2>1, <2>2, <2>3, <2>4 DEF Typed
  <1>3. ASSUME proc' = proc, sender' = Idle, m_Socket' => m_Socket,
               dlg' = IF sender.msg = "alive" THEN "check" ELSE dlg,
               alive' \in {"never", "dropped", "sent", "answered"},
               alive' = "answered" => alive = "answered",
               alive' = "sent" => alive = "sent" \/ sender.msg = "alive",
               alive' = "never" => alive = "never",
               m_nConn' = m_nConn
        PROVE  /\ OtherTypes' /\ SenderFits' /\ WatchFits'
    <2>1. sender'.at = "idle" /\ sender'.msg = "none"
      BY <1>3 DEF Idle
    <2>2. OtherTypes'
      BY <1>1, <1>3 DEF Typed, OtherTypes, bounds, Idle
    <2>3. SenderFits'
      BY <1>1, <1>3, <2>1 DEF SenderFits
    <2>4. WatchFits'
      BY <1>1, <1>3 DEF WatchFits, SenderFits
    <2> QED BY <2>2, <2>3, <2>4
  <1>6. CASE ~m_Socket /\ Leave /\ UNCHANGED proc /\ UNCHANGED <<client, work, alive>>
    <2>1. alive \in {"never", "dropped", "sent", "answered"}
      BY DEF Typed, OtherTypes
    <2>2. UNCHANGED <<m_listClient, m_State, m_Socket, m_nConn, net, inbox, bound, faults>>
      BY <1>1, <1>6 DEF client, network, bounds
    <2>3. OtherTypes' /\ SenderFits' /\ WatchFits'
      BY <1>3, <1>6, <2>1, <2>2 DEF Leave
    <2>4. ConnTypes' /\ ItemsFit'
      BY <1>1, <1>6, <2>2 DEF Typed, ConnTypes, Items, ItemsFit, GoodItem
    <2>5. ListedIsServed' /\ KeptFits'
      BY <1>1, <1>6, <2>2 DEF ListedIsServed, KeptFits
    <2>6. NoFaultFits'
      BY <1>1, <1>6, <2>2 DEF NoFaultFits, KeptFits
    <2> QED BY <2>3, <2>4, <2>5, <2>6 DEF Typed
  <1>4. CASE /\ m_Socket /\ Leave /\ UNCHANGED proc /\ net \in {"open", "fin"}
             /\ UNCHANGED client
             /\ alive' = IF sender.msg = "alive" THEN "sent" ELSE alive
             /\ \E over \in BOOLEAN :
                  work' = {IF over /\ w.type = "SEND" /\ w.at = "pending" /\ ~Closed(w)
                             THEN [w EXCEPT !.res = sender.msg] ELSE w : w \in work}
                          \cup {Item("SEND", "pending", sender.msg)}
    <2>1. PICK over \in BOOLEAN :
                  work' = {IF over /\ w.type = "SEND" /\ w.at = "pending" /\ ~Closed(w)
                             THEN [w EXCEPT !.res = sender.msg] ELSE w : w \in work}
                          \cup {Item("SEND", "pending", sender.msg)}
      BY <1>4
    <2> DEFINE W == {IF over /\ w.type = "SEND" /\ w.at = "pending" /\ ~Closed(w)
                       THEN [w EXCEPT !.res = sender.msg] ELSE w : w \in work}
               i == Item("SEND", "pending", sender.msg)
    <2>2. work' = W \cup {i}
      BY <2>1
    <2>3. /\ IsFiniteSet(W) /\ W \subseteq Items
          /\ \A v \in W : GoodItem(v) /\
               \E w \in work : v.conn = w.conn /\ v.type = w.type /\ v.at = w.at
                                /\ (w.at = "handle" => v.res = w.res)
          /\ \A w \in work : w.type # "SEND" => w \in W
      BY <1>1, OverwrittenWork
    <2>4. /\ i.conn = m_nConn /\ i.type = "SEND" /\ i.at = "pending" /\ i.res = sender.msg
          /\ i.n \in Nat \ {0}
          /\ i = [conn |-> m_nConn, type |-> "SEND", at |-> "pending", res |-> sender.msg,
                  n |-> i.n]
      BY ItemFields
    <2> HIDE DEF W, i
    <2>5. m_nConn \in 1 .. MaxConns[m_nSIType]
      BY <1>4 DEF Typed, ConnTypes, SenderFits
    <2>6. i \in Items /\ GoodItem(i)
      BY <1>1, <2>4, <2>5 DEF Items, GoodItem
    <2>7. UNCHANGED <<m_listClient, m_State, m_Socket, m_nConn, net, inbox, bound, faults,
                     mixed, unheard>>
      BY <1>1, <1>4 DEF client, network, bounds
    <2>8. ConnTypes'
      <3>1. IsFiniteSet(work') /\ work' \subseteq Items /\ Items' = Items
        BY <1>1, <2>2, <2>3, <2>6, FS_AddElement DEF Items
      <3> QED BY <1>1, <2>7, <3>1 DEF Typed, ConnTypes
    <2>9. ItemsFit'
      <3>1. \A v \in W : v.conn <= m_nConn
                         /\ (v.type = "CONNECT" /\ v.at = "pending" /\ v.conn = m_nConn
                               => net = "connecting")
        BY <2>3 DEF ItemsFit
      <3>2. i.conn <= m_nConn
        BY <2>4, <2>5
      <3> QED BY <1>4, <2>2, <2>3, <2>4, <2>6, <2>7, <3>1, <3>2 DEF ItemsFit, GoodItem
    <2>10. ListedIsServed'
      <3> SUFFICES ASSUME m_listClient, ~unheard
                   PROVE  \E w \in work' :
                            \/ w.type = "REMOVE"
                            \/ /\ w.type \in {"CONNECT", "RECV"} /\ w.conn = m_nConn
                               /\ w.at \in {"pending", "handle"}
        BY <2>7 DEF ListedIsServed
      <3>1. PICK w \in work :
              \/ w.type = "REMOVE"
              \/ /\ w.type \in {"CONNECT", "RECV"} /\ w.conn = m_nConn
                 /\ w.at \in {"pending", "handle"}
        BY <1>1, <1>4 DEF ListedIsServed
      <3>2. w \in work'
        BY <2>2, <2>3, <3>1
      <3> QED BY <3>1, <3>2
    <2>11. KeptFits'
      <3> SUFFICES ASSUME ~mixed, net \in {"connecting", "open"}
                   PROVE  KeptFits'
        BY <2>7 DEF KeptFits
      <3>1. /\ m_Socket /\ m_listClient /\ net = "open"
            /\ \A w \in work : w.conn = m_nConn =>
                 w.type # "REMOVE" /\ ~(w.at = "handle" /\ w.res = "close")
        BY <1>1, <1>4 DEF KeptFits
      <3>2. \A w \in work' : w.conn = m_nConn =>
                 w.type # "REMOVE" /\ ~(w.at = "handle" /\ w.res = "close")
        BY <2>2, <2>3, <2>4, <3>1
      <3>3. sender'.at = "idle"
        BY <1>4 DEF Leave, Idle
      <3> QED BY <2>7, <3>1, <3>2, <3>3 DEF KeptFits
    <2>12. NoFaultFits'
      <3> SUFFICES ASSUME faults = 0 PROVE NoFaultFits'
        BY <2>7 DEF NoFaultFits
      <3>1. ~mixed /\ m_nConn <= 1 /\ net = "open"
        BY <1>1, <1>4 DEF NoFaultFits
      <3>2. m_State = "CONNECTED"
        BY <1>1, <3>1 DEF KeptFits
      <3>3. m_nSIType = "KOCOM" => before # "dropped"
        BY <1>1 DEF NoFaultFits, WatchFits
      <3>4. m_nSIType = "KOCOM" /\ alive' # "never" => (dlg' = "check" => alive' # "dropped")
        BY <1>1, <1>4 DEF NoFaultFits, Leave
      <3> QED BY <1>1, <2>7, <3>1, <3>2, <3>3, <3>4 DEF NoFaultFits
    <2>13. OtherTypes' /\ SenderFits' /\ WatchFits'
      <3>1. alive \in {"never", "dropped", "sent", "answered"}
        BY DEF Typed, OtherTypes
      <3> QED BY <1>3, <1>4, <2>7, <3>1 DEF Leave
    <2> QED BY <2>8, <2>9, <2>10, <2>11, <2>12, <2>13 DEF Typed
  <1>5. CASE /\ m_Socket /\ Leave /\ UNCHANGED proc /\ net \notin {"open", "fin"}
             /\ Destroy /\ UNCHANGED <<m_listClient, m_nConn, work, alive>>
    <2>1. alive \in {"never", "dropped", "sent", "answered"}
      BY DEF Typed, OtherTypes
    <2>2. OtherTypes' /\ SenderFits' /\ WatchFits'
      BY <1>3, <1>5, <2>1 DEF Leave
    <2>3. ConnTypes'
      BY <1>1, <1>5 DEF Typed, ConnTypes, Items, Destroy, network, bounds
    <2>4. ItemsFit' /\ ListedIsServed'
      BY <1>1, <1>5 DEF ItemsFit, GoodItem, ListedIsServed, Destroy, network
    <2>5. KeptFits'
      BY <1>1, <1>5 DEF KeptFits, network
    <2>6. NoFaultFits'
      BY <1>1, <1>5 DEF NoFaultFits, KeptFits, bounds
    <2> QED BY <2>2, <2>3, <2>4, <2>5, <2>6 DEF Typed
  <1> QED BY <1>1, <1>2, <1>4, <1>5, <1>6 DEF PostSend

-----------------------------------------------------------------------------
(* Windows, the network and the server                                      *)

(* A completion: what it leaves alone, and its types.                       *)
LEMMA Completes ==
  ASSUME ConnInv, NEW w \in work, w.at = "pending",
         NEW v \in Items, v.conn = w.conn, GoodItem(v), v.at # "pending",
         work' = work \ {w} \/ work' = (work \ {w}) \cup {v},
         UNCHANGED <<m_nSIType, proc, client, sender, timing, history, alarms>>,
         net' \in {net, "open", "reset"},
         net' # net => ~\E u \in work \ {w} :
                          u.type = "CONNECT" /\ u.at = "pending" /\ u.conn = m_nConn,
         bound' \in BOOLEAN, inbox' \in Seq(Answers), Len(inbox') <= MaxInbox,
         faults' \in 0 .. MaxFaults
  PROVE  Typed' /\ ItemsFit' /\ SenderFits' /\ WatchFits'
  <1> USE DEF ConnInv
  <1>1. IsFiniteSet(work') /\ work' \subseteq Items /\ Items' = Items
    <2>1. IsFiniteSet(work) /\ work \subseteq Items
      BY DEF Typed, ConnTypes
    <2>2. Items' = Items
      BY DEF Items
    <2>3. IsFiniteSet(work \ {w}) /\ IsFiniteSet((work \ {w}) \cup {v})
      BY <2>1, WorkIsFinite
    <2> QED BY <2>1, <2>2, <2>3
  <1>2. UNCHANGED <<m_listClient, m_State, m_Socket, m_nConn, mixed, unheard>>
    BY DEF client, history
  <1>3. ConnTypes'
    BY <1>1, <1>2 DEF Typed, ConnTypes
  <1>4. OtherTypes'
    BY DEF Typed, OtherTypes, timing, history
  <1>5. ItemsFit'
    <2>1. v.conn <= m_nConn /\ (net = "none" => v.conn # m_nConn)
      BY DEF ItemsFit
    <2>2. \A u \in work \ {w} : u.type = "CONNECT" /\ u.at = "pending" /\ u.conn = m_nConn
                                => net' = "connecting"
      BY DEF ItemsFit
    <2>3. net' = "none" => net = "none"
      OBVIOUS
    <2>4. \A u \in work \ {w} : GoodItem(u) /\ u.conn <= m_nConn
                                /\ (net = "none" => u.conn # m_nConn)
      BY DEF ItemsFit
    <2>5. \A u \in work' : u \in work \ {w} \/ u = v
      OBVIOUS
    <2> QED BY <1>2, <2>1, <2>2, <2>3, <2>4, <2>5 DEF ItemsFit, GoodItem
  <1>6. SenderFits'
    BY DEF SenderFits, timing, client
  <1>7. WatchFits'
    BY DEF WatchFits, timing, history
  <1> QED BY <1>3, <1>4, <1>5, <1>6, <1>7 DEF Typed

LEMMA AbortedInv ==
  ASSUME ConnInv, proc = "up", NEW w \in work, Aborted(w),
         UNCHANGED <<m_nSIType, proc, client, sender, timing, history>>
  PROVE  ConnInv'
  <1> USE DEF ConnInv
  <1>1. w.at = "pending" /\ (w.conn # m_nConn \/ ~m_Socket) /\ UNCHANGED <<network, bounds>>
    BY DEF Aborted, Closed
  <1>2. \E v \in Items :
          /\ work' = work \ {w} \/ work' = (work \ {w}) \cup {v}
          /\ v.conn = w.conn /\ GoodItem(v) /\ v.at # "pending"
    <2>1. CASE Callback(w, "error")
      BY <1>1, <2>1, CallbackFits
    <2>2. CASE work' = work \ {w}
      <3> DEFINE v == [w EXCEPT !.at = "handle"]
      <3>1. v \in Items /\ v.conn = w.conn /\ v.at = "handle" /\ v.type = w.type
        BY DEF Typed, ConnTypes, Items
      <3>2. GoodItem(v)
        BY <1>1, <3>1 DEF ItemsFit, GoodItem
      <3> HIDE DEF v
      <3> QED BY <2>2, <3>1, <3>2
    <2> QED BY <2>1, <2>2 DEF Aborted
  <1>3. PICK v \in Items :
          /\ work' = work \ {w} \/ work' = (work \ {w}) \cup {v}
          /\ v.conn = w.conn /\ GoodItem(v) /\ v.at # "pending"
    BY <1>2
  <1>4. UNCHANGED <<m_listClient, m_State, m_Socket, m_nConn, net, inbox, bound, faults, alarms,
                    mixed, unheard, alive, before, dlg>>
    BY <1>1 DEF client, network, bounds, history, timing
  <1>5. Typed' /\ ItemsFit' /\ SenderFits' /\ WatchFits'
    <2>1. /\ bound' \in BOOLEAN /\ inbox' \in Seq(Answers) /\ Len(inbox') <= MaxInbox
          /\ faults' \in 0 .. MaxFaults
      BY <1>4 DEF Typed, ConnTypes
    <2> QED BY <1>1, <1>3, <1>4, <2>1, Completes
  <1>6. ListedIsServed'
    <2> SUFFICES ASSUME m_listClient, m_Socket, net # "none", ~unheard
                 PROVE  \E u \in work' :
                          \/ u.type = "REMOVE"
                          \/ /\ u.type \in {"CONNECT", "RECV"} /\ u.conn = m_nConn
                             /\ u.at \in {"pending", "handle"}
      BY <1>4 DEF ListedIsServed
    <2>1. PICK u \in work :
            \/ u.type = "REMOVE"
            \/ /\ u.type \in {"CONNECT", "RECV"} /\ u.conn = m_nConn
               /\ u.at \in {"pending", "handle"}
      BY DEF ListedIsServed
    <2>2. u # w
      BY <1>1, <2>1 DEF ItemsFit, GoodItem
    <2> QED BY <1>3, <2>1, <2>2
  <1>7. KeptFits'
    <2> SUFFICES ASSUME ~mixed, net \in {"connecting", "open"} PROVE KeptFits'
      BY <1>4 DEF KeptFits
    <2>1. v.conn # m_nConn
      BY <1>1, <1>3 DEF KeptFits
    <2>2. \A u \in work' : u.conn = m_nConn => u \in work
      BY <1>3, <2>1
    <2> QED BY <1>4, <2>2 DEF KeptFits
  <1>8. NoFaultFits'
    BY <1>4 DEF NoFaultFits
  <1> QED BY <1>5, <1>6, <1>7, <1>8

LEMMA AcceptedInv ==
  ASSUME ConnInv, proc = "up", NEW w \in work, Accepted(w),
         UNCHANGED <<m_nSIType, proc, client, sender, timing, history>>
  PROVE  ConnInv'
  <1> USE DEF ConnInv
  <1>1. /\ w.at = "pending" /\ w.conn = m_nConn /\ m_Socket /\ w.type = "CONNECT"
        /\ UNCHANGED <<inbox, bound, alarms>>
    BY DEF Accepted, Closed
  <1>2. net = "connecting" /\ w.res = "ok" /\ w.n = 1
    BY <1>1 DEF ItemsFit, GoodItem
  <1>3. UNCHANGED <<m_listClient, m_State, m_Socket, m_nConn, mixed, alive, before, dlg>>
    BY DEF client, history, timing
  <1>4. ~\E u \in work \ {w} : u.type = "CONNECT" /\ u.at = "pending" /\ u.conn = m_nConn
    <2> SUFFICES ASSUME NEW u \in work, u.type = "CONNECT", u.at = "pending", u.conn = m_nConn
                 PROVE  u = w
      OBVIOUS
    <2>1. u.res = "ok" /\ u.n = 1
      BY ItemsFit DEF ItemsFit, GoodItem
    <2>2. u \in Items /\ w \in Items
      BY DEF Typed, ConnTypes
    <2> QED BY <1>1, <1>2, <2>1, <2>2 DEF Items
  <1>5. bound' \in BOOLEAN /\ inbox' \in Seq(Answers) /\ Len(inbox') <= MaxInbox
    BY <1>1 DEF Typed, ConnTypes
  <1>6. CASE net' = "open" /\ Callback(w, "ok") /\ UNCHANGED faults
    <2>1. PICK v \in Items :
            /\ work' = work \ {w} \/ work' = (work \ {w}) \cup {v}
            /\ m_listClient => work' = (work \ {w}) \cup {v}
            /\ v.conn = w.conn /\ GoodItem(v) /\ v.at # "pending"
            /\ v.type = "CONNECT" /\ v.at = "handle" /\ v.res = "ok"
      <3>1. "ok" # "error" /\ w.type \in {"CONNECT", "RECV"}
        BY <1>1
      <3> QED BY <1>1, <1>6, <3>1, CallbackFits
    <2>2. faults' \in 0 .. MaxFaults
      BY <1>6 DEF Typed, ConnTypes
    <2>3. Typed' /\ ItemsFit' /\ SenderFits' /\ WatchFits'
      BY <1>1, <1>4, <1>5, <1>6, <2>1, <2>2, Completes
    <2>4. ListedIsServed'
      BY <1>1, <1>3, <2>1 DEF ListedIsServed
    <2>5. KeptFits'
      <3> SUFFICES ASSUME ~mixed PROVE KeptFits'
        BY <1>3 DEF KeptFits
      <3>1. /\ m_Socket /\ m_listClient /\ m_State = "CREATED" /\ sender.at # "post"
            /\ \A u \in work : u.conn = m_nConn => u.type = "CONNECT" /\ u.at = "pending"
        BY <1>2 DEF KeptFits
      <3>2. \A u \in work' : u.conn = m_nConn =>
                 u.type # "REMOVE" /\ ~(u.at = "handle" /\ u.res = "close")
        BY <2>1, <3>1
      <3> QED BY <1>3, <1>6, <3>1, <3>2 DEF KeptFits
    <2>6. NoFaultFits'
      BY <1>2, <1>3, <1>6 DEF NoFaultFits
    <2> QED BY <2>3, <2>4, <2>5, <2>6
  <1>7. CASE net' = "reset" /\ Callback(w, "error") /\ Fault
    <2>1. PICK v \in Items :
            /\ work' = work \ {w} \/ work' = (work \ {w}) \cup {v}
            /\ m_listClient => work' = (work \ {w}) \cup {v}
            /\ v.conn = w.conn /\ GoodItem(v) /\ v.at # "pending" /\ v.type = "REMOVE"
      <3>1. w.type \in {"CONNECT", "RECV"}
        BY <1>1
      <3> QED BY <1>1, <1>7, <3>1, CallbackFits
    <2>2. faults' \in 0 .. MaxFaults /\ faults' # 0
      BY <1>7, BoundsAreNat DEF Fault, Typed, ConnTypes
    <2>3. Typed' /\ ItemsFit' /\ SenderFits' /\ WatchFits'
      BY <1>1, <1>4, <1>5, <1>7, <2>1, <2>2, Completes
    <2>4. ListedIsServed'
      BY <1>1, <1>3, <2>1 DEF ListedIsServed
    <2>5. KeptFits' /\ NoFaultFits'
      BY <1>7, <2>2 DEF KeptFits, NoFaultFits
    <2> QED BY <2>3, <2>4, <2>5
  <1> QED BY <1>6, <1>7 DEF Accepted

LEMMA InboxTypes ==
  ASSUME Typed, inbox # <<>>
  PROVE  /\ Head(inbox) \in Answers
         /\ Tail(inbox) \in Seq(Answers) /\ Len(Tail(inbox)) <= MaxInbox
  <1>1. inbox \in Seq(Answers) /\ Len(inbox) <= MaxInbox /\ Len(inbox) \in Nat
    BY DEF Typed, ConnTypes
  <1>2. Len(Tail(inbox)) = Len(inbox) - 1
    BY <1>1
  <1> QED BY <1>1, <1>2, BoundsAreNat

LEMMA ReceivedInv ==
  ASSUME ConnInv, proc = "up", NEW w \in work, Received(w),
         UNCHANGED <<m_nSIType, proc, client, sender, timing, history>>
  PROVE  ConnInv'
  <1> USE DEF ConnInv
  <1>1. /\ w.at = "pending" /\ w.conn = m_nConn /\ m_Socket /\ w.type = "RECV"
        /\ UNCHANGED <<net, bound, bounds>>
    BY DEF Received, Closed
  <1>2. UNCHANGED <<m_listClient, m_State, m_Socket, m_nConn, net, bound, faults, alarms, mixed,
                    unheard, alive, before, dlg>>
    BY <1>1 DEF client, history, timing, bounds
  <1>3. \E res \in {"error", "close"} \cup Answers :
          /\ Callback(w, res)
          /\ inbox' \in Seq(Answers) /\ Len(inbox') <= MaxInbox
          /\ res \in Answers \/ net \in {"fin", "reset"}
    <2>1. <<>> \in Seq(Answers) /\ Len(<<>>) <= MaxInbox
      BY BoundsAreNat
    <2>2. CASE inbox # <<>> /\ Callback(w, Head(inbox)) /\ inbox' \in {<<>>, Tail(inbox)}
      BY <2>1, <2>2, InboxTypes
    <2>3. CASE inbox = <<>> /\ net = "fin" /\ Callback(w, "close") /\ UNCHANGED inbox
      BY <2>1, <2>3
    <2>4. CASE inbox = <<>> /\ net = "reset" /\ Callback(w, "error") /\ UNCHANGED inbox
      BY <2>1, <2>4
    <2> QED BY <2>2, <2>3, <2>4 DEF Received
  <1>4. PICK res \in {"error", "close"} \cup Answers :
          /\ Callback(w, res)
          /\ inbox' \in Seq(Answers) /\ Len(inbox') <= MaxInbox
          /\ res \in Answers \/ net \in {"fin", "reset"}
    BY <1>3
  <1>5. PICK v \in Items :
          /\ work' = work \ {w} \/ work' = (work \ {w}) \cup {v}
          /\ m_listClient => work' = (work \ {w}) \cup {v}
          /\ v.conn = w.conn /\ GoodItem(v) /\ v.at # "pending"
          /\ IF res = "error" THEN v.type = "REMOVE"
             ELSE v.type = w.type /\ v.at = "handle" /\ v.res = res
    <2>1. res \in {"ok", "error", "close"} \cup Answers /\ w.type \in {"CONNECT", "RECV"}
      BY <1>1
    <2> QED BY <1>1, <1>4, <2>1, CallbackFits
  <1>6. Typed' /\ ItemsFit' /\ SenderFits' /\ WatchFits'
    <2>1. bound' \in BOOLEAN /\ faults' \in 0 .. MaxFaults
      BY <1>2 DEF Typed, ConnTypes
    <2> QED BY <1>1, <1>2, <1>4, <1>5, <2>1, Completes
  <1>7. ListedIsServed'
    BY <1>1, <1>2, <1>5 DEF ListedIsServed
  <1>8. KeptFits'
    <2> SUFFICES ASSUME ~mixed, net \in {"connecting", "open"} PROVE KeptFits'
      BY <1>2 DEF KeptFits
    <2>1. /\ m_Socket /\ m_listClient /\ net = "open"
          /\ \A u \in work : u.conn = m_nConn =>
               u.type # "REMOVE" /\ ~(u.at = "handle" /\ u.res = "close")
      BY <1>1 DEF KeptFits
    <2>2. res \in Answers /\ res # "error" /\ res # "close"
      BY <1>4, <2>1 DEF Answers
    <2>3. \A u \in work' : u.conn = m_nConn =>
               u.type # "REMOVE" /\ ~(u.at = "handle" /\ u.res = "close")
      BY <1>1, <1>5, <2>1, <2>2
    <2> QED BY <1>2, <2>1, <2>3 DEF KeptFits
  <1>9. NoFaultFits'
    BY <1>2 DEF NoFaultFits
  <1> QED BY <1>6, <1>7, <1>8, <1>9

LEMMA SentInv ==
  ASSUME ConnInv, proc = "up", NEW w \in work, Sent(w),
         UNCHANGED <<m_nSIType, proc, client, sender, timing, history>>
  PROVE  ConnInv'
  <1> USE DEF ConnInv
  <1>1. /\ w.at = "pending" /\ w.conn = m_nConn /\ m_Socket /\ w.type = "SEND"
        /\ UNCHANGED <<net, bounds>>
    BY DEF Sent, Closed
  <1>2. UNCHANGED <<m_listClient, m_State, m_Socket, m_nConn, net, faults, alarms, mixed,
                    unheard, alive, before, dlg>>
    BY <1>1 DEF client, history, timing, bounds
  <1>3. w.res \in {"alive", "alarm", "bind"}
    BY <1>1 DEF ItemsFit, GoodItem
  <1>4. /\ inbox \in Seq(Answers) /\ Len(inbox) \in Nat /\ Len(inbox) <= MaxInbox
        /\ bound \in BOOLEAN /\ faults' \in 0 .. MaxFaults
    BY <1>2 DEF Typed, ConnTypes
  <1>5. /\ bound' \in BOOLEAN /\ inbox' \in Seq(Answers) /\ Len(inbox') <= MaxInbox
        /\ Callback(w, "ok") \/ (net = "reset" /\ Callback(w, "error"))
    <2>1. CASE net = "reset"
      BY <1>4, <2>1 DEF Sent
    <2>2. CASE net # "reset"
      <3>1. /\ Callback(w, "ok") /\ bound' = (bound \/ w.res = "bind")
            /\ \/ UNCHANGED inbox
               \/ Len(inbox) < MaxInbox /\ inbox' = Append(inbox, Answer(w.res))
        BY <2>2 DEF Sent
      <3>2. Answer(w.res) \in Answers
        BY <1>3, AnswerFits
      <3>3. inbox' \in Seq(Answers) /\ Len(inbox') <= MaxInbox
        BY <1>4, <3>1, <3>2, BoundsAreNat
      <3> QED BY <3>1, <3>3
    <2> QED BY <2>1, <2>2
  <1>6. \E v \in Items :
          /\ work' = work \ {w} \/ (work' = (work \ {w}) \cup {v} /\ net = "reset")
          /\ v.conn = w.conn /\ GoodItem(v) /\ v.at # "pending"
    <2>1. CASE Callback(w, "ok")
      <3>1. work' = work \ {w}
        <4>1. "ok" # "error"
          OBVIOUS
        <4> QED BY <1>1, <2>1, <4>1, CallbackCases
      <3>2. PICK v \in Items : v.conn = w.conn /\ GoodItem(v) /\ v.at # "pending"
        BY <1>1, <2>1, CallbackFits
      <3> QED BY <3>1, <3>2
    <2>2. CASE net = "reset" /\ Callback(w, "error")
      BY <1>1, <2>2, CallbackFits
    <2> QED BY <1>5, <2>1, <2>2
  <1>7. PICK v \in Items :
          /\ work' = work \ {w} \/ (work' = (work \ {w}) \cup {v} /\ net = "reset")
          /\ v.conn = w.conn /\ GoodItem(v) /\ v.at # "pending"
    BY <1>6
  <1>8. Typed' /\ ItemsFit' /\ SenderFits' /\ WatchFits'
    BY <1>1, <1>2, <1>4, <1>5, <1>7, Completes
  <1>9. ListedIsServed'
    <2> SUFFICES ASSUME m_listClient, m_Socket, net # "none", ~unheard
                 PROVE  \E u \in work' :
                          \/ u.type = "REMOVE"
                          \/ /\ u.type \in {"CONNECT", "RECV"} /\ u.conn = m_nConn
                             /\ u.at \in {"pending", "handle"}
      BY <1>2 DEF ListedIsServed
    <2>1. PICK u \in work :
            \/ u.type = "REMOVE"
            \/ /\ u.type \in {"CONNECT", "RECV"} /\ u.conn = m_nConn
               /\ u.at \in {"pending", "handle"}
      BY DEF ListedIsServed
    <2> QED BY <1>1, <1>7, <2>1
  <1>10. KeptFits'
    <2> SUFFICES ASSUME ~mixed, net \in {"connecting", "open"} PROVE KeptFits'
      BY <1>2 DEF KeptFits
    <2>1. work' \subseteq work
      BY <1>7
    <2> QED BY <1>2, <2>1 DEF KeptFits
  <1>11. NoFaultFits'
    BY <1>2 DEF NoFaultFits
  <1> QED BY <1>8, <1>9, <1>10, <1>11

LEMMA NetworkInv == ConnInv /\ Network => ConnInv'
  <1> SUFFICES ASSUME ConnInv, Network PROVE ConnInv'
    OBVIOUS
  <1> USE DEF ConnInv
  <1>1. proc = "up" /\ UNCHANGED <<m_nSIType, proc, client, sender, timing, history>>
    BY DEF Network
  <1>2. ASSUME NEW w \in work, Aborted(w) \/ Accepted(w) \/ Received(w) \/ Sent(w)
        PROVE  ConnInv'
    BY <1>1, <1>2, AbortedInv, AcceptedInv, ReceivedInv, SentInv
  <1>3. UNCHANGED <<m_listClient, m_State, m_Socket, m_nConn, mixed, unheard, alive, before,
                    dlg, since>>
    BY <1>1 DEF client, history, timing
  <1>4. SenderFits' /\ WatchFits'
    BY <1>1, <1>3 DEF SenderFits, WatchFits
  <1>5. inbox \in Seq(Answers) /\ Len(inbox) \in Nat /\ Len(inbox) <= MaxInbox
    BY DEF Typed, ConnTypes
  <1>6. CASE ServerSpeaks
    <2>1. /\ net = "open" /\ Len(inbox) < MaxInbox /\ alarms < MaxAlarms /\ alarms' = alarms + 1
          /\ inbox' = Append(inbox, "event") /\ UNCHANGED <<net, bound, work, faults>>
      BY <1>6 DEF ServerSpeaks
    <2>2. "event" \in Answers
      BY DEF Answers
    <2>3. inbox' \in Seq(Answers) /\ Len(inbox') <= MaxInbox /\ alarms' \in 0 .. MaxAlarms
      BY <1>5, <2>1, <2>2, BoundsAreNat DEF Typed, OtherTypes
    <2>4. Typed'
      BY <1>1, <1>3, <2>1, <2>3 DEF Typed, ConnTypes, OtherTypes, Items
    <2>5. ItemsFit' /\ ListedIsServed' /\ KeptFits' /\ NoFaultFits'
      BY <1>1, <1>3, <2>1 DEF ItemsFit, GoodItem, ListedIsServed, KeptFits, NoFaultFits
    <2> QED BY <1>4, <2>4, <2>5
  <1>7. CASE ConnectionLost
    <2>1. /\ net \in {"open", "fin"} /\ Fault /\ net' \in {"fin", "reset"}
          /\ inbox' = IF net' = "reset" THEN <<>> ELSE inbox
          /\ UNCHANGED <<bound, work, alarms>>
      BY <1>7 DEF ConnectionLost
    <2>2. faults' \in 0 .. MaxFaults /\ faults' # 0
      BY <2>1, BoundsAreNat DEF Fault, Typed, ConnTypes
    <2>3. inbox' \in Seq(Answers) /\ Len(inbox') <= MaxInbox
      BY <1>5, <2>1, BoundsAreNat
    <2>4. Typed'
      BY <1>1, <1>3, <2>1, <2>2, <2>3 DEF Typed, ConnTypes, OtherTypes, Items
    <2>5. ItemsFit'
      BY <1>3, <2>1 DEF ItemsFit, GoodItem
    <2>6. ListedIsServed'
      BY <1>1, <1>3, <2>1 DEF ListedIsServed
    <2>7. KeptFits' /\ NoFaultFits'
      BY <2>1, <2>2 DEF KeptFits, NoFaultFits
    <2> QED BY <1>4, <2>4, <2>5, <2>6, <2>7
  <1> QED BY <1>2, <1>6, <1>7 DEF Network

-----------------------------------------------------------------------------
(* The handlers                                                             *)

(* What is not out any more belongs to no connection still to be accepted;  *)
(* without a fault it belongs to the only one, which is open.               *)
LEMMA HandlerFits ==
  ASSUME ConnInv, proc = "up", NEW w \in work, w.at # "pending"
  PROVE  /\ w \in Items /\ GoodItem(w) /\ w.conn <= m_nConn /\ w.conn \in Nat \ {0}
         /\ m_nConn \in 1 .. MaxConns[m_nSIType]
         /\ ~mixed /\ w.conn = m_nConn => net # "connecting"
         /\ faults = 0 => net = "open" /\ w.conn = m_nConn
  <1> USE DEF ConnInv
  <1>1. w \in Items /\ GoodItem(w) /\ w.conn <= m_nConn
    BY DEF Typed, ConnTypes, ItemsFit
  <1>2. w.conn \in Nat \ {0} /\ m_nConn \in 1 .. MaxConns[m_nSIType]
    BY <1>1, BoundsAreNat DEF Items, Typed, ConnTypes
  <1>3. ~mixed /\ w.conn = m_nConn => net # "connecting"
    BY DEF KeptFits
  <1>4. ASSUME faults = 0 PROVE net = "open" /\ w.conn = m_nConn
    <2>1. w.conn = m_nConn
      BY <1>1, <1>2, <1>4, BoundsAreNat DEF NoFaultFits
    <2> QED BY <1>3, <1>4, <2>1 DEF NoFaultFits, ItemsFit
  <1> QED BY <1>1, <1>2, <1>3, <1>4

(* PostReceive at the end of a handler.                                     *)
LEMMA Receives ==
  ASSUME ConnInv, proc = "up", NEW w \in work, w.at = "handle",
         w.type \in {"CONNECT", "RECV"}, NEW next \in {"up", "quitting"},
         Receive(w, next), Misses(w), UNCHANGED <<m_nSIType, net, bound, sender, faults, unheard>>
  PROVE  /\ ConnTypes' /\ ItemsFit' /\ ListedIsServed' /\ KeptFits'
         /\ proc' \in {"up", "quitting", "fault"} /\ m_nConn' = m_nConn
         /\ m_nConn > 0
         /\ faults = 0 /\ proc' = "up" =>
              ~mixed' /\ (m_State = "CONNECTED" => m_State' = "CONNECTED")
  <1> USE DEF ConnInv
  <1>1. /\ w \in Items /\ GoodItem(w) /\ w.conn <= m_nConn
        /\ m_nConn \in 1 .. MaxConns[m_nSIType]
        /\ ~mixed /\ w.conn = m_nConn => net # "connecting"
        /\ faults = 0 => net = "open" /\ w.conn = m_nConn
    BY HandlerFits
  <1>2. /\ mixed' = (mixed \/ w.conn # m_nConn) /\ mixed' \in BOOLEAN
        /\ faults = 0 => ~mixed'
    BY <1>1 DEF Misses, NoFaultFits
  <1>3. /\ work \subseteq Items /\ IsFiniteSet(work) /\ Items' = Items
        /\ inbox \in Seq(Answers) /\ Len(inbox) <= MaxInbox
        /\ {m_listClient, m_Socket, bound, mixed, unheard} \subseteq BOOLEAN
    BY DEF Typed, ConnTypes, Items
  <1>4. ~mixed' => ~mixed /\ w.conn = m_nConn
    BY <1>2
  <1>5. CASE ~m_Socket /\ proc' = "fault" /\ UNCHANGED <<client, work, inbox>>
    <2>1. UNCHANGED <<m_listClient, m_State, m_Socket, m_nConn>>
      BY <1>5 DEF client
    <2>2. ConnTypes'
      BY <1>2, <1>3, <1>5, <2>1 DEF Typed, ConnTypes
    <2>3. ItemsFit'
      BY <1>5, <2>1 DEF ItemsFit, GoodItem
    <2>4. ListedIsServed' /\ KeptFits'
      BY <1>5 DEF ListedIsServed, KeptFits
    <2> QED BY <1>1, <1>5, <2>1, <2>2, <2>3, <2>4
  <1>14. CASE ~m_Socket /\ proc' = next /\ work' = work \ {w} /\ UNCHANGED <<client, inbox>>
    <2>1. UNCHANGED <<m_listClient, m_State, m_Socket, m_nConn>>
      BY <1>14 DEF client
    <2>2. IsFiniteSet(work')
      BY <1>3, <1>14, FS_Subset
    <2>3. ConnTypes'
      BY <1>2, <1>3, <1>14, <2>1, <2>2 DEF Typed, ConnTypes
    <2>4. ItemsFit'
      BY <1>14, <2>1 DEF ItemsFit, GoodItem
    <2>5. ListedIsServed' /\ KeptFits'
      BY <1>4, <1>14, <2>1 DEF ListedIsServed, KeptFits
    <2> QED BY <1>1, <1>2, <1>14, <2>1, <2>3, <2>4, <2>5
  <1>6. CASE /\ m_Socket /\ proc' = next /\ UNCHANGED <<m_listClient, m_nConn>>
             /\ net \in {"connecting", "none", "reset"}
             /\ Destroy /\ work' = work \ {w} /\ UNCHANGED inbox
    <2>1. m_State' = "CLOSED" /\ m_Socket' = FALSE
      BY <1>6 DEF Destroy
    <2>2. IsFiniteSet(work')
      BY <1>3, <1>6, FS_Subset
    <2>3. ConnTypes'
      BY <1>2, <1>3, <1>6, <2>1, <2>2 DEF Typed, ConnTypes
    <2>4. ItemsFit'
      BY <1>6 DEF ItemsFit, GoodItem
    <2>5. ListedIsServed'
      BY <2>1 DEF ListedIsServed
    <2>6. KeptFits'
      BY <1>1, <1>4, <1>6 DEF KeptFits
    <2> QED BY <1>1, <1>2, <1>6, <2>3, <2>4, <2>5, <2>6
  <1>7. ASSUME m_Socket, proc' = next, UNCHANGED <<m_listClient, m_nConn, m_Socket>>,
               net \in {"open", "fin"},
               NEW i \in Items, i.conn = m_nConn, i.type = "RECV",
               i.at \in {"pending", "handle"}, i.at = "pending" => i.res = "ok",
               i.res = "close" => net = "fin",
               NEW more \in SUBSET {[w EXCEPT !.at = "first"]},
               work' = (work \ {w}) \cup {i} \cup more,
               inbox' \in Seq(Answers), Len(inbox') <= MaxInbox,
               m_State' \in {m_State, "CONNECTED"}
        PROVE  ConnTypes' /\ ItemsFit' /\ ListedIsServed' /\ KeptFits'
    <2> DEFINE f == [w EXCEPT !.at = "first"]
    <2>1. /\ f \in Items /\ f.conn = w.conn /\ f.type = w.type /\ f.at = "first"
          /\ f.res = w.res
      BY <1>1 DEF Items
    <2>2. GoodItem(f) /\ GoodItem(i)
      BY <1>1, <1>7, <2>1 DEF GoodItem
    <2>3. more \subseteq {f}
      BY <1>7
    <2> HIDE DEF f
    <2>4. IsFiniteSet(work') /\ work' \subseteq Items
      <3>1. IsFiniteSet((work \ {w}) \cup {i}) /\ IsFiniteSet({f})
        BY <1>3, WorkIsFinite, FS_Singleton
      <3>2. IsFiniteSet(more)
        BY <2>3, <3>1, FS_Subset
      <3>3. IsFiniteSet(work')
        BY <1>7, <3>1, <3>2, FS_Union
      <3> QED BY <1>3, <1>7, <2>1, <2>3, <3>3
    <2>5. ConnTypes'
      BY <1>2, <1>3, <1>7, <2>4 DEF Typed, ConnTypes
    <2>6. \A u \in work' : u \in work \/ u = i \/ u = f
      BY <1>7, <2>3
    <2>7. ItemsFit'
      <3>1. i.conn <= m_nConn /\ f.conn <= m_nConn
        BY <1>1, <1>7, <2>1
      <3> QED BY <1>7, <2>1, <2>2, <2>6, <3>1 DEF ItemsFit, GoodItem
    <2>8. ListedIsServed'
      BY <1>7 DEF ListedIsServed
    <2>9. KeptFits'
      <3> SUFFICES ASSUME ~mixed', net = "open" PROVE KeptFits'
        BY <1>7 DEF KeptFits
      <3>1. /\ m_Socket /\ m_listClient /\ (sender.at = "post" => m_State = "CONNECTED")
            /\ \A u \in work : u.conn = m_nConn =>
                 u.type # "REMOVE" /\ ~(u.at = "handle" /\ u.res = "close")
        BY <1>4 DEF KeptFits
      <3>2. \A u \in work' : u.conn = m_nConn =>
                 u.type # "REMOVE" /\ ~(u.at = "handle" /\ u.res = "close")
        BY <1>7, <2>1, <2>6, <3>1
      <3> QED BY <1>7, <3>1, <3>2 DEF KeptFits
    <2> QED BY <2>5, <2>7, <2>8, <2>9
  <1>8. CASE /\ m_Socket /\ proc' = next /\ UNCHANGED <<m_listClient, m_nConn, m_Socket>>
             /\ net \in {"open", "fin"} /\ (inbox # <<>> \/ net = "fin")
             /\ work' = (work \ {w}) \cup
                  {Item("RECV", "handle", IF inbox = <<>> THEN "close" ELSE Head(inbox))}
             /\ m_State' = IF m_State = "CREATED" THEN "CONNECTED" ELSE m_State
             /\ inbox' = <<>>
    <2> DEFINE res == IF inbox = <<>> THEN "close" ELSE Head(inbox)
               i == Item("RECV", "handle", res)
    <2>1. res \in Answers \cup {"close"} /\ (res = "close" => net = "fin")
      <3>1. CASE inbox = <<>>
        BY <1>8, <3>1
      <3>2. CASE inbox # <<>>
        <4>1. Head(inbox) \in Answers
          BY <3>2, InboxTypes
        <4>2. Head(inbox) # "close"
          BY <4>1 DEF Answers
        <4> QED BY <3>2, <4>1, <4>2
      <3> QED BY <3>1, <3>2
    <2> HIDE DEF res
    <2>2. /\ i.conn = m_nConn /\ i.type = "RECV" /\ i.at = "handle" /\ i.res = res
          /\ i.n \in Nat \ {0}
          /\ i = [conn |-> m_nConn, type |-> "RECV", at |-> "handle", res |-> res, n |-> i.n]
      BY ItemFields
    <2>3. work' = (work \ {w}) \cup {i} \cup {}
      BY <1>8 DEF res
    <2> HIDE DEF i
    <2>4. i \in Items
      BY <1>1, <2>1, <2>2 DEF Items
    <2>5. /\ inbox' \in Seq(Answers) /\ Len(inbox') <= MaxInbox
          /\ m_State' \in {m_State, "CONNECTED"}
      BY <1>8, BoundsAreNat
    <2>6. {} \in SUBSET {[w EXCEPT !.at = "first"]}
      OBVIOUS
    <2>7. ConnTypes' /\ ItemsFit' /\ ListedIsServed' /\ KeptFits'
      BY <1>7, <1>8, <2>1, <2>2, <2>3, <2>4, <2>5, <2>6
    <2> QED BY <1>1, <1>2, <1>8, <2>7
  <1>9. CASE /\ m_Socket /\ proc' = next /\ UNCHANGED <<m_listClient, m_nConn, m_Socket>>
             /\ net \in {"open", "fin"}
             /\ work' = (work \ {w}) \cup {Item("RECV", "pending", "ok")}
                         \cup (IF m_State = "CREATED" THEN {[w EXCEPT !.at = "first"]} ELSE {})
             /\ UNCHANGED <<m_State, inbox>>
    <2> DEFINE i == Item("RECV", "pending", "ok")
               more == IF m_State = "CREATED" THEN {[w EXCEPT !.at = "first"]} ELSE {}
    <2>1. /\ i.conn = m_nConn /\ i.type = "RECV" /\ i.at = "pending" /\ i.res = "ok"
          /\ i.n \in Nat \ {0}
          /\ i = [conn |-> m_nConn, type |-> "RECV", at |-> "pending", res |-> "ok", n |-> i.n]
      BY ItemFields
    <2>2. work' = (work \ {w}) \cup {i} \cup more
      BY <1>9
    <2>3. more \in SUBSET {[w EXCEPT !.at = "first"]}
      OBVIOUS
    <2> HIDE DEF i, more
    <2>4. i \in Items
      BY <1>1, <2>1 DEF Items
    <2>5. ConnTypes' /\ ItemsFit' /\ ListedIsServed' /\ KeptFits'
      BY <1>3, <1>7, <1>9, <2>1, <2>2, <2>3, <2>4
    <2> QED BY <1>1, <1>2, <1>9, <2>5
  <1>10. net \in {"none", "connecting", "open", "fin", "reset"}
    BY DEF Typed, ConnTypes
  <1>11. CASE ~m_Socket
    BY <1>5, <1>14, <1>11 DEF Receive
  <1>12. CASE m_Socket /\ net \in {"connecting", "none", "reset"}
    BY <1>6, <1>12 DEF Receive
  <1>13. CASE m_Socket /\ net \in {"open", "fin"}
    <2>1. net \notin {"connecting", "none", "reset"}
      BY <1>13
    <2>2. CASE inbox # <<>> \/ net = "fin"
      BY <1>8, <1>13, <2>1, <2>2 DEF Receive
    <2>3. CASE ~(inbox # <<>> \/ net = "fin")
      BY <1>9, <1>13, <2>1, <2>3 DEF Receive
    <2> QED BY <2>2, <2>3
  <1> QED BY <1>10, <1>11, <1>12, <1>13

(* setsockopt fails in OnConnect.                                           *)
LEMMA NoReceiveFits ==
  ASSUME ConnInv, proc = "up", NEW w \in work, w.at = "handle", w.type = "CONNECT",
         NoReceive(w), Misses(w), UNCHANGED <<m_nSIType, net, bound, sender>>
  PROVE  /\ ConnTypes' /\ ItemsFit' /\ ListedIsServed' /\ KeptFits'
         /\ proc' = "up" /\ m_nConn' = m_nConn /\ m_nConn > 0
         /\ m_Socket' = m_Socket /\ faults' # 0
  <1> USE DEF ConnInv
  <1>1. /\ w.conn <= m_nConn /\ m_nConn \in 1 .. MaxConns[m_nSIType]
        /\ ~mixed /\ w.conn = m_nConn => net # "connecting"
        /\ faults = 0 => net = "open" /\ w.conn = m_nConn
    BY HandlerFits
  <1>2. /\ mixed' = (mixed \/ w.conn # m_nConn) /\ mixed' \in BOOLEAN
        /\ work' = work \ {w}
        /\ unheard' = (unheard \/ (m_Socket /\ w.conn = m_nConn)) /\ unheard' \in BOOLEAN
        /\ UNCHANGED <<proc, inbox>>
        /\ UNCHANGED <<m_listClient, m_State, m_Socket, m_nConn>>
    BY DEF Misses, NoReceive, client
  <1>3. faults \in Nat /\ MaxFaults \in Nat /\ faults <= MaxFaults
    BY BoundsAreNat DEF Typed, ConnTypes
  <1>4. faults' \in 0 .. MaxFaults /\ faults' # 0
    <2>1. CASE m_Socket /\ net \in {"open", "fin"}
      BY <1>3, <2>1 DEF NoReceive, Fault
    <2>2. CASE ~(m_Socket /\ net \in {"open", "fin"})
      <3>1. faults' = faults
        BY <2>2 DEF NoReceive
      <3>2. faults # 0
        BY <1>1, <2>2 DEF NoFaultFits, KeptFits
      <3> QED BY <1>3, <3>1, <3>2
    <2> QED BY <2>1, <2>2
  <1>5. IsFiniteSet(work') /\ work' \subseteq Items /\ Items' = Items
    BY <1>2, WorkIsFinite DEF Typed, ConnTypes, Items
  <1>6. ConnTypes'
    <2>1. {m_listClient, m_Socket, bound, mixed, unheard} \subseteq BOOLEAN
      BY DEF Typed, ConnTypes
    <2> QED BY <1>2, <1>4, <1>5, <2>1 DEF Typed, ConnTypes
  <1>7. ItemsFit'
    BY <1>2 DEF ItemsFit, GoodItem
  <1>8. ListedIsServed'
    <2> SUFFICES ASSUME m_listClient, m_Socket, net # "none", ~unheard'
                 PROVE  \E u \in work' :
                          \/ u.type = "REMOVE"
                          \/ /\ u.type \in {"CONNECT", "RECV"} /\ u.conn = m_nConn
                             /\ u.at \in {"pending", "handle"}
      BY <1>2 DEF ListedIsServed
    <2>1. ~unheard /\ w.conn # m_nConn
      BY <1>2
    <2>2. PICK u \in work :
            \/ u.type = "REMOVE"
            \/ /\ u.type \in {"CONNECT", "RECV"} /\ u.conn = m_nConn
               /\ u.at \in {"pending", "handle"}
      BY <2>1 DEF ListedIsServed
    <2>3. u # w
      BY <2>1, <2>2
    <2> QED BY <1>2, <2>2, <2>3
  <1>9. KeptFits'
    BY <1>1, <1>2 DEF KeptFits
  <1> QED BY <1>1, <1>2, <1>4, <1>6, <1>7, <1>8, <1>9

LEMMA OnConnectInv == ASSUME ConnInv, NEW w \in work, OnConnect(w) PROVE ConnInv'
  <1> USE DEF ConnInv
  <1>1. /\ proc = "up" /\ w.at = "handle" /\ w.type = "CONNECT" /\ Misses(w)
        /\ UNCHANGED <<m_nSIType, net, bound, sender, timing, alarms, alive, before>>
        /\ \/ Receive(w, "up") /\ UNCHANGED <<faults, unheard>>
           \/ NoReceive(w)
    BY DEF OnConnect
  <1>2. UNCHANGED <<dlg, since>>
    BY <1>1 DEF timing
  <1>3. /\ ConnTypes' /\ ItemsFit' /\ ListedIsServed' /\ KeptFits'
        /\ proc' \in {"up", "quitting", "fault"} /\ m_nConn' = m_nConn
        /\ m_nConn > 0
        /\ \/ /\ UNCHANGED faults
              /\ faults = 0 /\ proc' = "up" =>
                   ~mixed' /\ (m_State = "CONNECTED" => m_State' = "CONNECTED")
           \/ faults' # 0
    <2>1. CASE Receive(w, "up") /\ UNCHANGED <<faults, unheard>>
      <3>1. "up" \in {"up", "quitting"} /\ w.type \in {"CONNECT", "RECV"}
        BY <1>1
      <3> QED BY <1>1, <2>1, <3>1, Receives
    <2>2. CASE NoReceive(w)
      BY <1>1, <2>2, NoReceiveFits
    <2> QED BY <1>1, <2>1, <2>2
  <1>4. OtherTypes'
    BY <1>1, <1>2, <1>3 DEF Typed, OtherTypes
  <1>5. SenderFits'
    BY <1>1, <1>2, <1>3 DEF SenderFits
  <1>6. WatchFits'
    BY <1>1, <1>2 DEF WatchFits
  <1>7. NoFaultFits'
    BY <1>1, <1>2, <1>3 DEF NoFaultFits
  <1> QED BY <1>3, <1>4, <1>5, <1>6, <1>7 DEF Typed

LEMMA OnRecvInv == ASSUME ConnInv, NEW w \in work, OnRecv(w) PROVE ConnInv'
  <1> USE DEF ConnInv
  <1>1. /\ proc = "up" /\ w.at = "handle" /\ w.type = "RECV"
        /\ Misses(w) /\ UNCHANGED <<m_nSIType, net, bound, sender, dlg, bounds, unheard>>
        /\ \/ since' = 0 /\ alive' = Answered(alive) /\ before' = Answered(before)
           \/ UNCHANGED <<since, alive, before>>
    BY DEF OnRecv
  <1>2. \E next \in {"up", "quitting"} : Receive(w, next)
    BY DEF OnRecv
  <1>3. UNCHANGED <<dlg, faults, alarms>>
    BY <1>1 DEF bounds
  <1>4. /\ ConnTypes' /\ ItemsFit' /\ ListedIsServed' /\ KeptFits'
        /\ proc' \in {"up", "quitting", "fault"} /\ m_nConn' = m_nConn
        /\ m_nConn > 0
        /\ faults = 0 /\ proc' = "up" =>
             ~mixed' /\ (m_State = "CONNECTED" => m_State' = "CONNECTED")
    <2>1. w.type \in {"CONNECT", "RECV"}
      BY <1>1
    <2> QED BY <1>1, <1>2, <1>3, <2>1, Receives
  <1>5. /\ {alive, before} \subseteq {"never", "dropped", "sent", "answered"}
        /\ since \in 0 .. 3
    BY DEF Typed, OtherTypes
  <1>6. CASE since' = 0 /\ alive' = Answered(alive) /\ before' = Answered(before)
    <2>1. /\ alive' = IF alive = "sent" THEN "answered" ELSE alive
          /\ before' = IF before = "sent" THEN "answered" ELSE before
      BY <1>6 DEF Answered
    <2>2. OtherTypes'
      BY <1>1, <1>3, <1>4, <1>5, <1>6, <2>1 DEF Typed, OtherTypes
    <2>3. SenderFits'
      BY <1>1, <1>4, <1>6 DEF SenderFits
    <2>4. WatchFits'
      BY <1>1, <1>5, <1>6, <2>1 DEF WatchFits
    <2>5. NoFaultFits'
      BY <1>1, <1>3, <1>4, <2>1 DEF NoFaultFits
    <2> QED BY <1>4, <2>2, <2>3, <2>4, <2>5 DEF Typed
  <1>7. CASE UNCHANGED <<since, alive, before>>
    <2>1. OtherTypes'
      BY <1>1, <1>3, <1>4, <1>7 DEF Typed, OtherTypes
    <2>2. SenderFits'
      BY <1>1, <1>4, <1>7 DEF SenderFits
    <2>3. WatchFits'
      BY <1>1, <1>7 DEF WatchFits
    <2>4. NoFaultFits'
      BY <1>1, <1>3, <1>4, <1>7 DEF NoFaultFits
    <2> QED BY <1>4, <2>1, <2>2, <2>3, <2>4 DEF Typed
  <1> QED BY <1>1, <1>6, <1>7

LEMMA FirstReceiveInv == ASSUME ConnInv, NEW w \in work, FirstReceive(w) PROVE ConnInv'
  <1> USE DEF ConnInv
  <1> DEFINE v == [w EXCEPT !.at = "bind"]
  <1>1. /\ proc = "up" /\ proc' = "up" /\ w.at = "first" /\ m_State' = "CONNECTED"
        /\ work' = (work \ {w}) \cup {v}
        /\ mixed' = (mixed \/ w.conn # m_nConn)
        /\ UNCHANGED <<m_nSIType, m_listClient, m_Socket, m_nConn, network, sender,
                       timing, bounds, unheard, alive, before>>
    BY DEF FirstReceive, Misses
  <1>2. UNCHANGED <<dlg, since, faults, alarms, net, inbox, bound>>
    BY <1>1 DEF timing, bounds, network
  <1>3. /\ w \in Items /\ GoodItem(w) /\ w.conn <= m_nConn
        /\ ~mixed /\ w.conn = m_nConn => net # "connecting"
        /\ faults = 0 => net = "open" /\ w.conn = m_nConn
    BY <1>1, HandlerFits
  <1>4. w.type # "REMOVE"
    BY <1>1, <1>3 DEF GoodItem
  <1>5. v \in Items /\ v.conn = w.conn /\ v.type = w.type /\ v.at = "bind" /\ v.res = w.res
    BY <1>3 DEF Items
  <1> HIDE DEF v
  <1>6. GoodItem(v)
    BY <1>4, <1>5 DEF GoodItem
  <1>7. ConnTypes'
    <2>1. IsFiniteSet(work') /\ work' \subseteq Items /\ Items' = Items
      BY <1>1, <1>5, WorkIsFinite DEF Typed, ConnTypes, Items
    <2>2. mixed' \in BOOLEAN
      BY <1>1
    <2> QED BY <1>1, <1>2, <2>1, <2>2 DEF Typed, ConnTypes
  <1>8. OtherTypes'
    BY <1>1, <1>2 DEF Typed, OtherTypes
  <1>9. ItemsFit'
    <2>1. \A u \in work' : u \in work \/ u = v
      BY <1>1
    <2>2. net = "none" => v.conn # m_nConn
      BY <1>5 DEF ItemsFit
    <2> QED BY <1>1, <1>2, <1>3, <1>5, <1>6, <2>1, <2>2 DEF ItemsFit, GoodItem
  <1>10. SenderFits' /\ WatchFits'
    BY <1>1, <1>2 DEF SenderFits, WatchFits
  <1>11. ListedIsServed'
    <2> SUFFICES ASSUME m_listClient, m_Socket, net # "none", ~unheard
                 PROVE  \E u \in work' :
                          \/ u.type = "REMOVE"
                          \/ /\ u.type \in {"CONNECT", "RECV"} /\ u.conn = m_nConn
                             /\ u.at \in {"pending", "handle"}
      BY <1>1, <1>2 DEF ListedIsServed
    <2>1. PICK u \in work :
            \/ u.type = "REMOVE"
            \/ /\ u.type \in {"CONNECT", "RECV"} /\ u.conn = m_nConn
               /\ u.at \in {"pending", "handle"}
      BY <1>1 DEF ListedIsServed
    <2>2. u # w
      BY <1>1, <1>4, <2>1
    <2> QED BY <1>1, <2>1, <2>2
  <1>12. KeptFits'
    <2> SUFFICES ASSUME ~mixed', net \in {"connecting", "open"} PROVE KeptFits'
      BY <1>2 DEF KeptFits
    <2>1. ~mixed /\ net = "open"
      BY <1>1, <1>3
    <2>2. /\ m_Socket /\ m_listClient
          /\ \A u \in work : u.conn = m_nConn =>
               u.type # "REMOVE" /\ ~(u.at = "handle" /\ u.res = "close")
      BY <1>1, <2>1 DEF KeptFits
    <2>3. \A u \in work' : u.conn = m_nConn =>
               u.type # "REMOVE" /\ ~(u.at = "handle" /\ u.res = "close")
      BY <1>1, <1>4, <1>5, <2>2
    <2> QED BY <1>1, <1>2, <2>1, <2>2, <2>3 DEF KeptFits
  <1>13. NoFaultFits'
    BY <1>1, <1>2, <1>3 DEF NoFaultFits
  <1> QED BY <1>7, <1>8, <1>9, <1>10, <1>11, <1>12, <1>13 DEF Typed

LEMMA OnCloseInv == ASSUME ConnInv, NEW w \in work, OnClose(w) PROVE ConnInv'
  <1> USE DEF ConnInv
  <1> DEFINE v == [w EXCEPT !.type = "REMOVE", !.at = "queued", !.res = w.type]
  <1>1. /\ proc = "up" /\ proc' = "up" /\ w.at = "handle" /\ w.res = "close"
        /\ m_State' = "CLOSED" /\ m_Socket' = FALSE
        /\ work' = (work \ {w}) \cup {v}
        /\ mixed' = (mixed \/ w.conn # m_nConn)
        /\ UNCHANGED <<m_nSIType, m_listClient, m_nConn, network, sender,
                       timing, bounds, unheard, alive, before>>
    BY DEF OnClose, Misses, Destroy, Removal
  <1>2. UNCHANGED <<dlg, since, faults, alarms, net, inbox, bound>>
    BY <1>1 DEF timing, bounds, network
  <1>3. /\ w \in Items /\ GoodItem(w) /\ w.conn <= m_nConn
        /\ ~mixed /\ w.conn = m_nConn => net \notin {"connecting", "open"}
        /\ faults # 0
    BY <1>1, HandlerFits DEF KeptFits, NoFaultFits
  <1>4. w.type \in {"CONNECT", "RECV", "SEND"}
    BY <1>1, <1>3 DEF GoodItem, Items
  <1>5. v \in Items /\ v.conn = w.conn /\ v.type = "REMOVE" /\ v.at = "queued"
    BY <1>3, <1>4 DEF Items
  <1> HIDE DEF v
  <1>6. GoodItem(v)
    BY <1>5 DEF GoodItem
  <1>7. ConnTypes'
    <2>1. IsFiniteSet(work') /\ work' \subseteq Items /\ Items' = Items
      BY <1>1, <1>5, WorkIsFinite DEF Typed, ConnTypes, Items
    <2>2. mixed' \in BOOLEAN
      BY <1>1
    <2> QED BY <1>1, <1>2, <2>1, <2>2 DEF Typed, ConnTypes
  <1>8. OtherTypes'
    BY <1>1, <1>2 DEF Typed, OtherTypes
  <1>9. ItemsFit'
    <2>1. \A u \in work' : u \in work \/ u = v
      BY <1>1
    <2>2. net = "none" => v.conn # m_nConn
      BY <1>5 DEF ItemsFit
    <2> QED BY <1>1, <1>2, <1>3, <1>5, <1>6, <2>1, <2>2 DEF ItemsFit, GoodItem
  <1>10. SenderFits' /\ WatchFits'
    BY <1>1, <1>2 DEF SenderFits, WatchFits
  <1>11. ListedIsServed' /\ NoFaultFits'
    BY <1>1, <1>2, <1>3 DEF ListedIsServed, NoFaultFits
  <1>12. KeptFits'
    BY <1>1, <1>2, <1>3 DEF KeptFits
  <1> QED BY <1>7, <1>8, <1>9, <1>10, <1>11, <1>12 DEF Typed

LEMMA RemoveClientInv == ASSUME ConnInv, NEW w \in work, RemoveClient(w) PROVE ConnInv'
  <1> USE DEF ConnInv
  <1>1. /\ proc = "up" /\ proc' = "up" /\ w.type = "REMOVE" /\ work' = work \ {w}
        /\ UNCHANGED <<m_nSIType, m_nConn, network, sender, timing, bounds, unheard,
                       alive, before>>
        /\ \/ /\ m_listClient /\ m_listClient' = FALSE
              /\ m_State' = "CLOSED" /\ m_Socket' = FALSE
              /\ mixed' = (mixed \/ w.conn # m_nConn)
           \/ ~m_listClient /\ UNCHANGED <<m_listClient, m_State, m_Socket, mixed>>
    BY DEF RemoveClient, Misses, Destroy
  <1>2. UNCHANGED <<dlg, since, faults, alarms, net, inbox, bound>>
    BY <1>1 DEF timing, bounds, network
  <1>3. w.at = "queued"
    BY <1>1 DEF ItemsFit, GoodItem
  <1>4. /\ ~mixed /\ w.conn = m_nConn => net \notin {"connecting", "open"}
        /\ ~mixed /\ ~m_listClient => net \notin {"connecting", "open"}
        /\ faults # 0
    BY <1>1, <1>3, HandlerFits DEF KeptFits, NoFaultFits
  <1>5. ConnTypes'
    <2>1. IsFiniteSet(work') /\ work' \subseteq Items /\ Items' = Items
      BY <1>1, WorkIsFinite DEF Typed, ConnTypes, Items
    <2>2. {m_listClient, m_Socket, bound, mixed, unheard} \subseteq BOOLEAN
      BY DEF Typed, ConnTypes
    <2>3. m_listClient' \in BOOLEAN /\ m_Socket' \in BOOLEAN /\ mixed' \in BOOLEAN
          /\ m_State' \in {"CREATED", "CONNECTED", "CLOSED"}
      BY <1>1, <2>2 DEF Typed, ConnTypes
    <2> QED BY <1>1, <1>2, <2>1, <2>2, <2>3 DEF Typed, ConnTypes
  <1>6. OtherTypes'
    BY <1>1, <1>2 DEF Typed, OtherTypes
  <1>7. ItemsFit'
    BY <1>1, <1>2 DEF ItemsFit, GoodItem
  <1>8. SenderFits'
    BY <1>1, <1>2 DEF SenderFits
  <1>9. WatchFits'
    BY <1>1, <1>2 DEF WatchFits
  <1>10. ListedIsServed' /\ NoFaultFits'
    BY <1>1, <1>2, <1>4 DEF ListedIsServed, NoFaultFits
  <1>11. KeptFits'
    BY <1>1, <1>2, <1>4 DEF KeptFits
  <1> QED BY <1>5, <1>6, <1>7, <1>8, <1>9, <1>10, <1>11 DEF Typed

LEMMA PoolInv == ASSUME ConnInv, NEW w \in work, Pool(w) PROVE ConnInv'
  BY OnConnectInv, OnRecvInv, FirstReceiveInv, BindInv, OnCloseInv, RemoveClientInv DEF Pool

LEMMA NextConnInv == ConnInv /\ [Next]_vars => ConnInv'
  <1> SUFFICES ASSUME ConnInv, [Next]_vars PROVE ConnInv'
    OBVIOUS
  <1>1. CASE Sending
    BY <1>1, TryConnectionInv, LookInv, PostSendInv DEF Sending
  <1>2. CASE SendAlarm
    BY <1>2, SendAlarmInv
  <1>3. CASE Dialog
    BY <1>3, TimerFiresInv, CheckLateInv, TryShutdownInv DEF Dialog
  <1>4. CASE Network
    BY <1>4, NetworkInv
  <1>5. CASE \E w \in work : Pool(w)
    BY <1>5, PoolInv
  <1>6. CASE UNCHANGED vars
    <2> USE <1>6 DEF vars, client, network, timing, bounds, history
    <2>1. Typed'
      BY DEF ConnInv, Typed, ConnTypes, OtherTypes, Items
    <2>2. ItemsFit' /\ SenderFits' /\ ListedIsServed'
      BY DEF ConnInv, ItemsFit, GoodItem, SenderFits, ListedIsServed
    <2>3. KeptFits' /\ WatchFits' /\ NoFaultFits'
      BY DEF ConnInv, KeptFits, WatchFits, NoFaultFits
    <2> QED BY <2>1, <2>2, <2>3 DEF ConnInv
  <1> QED BY <1>1, <1>2, <1>3, <1>4, <1>5, <1>6 DEF Next

-----------------------------------------------------------------------------
(* What holds of every behaviour                                            *)

(* The invariant, from which all that follows is read off.                  *)
THEOREM ConnInvariant == Spec => []ConnInv
  BY InitConnInv, NextConnInv, PTL DEF Spec

(* The types; above all, timer 99 never finds the server silent for a       *)
(* fourth period: CheckLate has ended the process at the third.             *)
THEOREM ConnTypeCorrect == Spec => []TypeOK
  <1>1. ConnInv => TypeOK
    BY DEF ConnInv, Typed, ConnTypes, OtherTypes, TypeOK
  <1> QED BY <1>1, ConnInvariant, PTL

(* Whatever an earlier connection has left to be done, and however often a  *)
(* call fails: a client in the list with a socket hears of its connection   *)
(* once more, or is about to be removed (ClientMan, Client::PostReceive),   *)
(* unless it was PostConnect that failed, or setsockopt in OnConnect.       *)
THEOREM ListedClientIsServed == Spec => []ListedIsServed
  <1>1. ConnInv => ListedIsServed
    BY DEF ConnInv
  <1> QED BY <1>1, ConnInvariant, PTL

LEMMA ConnectKeeps ==
  ASSUME ConnInv, NEW W, Connect(W)
  PROVE  m_Socket => m_Socket'
  BY DEF Connect, client

LEMMA EnterKeeps ==
  ASSUME ConnInv, NEW W, NEW msg, Enter(msg, W)
  PROVE  m_Socket => m_Socket'
  <1>1. CASE m_listClient
    BY <1>1 DEF Enter, client
  <1>2. CASE ~m_listClient
    BY <1>2, ConnectKeeps DEF Enter
  <1> QED BY <1>1, <1>2

LEMMA ReceiveKeeps ==
  ASSUME ConnInv, proc = "up", net = "open", NEW w \in work, w.at = "handle",
         NEW next \in {"up", "quitting"}, Receive(w, next), Misses(w), ~mixed'
  PROVE  (m_Socket => m_Socket') /\ proc' # "fault"
  <1>1. ~mixed
    BY DEF Misses
  <1>2. m_Socket
    BY <1>1 DEF ConnInv, KeptFits
  <1>3. proc' = next /\ m_Socket' = m_Socket
    BY <1>2 DEF Receive
  <1> QED BY <1>3

LEMMA StepKeeps ==
  ASSUME ConnInv, Next, proc = "up", net = "open", ~mixed'
  PROVE  (m_Socket => m_Socket') /\ proc' # "fault"
  <1> USE DEF client, history
  <1>1. ~mixed => m_Socket /\ m_listClient
                 /\ \A w \in work : w.conn = m_nConn =>
                      w.type # "REMOVE" /\ ~(w.at = "handle" /\ w.res = "close")
    BY DEF ConnInv, KeptFits
  <1>2. CASE TryConnection
    BY <1>2, ConnectKeeps DEF TryConnection
  <1>3. CASE Look
    BY <1>3 DEF Look
  <1>4. CASE PostSend
    BY <1>1, <1>4 DEF PostSend
  <1>5. CASE SendAlarm
    BY <1>5, EnterKeeps DEF SendAlarm
  <1>6. CASE TimerFires
    BY <1>6, EnterKeeps DEF TimerFires
  <1>7. CASE CheckLate
    BY <1>7 DEF CheckLate
  <1>8. CASE TryShutdown
    BY <1>8 DEF TryShutdown
  <1>9. CASE Network
    BY <1>9 DEF Network
  <1>10. ASSUME NEW w \in work, Pool(w)
         PROVE  (m_Socket => m_Socket') /\ proc' # "fault"
    <2>1. CASE OnConnect(w)
      <3>1. CASE Receive(w, proc)
        BY <2>1, <3>1, ReceiveKeeps DEF OnConnect
      <3>2. CASE NoReceive(w)
        BY <3>2 DEF NoReceive
      <3> QED BY <2>1, <3>1, <3>2 DEF OnConnect
    <2>2. CASE OnRecv(w)
      <3>1. \E next \in {"up", "quitting"} : Receive(w, next)
        BY <2>2 DEF OnRecv
      <3> QED BY <2>2, <3>1, ReceiveKeeps DEF OnRecv
    <2>3. CASE FirstReceive(w)
      BY <2>3 DEF FirstReceive
    <2>4. CASE Bind(w)
      BY <2>4, EnterKeeps DEF Bind
    <2>5. CASE OnClose(w)
      BY <1>1, <2>5 DEF OnClose, Misses
    <2>6. CASE RemoveClient(w)
      BY <1>1, <2>6 DEF RemoveClient, Misses
    <2> QED BY <1>10, <2>1, <2>2, <2>3, <2>4, <2>5, <2>6 DEF Pool
  <1> QED BY <1>2, <1>3, <1>4, <1>5, <1>6, <1>7, <1>8, <1>9, <1>10 DEF Next, Sending, Dialog

(* Nobody destroys a connection the network keeps, and no handler meets the *)
(* m_pTPIO of one destroyed, but for what an earlier connection left behind.*)
THEOREM KeepsUntilLost == Spec => KeptUntilLost
  <1>1. ConnInv /\ [Next]_vars =>
          [proc = "up" /\ net = "open" /\ ~mixed' => (m_Socket => m_Socket') /\ proc' # "fault"]_vars
    <2>1. ASSUME ConnInv, Next
          PROVE  proc = "up" /\ net = "open" /\ ~mixed' => (m_Socket => m_Socket') /\ proc' # "fault"
      BY <2>1, StepKeeps
    <2> QED BY <2>1
  <1> QED BY <1>1, ConnInvariant, PTL DEF Spec, KeptUntilLost

(* The timer leaves its check for the next period in one place only.        *)
LEMMA OnlyCheckQuits ==
  ASSUME ConnInv, Next, QuitsLate
  PROVE  CheckLate
  <1>1. dlg = "check" /\ dlg' = "idle" /\ proc' = "quitting"
    BY DEF QuitsLate
  <1> USE <1>1 DEF timing
  <1>2. ~TryConnection
    BY DEF TryConnection
  <1>3. ~Look
    BY DEF Look, Leave
  <1>4. ~PostSend
    BY DEF PostSend, Leave
  <1>5. ~SendAlarm /\ ~TimerFires /\ ~TryShutdown /\ ~Network
    BY DEF SendAlarm, TimerFires, TryShutdown, Network
  <1>6. \A w \in work : ~Pool(w)
    BY DEF Pool, OnConnect, OnRecv, FirstReceive, Bind, OnClose, RemoveClient
  <1> QED BY <1>2, <1>3, <1>4, <1>5, <1>6 DEF Next, Sending, Dialog

(* Timer 99 posts WM_QUIT to no process whose keep-alive of the timer       *)
(* before was answered and, where nothing has failed, to no SISender that   *)
(* did not send it.                                                         *)
THEOREM QuitsOnlyUnanswered == Spec => QuitsWhenUnanswered
  <1>1. ASSUME ConnInv, Next, QuitsLate
        PROVE  /\ before # "answered"
               /\ m_nSIType = "KOCOM" /\ faults = 0 => before # "dropped"
    <2>1. CheckLate /\ dlg = "check" /\ proc' = "quitting"
      BY <1>1, OnlyCheckQuits DEF QuitsLate
    <2>2. proc = "up" /\ since >= 2
      BY <2>1 DEF CheckLate, MayBeLate
    <2>3. before # "answered"
      BY <1>1, <2>1, <2>2, BoundsAreNat DEF ConnInv, WatchFits
    <2>4. m_nSIType = "KOCOM" /\ faults = 0 => before # "dropped"
      BY <1>1, <2>2 DEF ConnInv, WatchFits, NoFaultFits
    <2> QED BY <2>3, <2>4
  <1>2. ConnInv /\ [Next]_vars =>
          [QuitsLate => /\ before # "answered"
                        /\ m_nSIType = "KOCOM" /\ faults = 0 => before # "dropped"]_vars
    BY <1>1
  <1> QED BY <1>2, ConnInvariant, PTL DEF Spec, QuitsWhenUnanswered

-----------------------------------------------------------------------------
(* Hours, days and months.                                                  *)

LEMMA Division ==
  ASSUME NEW n \in Nat, NEW k \in Nat \ {0}
  PROVE  /\ n \div k \in Nat /\ n % k \in 0 .. k - 1
         /\ n = k * (n \div k) + (n % k)
  OBVIOUS

(* The quotient is the number of whole k.                                   *)
LEMMA QuotientBetween ==
  ASSUME NEW m \in Nat, NEW n \in Nat, NEW k \in Nat \ {0}, m <= n
  PROVE  m \div k <= n \div k
  <1>1. SUFFICES ASSUME n \div k + 1 <= m \div k PROVE FALSE
    BY Division
  <1>2. k * (n \div k + 1) <= k * (m \div k)
    BY <1>1, Division
  <1>3. k * (n \div k + 1) = k * (n \div k) + k
    BY Division
  <1> QED BY <1>2, <1>3, Division

LEMMA NextQuotient ==
  ASSUME NEW n \in Nat, NEW k \in Nat \ {0}
  PROVE  (n + 1) \div k <= n \div k + 1
  <1>1. SUFFICES ASSUME n \div k + 2 <= (n + 1) \div k PROVE FALSE
    BY Division
  <1>2. k * (n \div k + 2) <= k * ((n + 1) \div k)
    BY <1>1, Division
  <1>3. k * (n \div k + 2) = k * (n \div k) + k + k
    BY Division
  <1> QED BY <1>2, <1>3, Division

LEMMA DayGrows ==
  ASSUME NEW m \in Nat, NEW n \in Nat, m <= n
  PROVE  Day(m) \in Nat /\ Day(n) \in Nat /\ Day(m) <= Day(n)
  BY LogRemoverAssumption, QuotientBetween, Division DEF Day

LEMMA NextDay ==
  ASSUME NEW n \in Nat
  PROVE  Day(n + 1) <= Day(n) + 1
  BY LogRemoverAssumption, NextQuotient DEF Day

LEMMA DayAndHour ==
  ASSUME NEW n \in Nat
  PROVE  /\ Day(n) \in Nat /\ Hour(n) \in 0 .. HoursPerDay - 1
         /\ n = HoursPerDay * Day(n) + Hour(n)
  BY LogRemoverAssumption, Division DEF Day, Hour

(* A day in a calendar of months of k days and years of l months, and the   *)
(* number made of its parts.                                                *)
DayOf(k, l, y, q, r) == k * (l * y + q) + r
Shown(y, q, r) == 10000 * y + 100 * q + r

LEMMA CalendarOrder ==
  ASSUME NEW k \in Nat, NEW l \in Nat, k < 100, l < 100,
         NEW yc \in Nat, NEW qc \in 0 .. l - 1, NEW rc \in 0 .. k - 1,
         NEW yd \in Nat, NEW qd \in 0 .. l - 1, NEW rd \in 0 .. k - 1,
         Shown(yd, qd, rd) <= Shown(yc, qc, rc)
  PROVE  DayOf(k, l, yd, qd, rd) <= DayOf(k, l, yc, qc, rc)
  <1> USE DEF DayOf, Shown
  <1> DEFINE mc == l * yc + qc  md == l * yd + qd
  <1>1. mc \in Nat /\ md \in Nat
    OBVIOUS
  <1>2. yd <= yc
    OBVIOUS
  <1>3. ASSUME md + 1 <= mc PROVE k * md + rd <= k * mc + rc
    <2> HIDE DEF mc, md
    <2>1. k * (md + 1) <= k * mc
      BY <1>1, <1>3
    <2>2. k * (md + 1) = k * md + k
      BY <1>1
    <2> QED BY <1>1, <2>1, <2>2
  <1>4. CASE yd = yc
    <2>1. qd <= qc
      BY <1>4
    <2>2. CASE qd = qc
      BY <1>4, <2>2
    <2>3. CASE qd + 1 <= qc
      <3>1. md + 1 <= mc
        BY <1>4, <2>3
      <3> QED BY <1>3, <3>1
    <2> QED BY <2>1, <2>2, <2>3
  <1>5. CASE yd + 1 <= yc
    <2>1. l * (yd + 1) <= l * yc
      BY <1>5
    <2>2. l * (yd + 1) = l * yd + l
      OBVIOUS
    <2>3. md + 1 <= mc
      BY <2>1, <2>2
    <2> QED BY <1>3, <2>3
  <1>6. yd = yc \/ yd + 1 <= yc
    BY <1>2
  <1> QED BY <1>4, <1>5, <1>6

(* The numbers of a folder tell the days apart, in their order.             *)
LEMMA LogTimeGrows ==
  ASSUME NEW c \in Nat, NEW d \in Nat, LogTime(d) <= LogTime(c)
  PROVE  d <= c
  <1> DEFINE yc == Month(c) \div MonthsPerYear  qc == Month(c) % MonthsPerYear
             yd == Month(d) \div MonthsPerYear  qd == Month(d) % MonthsPerYear
             rc == c % DaysPerMonth  rd == d % DaysPerMonth
  <1>1. /\ DaysPerMonth \in Nat \ {0} /\ DaysPerMonth < 100
        /\ MonthsPerYear \in Nat \ {0} /\ MonthsPerYear < 100
    BY LogRemoverAssumption
  <1>2. Month(c) \in Nat /\ rc \in 0 .. DaysPerMonth - 1
        /\ c = DaysPerMonth * Month(c) + rc
    BY <1>1, Division DEF Month
  <1>3. Month(d) \in Nat /\ rd \in 0 .. DaysPerMonth - 1
        /\ d = DaysPerMonth * Month(d) + rd
    BY <1>1, Division DEF Month
  <1>4. yc \in Nat /\ qc \in 0 .. MonthsPerYear - 1
        /\ Month(c) = MonthsPerYear * yc + qc
    BY <1>1, <1>2, Division
  <1>5. yd \in Nat /\ qd \in 0 .. MonthsPerYear - 1
        /\ Month(d) = MonthsPerYear * yd + qd
    BY <1>1, <1>3, Division
  <1>6. /\ LogTime(d) = 10000 * (yd + 1) + 100 * (qd + 1) + rd + 1
        /\ LogTime(c) = 10000 * (yc + 1) + 100 * (qc + 1) + rc + 1
    BY DEF LogTime
  <1> HIDE DEF yc, yd, qc, qd, rc, rd
  <1>7. 10000 * yd + 100 * qd + rd <= 10000 * yc + 100 * qc + rc
    BY <1>1, <1>2, <1>3, <1>4, <1>5, <1>6
  <1>8. DaysPerMonth * (MonthsPerYear * yd + qd) + rd
          <= DaysPerMonth * (MonthsPerYear * yc + qc) + rc
    <2>1. /\ DaysPerMonth \in Nat /\ MonthsPerYear \in Nat
          /\ DaysPerMonth < 100 /\ MonthsPerYear < 100
          /\ yc \in Nat /\ qc \in 0 .. MonthsPerYear - 1
          /\ rc \in 0 .. DaysPerMonth - 1
          /\ yd \in Nat /\ qd \in 0 .. MonthsPerYear - 1
          /\ rd \in 0 .. DaysPerMonth - 1
      BY <1>1, <1>2, <1>3, <1>4, <1>5
    <2>2. Shown(yd, qd, rd) <= Shown(yc, qc, rc)
      BY <1>7 DEF Shown
    <2>3. DayOf(DaysPerMonth, MonthsPerYear, yd, qd, rd)
            <= DayOf(DaysPerMonth, MonthsPerYear, yc, qc, rc)
      BY <2>1, <2>2, CalendarOrder
    <2> QED BY <2>3 DEF DayOf
  <1>9. DaysPerMonth * Month(d) + rd <= DaysPerMonth * Month(c) + rc
    BY <1>4, <1>5, <1>8
  <1> QED BY <1>2, <1>3, <1>9

-----------------------------------------------------------------------------
(* The number of the hour a file is of.                                     *)
Number(f) == HoursPerDay * f[1] + f[2]

Hours == (0 .. Day(MaxHours)) \X (0 .. HoursPerDay - 1)

(* A line has not been written more than a day after the hour of its file   *)
(* unless the process was silent for a day in between: the hour would have  *)
(* been another one in the meantime.                                        *)
FileIsRecent ==
  file # NoFile /\ ~quiet =>
    silence < HoursPerDay /\ now <= Number(file) + silence

(* The same of the file that is about to be opened.                         *)
PathIsRecent ==
  lpc # "idle" =>
    /\ path \in Hours /\ path[1] <= Day(now)
    /\ ~quiet => silence < HoursPerDay /\ now <= Number(path) + silence

(* What a pass deletes is old enough, the term being the one it began with. *)
PassIsOld ==
  /\ m_Thread = "none" => rpc = "sleep"
  /\ m_Thread # "none" => nTerm \in terms
  /\ rpc # "sleep" => tDel + nTerm <= Day(now)
  /\ rpc \in {"in", "out"} => nDay + nTerm <= Day(now)

(* Some term is over since the last day with a folder.                      *)
TermIsOver == \E t \in terms : latest + t <= Day(now)

(* The last folder stays until then.  While a file is about to be opened,   *)
(* the folder it needs next is there, for what a pass removes meanwhile is  *)
(* of the last day at most: if it was that day's, or the month it was in,   *)
(* the last folder is gone.                                                 *)
FolderKept ==
  /\ \A d \in days : d <= latest
  /\ latest >= 0 => latest \in days \/ TermIsOver
  /\ lpc # "idle" => latest <= path[1]
  /\ lpc = "mkdir" => Month(path[1]) \in months \/ TermIsOver
  /\ lpc = "fopen" => path[1] \in days \/ TermIsOver
  /\ rpc \in {"in", "out"} => nDay <= latest

IInv == /\ LogTypeOK /\ late = {} /\ FileIsRecent /\ PathIsRecent /\ PassIsOld
        /\ FolderKept

-----------------------------------------------------------------------------
LEMMA Bounds ==
  ASSUME now \in 0 .. MaxHours
  PROVE  /\ now \in Nat /\ MaxHours \in Nat /\ HoursPerDay \in Nat \ {0}
         /\ Day(now) \in 0 .. Day(MaxHours)
         /\ Hour(now) \in 0 .. HoursPerDay - 1
         /\ now = HoursPerDay * Day(now) + Hour(now)
         /\ <<Day(now), Hour(now)>> \in Hours
         /\ Terms \subseteq Nat
  <1>1. now \in Nat /\ MaxHours \in Nat /\ HoursPerDay \in Nat \ {0} /\ now <= MaxHours
        /\ Terms \subseteq Nat
    BY LogRemoverAssumption
  <1>2. Day(now) \in Nat /\ Day(MaxHours) \in Nat /\ Day(now) <= Day(MaxHours)
    BY <1>1, DayGrows
  <1>3. Hour(now) \in 0 .. HoursPerDay - 1 /\ now = HoursPerDay * Day(now) + Hour(now)
    BY <1>1, DayAndHour
  <1> QED BY <1>1, <1>2, <1>3 DEF Hours

LEMMA MonthGrows ==
  ASSUME NEW c \in Nat, NEW d \in Nat, c <= d
  PROVE  Month(c) \in Nat /\ Month(d) \in Nat /\ Month(c) <= Month(d)
  BY LogRemoverAssumption, QuotientBetween, Division DEF Month

LEMMA InitIInv == LogInit => IInv
  <1> SUFFICES ASSUME LogInit PROVE IInv
    OBVIOUS
  <1>1. MaxHours \in Nat /\ HoursPerDay \in Nat \ {0}
    BY LogRemoverAssumption
  <1>2. now = 0 /\ now \in 0 .. MaxHours
    BY <1>1 DEF LogInit
  <1>3. listed \in BOOLEAN
    BY DEF LogInit
  <1>4. LogTypeOK
    <2>1. {Month(d) : d \in days} \subseteq months /\ months \subseteq 0 .. Month(Day(MaxHours))
      BY DEF LogInit
    <2>2. {days, seen} \subseteq SUBSET (0 .. Day(MaxHours))
      BY DEF LogInit
    <2>3. files \subseteq days \X (0 .. HoursPerDay - 1) /\ late \subseteq files
      BY DEF LogInit
    <2>4. silence \in 0 .. HoursPerDay
      BY <1>1 DEF LogInit
    <2>5. lpc = "idle" <=> path = NoFile
      BY DEF LogInit
    <2>6. nDay \in (IF rpc \in {"in", "out"} THEN 0 .. Day(MaxHours) ELSE {-1})
      BY DEF LogInit
    <2>7. due \in BOOLEAN /\ quiet \in BOOLEAN
      BY DEF LogInit
    <2>8. file \in files \cup {NoFile}
      BY DEF LogInit
    <2>9. /\ lpc \in {"idle", "mkdir", "fopen"} /\ m_Thread \in {"none", "runs", "join"}
          /\ rpc \in {"sleep", "walk", "in", "out"}
          /\ nTerm \in Terms \cup {0} /\ tDel \in Int
      BY DEF LogInit
    <2>10. latest \in -1 .. Day(now) /\ terms \subseteq Terms
      BY <1>2, Bounds DEF LogInit
    <2> QED
      BY <1>2, <1>3, <2>1, <2>2, <2>3, <2>4, <2>5, <2>6, <2>7, <2>8, <2>9, <2>10, Zenon
      DEF LogTypeOK
  <1> QED
    BY <1>4 DEF LogInit, IInv, FileIsRecent, PathIsRecent, PassIsOld, FolderKept, NoFile

LEMMA TickIInv == IInv /\ Tick => IInv'
  <1> SUFFICES ASSUME IInv, Tick PROVE IInv'
    OBVIOUS
  <1> USE DEF IInv, Tick, folder, log, remover, removed
  <1>1. now \in 0 .. MaxHours /\ now' \in 0 .. MaxHours
        /\ (now' = now + 1 \/ now' = now) /\ now <= now' /\ now \in Nat
        /\ HoursPerDay \in Nat \ {0}
    BY LogRemoverAssumption DEF LogTypeOK
  <1>2. /\ Day(now) \in Nat /\ Day(now') \in Nat
        /\ Day(now) <= Day(now') /\ Day(now') <= Day(now) + 1
    BY <1>1, DayGrows, NextDay
  <1>3. /\ silence' \in 0 .. HoursPerDay /\ quiet' \in BOOLEAN
        /\ silence \in 0 .. HoursPerDay
    BY <1>1 DEF LogTypeOK
  <1>4. LogTypeOK'
    BY <1>1, <1>2, <1>3 DEF LogTypeOK
  <1>5. ASSUME file # NoFile \/ lpc # "idle", ~quiet'
        PROVE  ~quiet /\ silence' < HoursPerDay /\ silence' = silence + 1
    <2>1. ~quiet /\ silence' # HoursPerDay
      BY <1>5, Zenon
    <2>2. silence < HoursPerDay
      BY <1>5, <2>1 DEF FileIsRecent, PathIsRecent
    <2> QED BY <1>1, <1>3, <1>5, <2>1, <2>2
  <1>6. ASSUME file # NoFile PROVE Number(file) \in Int
    BY <1>1, <1>6 DEF Number, LogTypeOK
  <1>7. FileIsRecent'
    BY <1>1, <1>3, <1>5, <1>6 DEF FileIsRecent, Number
  <1>8. ASSUME lpc # "idle"
        PROVE  Number(path) \in Int
    BY <1>1, <1>8 DEF PathIsRecent, Hours, Number
  <1>9. PathIsRecent'
    <2> SUFFICES ASSUME lpc' # "idle" PROVE
          /\ path' \in Hours /\ path'[1] <= Day(now')
          /\ ~quiet' => silence' < HoursPerDay /\ now' <= Number(path') + silence'
      BY DEF PathIsRecent
    <2>1. path' = path /\ path \in Hours
      BY DEF PathIsRecent
    <2>2. path[1] <= Day(now')
      BY <1>2, <2>1 DEF PathIsRecent, Hours
    <2>3. ~quiet' => silence' < HoursPerDay /\ now' <= Number(path) + silence'
      BY <1>1, <1>3, <1>5, <1>8 DEF PathIsRecent
    <2> QED BY <2>1, <2>2, <2>3
  <1>10. PassIsOld'
    BY <1>2, LogRemoverAssumption DEF PassIsOld, LogTypeOK
  <1>11. FolderKept'
    <2>1. TermIsOver => TermIsOver'
      BY <1>2, LogRemoverAssumption DEF TermIsOver, LogTypeOK
    <2> QED BY <2>1 DEF FolderKept, TermIsOver
  <1> QED BY <1>4, <1>7, <1>9, <1>10, <1>11

LEMMA WriteLogIInv == IInv /\ WriteLog => IInv'
  <1> SUFFICES ASSUME IInv, WriteLog PROVE IInv'
    OBVIOUS
  <1> USE DEF IInv, WriteLog, StaysOpen, folder, log, remover, removed
  <1>1. /\ now \in Nat /\ HoursPerDay \in Nat \ {0}
        /\ Day(now) \in Nat /\ Hour(now) \in 0 .. HoursPerDay - 1
        /\ now = HoursPerDay * Day(now) + Hour(now)
    BY Bounds DEF LogTypeOK
  <1>2. file \in files /\ file[1] \in Nat /\ file[2] = Hour(now)
        /\ file[2] \in Nat
    BY <1>1 DEF LogTypeOK
  <1>3. ~quiet => Day(now) <= file[1]
    <2> SUFFICES ASSUME ~quiet, file[1] + 1 <= Day(now) PROVE FALSE
      BY <1>1, <1>2
    <2>1. now < Number(file) + HoursPerDay /\ Number(file) \in Nat
      BY <1>1, <1>2 DEF FileIsRecent, LogTypeOK, Number
    <2>2. HoursPerDay * (file[1] + 1) <= HoursPerDay * Day(now)
      BY <1>1, <1>2
    <2>3. HoursPerDay * (file[1] + 1) = HoursPerDay * file[1] + HoursPerDay
      BY <1>1, <1>2
    <2> QED BY <1>1, <1>2, <2>1, <2>2, <2>3 DEF Number
  <1>4. late' = {}
    BY <1>1, <1>2, <1>3
  <1>5. LogTypeOK'
    BY <1>1, <1>4 DEF LogTypeOK
  <1>6. ~quiet => now <= Number(file)
    <2> SUFFICES ASSUME ~quiet PROVE now <= Number(file)
      OBVIOUS
    <2>1. HoursPerDay * Day(now) <= HoursPerDay * file[1]
      BY <1>1, <1>2, <1>3
    <2> QED BY <1>1, <1>2, <2>1 DEF Number
  <1>7. FileIsRecent'
    BY <1>1, <1>2, <1>6 DEF FileIsRecent, Number
  <1>8. PathIsRecent' /\ PassIsOld' /\ FolderKept'
    BY DEF PathIsRecent, PassIsOld, FolderKept, TermIsOver
  <1> QED BY <1>4, <1>5, <1>7, <1>8

LEMMA MakePathIInv == IInv /\ MakePath => IInv'
  <1> SUFFICES ASSUME IInv, MakePath PROVE IInv'
    OBVIOUS
  <1> USE DEF IInv, MakePath, folder, log, remover, removed
  <1>1. /\ now \in Nat /\ HoursPerDay \in Nat \ {0}
        /\ Day(now) \in 0 .. Day(MaxHours) /\ Hour(now) \in 0 .. HoursPerDay - 1
        /\ now = HoursPerDay * Day(now) + Hour(now)
        /\ <<Day(now), Hour(now)>> \in Hours
    BY Bounds DEF LogTypeOK
  <1>2. path' # NoFile /\ file' = NoFile
    BY DEF NoFile
  <1>3. /\ {Month(d) : d \in days'} \subseteq months'
        /\ months' \subseteq 0 .. Month(Day(MaxHours))
    <2>1. Month(Day(now)) \in 0 .. Month(Day(MaxHours))
      <3>1. Day(MaxHours) \in Nat
        BY DayAndHour, LogRemoverAssumption
      <3>2. Day(now) \in Nat /\ Day(now) <= Day(MaxHours)
        BY <1>1, <3>1
      <3>3. Month(Day(now)) \in Nat /\ Month(Day(MaxHours)) \in Nat
            /\ Month(Day(now)) <= Month(Day(MaxHours))
        BY <3>1, <3>2, MonthGrows
      <3> QED BY <3>3
    <2>2. months \subseteq months' /\ months' \subseteq months \cup {Month(Day(now))}
      OBVIOUS
    <2>3. {Month(d) : d \in days} \subseteq months
          /\ months \subseteq 0 .. Month(Day(MaxHours))
      BY DEF LogTypeOK
    <2>4. days' = days
      OBVIOUS
    <2> QED BY <2>1, <2>2, <2>3, <2>4
  <1>4. LogTypeOK'
    <2>1. {days', seen'} \subseteq SUBSET (0 .. Day(MaxHours))
      BY <1>1 DEF LogTypeOK
    <2>2. files' \subseteq days' \X (0 .. HoursPerDay - 1)
      BY DEF LogTypeOK
    <2>3. silence' \in 0 .. HoursPerDay
      BY <1>1
    <2> QED BY <1>2, <1>3, <2>1, <2>2, <2>3 DEF LogTypeOK
  <1>5. PathIsRecent'
    BY <1>1 DEF PathIsRecent, Number
  <1>6. FolderKept'
    <2>1. latest <= Day(now) /\ path'[1] = Day(now)
      BY <1>1 DEF LogTypeOK
    <2>2. lpc' = "mkdir" => Month(path'[1]) \in months'
      BY <2>1
    <2>3. lpc' = "fopen" => path'[1] \in days'
      BY <2>1
    <2> QED BY <2>1, <2>2, <2>3 DEF FolderKept, TermIsOver
  <1> QED BY <1>2, <1>4, <1>5, <1>6 DEF FileIsRecent, PassIsOld

LEMMA MakeDayIInv == IInv /\ MakeDay => IInv'
  <1> SUFFICES ASSUME IInv, MakeDay PROVE IInv'
    OBVIOUS
  <1> USE DEF IInv, MakeDay, remover
  <1>1. /\ path \in Hours /\ path[1] \in 0 .. Day(MaxHours) /\ path # NoFile
        /\ latest <= path[1] /\ path[1] <= Day(now) /\ Day(now) \in Nat /\ latest \in Int
    <2>1. Day(now) \in Nat /\ latest \in Int
      BY Bounds DEF LogTypeOK
    <2> QED BY <2>1 DEF PathIsRecent, Hours, FolderKept, LogTypeOK
  <1>2. CASE /\ Month(path[1]) \in months
             /\ days' = days \cup {path[1]} /\ latest' = path[1]
    <2>1. LogTypeOK'
      <3>1. {Month(d) : d \in days'} \subseteq months'
        BY <1>2 DEF LogTypeOK
      <3>2. {days', seen'} \subseteq SUBSET (0 .. Day(MaxHours))
        BY <1>1, <1>2 DEF LogTypeOK
      <3>3. files' \subseteq days' \X (0 .. HoursPerDay - 1)
        BY <1>2 DEF LogTypeOK
      <3>4. latest' \in -1 .. Day(now')
        BY <1>1, <1>2
      <3> QED BY <1>1, <3>1, <3>2, <3>3, <3>4 DEF LogTypeOK
    <2>2. FolderKept'
      <3>1. \A d \in days' : d <= latest'
        BY <1>1, <1>2 DEF FolderKept, LogTypeOK
      <3>2. rpc \in {"in", "out"} => nDay \in Int /\ nDay <= latest
        BY DEF FolderKept, LogTypeOK
      <3>3. rpc' \in {"in", "out"} => nDay' <= latest'
        BY <1>1, <1>2, <3>2
      <3> QED BY <1>1, <1>2, <3>1, <3>3 DEF FolderKept
    <2> QED BY <2>1, <2>2 DEF FileIsRecent, PathIsRecent, PassIsOld, Number
  <1>3. CASE Month(path[1]) \notin months /\ UNCHANGED <<days, latest>>
    <2>1. LogTypeOK'
      BY <1>1, <1>3 DEF LogTypeOK
    <2>2. FolderKept'
      BY <1>3 DEF FolderKept, TermIsOver
    <2> QED BY <2>1, <2>2 DEF FileIsRecent, PathIsRecent, PassIsOld, Number
  <1> QED BY <1>2, <1>3

LEMMA FOpenIInv == IInv /\ FOpen => IInv'
  <1> SUFFICES ASSUME IInv, FOpen PROVE IInv'
    OBVIOUS
  <1> USE DEF IInv, FOpen, folder, log, remover, removed
  <1>1. /\ path \in Hours /\ path[1] \in 0 .. Day(MaxHours)
        /\ path[2] \in 0 .. HoursPerDay - 1 /\ path = <<path[1], path[2]>>
        /\ HoursPerDay \in Nat \ {0}
        /\ ~quiet => silence < HoursPerDay /\ now <= Number(path) + silence
    BY LogRemoverAssumption DEF PathIsRecent, Hours
  <1>2. lpc' = "idle" /\ path' = NoFile
    OBVIOUS
  <1>3. FolderKept'
    BY <1>2 DEF FolderKept, TermIsOver
  <1>4. CASE path[1] \in days /\ files' = files \cup {path} /\ file' = path
    <2>1. LogTypeOK'
      <3>1. files' \subseteq days' \X (0 .. HoursPerDay - 1)
        BY <1>1, <1>4 DEF LogTypeOK
      <3>2. file' \in files' \cup {NoFile}
        BY <1>4
      <3> QED BY <1>2, <3>1, <3>2 DEF LogTypeOK
    <2>2. FileIsRecent'
      BY <1>1, <1>4 DEF FileIsRecent, Number
    <2> QED BY <1>2, <1>3, <2>1, <2>2 DEF PathIsRecent, PassIsOld
  <1>5. CASE UNCHANGED <<files, file>>
    BY <1>2, <1>3, <1>5 DEF LogTypeOK, FileIsRecent, PathIsRecent, PassIsOld, Number
  <1> QED BY <1>4, <1>5

LEMMA RestartedIInv == IInv /\ Restarted => IInv'
  <1> SUFFICES ASSUME IInv, Restarted PROVE IInv'
    OBVIOUS
  <1> USE DEF IInv, Restarted, folder, log, remover, removed
  <1>1. HoursPerDay \in Nat \ {0}
    BY LogRemoverAssumption
  <1>2. silence' \in 0 .. HoursPerDay
    BY <1>1
  <1>3. lpc' = "idle" /\ path' = NoFile /\ file' = NoFile
    OBVIOUS
  <1>4. quiet' \in BOOLEAN
    OBVIOUS
  <1>5. LogTypeOK'
    BY <1>2, <1>3, <1>4 DEF LogTypeOK
  <1>6. FolderKept'
    BY <1>3 DEF FolderKept, TermIsOver
  <1> QED BY <1>3, <1>5, <1>6 DEF FileIsRecent, PathIsRecent, PassIsOld

LEMMA DialogIInv == IInv /\ (Start \/ Stop \/ Joined) => IInv'
  <1> SUFFICES ASSUME IInv, Start \/ Stop \/ Joined PROVE IInv'
    OBVIOUS
  <1> USE DEF IInv, folder, log, remover, removed
  <1>1. UNCHANGED <<listed, now, files, days, months, file, lpc, path,
                    rpc, tDel, nDay, seen, silence, quiet, late, latest>>
    BY DEF Start, Stop, Joined
  <1>2. /\ m_Thread' \in {"none", "runs", "join"} /\ nTerm' \in Terms \cup {0}
        /\ due' \in BOOLEAN
    BY DEF Start, Stop, Joined, LogTypeOK
  <1>3. terms \subseteq terms' /\ terms' \subseteq Terms
    BY DEF Start, Stop, Joined, LogTypeOK
  <1>4. LogTypeOK'
    BY <1>1, <1>2, <1>3 DEF LogTypeOK
  <1>5. FileIsRecent' /\ PathIsRecent'
    BY <1>1 DEF FileIsRecent, PathIsRecent, Number
  <1>6. PassIsOld'
    BY DEF PassIsOld, Start, Stop, Joined
  <1>7. FolderKept'
    BY <1>1, <1>3 DEF FolderKept, TermIsOver
  <1> QED BY <1>1, <1>4, <1>5, <1>6, <1>7

LEMMA PassBeginIInv == IInv /\ PassBegin => IInv'
  <1> SUFFICES ASSUME IInv, PassBegin PROVE IInv'
    OBVIOUS
  <1> USE DEF IInv, PassBegin, folder, log, remover, removed
  <1>1. Day(now) \in Nat /\ nTerm \in Nat
    BY Bounds DEF LogTypeOK
  <1>2. tDel' \in Int /\ tDel' + nTerm' = Day(now')
    BY <1>1 DEF DelDay
  <1>3. LogTypeOK'
    BY <1>2 DEF LogTypeOK
  <1>4. PassIsOld'
    BY <1>1, <1>2 DEF PassIsOld
  <1>5. FolderKept'
    BY DEF FolderKept, TermIsOver
  <1> QED BY <1>3, <1>4, <1>5 DEF FileIsRecent, PathIsRecent, Number

(* A day whose number in the names of folders is up to that of tDel.        *)
LEMMA ToDeleteIsOld ==
  ASSUME IInv, rpc = "walk", NEW d \in ToDelete
  PROVE  d \in 0 .. Day(MaxHours) /\ d \in days /\ d + nTerm <= Day(now)
  <1>1. d \in Nat /\ d \in 0 .. Day(MaxHours) /\ d \in days
    BY DEF ToDelete, IInv, LogTypeOK
  <1>2. tDel \in Nat /\ LogTime(d) <= LogTime(tDel)
    BY DEF ToDelete, IInv, LogTypeOK
  <1>3. d <= tDel
    BY <1>1, <1>2, LogTimeGrows
  <1>4. tDel + nTerm <= Day(now) /\ nTerm \in Nat /\ Day(now) \in Nat
    BY Bounds DEF IInv, PassIsOld, LogTypeOK
  <1> QED BY <1>1, <1>2, <1>3, <1>4

LEMMA DeleteFilesIInv == IInv /\ DeleteFiles => IInv'
  <1> SUFFICES ASSUME IInv, DeleteFiles PROVE IInv'
    OBVIOUS
  <1> USE DEF folder, log, remover, removed
  <1>1. PICK d \in ToDelete :
          /\ rpc' = "in" /\ nDay' = d /\ seen' = seen \cup {d}
          /\ files' = {f \in files : f[1] # d \/ f = file}
    BY DEF DeleteFiles
  <1>2. rpc = "walk" /\ late' = {}
        /\ UNCHANGED <<listed, now, days, months, log, m_Thread, nTerm, tDel, due,
                       silence, quiet, removed>>
    BY DEF DeleteFiles, IInv
  <1>3. d \in 0 .. Day(MaxHours) /\ d \in days /\ d + nTerm <= Day(now)
    BY <1>2, ToDeleteIsOld
  <1>4. LogTypeOK'
    <2>1. file' \in files' \cup {NoFile}
      BY <1>1, <1>2 DEF IInv, LogTypeOK
    <2>2. files' \subseteq days' \X (0 .. HoursPerDay - 1)
      BY <1>1, <1>2 DEF IInv, LogTypeOK
    <2>3. nDay' \in (IF rpc' \in {"in", "out"} THEN 0 .. Day(MaxHours) ELSE {-1})
      BY <1>1, <1>3
    <2>4. {days', seen'} \subseteq SUBSET (0 .. Day(MaxHours))
      BY <1>1, <1>2, <1>3 DEF IInv, LogTypeOK
    <2>5. {Month(e) : e \in days'} \subseteq months'
      BY <1>2 DEF IInv, LogTypeOK
    <2> QED BY <1>1, <1>2, <2>1, <2>2, <2>3, <2>4, <2>5 DEF IInv, LogTypeOK
  <1>5. PassIsOld'
    BY <1>1, <1>2, <1>3 DEF IInv, PassIsOld
  <1>6. FileIsRecent' /\ PathIsRecent'
    BY <1>2 DEF IInv, FileIsRecent, PathIsRecent, Number
  <1>7. FolderKept'
    BY <1>1, <1>2, <1>3 DEF IInv, FolderKept, TermIsOver
  <1> QED BY <1>2, <1>4, <1>5, <1>6, <1>7 DEF IInv

(* The folder a pass is in is past the term LogRemover runs with.           *)
LEMMA LastIsOver ==
  ASSUME IInv, rpc \in {"in", "out"}
  PROVE  /\ nDay \in Nat /\ latest \in Int /\ nDay <= latest
         /\ nDay = latest => TermIsOver
  <1>1. nDay \in Nat /\ latest \in Int /\ nDay <= latest
    BY DEF IInv, LogTypeOK, FolderKept
  <1>2. nTerm \in terms /\ nDay + nTerm <= Day(now)
    BY DEF IInv, PassIsOld
  <1> QED BY <1>1, <1>2 DEF TermIsOver

LEMMA RemoveDayIInv == IInv /\ RemoveDay => IInv'
  <1> SUFFICES ASSUME IInv, RemoveDay PROVE IInv'
    OBVIOUS
  <1> USE DEF RemoveDay, folder, log, remover, removed
  <1>1. days' \subseteq days /\ days \ days' \subseteq {nDay}
    OBVIOUS
  <1>2. files' \subseteq days' \X (0 .. HoursPerDay - 1)
    BY DEF IInv, LogTypeOK
  <1>3. LogTypeOK'
    BY <1>1, <1>2 DEF IInv, LogTypeOK
  <1>4. nDay \in Nat /\ latest \in Int /\ nDay <= latest /\ (nDay = latest => TermIsOver)
    BY LastIsOver
  <1>5. TermIsOver' <=> TermIsOver
    BY DEF TermIsOver
  <1>6. latest' >= 0 => latest' \in days' \/ TermIsOver'
    BY <1>1, <1>4, <1>5 DEF IInv, FolderKept
  <1>7. lpc' = "fopen" => path'[1] \in days' \/ TermIsOver'
    <2> SUFFICES ASSUME lpc = "fopen", path[1] \notin days', ~TermIsOver PROVE FALSE
      BY <1>5
    <2>1. path[1] = nDay /\ latest <= path[1]
      BY <1>1 DEF IInv, FolderKept
    <2> QED BY <1>4, <2>1
  <1>8. FolderKept'
    BY <1>1, <1>5, <1>6, <1>7 DEF IInv, FolderKept
  <1> QED BY <1>3, <1>8 DEF IInv, FileIsRecent, PathIsRecent, PassIsOld, Number

LEMMA RemoveMonthIInv == IInv /\ RemoveMonth => IInv'
  <1> SUFFICES ASSUME IInv, RemoveMonth PROVE IInv'
    OBVIOUS
  <1> USE DEF RemoveMonth, folder, log, remover, removed
  <1>1. {Month(d) : d \in days'} \subseteq months' /\ months' \subseteq months
    BY DEF IInv, LogTypeOK
  <1>2. LogTypeOK'
    BY <1>1 DEF IInv, LogTypeOK
  <1>3. TermIsOver' <=> TermIsOver
    BY DEF TermIsOver
  <1>4. nDay \in Nat /\ latest \in Int /\ nDay <= latest
    BY LastIsOver
  <1>5. lpc' = "mkdir" => Month(path'[1]) \in months' \/ TermIsOver'
    <2> SUFFICES ASSUME lpc = "mkdir", Month(path[1]) \in months \ months'
                 PROVE  TermIsOver
      BY <1>3 DEF IInv, FolderKept
    <2>1. Month(path[1]) = Month(nDay) /\ ~ \E d \in days : Month(d) = Month(nDay)
      OBVIOUS
    <2>2. latest <= path[1] /\ path[1] \in Nat
      BY DEF IInv, FolderKept, PathIsRecent, Hours
    <2>3. Month(latest) = Month(nDay)
      <3>1. Month(nDay) <= Month(latest) /\ Month(latest) <= Month(path[1])
            /\ Month(nDay) \in Nat /\ Month(latest) \in Nat
        BY <1>4, <2>2, MonthGrows
      <3> QED BY <2>1, <3>1
    <2>4. latest \notin days
      BY <2>1, <2>3
    <2> QED BY <1>4, <2>4 DEF IInv, FolderKept
  <1>6. FolderKept'
    BY <1>3, <1>5 DEF IInv, FolderKept
  <1> QED BY <1>2, <1>6 DEF IInv, FileIsRecent, PathIsRecent, PassIsOld, Number

LEMMA PassEndIInv == IInv /\ PassEnd => IInv'
  <1> SUFFICES ASSUME IInv, PassEnd PROVE IInv'
    OBVIOUS
  <1> USE DEF IInv, PassEnd, folder, log, remover, removed
  <1>1. due' \in BOOLEAN
    OBVIOUS
  <1>2. rpc' = "sleep" /\ tDel' \in Int
    OBVIOUS
  <1>3. {days', seen'} \subseteq SUBSET (0 .. Day(MaxHours))
    BY DEF LogTypeOK
  <1>4. nDay' \in (IF rpc' \in {"in", "out"} THEN 0 .. Day(MaxHours) ELSE {-1})
    BY DEF LogTypeOK
  <1>5. LogTypeOK'
    BY <1>1, <1>2, <1>3, <1>4 DEF LogTypeOK
  <1>6. FolderKept'
    BY DEF FolderKept, TermIsOver
  <1> QED BY <1>2, <1>5, <1>6 DEF FileIsRecent, PathIsRecent, PassIsOld, Number

LEMMA NextIInv == IInv /\ [LogNext]_logVars => IInv'
  <1>1. ASSUME IInv, UNCHANGED logVars PROVE IInv'
    BY <1>1 DEF logVars, folder, log, remover, removed, IInv, LogTypeOK, FileIsRecent,
                PathIsRecent, PassIsOld, FolderKept, TermIsOver, Number
  <1> QED
    BY <1>1, TickIInv, WriteLogIInv, MakePathIInv, MakeDayIInv, FOpenIInv,
       RestartedIInv, DialogIInv, PassBeginIInv, DeleteFilesIInv, RemoveDayIInv,
       RemoveMonthIInv, PassEndIInv
    DEF LogNext, Logging, FuncThread

LEMMA Inductive == LogSpec => []IInv
  BY InitIInv, NextIInv, PTL DEF LogSpec

(* Files are in folders that exist, the one that is open among them.        *)
THEOREM LogTypeCorrect == LogSpec => []LogTypeOK
  BY Inductive, PTL DEF IInv

-----------------------------------------------------------------------------
LEMMA StepKeepsLines ==
  ASSUME IInv, LogNext
  PROVE  /\ \A f \in files \ files' :
              f[1] + nTerm <= Day(now) /\ f \notin late
         /\ lpc = "fopen" /\ path[1] \notin days =>
              \E t \in terms : latest + t <= Day(now)
  <1> USE DEF folder, log, remover
  <1>1. lpc = "fopen" /\ path[1] \notin days => \E t \in terms : latest + t <= Day(now)
    BY DEF IInv, FolderKept, TermIsOver
  <1>2. CASE DeleteFiles
    <2>1. PICK d \in ToDelete : files' = {f \in files : f[1] # d \/ f = file}
      BY <1>2 DEF DeleteFiles
    <2>2. d + nTerm <= Day(now)
      BY <1>2, ToDeleteIsOld DEF DeleteFiles
    <2>3. \A f \in files \ files' : f[1] = d
      BY <2>1
    <2>4. late = {}
      BY <1>2 DEF IInv
    <2> QED BY <1>1, <2>2, <2>3, <2>4
  <1>3. CASE Tick \/ Start \/ Stop \/ Joined \/ PassBegin \/ PassEnd \/ WriteLog
             \/ Restarted \/ RemoveDay \/ RemoveMonth \/ MakePath \/ MakeDay \/ FOpen
    <2>1. files \subseteq files'
      BY <1>3 DEF Tick, Start, Stop, Joined, PassBegin, PassEnd, WriteLog, Restarted,
                  RemoveDay, RemoveMonth, MakePath, MakeDay, FOpen
    <2> QED BY <1>1, <2>1
  <1> QED BY <1>2, <1>3 DEF LogNext, Logging, FuncThread

(* Whatever the term and whenever it is set, lines that are not nTerm days  *)
(* old are never deleted, and none is lost for a folder of the day or month *)
(* that goes just when its file is to be opened, unless a term LogRemover   *)
(* has run with is over since the last day the process had a folder of.     *)
THEOREM KeepsLines == LogSpec => LinesKept
  <1>1. IInv /\ [LogNext]_logVars =>
          [/\ \A f \in files \ files' :
                f[1] + nTerm <= Day(now) /\ f \notin late
           /\ lpc = "fopen" /\ path[1] \notin days =>
                \E t \in terms : latest + t <= Day(now)]_logVars
    BY StepKeepsLines
  <1> QED BY <1>1, Inductive, PTL DEF LogSpec, LinesKept

=============================================================================
