----------------------------- MODULE ClientConn -----------------------------
(***************************************************************************)
(* The connection of a client to its server: SISender to KOCOM, GFSClient  *)
(* to GFSServer (Client.cpp, ClientMan.cpp, ClientInterface.cpp, nearly    *)
(* the same in both programs, and the timer 99 of the dialogs).            *)
(*                                                                         *)
(* Who sends holds mConnectionCheck; while ClientMan walks m_listClient it *)
(* holds m_CSForClients too.  Completions run on pool threads, look the    *)
(* client up under m_CSForClients and go on without it.  There is one      *)
(* client at a time and the object pool gives every new one the memory of  *)
(* the one before, so that a Client pointer left over is one to the new    *)
(* client.  m_nConn numbers the connections; the program has no such       *)
(* number, and only sockets and history use it.                            *)
(*                                                                         *)
(* Time passes in periods of timer 99.                                     *)
(***************************************************************************)
EXTENDS Integers, Sequences, FiniteSets

CONSTANTS
  SITypes,    \* the clients: of "KOCOM", "GFS"
  MaxConns,   \* bound: connections, of a client of each kind
  MaxFaults,  \* bound: calls that fail, connections refused, closed or reset
  MaxAlarms,  \* bound: alarms of SISender, events of the GFS server
  MaxSends,   \* bound: sends outstanding
  MaxInbox    \* bound: answers on their way

ASSUME ConstantsAssumption ==
  /\ SITypes \subseteq {"KOCOM", "GFS"} /\ SITypes # {}
  /\ {MaxSends, MaxInbox} \subseteq Nat \ {0}
  /\ MaxConns \in [SITypes -> Nat \ {0}]
  /\ {MaxFaults, MaxAlarms} \subseteq Nat

VARIABLES
  m_nSIType,
  proc,        \* "up", "quitting" (WM_QUIT is posted), "quit", "fault"
  \* ClientMan and its Client
  m_listClient,  \* the client is in the list
  m_State,
  m_Socket,      \* m_Socket and m_pTPIO are valid
  m_nConn,
  \* the network and the server
  net,         \* the connection: "none", "connecting", "open", "fin", "reset"
  inbox,       \* answers the server has sent and no receive has taken
  bound,       \* the server has been sent a bind (or a login)
  \* threads
  work,        \* I/O outstanding or completed, and removals, of all connections
  sender,      \* the thread in Send: what it sends, and where it is
  dlg,         \* timer 99: "idle", "send", "check"
  since,       \* timers since m_dwLastRecv
  faults, alarms,
  \* history, read by no action of the program:
  mixed,       \* what an earlier connection left was done on this one
  unheard,     \* OnConnect of this connection posted no receive
  alive,       \* this timer's keep-alive: "never" was one, "dropped", "sent", "answered"
  before       \* that of the timer before

client  == <<m_listClient, m_State, m_Socket, m_nConn>>
network == <<net, inbox, bound>>
timing  == <<dlg, since>>
bounds  == <<faults, alarms>>
history == <<mixed, unheard, alive, before>>
vars == <<m_nSIType, proc, client, network, work, sender, timing, bounds, history>>

Idle == [msg |-> "none", at |-> "idle"]

Init ==
  /\ m_nSIType \in SITypes
  /\ proc = "up"
  /\ m_listClient = FALSE /\ m_State = "CLOSED" /\ m_Socket = FALSE /\ m_nConn = 0
  /\ net = "none" /\ inbox = <<>> /\ bound = FALSE
  /\ work = {} /\ sender = [msg |-> "connect", at |-> "try"]
  /\ dlg = "idle" /\ since = 0
  /\ faults = 0 /\ alarms = 0
  /\ mixed = FALSE /\ unheard = FALSE /\ alive = "never" /\ before = "never"

Fault == faults < MaxFaults /\ faults' = faults + 1

(* An overlapped operation of this connection or a removal, told from those *)
(* of its kind by n.                                                        *)
Item(type, at, res) ==
  [conn |-> m_nConn, type |-> type, at |-> at, res |-> res,
   n |-> CHOOSE n \in 1 .. Cardinality(work) + 1 :
           /\ \A w \in work : <<w.conn, w.type>> = <<m_nConn, type>> => w.n # n
           /\ \A k \in 1 .. n - 1 : \E w \in work : <<w.conn, w.type, w.n>> = <<m_nConn, type, k>>]

(* m_CSForClients is not held by a sender.                                  *)
ClientsFree == sender.at # "post"

(* The socket an operation was started on is closed.                        *)
Closed(w) == w.conn # m_nConn \/ ~m_Socket

(* Client::Destroy.                                                         *)
Destroy == m_State' = "CLOSED" /\ m_Socket' = FALSE

Misses(w) == mixed' = (mixed \/ w.conn # m_nConn)

-----------------------------------------------------------------------------
(* Connecting and sending, under mConnectionCheck                           *)

(* AddClients and ConnectClients: Create may fail, and PostConnect too,     *)
(* whose result nobody looks at.  W is the work there is besides.           *)
Connect(W) ==
  \/ /\ Fault
     /\ work' = W
     /\ UNCHANGED <<client, network, history>>
  \/ /\ m_nConn < MaxConns[m_nSIType]
     /\ m_nConn' = m_nConn + 1 /\ m_listClient' = TRUE
     /\ m_State' = "CREATED" /\ m_Socket' = TRUE
     /\ inbox' = <<>> /\ bound' = FALSE
     /\ mixed' = FALSE /\ unheard' = FALSE /\ UNCHANGED <<alive, before>>
     /\ \/ /\ net' = "connecting" /\ UNCHANGED faults
           /\ work' = W \cup {[conn |-> m_nConn', type |-> "CONNECT", n |-> 1,
                               at |-> "pending", res |-> "ok"]}
        \/ /\ net' = "none" /\ Fault
           /\ work' = W

TryConnection ==
  /\ proc = "up" /\ sender.at = "try"
  /\ Connect(work)
  /\ sender' = Idle
  /\ UNCHANGED <<m_nSIType, proc, timing, alarms>>

(* Send: with no client in the list it connects, and the message is gone.   *)
Enter(msg, W) ==
  /\ sender = Idle
  /\ IF m_listClient
       THEN /\ sender' = [msg |-> msg, at |-> "num"]
            /\ work' = W
            /\ UNCHANGED <<client, network, history, faults>>
       ELSE Connect(W) /\ UNCHANGED sender

(* The thread leaves Send; the dialog goes on with its timer.               *)
Leave ==
  /\ sender' = Idle
  /\ dlg' = IF sender.msg = "alive" THEN "check" ELSE dlg

(* ClientMan::Send, and the state PostSend finds.                           *)
Look ==
  /\ proc = "up" /\ sender.at = "num"
  /\ IF m_listClient /\ m_State = "CONNECTED"
       THEN sender' = [sender EXCEPT !.at = "post"] /\ UNCHANGED dlg
       ELSE Leave
  /\ UNCHANGED <<m_nSIType, proc, client, network, work, since, bounds, history>>

(* The rest of PostSend.  All sends share m_sendBuffer: what is still       *)
(* outstanding may go out as the new message.  Of a destroyed client        *)
(* m_pTPIO is NULL, and it faults; but Destroy may be just between closing  *)
(* the socket and that, and WSASend fails.                                  *)
PostSend ==
  /\ proc = "up" /\ sender.at = "post"
  /\ IF ~m_Socket
       THEN /\ \/ proc' = "fault" /\ UNCHANGED <<sender, dlg>>
               \/ Leave /\ UNCHANGED proc
            /\ UNCHANGED <<client, work, alive>>
       ELSE /\ Leave
            /\ UNCHANGED proc
            /\ IF net \in {"open", "fin"}
                 THEN \E over \in BOOLEAN :
                        /\ work' = {IF over /\ w.type = "SEND" /\ w.at = "pending" /\ ~Closed(w)
                                      THEN [w EXCEPT !.res = sender.msg] ELSE w : w \in work}
                                   \cup {Item("SEND", "pending", sender.msg)}
                        /\ alive' = IF sender.msg = "alive" THEN "sent" ELSE alive
                        /\ UNCHANGED client
                 ELSE /\ Destroy
                      /\ UNCHANGED <<m_listClient, m_nConn, work, alive>>
  /\ UNCHANGED <<m_nSIType, network, since, bounds, mixed, unheard, before>>

(* An alarm of the event thread.                                            *)
SendAlarm ==
  /\ proc = "up" /\ m_nSIType # "GFS"
  /\ alarms < MaxAlarms /\ alarms' = alarms + 1
  /\ Cardinality({w \in work : w.type = "SEND"}) < MaxSends
  /\ Enter("alarm", work)
  /\ UNCHANGED <<m_nSIType, proc, timing>>

-----------------------------------------------------------------------------
(* IoCompletionCallback                                                     *)

(* IsAlive: the address is that of the client in the list.                  *)
IsAlive == m_listClient

(* The removal PostRemoveClient submits for w.                              *)
Removal(w) == [w EXCEPT !.type = "REMOVE", !.at = "queued", !.res = w.type]

(* Mutant: the test of the number of bytes is the wrong way round.          *)
CallbackOnAnyData(w, res) ==
  work' = (work \ {w}) \cup
    CASE ~IsAlive -> {}
      [] IsAlive /\ res = "error" -> {Removal(w)}
      [] IsAlive /\ res = "ok" /\ w.type = "SEND" -> {}
      [] OTHER -> {[w EXCEPT !.at = "handle", !.res = IF w.type = "RECV" THEN "close" ELSE res]}

(* What a completed w becomes: nothing without a client or as OnSend does   *)
(* nothing, a removal when it failed, else its handler's call.  That some   *)
(* time may pass between the completion and the callback adds nothing to    *)
(* the time before the completion and that before the handler.              *)
Callback(w, res) ==
  work' = (work \ {w}) \cup
    CASE ~IsAlive -> {}
      [] IsAlive /\ res = "error" -> {Removal(w)}
      [] IsAlive /\ res = "ok" /\ w.type = "SEND" -> {}
      [] OTHER -> {[w EXCEPT !.at = "handle", !.res = res]}

(* What PostReceive leaves of w, and what it starts.  Without m_pTPIO it    *)
(* faults, or WSARecv fails as in PostSend, and else the process is next.   *)
Receive(w, next) ==
  IF ~m_Socket
    THEN /\ \/ proc' = "fault" /\ UNCHANGED work
            \/ proc' = next /\ work' = work \ {w}
         /\ UNCHANGED <<client, inbox>>
    ELSE /\ proc' = next
         /\ UNCHANGED <<m_listClient, m_nConn>>
         /\ IF net \in {"connecting", "none", "reset"}
              THEN /\ Destroy
                   /\ work' = work \ {w} /\ UNCHANGED inbox
              ELSE /\ UNCHANGED m_Socket
                   /\ IF inbox # <<>> \/ net = "fin"
                        THEN /\ work' = (work \ {w}) \cup
                                  {Item("RECV", "handle", IF inbox = <<>> THEN "close" ELSE Head(inbox))}
                             /\ m_State' = IF m_State = "CREATED" THEN "CONNECTED" ELSE m_State
                             /\ inbox' = <<>>
                        ELSE /\ work' = (work \ {w}) \cup {Item("RECV", "pending", "ok")}
                                  \cup (IF m_State = "CREATED" THEN {[w EXCEPT !.at = "first"]} ELSE {})
                             /\ UNCHANGED <<m_State, inbox>>

(* setsockopt fails, always where the socket is not connected or closed:    *)
(* that is logged, and nothing else.                                        *)
NoReceive(w) ==
  /\ IF m_Socket /\ net \in {"open", "fin"} THEN Fault ELSE UNCHANGED faults
  /\ work' = work \ {w}
  /\ unheard' = (unheard \/ (m_Socket /\ w.conn = m_nConn))
  /\ UNCHANGED <<proc, client, inbox>>

(* Between setsockopt and PostReceive the client may be another one.        *)
OnConnect(w) ==
  /\ proc = "up" /\ w.type = "CONNECT" /\ w.at = "handle" /\ w.res = "ok"
  /\ \/ Receive(w, proc) /\ UNCHANGED <<faults, unheard>>
     \/ NoReceive(w)
  /\ Misses(w)
  /\ UNCHANGED <<m_nSIType, net, bound, sender, timing, alarms, alive, before>>

(* What the handlers of packets tell apart; of several in one receive they  *)
(* look at the first.                                                       *)
Answers == {"aliveAck", "alarmAck", "bindAck", "errorAck", "event"}

(* What sets m_dwLastRecv.                                                  *)
Hears(msg) == msg = "aliveAck"

Answered(sent) == IF sent = "sent" THEN "answered" ELSE sent

(* Mutant: no receive follows the first.                                    *)
OnRecvOnce(w) ==
  /\ proc = "up" /\ w.type = "RECV" /\ w.at = "handle" /\ w.res \in Answers
  /\ since' = 0 /\ alive' = Answered(alive) /\ before' = Answered(before)
  /\ work' = work \ {w} /\ Misses(w)
  /\ UNCHANGED <<m_nSIType, proc, client, network, sender, dlg, bounds, unheard>>

(* The packet, of which an error of KOCOM ends the process, and the next    *)
(* receive.                                                                 *)
OnRecv(w) ==
  /\ proc = "up" /\ w.type = "RECV" /\ w.at = "handle" /\ w.res \in Answers
  /\ IF Hears(w.res)
       THEN since' = 0 /\ alive' = Answered(alive) /\ before' = Answered(before)
       ELSE UNCHANGED <<since, alive, before>>
  /\ Receive(w, IF w.res = "errorAck" THEN "quitting" ELSE proc) /\ Misses(w)
  /\ UNCHANGED <<m_nSIType, net, bound, sender, dlg, bounds, unheard>>

(* Once WSARecv is out, the state, and the bind or login.                   *)
FirstReceive(w) ==
  /\ proc = "up" /\ w.at = "first"
  /\ m_State' = "CONNECTED"
  /\ work' = (work \ {w}) \cup {[w EXCEPT !.at = "bind"]}
  /\ Misses(w)
  /\ UNCHANGED <<m_nSIType, proc, m_listClient, m_Socket, m_nConn, network, sender,
                 timing, bounds, unheard, alive, before>>

Bind(w) ==
  /\ proc = "up" /\ w.at = "bind"
  /\ Enter("bind", work \ {w})
  /\ UNCHANGED <<m_nSIType, proc, timing, alarms>>

(* The server has closed: OnClose, and the client is to be removed.         *)
OnClose(w) ==
  /\ proc = "up" /\ w.at = "handle" /\ w.res = "close"
  /\ Destroy
  /\ work' = (work \ {w}) \cup {Removal(w)}
  /\ Misses(w)
  /\ UNCHANGED <<m_nSIType, proc, m_listClient, m_nConn, network, sender, timing, bounds,
                 unheard, alive, before>>

(* WorkerRemoveClient.                                                      *)
RemoveClient(w) ==
  /\ proc = "up" /\ ClientsFree
  /\ w.type = "REMOVE"
  /\ work' = work \ {w}
  /\ IF m_listClient
       THEN /\ m_listClient' = FALSE
            /\ Destroy /\ Misses(w)
       ELSE UNCHANGED <<m_listClient, m_State, m_Socket, mixed>>
  /\ UNCHANGED <<m_nSIType, proc, m_nConn, network, sender, timing, bounds,
                 unheard, alive, before>>

-----------------------------------------------------------------------------
(* The dialog                                                               *)

(* Mutant: the line that sets m_dwLastRecv with every keep-alive is back.   *)
TimerFiresAsHeard ==
  /\ proc = "up" /\ dlg = "idle"
  /\ since' = 0
  /\ Cardinality({w \in work : w.type = "SEND"}) < MaxSends
  /\ Enter("alive", work)
  /\ dlg' = IF m_listClient THEN "send" ELSE "check"
  /\ UNCHANGED <<m_nSIType, proc, alarms>>

(* A period passes, and a keep-alive is sent: always to KOCOM, to GFS when  *)
(* nothing has come for 5 s, the period itself.  What has come has come     *)
(* between two timers, so that since counts one more than whole periods.    *)
TimerFires ==
  /\ proc = "up" /\ dlg = "idle"
  /\ since' = since + 1
  /\ \/ /\ Cardinality({w \in work : w.type = "SEND"}) < MaxSends
        /\ Enter("alive", work)
        /\ dlg' = IF m_listClient THEN "send" ELSE "check"
     \/ /\ m_nSIType = "GFS" /\ since' = 1
        /\ dlg' = "check"
        /\ UNCHANGED <<client, network, work, sender, faults, history>>
  /\ UNCHANGED <<m_nSIType, proc, alarms>>

(* Mutants: the limit is the period, and the limit is three periods.        *)
MayBeLateAfterOne == since >= 1
IsLateAfterFour == since >= 4

(* Longer than 60 s for KOCOM, whose period is 50 s, and than two periods   *)
(* of 5 s for GFS: with since 2 that depends on when the last one came.     *)
MayBeLate == since >= 2
IsLate    == since >= 3

CheckLate ==
  /\ proc = "up" /\ dlg = "check"
  /\ \/ MayBeLate /\ proc' = "quitting"
     \/ ~IsLate /\ UNCHANGED proc
  /\ dlg' = "idle"
  /\ before' = alive /\ alive' = IF alive = "never" THEN "never" ELSE "dropped"
  /\ UNCHANGED <<m_nSIType, client, network, work, sender, since, bounds, mixed, unheard>>

(* OnDestroy: TryShutdown removes the client, and the process is gone.      *)
TryShutdown ==
  /\ proc = "quitting" /\ sender = Idle
  /\ proc' = "quit"
  /\ m_listClient' = FALSE /\ Destroy
  /\ UNCHANGED <<m_nSIType, m_nConn, network, work, sender, timing, bounds, history>>

-----------------------------------------------------------------------------
(* Windows, the network and the server                                      *)

(* An operation on a closed socket ends with an error, or is cancelled with *)
(* the I/O object of the thread pool.                                       *)
Aborted(w) ==
  /\ w.at = "pending" /\ Closed(w)
  /\ Callback(w, "error") \/ work' = work \ {w}
  /\ UNCHANGED <<network, bounds>>

Accepted(w) ==
  /\ w.at = "pending" /\ ~Closed(w) /\ w.type = "CONNECT"
  /\ \/ net' = "open" /\ Callback(w, "ok") /\ UNCHANGED faults
     \/ net' = "reset" /\ Callback(w, "error") /\ Fault
  /\ UNCHANGED <<inbox, bound, alarms>>

(* One receive takes the oldest answer or, when they come together, all; of *)
(* them OnRecv looks at the first.                                          *)
Received(w) ==
  /\ w.at = "pending" /\ ~Closed(w) /\ w.type = "RECV"
  /\ \/ inbox # <<>> /\ Callback(w, Head(inbox)) /\ inbox' \in {<<>>, Tail(inbox)}
     \/ inbox = <<>> /\ net = "fin" /\ Callback(w, "close") /\ UNCHANGED inbox
     \/ inbox = <<>> /\ net = "reset" /\ Callback(w, "error") /\ UNCHANGED inbox
  /\ UNCHANGED <<net, bound, bounds>>

(* What the server may answer: KOCOM answers what comes before the bind     *)
(* with an error.                                                           *)
Answer(msg) ==
  CASE msg = "bind"  -> "bindAck"
    [] m_nSIType = "KOCOM" /\ ~bound -> "errorAck"
    [] msg = "alive" -> "aliveAck"
    [] msg = "alarm" -> "alarmAck"

Sent(w) ==
  /\ w.at = "pending" /\ ~Closed(w) /\ w.type = "SEND"
  /\ IF net = "reset"
       THEN Callback(w, "error") /\ UNCHANGED <<inbox, bound>>
       ELSE /\ Callback(w, "ok")
            /\ bound' = (bound \/ w.res = "bind")
            /\ \/ UNCHANGED inbox
               \/ /\ net = "open" /\ Len(inbox) < MaxInbox
                  /\ inbox' = Append(inbox, Answer(w.res))
  /\ UNCHANGED <<net, bounds>>

(* The GFS server sends an event, a server closes the connection, or it breaks.          *)
ServerSpeaks ==
  /\ net = "open" /\ m_nSIType = "GFS" /\ Len(inbox) < MaxInbox
  /\ alarms < MaxAlarms /\ alarms' = alarms + 1
  /\ inbox' = Append(inbox, "event")
  /\ UNCHANGED <<net, bound, work, faults>>

ConnectionLost ==
  /\ net \in {"open", "fin"} /\ Fault
  /\ net' \in {"fin", "reset"} \ {net}
  /\ inbox' = IF net' = "reset" THEN <<>> ELSE inbox
  /\ UNCHANGED <<bound, work, alarms>>

Network ==
  /\ proc = "up"
  /\ \/ \E w \in work : Aborted(w) \/ Accepted(w) \/ Received(w) \/ Sent(w)
     \/ ServerSpeaks \/ ConnectionLost
  /\ UNCHANGED <<m_nSIType, proc, client, sender, timing, history>>

-----------------------------------------------------------------------------
Sending  == TryConnection \/ Look \/ PostSend
Pool(w)  ==
  \/ OnConnect(w) \/ OnRecv(w) \/ FirstReceive(w) \/ Bind(w)
  \/ OnClose(w) \/ RemoveClient(w)
Dialog   == TimerFires \/ CheckLate \/ TryShutdown

Next ==
  \/ Sending \/ SendAlarm \/ Dialog \/ Network
  \/ \E w \in work : Pool(w)

Spec == Init /\ [][Next]_vars

(* As long as a thread can run or Windows has an operation to complete, one *)
(* of them does; any one may wait for long, and the server owes nothing.    *)
Ended == proc = "up" /\ (\E w \in work : Aborted(w) \/ Received(w) \/ Sent(w))
              /\ UNCHANGED <<m_nSIType, proc, client, sender, timing, history>>
Fairness == WF_vars(Sending \/ Dialog \/ Ended \/ \E w \in work : Pool(w))

FairSpec == Spec /\ Fairness

-----------------------------------------------------------------------------
Items == [conn : 1 .. MaxConns[m_nSIType], n : Nat \ {0}, type : {"CONNECT", "RECV", "SEND", "REMOVE"},
          at : {"pending", "queued", "handle", "first", "bind"},
          res : {"ok", "error", "close", "alive", "alarm", "bind", "CONNECT", "RECV", "SEND"}
                \cup Answers]

TypeOK ==
  /\ m_nSIType \in SITypes
  /\ proc \in {"up", "quitting", "quit", "fault"}
  /\ {m_listClient, m_Socket, bound, mixed, unheard} \subseteq BOOLEAN
  /\ m_State \in {"CREATED", "CONNECTED", "CLOSED"}
  /\ m_nConn \in 0 .. MaxConns[m_nSIType]
  /\ net \in {"none", "connecting", "open", "fin", "reset"}
  /\ inbox \in Seq(Answers) /\ Len(inbox) <= MaxInbox
  /\ work \subseteq Items
  /\ sender \in [msg : {"none", "connect", "alive", "alarm", "bind"},
                 at : {"idle", "try", "num", "post"}]
  /\ dlg \in {"idle", "send", "check"}
  /\ since \in 0 .. 3
  /\ faults \in 0 .. MaxFaults /\ alarms \in 0 .. MaxAlarms
  /\ {alive, before} \subseteq {"never", "dropped", "sent", "answered"}

(* CONNECTED, and not by a FirstReceive that came after the Destroy.        *)
Connected == m_listClient /\ m_State = "CONNECTED" /\ m_Socket

(* A client in the list with a socket is not alone: its ConnectEx or its     *)
(* WSARecv is out or in its handler, or a removal is on its way; otherwise  *)
(* it would never hear again and never learn that the connection is lost.   *)
(* Only where PostConnect failed, or setsockopt in OnConnect, nothing is    *)
(* out; and OnConnect of an earlier connection may call even such a client  *)
(* CONNECTED.                                                               *)
ListedIsServed ==
  proc = "up" /\ m_listClient /\ m_Socket /\ net # "none" /\ ~unheard =>
    \E w \in work :
      \/ w.type = "REMOVE"
      \/ /\ w.type \in {"CONNECT", "RECV"} /\ w.conn = m_nConn
         /\ w.at \in {"pending", "handle"}

(* A connection the network keeps is not destroyed under its handlers, and  *)
(* none of them meets a destroyed client, unless what an earlier connection *)
(* left behind took this client for its own.                                *)
KeptUntilLost ==
  [][proc = "up" /\ net = "open" /\ ~mixed' => (m_Socket => m_Socket') /\ proc' # "fault"]_vars

QuitsLate == dlg = "check" /\ dlg' = "idle" /\ proc' = "quitting"

(* The watchdog ends no process whose keep-alive of the timer before has    *)
(* been answered; and, as long as no call fails and no connection is lost,  *)
(* it ends SISender only if that keep-alive was sent, or none was yet.      *)
QuitsWhenUnanswered ==
  [][QuitsLate =>
       /\ before # "answered"
       /\ m_nSIType = "KOCOM" /\ faults = 0 => before # "dropped"]_vars

(* A client that is not connected is so again, or the process ends for the  *)
(* process manager to start it anew.                                        *)
ComesBack ==
  ~Connected ~>
    Connected \/ proc # "up"
    \/ (~m_listClient /\ m_nConn = MaxConns[m_nSIType])
=============================================================================
