----------------------------- MODULE GFSSession -----------------------------
(***************************************************************************)
(* A GFSClient and the server it shows the events of, over one TCP         *)
(* connection at a time: the login, the keep-alives both sides judge each  *)
(* other by, and the events (GFSClient/; Server.cpp and Server_Process.cpp *)
(* of GFSServer/).  A handler is one step; how the handlers of one process *)
(* interleave is in ClientConn and GFSServer.                              *)
(*                                                                         *)
(* Time passes in ticks.  A message takes at most Delay, a timer comes at  *)
(* most Slack after it is due, and a process does what it has to within    *)
(* the tick.  A connection keeps the order of messages; it may be cut,     *)
(* which both sides notice, or be dead, which neither does.                *)
(***************************************************************************)
EXTENDS Integers, Sequences

CONSTANTS
  Period,    \* TIMER_GFS_SERVER_KEEP_ALIVE_PERIOD, in ticks
  Delay,     \* the longest a message takes, and a connection to be made
  Slack,     \* the latest a timer comes after it is due
  MaxEvents, \* bound: events raised
  MaxFaults  \* bound: connections refused, cut or dead, and calls that fail

ASSUME TimesAssumption ==
  /\ {Period, Delay, Slack} \subseteq Nat
  /\ Slack + 2 * Delay < Period
ASSUME BoundsAssumption == {MaxEvents, MaxFaults} \subseteq Nat

VARIABLES
  \* GFSClient
  setup,     \* its Setup.ini: "right", "wrong" (ID or password) or "missing"
  proc,      \* "start", "up", "quitting" (WM_QUIT is posted), "ended", "fault"
  m_State,   \* of the client in m_listClient, "none" without one
  age,       \* ticks since m_dwLastRecv
  timer,     \* ticks to timer 99
  shown,     \* the events it has shown
  \* the connection
  link,      \* "none", "connecting", "open", "cut" or "dead"
  dialing,   \* ticks it has been connecting
  up, down,  \* the messages on their way to the server and to the client
  \* GFSServer
  session,   \* m_State of its Client in m_Clients, "none" without one
  silence,   \* ticks since its m_dwLastRecv, Never for 0
  check,     \* ticks to the timer of CheckKeepAliveGFSClients
  raised,    \* events there have been for GFS clients
  faults,
  \* history, read by no action of the program:
  unsent,    \* events raised while the client was not logged in
  behind,    \* events that came in one receive behind another message
  gone,      \* events on their way when the connection was lost
  unheard,   \* a keep-alive response was behind another message
  dropped    \* the server has closed an open connection

client == <<m_State, age, timer, shown>>
wires  == <<link, dialing, up, down>>
server == <<session, silence, check, raised>>
history == <<unsent, behind, gone, unheard, dropped>>
vars == <<setup, proc, client, wires, server, faults, history>>

Never == -1

Message(msg, n) == [msg |-> msg, n |-> n, age |-> 0]

Init ==
  /\ setup \in {"right", "wrong", "missing"}
  /\ proc = "start"
  /\ m_State = "none" /\ age = 0 /\ timer = Period /\ shown = <<>>
  /\ link = "none" /\ dialing = 0 /\ up = <<>> /\ down = <<>>
  /\ session = "none" /\ silence = Never /\ check \in 1 .. Period
  /\ raised = 0 /\ faults = 0
  /\ unsent = {} /\ behind = {} /\ gone = {}
  /\ unheard = FALSE /\ dropped = FALSE

Fault == faults < MaxFaults /\ faults' = faults + 1

Events(q) == {q[i].n : i \in {j \in DOMAIN q : q[j].msg = "event"}}

(* The connection is cut.  What is on its way to the client may still come. *)
Cut ==
  /\ link' = "cut"
  /\ up' = <<>>
  /\ \/ UNCHANGED <<down, gone>>
     \/ down' = <<>> /\ gone' = gone \cup Events(down)

-----------------------------------------------------------------------------
(* GFSClient                                                                *)

(* Create finds no socket, and no client is added.                          *)
CreateFails == m_State' = "none" /\ link' = "none" /\ Fault

(* Nobody looks at its result: it may be out, or have failed.               *)
PostConnect ==
  /\ m_State' = "CREATED"
  /\ \/ link' = "connecting" /\ UNCHANGED faults
     \/ link' = "none" /\ Fault

(* AddClients and ConnectClients.                                           *)
Connect ==
  /\ CreateFails \/ PostConnect
  /\ dialing' = 0 /\ up' = <<>> /\ down' = <<>>

(* Its four keys are in Setup.ini.                                          *)
ReadIniFile == setup # "missing"

OnInitDialog ==
  /\ proc = "start"
  /\ IF ReadIniFile
       THEN proc' = "up" /\ Connect
       ELSE proc' = "quitting" /\ UNCHANGED <<m_State, wires, faults>>
  /\ UNCHANGED <<setup, age, timer, shown, server, history>>

GFSProcessRequestLogin == up' = <<Message("login", 0)>>

(* The server accepts, and with the first receive out the client logs in.   *)
OnConnect ==
  /\ proc = "up" /\ link = "connecting"
  /\ link' = "open" /\ dialing' = 0
  /\ m_State' = "CONNECTED"
  /\ GFSProcessRequestLogin
  /\ session' = "ACCEPTED" /\ silence' = Never
  /\ UNCHANGED <<setup, proc, age, timer, shown, down, check, raised, faults,
                 history>>

RemoveClient == m_State' = "none" /\ link' = "none"

(* The connection is refused: an error, and the client is removed.          *)
Refused ==
  /\ proc = "up" /\ link = "connecting" /\ Fault
  /\ RemoveClient /\ dialing' = 0
  /\ UNCHANGED <<setup, proc, age, timer, shown, up, down, server, history>>

(* Mutant: whatever comes counts, as with the test server.                  *)
HeardAny(msg) == TRUE

(* What sets m_dwLastRecv.                                                  *)
Heard(msg) == msg = "keepAliveResponse"

(* Mutant: it is the last.                                                  *)
LooksAtLast(n) == down[n]

(* What of n messages in one receive is looked at.                          *)
LooksAt(n) == Head(down)

(* Its size is read where the upper half of the command is, so that it is 0 *)
(* and an error, alone of the messages, is looked for at NULL.              *)
GFSProcessError(msg) == msg = "error"

GFSProcessEvent(m) == IF m.msg = "event" THEN Append(shown, m.n) ELSE shown

(* The first n messages come in one receive.                                *)
OnRecv(n) ==
  LET first == LooksAt(n)
      rest  == SubSeq(down, 2, n)
  IN
  /\ proc = "up" /\ m_State = "CONNECTED" /\ link \in {"open", "cut"}
  /\ down' = SubSeq(down, n + 1, Len(down))
  /\ age' = IF Heard(first.msg) THEN 0 ELSE age
  /\ shown' = GFSProcessEvent(first)
  /\ proc' = IF GFSProcessError(first.msg) THEN "fault" ELSE proc
  /\ behind' = behind \cup Events(rest)
  /\ unheard' = (unheard \/ \E i \in DOMAIN rest : Heard(rest[i].msg))
  /\ UNCHANGED <<setup, m_State, timer, link, dialing, up, server, faults,
                 unsent, gone, dropped>>

(* The receive ends with no bytes or an error, and the client is removed.   *)
OnClose ==
  /\ proc = "up" /\ link = "cut" /\ down = <<>>
  /\ RemoveClient
  /\ UNCHANGED <<setup, proc, age, timer, shown, dialing, up, down, server,
                 faults, history>>

(* Client::Destroy: what is on its way is not received any more.            *)
Destroy ==
  /\ m_State' = "CLOSED"
  /\ down' = <<>> /\ gone' = gone \cup Events(down)

(* Nothing without a connection; on one that is cut it may fail at once.    *)
PostSend(msg) ==
  /\ up' = IF m_State = "CONNECTED" /\ link = "open"
             THEN Append(up, Message(msg, 0)) ELSE up
  /\ \/ UNCHANGED <<m_State, down, gone>>
     \/ m_State = "CONNECTED" /\ link = "cut" /\ Destroy
  /\ UNCHANGED <<link, dialing, faults>>

(* With no client in the list it connects, and the message is gone.         *)
Send(msg) ==
  \/ m_State = "none" /\ Connect /\ UNCHANGED gone
  \/ m_State # "none" /\ PostSend(msg)

GFSProcessRequestKeepAlive == Send("keepAlive")

(* Mutant: the response is late after one period.                           *)
LateAfterOne == age > Period

Asks   == age >= Period
IsLate == age > Period * 2

(* Timer 99.                                                                *)
OnTimer ==
  /\ proc = "up" /\ timer <= 0
  /\ timer' = timer + Period
  /\ IF Asks THEN GFSProcessRequestKeepAlive ELSE UNCHANGED <<m_State, wires, faults, gone>>
  /\ proc' = IF IsLate THEN "quitting" ELSE proc
  /\ UNCHANGED <<setup, age, shown, server, unsent, behind, unheard, dropped>>

(* The window goes, and with it the connection.                             *)
OnDestroy ==
  /\ proc = "quitting"
  /\ proc' = "ended"
  /\ RemoveClient
  /\ up' = <<>> /\ down' = <<>>
  /\ gone' = gone \cup Events(down)
  /\ session' = "none" /\ silence' = Never
  /\ UNCHANGED <<setup, age, timer, shown, dialing, check, raised, faults,
                 unsent, behind, unheard, dropped>>

-----------------------------------------------------------------------------
(* GFSServer                                                                *)

(* What WorkerProcessRecvPacket answers; a keep-alive is answered without a *)
(* login.                                                                   *)
Response(msg) ==
  CASE msg = "login" /\ setup = "right" -> "loginResponse"
    [] msg = "login" /\ setup # "right" -> "error"
    [] OTHER -> "keepAliveResponse"

(* Mutant: the response goes out without a change of state.                 *)
LogsInNever(msg) == FALSE

LogsIn(msg) == Response(msg) = "loginResponse"

(* A receive, which takes apart what comes together, and the answer.        *)
ServerRecv ==
  /\ proc = "up" /\ link = "open" /\ up # <<>>
  /\ up' = Tail(up)
  /\ silence' = 0
  /\ session' = IF LogsIn(Head(up).msg) THEN "LOGGED_IN" ELSE session
  /\ down' = Append(down, Message(Response(Head(up).msg), 0))
  /\ UNCHANGED <<setup, proc, client, link, dialing, check, raised, faults,
                 history>>

(* An event of those that are sent to GFS clients.                          *)
SendAll ==
  /\ proc = "up" /\ raised < MaxEvents
  /\ raised' = raised + 1
  /\ CASE session # "LOGGED_IN" ->
            unsent' = unsent \cup {raised'} /\ UNCHANGED <<down, gone>>
       [] session = "LOGGED_IN" /\ link = "open" ->
            down' = Append(down, Message("event", raised')) /\ UNCHANGED <<unsent, gone>>
       [] OTHER -> gone' = gone \cup {raised'} /\ UNCHANGED <<down, unsent>>
  /\ UNCHANGED <<setup, proc, client, link, dialing, up, session, silence,
                 check, faults, behind, unheard, dropped>>

Overdue == silence # Never /\ silence >= Period * 2

(* The server closes the connection of a client it has not heard of.        *)
CheckKeepAliveGFSClients ==
  /\ proc = "up" /\ check <= 0
  /\ check' = check + Period
  /\ IF session # "none" /\ Overdue
       THEN /\ session' = "none" /\ silence' = Never
            /\ IF link = "open"
                 THEN Cut /\ dropped' = TRUE
                 ELSE UNCHANGED <<link, up, down, gone, dropped>>
       ELSE UNCHANGED <<session, silence, link, up, down, gone, dropped>>
  /\ UNCHANGED <<setup, proc, client, dialing, raised, faults, unsent, behind,
                 unheard>>

-----------------------------------------------------------------------------
(* The network and time                                                     *)

(* Either side closes the connection, or it breaks: the server removes its  *)
(* client.                                                                  *)
ConnectionCut ==
  /\ proc = "up" /\ link = "open" /\ Fault
  /\ Cut
  /\ session' = "none" /\ silence' = Never
  /\ UNCHANGED <<setup, proc, client, dialing, check, raised, unsent, behind,
                 unheard, dropped>>

ConnectionDies ==
  /\ proc = "up" /\ link = "open" /\ Fault
  /\ link' = "dead"
  /\ up' = <<>> /\ down' = <<>> /\ gone' = gone \cup Events(down)
  /\ UNCHANGED <<setup, proc, client, dialing, server, unsent, behind, unheard,
                 dropped>>

Older(q) == [i \in DOMAIN q |-> [q[i] EXCEPT !.age = @ + 1]]

(* Nothing that has to be done by now is left.                              *)
InTime ==
  /\ \A i \in DOMAIN up : up[i].age < Delay
  /\ \A i \in DOMAIN down : down[i].age < Delay
  /\ link = "connecting" => dialing < Delay
  /\ timer > -Slack /\ check > -Slack

Tick ==
  /\ proc = "up" /\ InTime
  /\ age' = age + 1
  /\ timer' = timer - 1 /\ check' = check - 1
  /\ dialing' = IF link = "connecting" THEN dialing + 1 ELSE dialing
  /\ up' = Older(up) /\ down' = Older(down)
  /\ silence' = IF silence = Never THEN Never ELSE silence + 1
  /\ UNCHANGED <<setup, proc, m_State, shown, link, session, raised, faults,
                 history>>

-----------------------------------------------------------------------------
ClientStep ==
  \/ OnInitDialog \/ OnConnect \/ OnClose \/ OnTimer \/ OnDestroy
  \/ \E n \in 1 .. Len(down) : OnRecv(n)
ServerStep == ServerRecv \/ CheckKeepAliveGFSClients
Network == Refused \/ ConnectionCut \/ ConnectionDies

Next == ClientStep \/ ServerStep \/ SendAll \/ Network \/ Tick

Spec == Init /\ [][Next]_vars

(* Each process comes to what it has to do, and time passes; nothing need   *)
(* fail, and no event be raised.                                            *)
FairSpec == Spec /\ WF_vars(ClientStep) /\ WF_vars(ServerStep) /\ WF_vars(Tick)
-----------------------------------------------------------------------------
Requests  == {"login", "keepAlive"}
Responses == {"loginResponse", "error", "keepAliveResponse", "event"}

(* Types; no message is older than Delay and no timer later than Slack.     *)
TypeOK ==
  /\ setup \in {"right", "wrong", "missing"}
  /\ proc \in {"start", "up", "quitting", "ended", "fault"}
  /\ m_State \in {"none", "CREATED", "CONNECTED", "CLOSED"}
  /\ age \in Nat /\ timer \in -Slack .. Period
  /\ shown \in Seq(1 .. MaxEvents)
  /\ link \in {"none", "connecting", "open", "cut", "dead"}
  /\ dialing \in 0 .. Delay
  /\ up \in Seq([msg : Requests, n : {0}, age : 0 .. Delay])
  /\ down \in Seq([msg : Responses, n : 0 .. MaxEvents, age : 0 .. Delay])
  /\ session \in {"none", "ACCEPTED", "LOGGED_IN"}
  /\ silence \in Nat \cup {Never} /\ check \in -Slack .. Period
  /\ raised \in 0 .. MaxEvents /\ faults \in 0 .. MaxFaults
  /\ {unsent, behind, gone} \subseteq SUBSET (1 .. MaxEvents)
  /\ {unheard, dropped} \subseteq BOOLEAN

(* Every event raised while the client is logged in is shown, once and in   *)
(* the order of raising, unless it came in one receive behind another       *)
(* message or was on its way when the connection was lost.                  *)
EventsAccounted ==
  LET seen == {shown[i] : i \in DOMAIN shown}
  IN /\ \A i, j \in DOMAIN shown : i < j => shown[i] < shown[j]
     /\ \A e \in seen, d \in Events(down) : e < d
     /\ 1 .. raised = unsent \cup seen \cup Events(down) \cup behind \cup gone
     /\ (seen \cup Events(down)) \cap (unsent \cup behind \cup gone) = {}

(* A client with the right ID and password runs on, unless a call or the    *)
(* connection has failed, the server has dropped it, a response was behind  *)
(* another message, or its timer is late.                                   *)
EndsForCause ==
  [][proc = "up" /\ proc' # "up" =>
       setup = "wrong" \/ faults > 0 \/ dropped \/ unheard \/ timer < 0]_vars

(* While nothing fails, the server drops a client only when its keep-alive  *)
(* is due or on its way.                                                    *)
DroppedForCause ==
  [][dropped' /\ ~dropped /\ faults = 0 =>
       timer <= 0 \/ \E i \in DOMAIN up : up[i].msg = "keepAlive"]_vars

(* A client that is not logged in is so in the end, or ends.                *)
SessionRenewed ==
  proc = "up" /\ session # "LOGGED_IN" ~> proc # "up" \/ session = "LOGGED_IN"
=============================================================================
