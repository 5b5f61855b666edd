------------------------- MODULE GFSSession_proofs -------------------------
(* Why a GFSClient ends and why the server drops it, and that the events    *)
(* are accounted for, for every period, delay and lateness of timers with   *)
(* which a request is answered before the next timer.                       *)
EXTENDS GFSSession, TLAPS

-----------------------------------------------------------------------------
(* The parts of the inductive invariant                                     *)

(* Ticks since timer 99 last came, and the longest from when it was due to  *)
(* the answer to what it has sent.                                          *)
Elapsed == Period - timer
Turn    == Slack + 2 * Delay

Has(q, msg) == \E i \in DOMAIN q : q[i].msg = msg

(* An error answers a wrong login; events come in the order of raising.     *)
DownFits ==
  /\ setup = "right" => ~Has(down, "error")
  /\ \A i \in DOMAIN down : down[i].msg = "event" => down[i].n \in 1 .. raised
  /\ \A i, j \in DOMAIN down :
       i < j /\ down[i].msg = "event" /\ down[j].msg = "event" => down[i].n < down[j].n
  /\ \A i \in DOMAIN shown : shown[i] \in 1 .. raised

(* Nothing has failed so far.                                               *)
Sound == proc = "up" /\ faults = 0 /\ ~dropped

(* A connection is made before the first timer, and stays.                  *)
Linked ==
  \/ /\ link = "connecting" /\ m_State = "CREATED"
     /\ dialing = Elapsed /\ up = <<>> /\ down = <<>>
     /\ age = Elapsed /\ silence = Never
  \/ link = "open" /\ m_State = "CONNECTED"

(* A keep-alive on its way was sent at the last timer.                      *)
AskedLately ==
  \A i \in DOMAIN up : up[i].msg = "keepAlive" => Elapsed <= Slack + up[i].age

AnsweredLately ==
  \A i \in DOMAIN down : down[i].msg = "keepAliveResponse" =>
    Elapsed <= Slack + Delay + down[i].age /\ silence <= Elapsed

(* The client is heard at every second timer, and asks at the others.       *)
HeardLately ==
  \/ Has(up, "keepAlive")
  \/ silence <= Elapsed
  \/ silence <= Elapsed + Period /\ age >= Elapsed + Period - Turn

AgeFits ==
  /\ age >= Elapsed - Turn
  /\ \/ Has(up, "keepAlive") \/ Has(down, "keepAliveResponse") \/ unheard
     \/ age <= Elapsed + Period

Turns == Linked /\ AskedLately /\ AnsweredLately /\ HeardLately /\ AgeFits

InTurn == Sound => Turns

(* Before the dialog is up nothing has happened.                            *)
Fresh ==
  /\ proc = "start" => /\ age = 0 /\ timer = Period /\ silence = Never
                       /\ session = "none" /\ up = <<>> /\ down = <<>>
                       /\ raised = 0 /\ faults = 0 /\ dialing = 0
  /\ proc = "up" => setup # "missing"

-----------------------------------------------------------------------------
(* Messages on their way                                                    *)

Letters(M, N) == [msg : M, n : N, age : 0 .. Delay]

LEMMA OlderLetters ==
  ASSUME NEW M, NEW N, NEW q \in Seq(Letters(M, N)),
         \A i \in DOMAIN q : q[i].age < Delay
  PROVE  Older(q) \in Seq(Letters(M, N))
  <1>1. Delay \in Nat BY TimesAssumption
  <1>2. ASSUME NEW i \in 1 .. Len(q) PROVE Older(q)[i] \in Letters(M, N)
    <2>1. q[i] \in Letters(M, N) /\ q[i].age < Delay
      OBVIOUS
    <2>2. Older(q)[i] = [q[i] EXCEPT !.age = @ + 1]
      BY DEF Older
    <2> QED BY <1>1, <2>1, <2>2 DEF Letters
  <1>3. Older(q) = [i \in 1 .. Len(q) |-> Older(q)[i]]
    BY DEF Older
  <1> QED BY <1>2, <1>3

LEMMA OlderIsSame ==
  ASSUME NEW M, NEW N, NEW q \in Seq(Letters(M, N))
  PROVE  /\ DOMAIN Older(q) = DOMAIN q
         /\ \A i \in DOMAIN q : /\ Older(q)[i].msg = q[i].msg
                                /\ Older(q)[i].n = q[i].n
                                /\ Older(q)[i].age = q[i].age + 1
  <1>1. ASSUME NEW i \in DOMAIN q
        PROVE  /\ Older(q)[i].msg = q[i].msg
               /\ Older(q)[i].n = q[i].n
               /\ Older(q)[i].age = q[i].age + 1
    <2>1. q[i] \in Letters(M, N)
      OBVIOUS
    <2>2. Older(q)[i] = [q[i] EXCEPT !.age = @ + 1]
      BY DEF Older
    <2> QED BY <2>1, <2>2 DEF Letters
  <1> QED BY <1>1 DEF Older

LEMMA NewLetter ==
  ASSUME NEW M, NEW N, NEW m \in M, NEW n \in N, NEW q \in Seq(Letters(M, N))
  PROVE  /\ Append(q, Message(m, n)) \in Seq(Letters(M, N))
         /\ Len(Append(q, Message(m, n))) = Len(q) + 1
         /\ \A i \in DOMAIN Append(q, Message(m, n)) :
              \/ i \in DOMAIN q /\ Append(q, Message(m, n))[i] = q[i]
              \/ i = Len(q) + 1 /\ Append(q, Message(m, n))[i] = Message(m, n)
         /\ \A i \in DOMAIN q : /\ i \in DOMAIN Append(q, Message(m, n))
                                /\ Append(q, Message(m, n))[i] = q[i]
  <1>1. Message(m, n) \in Letters(M, N)
    BY TimesAssumption DEF Message, Letters
  <1> QED BY <1>1

LEMMA Later ==
  ASSUME NEW S, NEW q \in Seq(S), NEW n \in 1 .. Len(q)
  PROVE  /\ SubSeq(q, n + 1, Len(q)) \in Seq(S)
         /\ Len(SubSeq(q, n + 1, Len(q))) = Len(q) - n
         /\ \A i \in DOMAIN SubSeq(q, n + 1, Len(q)) :
              i + n \in DOMAIN q /\ SubSeq(q, n + 1, Len(q))[i] = q[i + n]
         /\ \A i \in DOMAIN q : i > n =>
              i - n \in DOMAIN SubSeq(q, n + 1, Len(q))
  OBVIOUS

LEMMA Rest ==
  ASSUME NEW S, NEW q \in Seq(S), NEW n \in 1 .. Len(q)
  PROVE  /\ SubSeq(q, 2, n) \in Seq(S)
         /\ Len(SubSeq(q, 2, n)) = n - 1
         /\ \A i \in DOMAIN SubSeq(q, 2, n) :
              i + 1 \in DOMAIN q /\ i + 1 <= n /\ SubSeq(q, 2, n)[i] = q[i + 1]
         /\ \A i \in DOMAIN q : 1 < i /\ i <= n =>
              i - 1 \in DOMAIN SubSeq(q, 2, n) /\ SubSeq(q, 2, n)[i - 1] = q[i]
  OBVIOUS

LEMMA TailLater ==
  ASSUME NEW S, NEW q \in Seq(S), q # <<>>
  PROVE  /\ Tail(q) \in Seq(S) /\ Head(q) = q[1] /\ 1 \in DOMAIN q
         /\ \A i \in DOMAIN Tail(q) : i + 1 \in DOMAIN q /\ Tail(q)[i] = q[i + 1]
         /\ \A i \in DOMAIN q : i # 1 =>
              i - 1 \in DOMAIN Tail(q) /\ Tail(q)[i - 1] = q[i]
  <1>1. Len(q) \in Nat \ {0} /\ DOMAIN q = 1 .. Len(q)
    OBVIOUS
  <1>2. /\ Tail(q) \in Seq(S) /\ Len(Tail(q)) = Len(q) - 1
        /\ \A i \in 1 .. Len(q) - 1 : Tail(q)[i] = q[i + 1]
    OBVIOUS
  <1>3. DOMAIN Tail(q) = 1 .. Len(q) - 1
    BY <1>2
  <1>4. Head(q) = q[1] /\ 1 \in DOMAIN q
    BY <1>1
  <1>5. \A i \in DOMAIN Tail(q) : i + 1 \in DOMAIN q /\ Tail(q)[i] = q[i + 1]
    BY <1>1, <1>2, <1>3
  <1>6. ASSUME NEW i \in DOMAIN q, i # 1
        PROVE  i - 1 \in DOMAIN Tail(q) /\ Tail(q)[i - 1] = q[i]
    <2>1. i - 1 \in 1 .. Len(q) - 1 /\ (i - 1) + 1 = i
      BY <1>1, <1>6
    <2> QED BY <1>2, <1>3, <2>1
  <1> QED BY <1>2, <1>4, <1>5, <1>6

-----------------------------------------------------------------------------
(* Types                                                                    *)

LEMMA Bounds ==
  /\ Period \in Nat /\ Delay \in Nat /\ Slack \in Nat
  /\ Slack + Delay + Delay < Period
  /\ MaxEvents \in Nat /\ MaxFaults \in Nat
  BY TimesAssumption, BoundsAssumption

LEMMA EventNumbers ==
  ASSUME NEW q, NEW T, \A i \in DOMAIN q : q[i].msg = "event" => q[i].n \in T
  PROVE  Events(q) \subseteq T
  BY DEF Events

LEMMA TypesInit == Init => TypeOK
  <1> SUFFICES ASSUME Init PROVE TypeOK
    OBVIOUS
  <1>1. shown \in Seq(1 .. MaxEvents) /\ raised \in 0 .. MaxEvents /\ faults \in 0 .. MaxFaults
    BY Bounds DEF Init
  <1>2. /\ up \in Seq([msg : Requests, n : {0}, age : 0 .. Delay])
        /\ down \in Seq([msg : Responses, n : 0 .. MaxEvents, age : 0 .. Delay])
    BY DEF Init
  <1>3. timer \in -Slack .. Period /\ check \in -Slack .. Period /\ dialing \in 0 .. Delay
    BY Bounds DEF Init
  <1>4. {unsent, behind, gone} \subseteq SUBSET (1 .. MaxEvents) /\ {unheard, dropped} \subseteq BOOLEAN
    BY DEF Init
  <1> QED BY <1>1, <1>2, <1>3, <1>4 DEF Init, TypeOK, Never

LEMMA Wires ==
  TypeOK => up \in Seq(Letters(Requests, {0}))
            /\ down \in Seq(Letters(Responses, 0 .. MaxEvents))
  BY DEF TypeOK, Letters

LEMMA NumberedBelow ==
  ASSUME TypeOK, DownFits
  PROVE  \A i \in DOMAIN down : down[i].msg = "event" => down[i].n \in 1 .. MaxEvents
  <1>1. raised \in 0 .. MaxEvents
    BY DEF TypeOK
  <1>2. 1 .. raised \subseteq 1 .. MaxEvents
    BY <1>1, Bounds
  <1> QED BY <1>2 DEF DownFits

LEMMA ResponseTypes ==
  ASSUME NEW msg
  PROVE  /\ Response(msg) \in Responses \ {"event"}
         /\ Response(msg) = "error" => setup # "right"
         /\ Response(msg) = "keepAliveResponse" => msg # "login"
  <1>1. CASE msg = "login" /\ setup = "right"
    BY <1>1 DEF Response, Responses
  <1>2. CASE msg = "login" /\ setup # "right"
    BY <1>2 DEF Response, Responses
  <1>3. CASE msg # "login"
    BY <1>3 DEF Response, Responses
  <1> QED BY <1>1, <1>2, <1>3

LEMMA TypesStep == TypeOK /\ DownFits /\ [Next]_vars => TypeOK'
  <1> SUFFICES ASSUME TypeOK, DownFits, [Next]_vars PROVE TypeOK'
    OBVIOUS
  <1> USE Bounds DEF client, wires, server, history, Never
  <1>0. /\ up \in Seq(Letters(Requests, {0}))
        /\ down \in Seq(Letters(Responses, 0 .. MaxEvents))
        /\ <<>> \in Seq(Letters(Requests, {0}))
        /\ <<>> \in Seq(Letters(Responses, 0 .. MaxEvents))
    BY Wires
  <1>E. Events(down) \subseteq 1 .. MaxEvents
    <2>1. \A i \in DOMAIN down : down[i].msg = "event" => down[i].n \in 1 .. MaxEvents
      BY NumberedBelow
    <2> QED BY <2>1 DEF Events
  <1>1. CASE OnInitDialog
    <2>1. CASE ReadIniFile
      <3>1. Connect /\ proc' = "up"
        BY <1>1, <2>1 DEF OnInitDialog
      <3>2. /\ m_State' \in {"none", "CREATED"} /\ link' \in {"none", "connecting"}
            /\ faults' \in 0 .. MaxFaults /\ dialing' = 0 /\ up' = <<>> /\ down' = <<>>
        BY <3>1 DEF Connect, CreateFails, PostConnect, Fault, TypeOK
      <3> QED BY <1>0, <1>1, <3>1, <3>2 DEF OnInitDialog, TypeOK, Letters
    <2>2. CASE ~ReadIniFile
      BY <1>1, <2>2 DEF OnInitDialog, TypeOK
    <2> QED BY <2>1, <2>2
  <1>2. CASE OnConnect
    <2>1. Append(<<>>, Message("login", 0)) \in Seq(Letters(Requests, {0}))
      BY <1>0, NewLetter DEF Requests
    <2>2. up' \in Seq(Letters(Requests, {0}))
      BY <1>2, <2>1 DEF OnConnect, GFSProcessRequestLogin
    <2> QED BY <1>2, <2>2 DEF OnConnect, TypeOK, Letters
  <1>3. CASE Refused
    BY <1>3 DEF Refused, Fault, RemoveClient, TypeOK
  <1>4. ASSUME NEW n \in 1 .. Len(down), OnRecv(n) PROVE TypeOK'
    <2> DEFINE rest == SubSeq(down, 2, n)
    <2>1. down' \in Seq(Letters(Responses, 0 .. MaxEvents))
      BY <1>0, <1>4, Later DEF OnRecv
    <2>2. Events(rest) \subseteq 1 .. MaxEvents
      <3>1. \A i \in DOMAIN rest : rest[i].msg = "event" => rest[i].n \in 1 .. MaxEvents
        <4>1. n \in 1 .. Len(down)
          BY <1>4
        <4>2. \A i \in DOMAIN rest : i + 1 \in DOMAIN down /\ rest[i] = down[i + 1]
          BY <1>0, <4>1, Rest
        <4> HIDE DEF rest
        <4> QED BY <4>2, NumberedBelow
      <3> QED BY <3>1, EventNumbers
    <2>3. shown' \in Seq(1 .. MaxEvents)
      <3>1. Head(down) = down[1] /\ 1 \in DOMAIN down
        BY <1>0, <1>4
      <3>2. Head(down).msg = "event" => Head(down).n \in 1 .. MaxEvents
        BY <3>1, NumberedBelow
      <3>3. shown \in Seq(1 .. MaxEvents)
        BY DEF TypeOK
      <3>4. shown' = IF Head(down).msg = "event" THEN Append(shown, Head(down).n) ELSE shown
        BY <1>4 DEF OnRecv, GFSProcessEvent, LooksAt
      <3>5. CASE Head(down).msg = "event"
        BY <3>2, <3>3, <3>4, <3>5
      <3> QED BY <3>3, <3>4, <3>5
    <2>4. unheard' \in BOOLEAN
      BY <1>4 DEF OnRecv, TypeOK
    <2>5. proc' \in {"up", "fault"} /\ age' \in Nat
      BY <1>4 DEF OnRecv, TypeOK
    <2>6. behind' \in SUBSET (1 .. MaxEvents)
      BY <1>4, <2>2 DEF OnRecv, TypeOK
    <2> QED BY <1>4, <2>1, <2>3, <2>4, <2>5, <2>6 DEF OnRecv, TypeOK, Letters
  <1>5. CASE OnClose
    BY <1>5 DEF OnClose, RemoveClient, TypeOK
  <1>6. CASE OnTimer
    <2>1. timer' \in -Slack .. Period
      BY <1>6 DEF OnTimer, TypeOK
    <2>2. proc' \in {"quitting", "up"}
      BY <1>6 DEF OnTimer
    <2>3. /\ m_State' \in {"none", "CREATED", "CONNECTED", "CLOSED"}
          /\ link' \in {"none", "connecting", "open", "cut", "dead"}
          /\ dialing' \in 0 .. Delay
          /\ up' \in Seq(Letters(Requests, {0}))
          /\ down' \in Seq(Letters(Responses, 0 .. MaxEvents))
          /\ gone' \in SUBSET (1 .. MaxEvents)
          /\ faults' \in 0 .. MaxFaults
      <3>1. CASE ~Asks
        BY <1>0, <1>6, <3>1 DEF OnTimer, TypeOK
      <3>2. CASE Asks /\ m_State = "none"
        BY <1>0, <1>6, <3>2 DEF OnTimer, TypeOK, GFSProcessRequestKeepAlive, Send, Connect,
          CreateFails, PostConnect, Fault
      <3>3. CASE Asks /\ m_State # "none"
        <4>1. PostSend("keepAlive")
          BY <1>6, <3>3 DEF OnTimer, GFSProcessRequestKeepAlive, Send
        <4>2. Append(up, Message("keepAlive", 0)) \in Seq(Letters(Requests, {0}))
          BY <1>0, NewLetter DEF Requests
        <4>3. up' \in Seq(Letters(Requests, {0}))
          BY <1>0, <4>1, <4>2 DEF PostSend
        <4>4. /\ m_State' \in {"none", "CREATED", "CONNECTED", "CLOSED"}
              /\ down' \in Seq(Letters(Responses, 0 .. MaxEvents))
              /\ gone' \in SUBSET (1 .. MaxEvents)
          BY <1>0, <1>E, <4>1 DEF PostSend, Destroy, TypeOK
        <4>5. UNCHANGED <<link, dialing, faults>>
          BY <4>1 DEF PostSend
        <4> QED BY <4>3, <4>4, <4>5 DEF TypeOK
      <3> QED BY <3>1, <3>2, <3>3
    <2> QED BY <1>6, <2>1, <2>2, <2>3 DEF OnTimer, TypeOK, Letters
  <1>7. CASE OnDestroy
    BY <1>0, <1>7, <1>E DEF OnDestroy, RemoveClient, TypeOK, Letters
  <1>8. CASE ServerRecv
    <2>1. up' \in Seq(Letters(Requests, {0}))
      BY <1>0, <1>8, TailLater DEF ServerRecv
    <2>2. Response(Head(up).msg) \in Responses
      BY ResponseTypes
    <2>3. down' \in Seq(Letters(Responses, 0 .. MaxEvents))
      BY <1>0, <1>8, <2>2, NewLetter DEF ServerRecv
    <2> QED BY <1>8, <2>1, <2>3 DEF ServerRecv, TypeOK, Letters
  <1>9. CASE SendAll
    <2>1. raised' \in 1 .. MaxEvents
      <3>1. raised \in 0 .. MaxEvents /\ raised < MaxEvents /\ raised' = raised + 1
        BY <1>9 DEF SendAll, TypeOK
      <3> QED BY <3>1
    <2>2. Append(down, Message("event", raised')) \in Seq(Letters(Responses, 0 .. MaxEvents))
      <3>1. raised' \in 0 .. MaxEvents /\ "event" \in Responses
        BY <2>1 DEF Responses
      <3> HIDE DEF Never
      <3> QED BY <1>0, <3>1, NewLetter
    <2>3. \/ down' = down
          \/ down' = Append(down, Message("event", raised'))
      BY <1>9 DEF SendAll
    <2>4. down' \in Seq(Letters(Responses, 0 .. MaxEvents))
      BY <1>0, <2>2, <2>3
    <2>5. /\ unsent' \in {unsent, unsent \cup {raised'}}
          /\ gone' \in {gone, gone \cup {raised'}}
      BY <1>9 DEF SendAll
    <2>6. unsent' \in SUBSET (1 .. MaxEvents) /\ gone' \in SUBSET (1 .. MaxEvents)
      BY <2>1, <2>5 DEF TypeOK
    <2>7. {unsent', behind', gone'} \subseteq SUBSET (1 .. MaxEvents)
      BY <1>9, <2>6 DEF SendAll, TypeOK
    <2>8. raised' \in 0 .. MaxEvents
      BY <2>1
    <2>9. UNCHANGED <<setup, proc, m_State, age, timer, shown, link, dialing, up, session,
                      silence, check, faults, behind, unheard, dropped>>
      BY <1>9 DEF SendAll
    <2> QED BY <2>4, <2>7, <2>8, <2>9 DEF TypeOK, Letters
  <1>10. CASE CheckKeepAliveGFSClients
    <2>1. check' \in -Slack .. Period
      BY <1>10 DEF CheckKeepAliveGFSClients, TypeOK
    <2>2. /\ session' \in {session, "none"} /\ silence' \in {silence, Never}
          /\ link' \in {link, "cut"} /\ dropped' \in {dropped, TRUE}
          /\ up' \in {up, <<>>} /\ down' \in {down, <<>>}
          /\ gone' \in {gone, gone \cup Events(down)}
      BY <1>10 DEF CheckKeepAliveGFSClients, Cut
    <2>3. gone' \in SUBSET (1 .. MaxEvents) /\ dropped' \in BOOLEAN
      BY <1>E, <2>2 DEF TypeOK
    <2>4. /\ up' \in Seq(Letters(Requests, {0}))
          /\ down' \in Seq(Letters(Responses, 0 .. MaxEvents))
      BY <1>0, <2>2
    <2>5. {unsent', behind', gone'} \subseteq SUBSET (1 .. MaxEvents)
      BY <1>10, <2>3 DEF CheckKeepAliveGFSClients, TypeOK
    <2>6. UNCHANGED <<setup, proc, m_State, age, timer, shown, dialing, raised, faults,
                      unsent, behind, unheard>>
      BY <1>10 DEF CheckKeepAliveGFSClients
    <2>7. /\ link' \in {"none", "connecting", "open", "cut", "dead"}
          /\ session' \in {"none", "ACCEPTED", "LOGGED_IN"}
          /\ silence' \in Nat \cup {Never}
          /\ {unheard', dropped'} \subseteq BOOLEAN
      BY <2>2, <2>3, <2>6 DEF TypeOK
    <2> QED BY <2>1, <2>4, <2>5, <2>6, <2>7 DEF TypeOK, Letters
  <1>11. CASE ConnectionCut
    <2>1. /\ gone' \in {gone, gone \cup Events(down)} /\ down' \in {down, <<>>} /\ up' = <<>>
          /\ link' = "cut" /\ session' = "none" /\ silence' = Never
      BY <1>11 DEF ConnectionCut, Cut
    <2>2. {unsent', behind', gone'} \subseteq SUBSET (1 .. MaxEvents)
      BY <1>E, <1>11, <2>1 DEF ConnectionCut, TypeOK
    <2>3. faults' \in 0 .. MaxFaults
      BY <1>11 DEF ConnectionCut, Fault, TypeOK
    <2> QED BY <1>0, <1>11, <2>1, <2>2, <2>3 DEF ConnectionCut, TypeOK, Letters
  <1>12. CASE ConnectionDies
    BY <1>0, <1>E, <1>12 DEF ConnectionDies, Fault, TypeOK, Letters
  <1>13. CASE Tick
    <2>1. Older(up) \in Seq(Letters(Requests, {0}))
      BY <1>0, <1>13, OlderLetters DEF Tick, InTime
    <2>2. Older(down) \in Seq(Letters(Responses, 0 .. MaxEvents))
      BY <1>0, <1>13, OlderLetters DEF Tick, InTime
    <2>3. timer' \in -Slack .. Period /\ check' \in -Slack .. Period
      BY <1>13 DEF Tick, InTime, TypeOK
    <2>4. dialing' \in 0 .. Delay
      BY <1>13 DEF Tick, InTime, TypeOK
    <2> QED BY <1>13, <2>1, <2>2, <2>3, <2>4 DEF Tick, TypeOK, Letters
  <1>14. CASE UNCHANGED vars
    BY <1>14 DEF vars, TypeOK
  <1> QED BY <1>1, <1>2, <1>3, <1>4, <1>5, <1>6, <1>7, <1>8, <1>9, <1>10,
             <1>11, <1>12, <1>13, <1>14 DEF Next, ClientStep, ServerStep, Network

-----------------------------------------------------------------------------
(* The start, and what is on its way to the client                          *)

LEMMA FreshStep == Fresh /\ [Next]_vars => Fresh'
  <1> SUFFICES ASSUME Fresh, [Next]_vars PROVE Fresh'
    OBVIOUS
  <1> USE DEF Fresh, client, wires, server, history
  <1>1. CASE OnInitDialog
    BY <1>1 DEF OnInitDialog, ReadIniFile
  <1>2. CASE Next /\ ~OnInitDialog
    <2>1. proc # "start" /\ proc' # "start" /\ (proc' = "up" => proc = "up") /\ setup' = setup
      BY <1>2 DEF Next, ClientStep, ServerStep, Network, OnConnect, OnClose, OnTimer,
        OnDestroy, OnRecv, ServerRecv, CheckKeepAliveGFSClients, SendAll, Refused,
        ConnectionCut, ConnectionDies, Tick
    <2> QED BY <2>1
  <1>3. CASE UNCHANGED vars
    BY <1>3 DEF vars
  <1> QED BY <1>1, <1>2, <1>3

(* All a step does to the messages to the client and to what is shown.      *)
DownSteps ==
  \/ down' = down
  \/ down' = <<>>
  \/ down' = Older(down)
  \/ \E n \in 1 .. Len(down) : down' = SubSeq(down, n + 1, Len(down))
  \/ \E m \in Responses \ {"event"} :
       /\ m = "error" => setup # "right"
       /\ down' = Append(down, Message(m, 0))
  \/ raised' = raised + 1 /\ down' = Append(down, Message("event", raised'))

ShownSteps ==
  \/ shown' = shown
  \/ /\ down # <<>> /\ down[1].msg = "event"
     /\ shown' = Append(shown, down[1].n)

LEMMA StepForms ==
  ASSUME TypeOK, [Next]_vars
  PROVE  /\ setup' = setup /\ raised' \in {raised, raised + 1}
         /\ DownSteps /\ ShownSteps
  <1> USE DEF client, wires, server, history, DownSteps, ShownSteps
  <1>1. CASE OnInitDialog
    BY <1>1 DEF OnInitDialog, Connect
  <1>2. CASE OnConnect \/ Refused \/ OnClose \/ OnDestroy \/ ConnectionDies \/ Tick
    BY <1>2 DEF OnConnect, Refused, OnClose, OnDestroy, ConnectionDies, Tick
  <1>3. ASSUME NEW n \in 1 .. Len(down), OnRecv(n)
        PROVE  setup' = setup /\ raised' = raised /\ DownSteps /\ ShownSteps
    <2>1. down # <<>> /\ Head(down) = down[1]
      BY <1>3 DEF TypeOK
    <2> QED BY <1>3, <2>1 DEF OnRecv, LooksAt, GFSProcessEvent
  <1>4. CASE OnTimer
    BY <1>4 DEF OnTimer, GFSProcessRequestKeepAlive, Send, Connect, PostSend, Destroy
  <1>5. CASE ServerRecv
    <2> DEFINE m == Response(Head(up).msg)
    <2>1. m \in Responses \ {"event"} /\ (m = "error" => setup # "right")
      BY ResponseTypes
    <2>2. down' = Append(down, Message(m, 0)) /\ UNCHANGED <<setup, raised, shown>>
      BY <1>5 DEF ServerRecv
    <2> HIDE DEF m
    <2> QED BY <2>1, <2>2
  <1>6. CASE SendAll
    BY <1>6 DEF SendAll
  <1>7. CASE CheckKeepAliveGFSClients \/ ConnectionCut
    BY <1>7 DEF CheckKeepAliveGFSClients, ConnectionCut, Cut
  <1>8. CASE UNCHANGED vars
    BY <1>8 DEF vars
  <1> QED BY <1>1, <1>2, <1>3, <1>4, <1>5, <1>6, <1>7, <1>8
        DEF Next, ClientStep, ServerStep, Network

LEMMA DownStep == TypeOK /\ DownFits /\ [Next]_vars => DownFits'
  <1> SUFFICES ASSUME TypeOK, DownFits, [Next]_vars PROVE DownFits'
    OBVIOUS
  <1>1. /\ setup' = setup /\ raised' \in {raised, raised + 1}
        /\ DownSteps /\ ShownSteps
    BY StepForms
  <1>2. raised \in Nat /\ raised' \in Nat /\ raised <= raised'
    BY <1>1, Bounds DEF TypeOK
  <1>3. down \in Seq(Letters(Responses, 0 .. MaxEvents))
    BY Wires
  <1> DEFINE Fits(q, r) ==
        /\ setup = "right" => ~Has(q, "error")
        /\ \A i \in DOMAIN q : q[i].msg = "event" => q[i].n \in 1 .. r
        /\ \A i, j \in DOMAIN q :
             i < j /\ q[i].msg = "event" /\ q[j].msg = "event" => q[i].n < q[j].n
  <1>4. Fits(down, raised)
    BY DEF DownFits
  <1>5. Fits(down, raised')
    BY <1>2, <1>4
  <1>6. Fits(down', raised')
    <2>1. CASE down' = down
      BY <1>5, <2>1
    <2>2. CASE down' = <<>>
      BY <2>2 DEF Has
    <2>3. CASE down' = Older(down)
      BY <1>3, <1>5, <2>3, OlderIsSame DEF Has
    <2>4. ASSUME NEW n \in 1 .. Len(down), down' = SubSeq(down, n + 1, Len(down))
          PROVE  Fits(down', raised')
      <3>1. \A i \in DOMAIN down' : /\ i \in Nat /\ i + n \in DOMAIN down
                                    /\ down'[i] = down[i + n]
        BY <1>3, <2>4, Later
      <3> QED BY <1>5, <3>1 DEF Has
    <2>5. ASSUME NEW m \in Responses \ {"event"}, m = "error" => setup # "right",
                 down' = Append(down, Message(m, 0))
          PROVE  Fits(down', raised')
      <3>1. \A i \in DOMAIN down' : \/ i \in DOMAIN down /\ down'[i] = down[i]
                                    \/ i = Len(down) + 1 /\ down'[i] = Message(m, 0)
        BY <1>3, <2>5, Bounds, NewLetter
      <3>2. Message(m, 0).msg = m
        BY DEF Message
      <3> QED BY <1>5, <2>5, <3>1, <3>2 DEF Has
    <2>6. CASE raised' = raised + 1 /\ down' = Append(down, Message("event", raised'))
      <3>1. \A i \in DOMAIN down' : \/ i \in DOMAIN down /\ down'[i] = down[i]
                                    \/ i = Len(down) + 1 /\ down'[i] = Message("event", raised')
        BY <1>3, <2>6
      <3>2. Message("event", raised').msg = "event" /\ Message("event", raised').n = raised'
        BY DEF Message
      <3>3. \A i \in DOMAIN down : i \in Nat /\ i < Len(down) + 1
        BY <1>3
      <3>4. setup = "right" => ~Has(down', "error")
        BY <1>5, <3>1, <3>2 DEF Has
      <3>5. \A i \in DOMAIN down' : down'[i].msg = "event" => down'[i].n \in 1 .. raised'
        BY <1>2, <1>5, <2>6, <3>1, <3>2
      <3>6. \A i, j \in DOMAIN down' :
              i < j /\ down'[i].msg = "event" /\ down'[j].msg = "event" => down'[i].n < down'[j].n
        BY <1>2, <1>4, <2>6, <3>1, <3>2, <3>3
      <3> QED BY <3>4, <3>5, <3>6
    <2> QED BY <1>1, <2>1, <2>2, <2>3, <2>4, <2>5, <2>6 DEF DownSteps
  <1>7. \A i \in DOMAIN shown' : shown'[i] \in 1 .. raised'
    <2>1. shown \in Seq(1 .. MaxEvents) /\ \A i \in DOMAIN shown : shown[i] \in 1 .. raised'
      BY <1>2 DEF TypeOK, DownFits
    <2>2. CASE down # <<>> /\ down[1].msg = "event" /\ shown' = Append(shown, down[1].n)
      <3>1. 1 \in DOMAIN down
        BY <1>3, <2>2
      <3>2. down[1].n \in 1 .. raised' /\ down[1].n \in 1 .. MaxEvents
        BY <1>5, <2>2, <3>1, NumberedBelow
      <3> QED BY <2>1, <2>2, <3>2
    <2> QED BY <1>1, <2>1, <2>2 DEF ShownSteps
  <1> QED BY <1>1, <1>6, <1>7 DEF DownFits, Has

-----------------------------------------------------------------------------
(* Requests and answers keep to their turn                                  *)

LEMMA Numbers ==
  ASSUME TypeOK
  PROVE  /\ age \in Nat /\ timer \in Int /\ timer <= Period /\ -Slack <= timer
         /\ dialing \in Nat /\ dialing <= Delay
         /\ silence \in Int /\ -1 <= silence
         /\ Period \in Nat /\ Slack \in Nat /\ Delay \in Nat
         /\ Slack + Delay + Delay < Period
  BY Bounds DEF TypeOK, Never

LEMMA Ages ==
  ASSUME TypeOK
  PROVE  /\ \A i \in DOMAIN up : up[i].age \in 0 .. Delay
         /\ \A i \in DOMAIN down : down[i].age \in 0 .. Delay
  <1>1. /\ \A i \in DOMAIN up : up[i] \in Letters(Requests, {0})
        /\ \A i \in DOMAIN down : down[i] \in Letters(Responses, 0 .. MaxEvents)
    BY Wires
  <1> QED BY <1>1 DEF Letters

LEMMA Appended ==
  ASSUME NEW S, NEW q \in Seq(S), NEW e
  PROVE  /\ \A i \in DOMAIN Append(q, e) : \/ i \in DOMAIN q /\ Append(q, e)[i] = q[i]
                                          \/ Append(q, e)[i] = e
         /\ Len(q) + 1 \in DOMAIN Append(q, e) /\ Append(q, e)[Len(q) + 1] = e
         /\ \A i \in DOMAIN q : i \in DOMAIN Append(q, e) /\ Append(q, e)[i] = q[i]
  <1>1. Len(q) \in Nat /\ DOMAIN q = 1 .. Len(q) /\ DOMAIN Append(q, e) = 1 .. Len(q) + 1
    OBVIOUS
  <1>2. \A i \in 1 .. Len(q) : Append(q, e)[i] = q[i]
    OBVIOUS
  <1>3. Append(q, e)[Len(q) + 1] = e
    OBVIOUS
  <1> QED BY <1>1, <1>2, <1>3

LEMMA TurnInit ==
  ASSUME TypeOK, Fresh, OnInitDialog, Sound'
  PROVE  Turns'
  <1> USE Numbers
  <1>1. Connect /\ faults = 0 /\ faults' = 0 /\ proc = "start"
    BY DEF OnInitDialog, Sound, Fresh
  <1>2. /\ link' = "connecting" /\ m_State' = "CREATED"
        /\ dialing' = 0 /\ up' = <<>> /\ down' = <<>>
    BY <1>1 DEF Connect, CreateFails, PostConnect, Fault
  <1>3. age' = 0 /\ timer' = Period /\ silence' = Never
    BY <1>1 DEF OnInitDialog, Fresh, server
  <1> QED BY <1>2, <1>3 DEF Turns, Linked, AskedLately, AnsweredLately, HeardLately,
        AgeFits, Elapsed, Turn, Never, Has

LEMMA TurnConnect ==
  ASSUME TypeOK, Turns, OnConnect
  PROVE  Turns'
  <1> USE Numbers
  <1>1. age = Elapsed /\ down = <<>>
    BY DEF Turns, Linked, OnConnect
  <1>2. /\ link' = "open" /\ m_State' = "CONNECTED" /\ silence' = -1
        /\ down' = down /\ age' = age /\ timer' = timer
    BY DEF OnConnect, Never
  <1>3. \A i \in DOMAIN up' : up'[i].msg = "login"
    BY DEF OnConnect, GFSProcessRequestLogin, Message
  <1> QED BY <1>1, <1>2, <1>3 DEF Turns, Linked, AskedLately, AnsweredLately, HeardLately,
        AgeFits, Elapsed, Turn, Has

LEMMA TurnTimer ==
  ASSUME TypeOK, Turns, OnTimer
  PROVE  Turns'
  <1>1. timer <= 0 /\ timer' = timer + Period /\ age' = age /\ silence' = silence
    BY DEF OnTimer, server
  <1>2. link = "open" /\ m_State = "CONNECTED"
    BY <1>1, Numbers DEF Turns, Linked, Elapsed
  <1>3. ~Has(up, "keepAlive") /\ ~Has(down, "keepAliveResponse")
    BY <1>1, Numbers, Ages DEF Turns, AskedLately, AnsweredLately, Has, Elapsed
  <1>4. age >= Period - timer - Turn
    BY DEF Turns, AgeFits, Elapsed
  <1>5. \/ silence <= Period - timer
        \/ silence <= Period - timer + Period /\ age >= Period - timer + Period - Turn
    BY <1>3 DEF Turns, HeardLately, Elapsed
  <1>6. CASE Asks
    <2>1. PostSend("keepAlive")
      BY <1>2, <1>6 DEF OnTimer, GFSProcessRequestKeepAlive, Send
    <2>2. up' = Append(up, Message("keepAlive", 0)) /\ link' = link /\ m_State' = m_State /\ down' = down
      BY <1>2, <2>1 DEF PostSend
    <2>3. /\ \A i \in DOMAIN up' : \/ i \in DOMAIN up /\ up'[i] = up[i]
                                   \/ up'[i] = Message("keepAlive", 0)
          /\ Len(up) + 1 \in DOMAIN up' /\ up'[Len(up) + 1] = Message("keepAlive", 0)
      BY <2>2, Wires, Appended
    <2>4. Message("keepAlive", 0).msg = "keepAlive" /\ Message("keepAlive", 0).age = 0
      BY DEF Message
    <2>5. Has(up, "keepAlive")'
      <3>1. \E i \in DOMAIN up' : up'[i].msg = "keepAlive"
        BY <2>3, <2>4
      <3> QED BY <3>1 DEF Has
    <2>6. AskedLately'
      <3>1. Elapsed' <= Slack + 0
        BY <1>1, Numbers DEF Elapsed
      <3>2. \A i \in DOMAIN up' : up'[i].msg = "keepAlive" => up'[i].age = 0
        BY <1>3, <2>3, <2>4 DEF Has
      <3> QED BY <3>1, <3>2 DEF AskedLately
    <2>7. AnsweredLately'
      BY <1>3, <2>2 DEF AnsweredLately, Has
    <2>8. AgeFits'
      BY <1>1, <1>4, <2>5, Numbers DEF AgeFits, Elapsed, Turn
    <2> QED BY <1>2, <2>2, <2>5, <2>6, <2>7, <2>8 DEF Turns, Linked, HeardLately
  <1>7. CASE ~Asks
    <2>1. /\ UNCHANGED <<up, down, link, m_State, unheard>>
          /\ age < Period
      BY <1>7, Numbers DEF OnTimer, Asks, wires
    <2>2. HeardLately'
      BY <1>1, <1>4, <1>5, <2>1, Numbers DEF HeardLately, Elapsed, Turn
    <2>3. AgeFits'
      BY <1>1, <1>4, <2>1, Numbers DEF AgeFits, Elapsed, Turn
    <2> QED BY <1>2, <1>3, <2>1, <2>2, <2>3 DEF Turns, Linked, AskedLately, AnsweredLately, Has
  <1> QED BY <1>6, <1>7

LEMMA TurnServerRecv ==
  ASSUME TypeOK, Turns, ServerRecv
  PROVE  Turns'
  <1> DEFINE m == Response(Head(up).msg)
  <1>1. /\ up # <<>> /\ up' = Tail(up) /\ silence' = 0
        /\ down' = Append(down, Message(m, 0))
        /\ UNCHANGED <<age, timer, link, m_State, unheard>>
    BY DEF ServerRecv, client, history
  <1>2. /\ up[1] = Head(up) /\ 1 \in DOMAIN up
        /\ \A i \in DOMAIN up' : i + 1 \in DOMAIN up /\ up'[i] = up[i + 1]
        /\ \A i \in DOMAIN up : i # 1 => i - 1 \in DOMAIN up' /\ up'[i - 1] = up[i]
    <2>1. up \in Seq(Letters(Requests, {0}))
      BY Wires
    <2> QED BY ONLY <1>1, <2>1, TailLater
  <1>3. up[1].msg \in Requests
    <2>1. up[1] \in Letters(Requests, {0})
      BY <1>2, Wires
    <2> QED BY <2>1 DEF Letters
  <1>4. m = "keepAliveResponse" => up[1].msg = "keepAlive"
    BY <1>2, <1>3, ResponseTypes DEF Requests
  <1>5. up[1].msg = "keepAlive" => m = "keepAliveResponse"
    BY <1>2 DEF Response
  <1> HIDE DEF m
  <1>6. /\ \A i \in DOMAIN down' : \/ i \in DOMAIN down /\ down'[i] = down[i]
                                   \/ down'[i] = Message(m, 0)
        /\ Len(down) + 1 \in DOMAIN down' /\ down'[Len(down) + 1] = Message(m, 0)
        /\ \A i \in DOMAIN down : i \in DOMAIN down' /\ down'[i] = down[i]
    BY <1>1, Wires, Appended
  <1>7. Message(m, 0).msg = m /\ Message(m, 0).age = 0
    BY DEF Message
  <1>8. m = "keepAliveResponse" => Elapsed <= Slack + Delay
    BY <1>2, <1>4, Numbers, Ages DEF Turns, AskedLately, Elapsed
  <1>9. Linked'
    <2>1. link = "open"
      BY DEF ServerRecv
    <2> QED BY <1>1, <2>1 DEF Turns, Linked
  <1>10. AskedLately'
    BY <1>1, <1>2 DEF Turns, AskedLately, Elapsed
  <1>11. AnsweredLately'
    BY <1>1, <1>6, <1>7, <1>8, Numbers DEF Turns, AnsweredLately, Elapsed
  <1>12. HeardLately'
    BY <1>1, Numbers DEF HeardLately, Elapsed
  <1>13. AgeFits'
    <2>1. Has(up, "keepAlive") => Has(up, "keepAlive")' \/ Has(down, "keepAliveResponse")'
      BY <1>2, <1>5, <1>6, <1>7 DEF Has
    <2>2. Has(down, "keepAliveResponse") => Has(down, "keepAliveResponse")'
      BY <1>6 DEF Has
    <2> QED BY <1>1, <2>1, <2>2 DEF Turns, AgeFits, Elapsed, Turn
  <1> QED BY <1>9, <1>10, <1>11, <1>12, <1>13 DEF Turns

LEMMA TurnRecv ==
  ASSUME TypeOK, Turns, NEW n \in 1 .. Len(down), OnRecv(n)
  PROVE  Turns'
  <1>1. /\ down' = SubSeq(down, n + 1, Len(down))
        /\ age' = IF Heard(Head(down).msg) THEN 0 ELSE age
        /\ unheard' = (unheard \/ \E i \in DOMAIN SubSeq(down, 2, n) :
                                     Heard(SubSeq(down, 2, n)[i].msg))
        /\ UNCHANGED <<timer, link, m_State, up, silence>>
    BY DEF OnRecv, LooksAt, server
  <1>2. down[1] = Head(down) /\ 1 \in DOMAIN down
    BY Wires
  <1>3. /\ \A i \in DOMAIN down' : i + n \in DOMAIN down /\ down'[i] = down[i + n]
        /\ \A i \in DOMAIN down : i > n => i - n \in DOMAIN down' /\ down'[i - n] = down[i]
    <2>1. \A i \in DOMAIN down' : i + n \in DOMAIN down /\ down'[i] = down[i + n]
      BY <1>1, Wires, Later
    <2>2. ASSUME NEW i \in DOMAIN down, i > n
          PROVE  i - n \in DOMAIN down' /\ down'[i - n] = down[i]
      <3>1. i - n \in DOMAIN down' /\ i - n \in Nat /\ (i - n) + n = i
        BY <1>1, <2>2, Wires, Later
      <3> QED BY <2>1, <3>1
    <2> QED BY <2>1, <2>2
  <1>4. \A i \in DOMAIN down : 1 < i /\ i <= n /\ down[i].msg = "keepAliveResponse" => unheard'
    <2> SUFFICES ASSUME NEW i \in DOMAIN down, 1 < i, i <= n, down[i].msg = "keepAliveResponse"
                 PROVE  unheard'
      OBVIOUS
    <2>1. i - 1 \in DOMAIN SubSeq(down, 2, n) /\ SubSeq(down, 2, n)[i - 1] = down[i]
      BY Wires, Rest
    <2> QED BY <1>1, <2>1 DEF Heard
  <1>5. Heard(Head(down).msg) => Elapsed <= Slack + Delay + Delay /\ silence <= Elapsed
    BY <1>2, Numbers, Ages DEF Turns, AnsweredLately, Heard, Elapsed
  <1>6. Linked'
    <2>1. m_State = "CONNECTED"
      BY DEF OnRecv
    <2> QED BY <1>1, <2>1 DEF Turns, Linked
  <1>7. AskedLately' /\ AnsweredLately'
    BY <1>1, <1>3 DEF Turns, AskedLately, AnsweredLately, Elapsed
  <1>8. HeardLately'
    BY <1>1, <1>5, Numbers DEF Turns, HeardLately, Elapsed, Has
  <1>9. AgeFits'
    <2>1. age' >= Elapsed - Turn
      BY <1>1, <1>5, Numbers DEF Turns, AgeFits, Elapsed, Turn
    <2>2. CASE Heard(Head(down).msg)
      <3>1. age' = 0 /\ Elapsed' = Elapsed /\ Elapsed \in Nat
        BY <1>1, <2>2, Numbers DEF Elapsed
      <3>2. age' <= Elapsed' + Period /\ age' >= Elapsed' - Turn
        BY <2>1, <3>1, Numbers
      <3> QED BY <3>2 DEF AgeFits, Turn
    <2>3. CASE ~Heard(Head(down).msg)
      <3>1. Has(down, "keepAliveResponse") => Has(down, "keepAliveResponse")' \/ unheard'
        BY <1>2, <1>3, <1>4, <2>3, Wires DEF Has, Heard
      <3>2. age' = age /\ Elapsed' = Elapsed /\ (unheard => unheard')
        BY <1>1, <2>3 DEF Elapsed
      <3>3. Has(up, "keepAlive")' = Has(up, "keepAlive")
        BY <1>1 DEF Has
      <3> QED BY <3>1, <3>2, <3>3 DEF Turns, AgeFits, Turn
    <2> QED BY <2>2, <2>3
  <1> QED BY <1>6, <1>7, <1>8, <1>9 DEF Turns

LEMMA TurnSendAll ==
  ASSUME TypeOK, Turns, SendAll
  PROVE  Turns'
  <1>1. UNCHANGED <<age, timer, link, m_State, unheard, dialing, up, silence>>
    BY DEF SendAll, client
  <1>2. CASE down' = down
    BY <1>1, <1>2 DEF Turns, Linked, AskedLately, AnsweredLately, HeardLately, AgeFits,
      Elapsed, Has
  <1>3. CASE link = "open" /\ down' = Append(down, Message("event", raised'))
    <2>1. /\ \A i \in DOMAIN down' : \/ i \in DOMAIN down /\ down'[i] = down[i]
                                     \/ down'[i] = Message("event", raised')
          /\ \A i \in DOMAIN down : i \in DOMAIN down' /\ down'[i] = down[i]
      BY <1>3, Wires, Appended
    <2>2. Message("event", raised').msg = "event"
      BY DEF Message
    <2>3. Linked' /\ AskedLately' /\ HeardLately'
      BY <1>1, <1>3 DEF Turns, Linked, AskedLately, HeardLately, Elapsed, Has
    <2>4. AnsweredLately'
      BY <1>1, <2>1, <2>2 DEF Turns, AnsweredLately, Elapsed
    <2>5. AgeFits'
      BY <1>1, <2>1 DEF Turns, AgeFits, Elapsed, Has
    <2> QED BY <2>3, <2>4, <2>5 DEF Turns
  <1> QED BY <1>2, <1>3 DEF SendAll

LEMMA TurnCheck ==
  ASSUME TypeOK, Turns, CheckKeepAliveGFSClients, ~dropped'
  PROVE  Turns'
  <1>1. ~(session # "none" /\ Overdue)
    BY DEF CheckKeepAliveGFSClients, Turns, Linked, Overdue
  <1>2. UNCHANGED <<m_State, age, timer, link, dialing, up, down, silence, unheard>>
    BY <1>1 DEF CheckKeepAliveGFSClients, client
  <1> QED BY <1>2 DEF Turns, Linked, AskedLately, AnsweredLately, HeardLately, AgeFits,
        Elapsed, Has

LEMMA TurnTick ==
  ASSUME TypeOK, Turns, Tick
  PROVE  Turns'
  <1>1. /\ age' = age + 1 /\ timer' = timer - 1 /\ up' = Older(up) /\ down' = Older(down)
        /\ dialing' = IF link = "connecting" THEN dialing + 1 ELSE dialing
        /\ silence' = IF silence = -1 THEN -1 ELSE silence + 1
        /\ UNCHANGED <<m_State, link, unheard>>
    BY DEF Tick, history, Never
  <1>2. /\ DOMAIN up' = DOMAIN up
        /\ \A i \in DOMAIN up : up'[i].msg = up[i].msg /\ up'[i].age = up[i].age + 1
        /\ DOMAIN down' = DOMAIN down
        /\ \A i \in DOMAIN down : down'[i].msg = down[i].msg /\ down'[i].age = down[i].age + 1
    BY <1>1, Wires, OlderIsSame
  <1>3. /\ Has(up, "keepAlive")' <=> Has(up, "keepAlive")
        /\ Has(down, "keepAliveResponse")' <=> Has(down, "keepAliveResponse")
    BY <1>2 DEF Has
  <1>4. Elapsed \in Nat /\ Elapsed' = Elapsed + 1
    BY <1>1, Numbers DEF Elapsed
  <1>5. Linked'
    <2>1. CASE link = "connecting"
      <3>1. up' = <<>> /\ down' = <<>>
        BY <1>1, <2>1 DEF Turns, Linked, Older
      <3> QED BY <1>1, <1>4, <2>1, <3>1 DEF Turns, Linked, Never
    <2> QED BY <1>1, <2>1 DEF Turns, Linked
  <1>6. AskedLately'
    BY <1>2, <1>4, Numbers, Ages DEF Turns, AskedLately
  <1>7. AnsweredLately'
    BY <1>1, <1>2, <1>4, Numbers, Ages DEF Turns, AnsweredLately
  <1>8. HeardLately'
    BY <1>1, <1>3, <1>4, Numbers DEF Turns, HeardLately, Turn
  <1>9. AgeFits'
    BY <1>1, <1>3, <1>4, Numbers DEF Turns, AgeFits, Turn
  <1> QED BY <1>5, <1>6, <1>7, <1>8, <1>9 DEF Turns

LEMMA TurnStep == TypeOK /\ Fresh /\ InTurn /\ [Next]_vars => InTurn'
  <1> SUFFICES ASSUME TypeOK, Fresh, InTurn, [Next]_vars, Sound' PROVE Turns'
    BY DEF InTurn
  <1>1. CASE OnInitDialog
    BY <1>1, TurnInit
  <1>2. CASE ~OnInitDialog
    <2>1. faults \in Nat /\ dropped \in BOOLEAN /\ faults' = 0 /\ ~dropped' /\ proc' = "up"
      BY Bounds DEF TypeOK, Sound
    <2>2. /\ proc = "up" /\ faults' >= faults /\ (dropped => dropped')
      <3>1. CASE OnTimer
        BY <2>1, <3>1 DEF OnTimer, GFSProcessRequestKeepAlive, Send, Connect, CreateFails,
          PostConnect, Fault, PostSend, wires, server
      <3>2. CASE UNCHANGED vars
        BY <2>1, <3>2 DEF vars, history
      <3> QED BY <1>2, <2>1, <3>1, <3>2 DEF Next, ClientStep, ServerStep, Network, OnConnect, OnClose,
            OnDestroy, OnRecv, ServerRecv, CheckKeepAliveGFSClients, SendAll, Refused,
            ConnectionCut, ConnectionDies, Tick, Fault, history
    <2>3. Turns
      BY <2>1, <2>2 DEF InTurn, Sound, Turns
    <2>4. ~Refused /\ ~ConnectionCut /\ ~ConnectionDies
      BY <2>1, <2>2 DEF Refused, ConnectionCut, ConnectionDies, Fault
    <2>5. ~OnClose /\ ~OnDestroy
      BY <2>1, <2>3 DEF OnClose, OnDestroy, Turns, Linked
    <2>6. CASE UNCHANGED vars
      BY <2>3, <2>6 DEF vars, client, wires, server, history, Turns, Linked, AskedLately,
        AnsweredLately, HeardLately, AgeFits, Elapsed, Has
    <2> QED BY <1>2, <2>1, <2>3, <2>4, <2>5, <2>6, TurnConnect, TurnTimer, TurnServerRecv,
          TurnRecv, TurnSendAll, TurnCheck, TurnTick DEF Next, ClientStep, ServerStep, Network
  <1> QED BY <1>1, <1>2

-----------------------------------------------------------------------------
(* The events                                                               *)

(* Nothing is on its way to a client without a connection.                  *)
Quiet ==
  /\ m_State = "none" => link = "none"
  /\ link \in {"none", "connecting"} => down = <<>>

LEMMA QuietStep == TypeOK /\ Fresh /\ Quiet /\ [Next]_vars => Quiet'
  <1> SUFFICES ASSUME TypeOK, Fresh, Quiet, [Next]_vars PROVE Quiet'
    OBVIOUS
  <1> USE DEF Quiet, client, wires, server, history
  <1>1. CASE OnInitDialog
    BY <1>1 DEF OnInitDialog, Connect, CreateFails, PostConnect
  <1>2. CASE OnConnect \/ Refused \/ OnClose \/ OnDestroy \/ ConnectionCut \/ ConnectionDies
    BY <1>2 DEF OnConnect, Refused, OnClose, OnDestroy, ConnectionCut, ConnectionDies, Cut,
      RemoveClient
  <1>3. ASSUME NEW n \in 1 .. Len(down), OnRecv(n) PROVE Quiet'
    BY <1>3 DEF OnRecv
  <1>4. CASE OnTimer
    BY <1>4 DEF OnTimer, GFSProcessRequestKeepAlive, Send, Connect, CreateFails, PostConnect,
      PostSend, Destroy
  <1>5. CASE ServerRecv \/ CheckKeepAliveGFSClients \/ SendAll
    BY <1>5 DEF ServerRecv, CheckKeepAliveGFSClients, Cut, SendAll
  <1>6. CASE Tick
    BY <1>6 DEF Tick, Older
  <1>7. CASE UNCHANGED vars
    BY <1>7 DEF vars
  <1> QED BY <1>1, <1>2, <1>3, <1>4, <1>5, <1>6, <1>7 DEF Next, ClientStep, ServerStep, Network

Seen == {shown[i] : i \in DOMAIN shown}

LEMMA NoEvents == Events(<<>>) = {}
  BY DEF Events

LEMMA EventsAppended ==
  ASSUME NEW m \in Responses, NEW n \in 0 .. MaxEvents,
         NEW q \in Seq(Letters(Responses, 0 .. MaxEvents))
  PROVE  Events(Append(q, Message(m, n))) = Events(q) \cup IF m = "event" THEN {n} ELSE {}
  <1> DEFINE r == Append(q, Message(m, n))
  <1>1. /\ \A i \in DOMAIN r : \/ i \in DOMAIN q /\ r[i] = q[i]
                               \/ r[i] = Message(m, n)
        /\ Len(q) + 1 \in DOMAIN r /\ r[Len(q) + 1] = Message(m, n)
        /\ \A i \in DOMAIN q : i \in DOMAIN r /\ r[i] = q[i]
    BY Appended
  <1>2. Message(m, n).msg = m /\ Message(m, n).n = n
    BY DEF Message
  <1> HIDE DEF r
  <1>3. Events(r) \subseteq Events(q) \cup IF m = "event" THEN {n} ELSE {}
    BY <1>1, <1>2 DEF Events
  <1>4. Events(q) \subseteq Events(r)
    BY <1>1 DEF Events
  <1>5. m = "event" => n \in Events(r)
    BY <1>1, <1>2 DEF Events
  <1> QED BY <1>3, <1>4, <1>5 DEF r

LEMMA EventsOlder ==
  ASSUME NEW q \in Seq(Letters(Responses, 0 .. MaxEvents))
  PROVE  Events(Older(q)) = Events(q)
  <1>1. /\ DOMAIN Older(q) = DOMAIN q
        /\ \A i \in DOMAIN q : Older(q)[i].msg = q[i].msg /\ Older(q)[i].n = q[i].n
    BY OlderIsSame
  <1> QED BY <1>1 DEF Events

(* What a receive of n messages takes of the events.                        *)
LEMMA EventsTaken ==
  ASSUME TypeOK, DownFits, NEW n \in 1 .. Len(down)
  PROVE  LET first == IF down[1].msg = "event" THEN {down[1].n} ELSE {}
             rest  == Events(SubSeq(down, 2, n))
             later == Events(SubSeq(down, n + 1, Len(down)))
         IN /\ Events(down) = first \cup rest \cup later
            /\ \A d \in first, e \in rest \cup later : d < e
            /\ \A d \in rest, e \in later : d < e
  <1> DEFINE r == SubSeq(down, 2, n)
             l == SubSeq(down, n + 1, Len(down))
             first == IF down[1].msg = "event" THEN {down[1].n} ELSE {}
  <1>1. down \in Seq(Letters(Responses, 0 .. MaxEvents))
    BY Wires
  <1>2. /\ DOMAIN down \subseteq Nat \ {0} /\ 1 \in DOMAIN down
        /\ n \in Nat \ {0}
    BY <1>1
  <1>3. /\ \A i \in DOMAIN r : i + 1 \in DOMAIN down /\ i + 1 <= n /\ r[i] = down[i + 1]
        /\ \A i \in DOMAIN down : 1 < i /\ i <= n => i - 1 \in DOMAIN r /\ r[i - 1] = down[i]
        /\ DOMAIN r \subseteq Nat \ {0}
    BY <1>1, Rest
  <1>4. /\ \A i \in DOMAIN l : i + n \in DOMAIN down /\ l[i] = down[i + n]
        /\ \A i \in DOMAIN down : i > n => i - n \in DOMAIN l
        /\ DOMAIN l \subseteq Nat \ {0}
    BY <1>1, Later
  <1> HIDE DEF r, l
  <1>5. \A e \in Events(r) : \E i \in DOMAIN down :
          1 < i /\ i <= n /\ down[i].msg = "event" /\ down[i].n = e
    <2> SUFFICES ASSUME NEW e \in Events(r)
                 PROVE  \E i \in DOMAIN down :
                          1 < i /\ i <= n /\ down[i].msg = "event" /\ down[i].n = e
      OBVIOUS
    <2>1. PICK j \in DOMAIN r : r[j].msg = "event" /\ r[j].n = e
      BY DEF Events
    <2> QED BY <1>3, <2>1
  <1>6. \A e \in Events(l) : \E i \in DOMAIN down :
          n < i /\ down[i].msg = "event" /\ down[i].n = e
    <2> SUFFICES ASSUME NEW e \in Events(l)
                 PROVE  \E i \in DOMAIN down : n < i /\ down[i].msg = "event" /\ down[i].n = e
      OBVIOUS
    <2>1. PICK j \in DOMAIN l : l[j].msg = "event" /\ l[j].n = e
      BY DEF Events
    <2>2. j \in Nat \ {0} /\ j + n \in DOMAIN down /\ l[j] = down[j + n] /\ n < j + n
      BY <1>2, <1>4
    <2> QED BY <2>1, <2>2
  <1>7. \A e \in first : down[1].msg = "event" /\ down[1].n = e
    OBVIOUS
  <1>8. ASSUME NEW i \in DOMAIN down, down[i].msg = "event"
        PROVE  down[i].n \in first \cup Events(r) \cup Events(l)
    <2>1. CASE i = 1
      BY <1>8, <2>1
    <2>2. CASE 1 < i /\ i <= n
      <3>1. i - 1 \in DOMAIN r /\ r[i - 1] = down[i]
        BY <1>3, <2>2
      <3> QED BY <1>8, <3>1 DEF Events
    <2>3. CASE n < i
      <3>1. i - n \in DOMAIN l /\ l[i - n] = down[i]
        <4>1. i - n \in DOMAIN l /\ (i - n) + n = i
          BY <1>2, <1>4, <2>3
        <4> QED BY <1>4, <4>1
      <3> QED BY <1>8, <3>1 DEF Events
    <2> QED BY <1>2, <2>1, <2>2, <2>3
  <1> HIDE DEF first
  <1>9. Events(down) = first \cup Events(r) \cup Events(l)
    <2>1. Events(down) \subseteq first \cup Events(r) \cup Events(l)
      BY <1>8 DEF Events
    <2>2. first \cup Events(r) \cup Events(l) \subseteq Events(down)
      <3>1. \A e \in first \cup Events(r) \cup Events(l) :
              \E i \in DOMAIN down : down[i].msg = "event" /\ down[i].n = e
        BY <1>2, <1>5, <1>6, <1>7
      <3> QED BY <3>1 DEF Events
    <2> QED BY <2>1, <2>2
  <1>10. \A i, j \in DOMAIN down :
           i < j /\ down[i].msg = "event" /\ down[j].msg = "event" => down[i].n < down[j].n
    BY DEF DownFits
  <1>11. \A d \in first, e \in Events(r) \cup Events(l) : d < e
    <2> SUFFICES ASSUME NEW d \in first, NEW e \in Events(r) \cup Events(l) PROVE d < e
      OBVIOUS
    <2>1. PICK i \in DOMAIN down : 1 < i /\ down[i].msg = "event" /\ down[i].n = e
      BY <1>2, <1>5, <1>6
    <2> QED BY <1>2, <1>7, <1>10, <2>1
  <1>12. \A d \in Events(r), e \in Events(l) : d < e
    <2> SUFFICES ASSUME NEW d \in Events(r), NEW e \in Events(l) PROVE d < e
      OBVIOUS
    <2>1. PICK i \in DOMAIN down : i <= n /\ down[i].msg = "event" /\ down[i].n = d
      BY <1>5
    <2>2. PICK j \in DOMAIN down : n < j /\ down[j].msg = "event" /\ down[j].n = e
      BY <1>6
    <2> QED BY <1>2, <1>10, <2>1, <2>2
  <1> QED BY <1>9, <1>11, <1>12 DEF first, r, l

(* EventsAccounted, of the sets it is about.                                *)
Balanced(s, e, u, b, g, n) ==
  /\ 1 .. n = u \cup s \cup e \cup b \cup g
  /\ (s \cup e) \cap (u \cup b \cup g) = {}
  /\ \A d \in s, f \in e : d < f

Ordered(q) == \A i, j \in DOMAIN q : i < j => q[i] < q[j]

LEMMA AccountedParts ==
  EventsAccounted <=> Ordered(shown) /\ Balanced(Seen, Events(down), unsent, behind, gone, raised)
  BY DEF EventsAccounted, Ordered, Balanced, Seen

LEMMA AccountedStep ==
  TypeOK /\ Fresh /\ DownFits /\ Quiet /\ EventsAccounted /\ [Next]_vars => EventsAccounted'
  <1> SUFFICES ASSUME TypeOK, Fresh, DownFits, Quiet, EventsAccounted, [Next]_vars
               PROVE  EventsAccounted'
    OBVIOUS
  <1>1. Ordered(shown) /\ Balanced(Seen, Events(down), unsent, behind, gone, raised)
    BY AccountedParts
  <1>2. /\ down \in Seq(Letters(Responses, 0 .. MaxEvents))
        /\ raised \in 0 .. MaxEvents /\ shown \in Seq(1 .. MaxEvents)
    BY Wires DEF TypeOK
  <1>3. SUFFICES Ordered(shown') /\ Balanced(Seen', Events(down'), unsent', behind', gone', raised')
    BY DEF EventsAccounted, Ordered, Balanced, Seen, Events
  (* Nothing but what is on its way, which may be lost.                     *)
  <1>4. ASSUME UNCHANGED <<shown, unsent, behind, raised>>,
               \/ Events(down') = Events(down) /\ gone' = gone
               \/ down' = <<>> /\ gone' = gone \cup Events(down)
        PROVE  Ordered(shown') /\ Balanced(Seen', Events(down'), unsent', behind', gone', raised')
    <2>1. Seen' = Seen
      BY <1>4 DEF Seen
    <2> QED BY <1>1, <1>4, <2>1, NoEvents DEF Balanced
  <1> USE DEF client, wires, server, history
  <1>5. CASE OnInitDialog
    <2>1. down = <<>> /\ down' = <<>>
      BY <1>5 DEF OnInitDialog, Connect, Fresh
    <2> QED BY <1>4, <1>5, <2>1 DEF OnInitDialog
  <1>6. CASE OnConnect \/ Refused \/ OnClose \/ OnDestroy \/ ConnectionDies
    BY <1>4, <1>6 DEF OnConnect, Refused, OnClose, OnDestroy, ConnectionDies
  <1>7. CASE OnTimer
    <2>1. UNCHANGED <<shown, unsent, behind, raised>>
      BY <1>7 DEF OnTimer
    <2>2. \/ down' = down /\ gone' = gone
          \/ down = <<>> /\ down' = <<>> /\ gone' = gone
          \/ down' = <<>> /\ gone' = gone \cup Events(down)
      BY <1>7 DEF OnTimer, GFSProcessRequestKeepAlive, Send, Connect, PostSend, Destroy, Quiet
    <2> QED BY <1>4, <2>1, <2>2
  <1>8. CASE CheckKeepAliveGFSClients \/ ConnectionCut
    BY <1>4, <1>8 DEF CheckKeepAliveGFSClients, ConnectionCut, Cut
  <1>9. CASE ServerRecv
    <2> DEFINE m == Response(Head(up).msg)
    <2>1. /\ UNCHANGED <<shown, unsent, behind, raised, gone>>
          /\ down' = Append(down, Message(m, 0))
      BY <1>9 DEF ServerRecv
    <2>2. m \in Responses /\ m # "event" /\ 0 \in 0 .. MaxEvents
      BY Bounds, ResponseTypes
    <2> HIDE DEF m
    <2>3. Events(down') = Events(down)
      <3>1. Events(Append(down, Message(m, 0))) = Events(down) \cup IF m = "event" THEN {0} ELSE {}
        BY <1>2, <2>2, EventsAppended
      <3> QED BY <2>1, <2>2, <3>1
    <2> QED BY <1>4, <2>1, <2>3
  <1>10. CASE Tick
    <2>1. UNCHANGED <<shown, unsent, behind, raised, gone>> /\ down' = Older(down)
      BY <1>10 DEF Tick
    <2> QED BY <1>2, <1>4, <2>1, EventsOlder
  <1>11. CASE SendAll
    <2>1. UNCHANGED <<shown, behind>> /\ raised' = raised + 1 /\ raised < MaxEvents
      BY <1>11 DEF SendAll
    <2>2. Seen' = Seen
      BY <2>1 DEF Seen
    <2>3. 1 .. raised' = (1 .. raised) \cup {raised'} /\ \A e \in 1 .. raised : e < raised'
      BY <1>2, <2>1, Bounds
    <2>4. Seen \subseteq 1 .. raised /\ Events(down) \subseteq 1 .. raised
      BY <1>1 DEF Balanced
    <2>5. \/ unsent' = unsent \cup {raised'} /\ UNCHANGED <<down, gone>>
          \/ gone' = gone \cup {raised'} /\ UNCHANGED <<down, unsent>>
          \/ down' = Append(down, Message("event", raised')) /\ UNCHANGED <<unsent, gone>>
      BY <1>11 DEF SendAll
    <2>6. CASE down' = Append(down, Message("event", raised')) /\ UNCHANGED <<unsent, gone>>
      <3>1. raised' \in 0 .. MaxEvents /\ "event" \in Responses
        BY <1>2, <2>1, Bounds DEF Responses
      <3>2. Events(down') = Events(down) \cup {raised'}
        BY <1>2, <2>6, <3>1, EventsAppended
      <3>3. raised' \notin unsent \cup behind \cup gone
        <4>1. unsent \cup behind \cup gone \subseteq 1 .. raised
          BY <1>1 DEF Balanced
        <4> QED BY <1>2, <2>1, <4>1
      <3> QED BY <1>1, <2>1, <2>2, <2>3, <2>4, <2>6, <3>2, <3>3 DEF Balanced
    <2>7. raised' \notin Seen \cup Events(down)
      BY <1>2, <2>1, <2>4
    <2>8. CASE unsent' = unsent \cup {raised'} /\ UNCHANGED <<down, gone>>
      BY <1>1, <2>1, <2>2, <2>3, <2>7, <2>8 DEF Balanced
    <2>9. CASE gone' = gone \cup {raised'} /\ UNCHANGED <<down, unsent>>
      BY <1>1, <2>1, <2>2, <2>3, <2>7, <2>9 DEF Balanced
    <2> QED BY <2>5, <2>6, <2>8, <2>9
  <1>12. ASSUME NEW n \in 1 .. Len(down), OnRecv(n)
         PROVE  Ordered(shown') /\ Balanced(Seen', Events(down'), unsent', behind', gone', raised')
    <2> DEFINE first == IF down[1].msg = "event" THEN {down[1].n} ELSE {}
               rest  == Events(SubSeq(down, 2, n))
               later == Events(SubSeq(down, n + 1, Len(down)))
    <2>1. /\ Events(down) = first \cup rest \cup later
          /\ \A d \in first, e \in rest \cup later : d < e
          /\ \A d \in rest, e \in later : d < e
      BY EventsTaken
    <2>2. Head(down) = down[1] /\ 1 \in DOMAIN down
      BY <1>2
    <2>3. /\ UNCHANGED <<unsent, gone, raised>>
          /\ Events(down') = later /\ behind' = behind \cup rest
          /\ shown' = IF down[1].msg = "event" THEN Append(shown, down[1].n) ELSE shown
      BY <1>12, <2>2 DEF OnRecv, LooksAt, GFSProcessEvent
    <2>4. Events(down) \subseteq 1 .. raised
      BY <1>1 DEF Balanced
    <2>5. Ordered(shown') /\ Seen' = Seen \cup first
      <3>1. CASE down[1].msg = "event"
        <4> DEFINE e == down[1].n
        <4>1. e \in first /\ first = {e} /\ shown' = Append(shown, e)
          BY <2>3, <3>1
        <4>2. e \in 1 .. raised /\ \A d \in Seen : d < e
          BY <1>1, <2>1, <2>4, <4>1 DEF Balanced
        <4> HIDE DEF e, first
        <4>3. /\ Len(shown) \in Nat /\ DOMAIN shown = 1 .. Len(shown)
              /\ DOMAIN shown' = 1 .. Len(shown) + 1
              /\ \A i \in 1 .. Len(shown) : shown'[i] = shown[i]
              /\ shown'[Len(shown) + 1] = e
          BY <1>2, <4>1, <4>2
        <4>4. \A i \in DOMAIN shown : shown[i] < e
          BY <4>2 DEF Seen
        <4>5. Ordered(shown')
          BY <1>1, <4>3, <4>4 DEF Ordered
        <4>6. Seen' = Seen \cup {e}
          BY <4>3 DEF Seen
        <4> QED BY <4>1, <4>5, <4>6
      <3>2. CASE down[1].msg # "event"
        BY <1>1, <2>3, <3>2 DEF Seen
      <3> QED BY <3>1, <3>2
    <2> HIDE DEF first, rest, later
    <2>6. first \cup rest \cup later \subseteq Nat
      BY <1>2, <2>1, <2>4
    <2>7. rest \cap (first \cup later) = {} /\ rest \cap Seen = {}
      <3>1. \A d \in Seen, e \in rest : d < e
        BY <1>1, <2>1 DEF Balanced
      <3>2. Seen \subseteq Nat
        BY <1>1, <1>2 DEF Balanced
      <3> QED BY <2>1, <2>6, <3>1, <3>2
    <2> QED BY <1>1, <2>1, <2>3, <2>5, <2>7 DEF Balanced
  <1>13. CASE UNCHANGED vars
    BY <1>4, <1>13 DEF vars
  <1> QED BY <1>5, <1>6, <1>7, <1>8, <1>9, <1>10, <1>11, <1>12, <1>13
        DEF Next, ClientStep, ServerStep, Network

(* The inductive invariant.                                                 *)
IInv == TypeOK /\ Fresh /\ DownFits /\ InTurn /\ Quiet /\ EventsAccounted

LEMMA Inductive == Spec => []IInv
  <1>1. Init => IInv
    <2> SUFFICES ASSUME Init PROVE IInv
      OBVIOUS
    <2>1. Fresh /\ DownFits /\ InTurn /\ Quiet
      BY DEF Init, Fresh, DownFits, InTurn, Sound, Has, Quiet
    <2>2. EventsAccounted
      BY DEF Init, EventsAccounted, Events
    <2> QED BY <2>1, <2>2, TypesInit DEF IInv
  <1>2. IInv /\ [Next]_vars => IInv'
    BY TypesStep, FreshStep, DownStep, TurnStep, QuietStep, AccountedStep DEF IInv
  <1> QED BY <1>1, <1>2, PTL DEF Spec

-----------------------------------------------------------------------------
(* The theorems                                                             *)

(* Every variable keeps to its type: no message is older than Delay, and no *)
(* timer later than Slack.                                                  *)
THEOREM TypeCorrect == Spec => []TypeOK
  BY Inductive, PTL DEF IInv

(* Every event raised while the client is logged in is shown, once and in   *)
(* order, unless it was behind another message or the connection was lost.  *)
THEOREM EventsAreAccounted == Spec => []EventsAccounted
  BY Inductive, PTL DEF IInv

(* A client with the right ID and password ends only after a failure, when  *)
(* the server has dropped it, a response was behind another message, or its *)
(* timer is late: a request is answered before the next timer.              *)
THEOREM ClientEndsForCause == Spec => EndsForCause
  <1> DEFINE Step == proc = "up" /\ proc' # "up" =>
               setup = "wrong" \/ faults > 0 \/ dropped \/ unheard \/ timer < 0
  <1>1. IInv /\ [Next]_vars => [Step]_vars
    <2> SUFFICES ASSUME IInv, Next, proc = "up", proc' # "up", setup # "wrong",
                        ~(faults > 0), ~dropped, ~unheard, ~(timer < 0)
                 PROVE  FALSE
      BY DEF Step
    <2>1. setup = "right" /\ TypeOK
      BY DEF IInv, TypeOK, Fresh
    <2>2. Turns
      <3>1. faults = 0
        BY <2>1, Bounds DEF TypeOK
      <3> QED BY <3>1 DEF IInv, InTurn, Sound, Turns
    <2>3. OnTimer \/ \E n \in 1 .. Len(down) : OnRecv(n)
      BY DEF Next, ClientStep, ServerStep, Network, OnInitDialog, OnConnect, OnClose, OnDestroy,
        ServerRecv, CheckKeepAliveGFSClients, SendAll, Refused, ConnectionCut, ConnectionDies, Tick
    <2>4. CASE OnTimer
      <3>1. timer = 0 /\ IsLate
        BY <2>1, <2>4, Numbers DEF OnTimer
      <3>2. ~Has(up, "keepAlive") /\ ~Has(down, "keepAliveResponse")
        BY <2>1, <2>2, <3>1, Numbers, Ages DEF Turns, AskedLately, AnsweredLately, Has, Elapsed
      <3>3. age <= Period + Period
        BY <2>1, <2>2, <3>1, <3>2, Numbers DEF Turns, AgeFits, Elapsed
      <3> QED BY <2>1, <3>1, <3>3, Numbers DEF IsLate
    <2>5. ASSUME NEW n \in 1 .. Len(down), OnRecv(n) PROVE FALSE
      <3>1. 1 \in DOMAIN down /\ Head(down) = down[1]
        BY <2>1, Wires
      <3>2. down[1].msg = "error"
        BY <2>5, <3>1 DEF OnRecv, GFSProcessError, LooksAt
      <3> QED BY <2>1, <3>1, <3>2 DEF IInv, DownFits, Has
    <2> QED BY <2>3, <2>4, <2>5
  <1> QED BY <1>1, Inductive, PTL DEF Spec, EndsForCause

(* While nothing fails, the server drops a client only when its keep-alive  *)
(* is due or on its way: the client is heard at every second timer.         *)
THEOREM ServerDropsForCause == Spec => DroppedForCause
  <1> DEFINE Step == dropped' /\ ~dropped /\ faults = 0 =>
               timer <= 0 \/ \E i \in DOMAIN up : up[i].msg = "keepAlive"
  <1>1. IInv /\ [Next]_vars => [Step]_vars
    <2> SUFFICES ASSUME IInv, Next, dropped', ~dropped, faults = 0, timer > 0,
                        ~Has(up, "keepAlive")
                 PROVE  FALSE
      BY Numbers DEF Step, Has, IInv
    <2>1. CheckKeepAliveGFSClients
      BY DEF Next, ClientStep, ServerStep, Network, OnInitDialog, OnConnect, OnClose, OnDestroy,
        OnTimer, OnRecv, ServerRecv, SendAll, Refused, ConnectionCut, ConnectionDies, Tick, history
    <2>2. Overdue /\ proc = "up"
      BY <2>1 DEF CheckKeepAliveGFSClients
    <2>3. Turns /\ TypeOK
      BY <2>2 DEF IInv, InTurn, Sound, Turns
    <2>4. silence <= Elapsed + Period
      BY <2>3, Numbers DEF Turns, HeardLately, Elapsed
    <2> QED BY <2>2, <2>3, <2>4, Numbers DEF Overdue, Elapsed
  <1> QED BY <1>1, Inductive, PTL DEF Spec, DroppedForCause
=============================================================================
