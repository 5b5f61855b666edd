----------------------------- MODULE GFSServer -----------------------------
(***************************************************************************)
(* The server that relays events to GFS clients (GFSServer/Server.cpp,     *)
(* Client.cpp, Server_Process.cpp): overlapped accepts, receives and       *)
(* sends whose completions run on a thread pool, and work handed on to     *)
(* other pool threads as plain Client pointers.                            *)
(*                                                                         *)
(* A Client object comes from a memory pool and goes back to it, so the    *)
(* work that still waits for an object may find it serving another         *)
(* connection.  gen is the number of the connection an object serves; the  *)
(* program has no such number, and only history uses it here.  What runs   *)
(* under m_CSForClients is one step.  A send or a receive fails only after *)
(* the peer has closed the connection.                                     *)
(***************************************************************************)
EXTENDS Integers, FiniteSets

CONSTANTS
  Clients,         \* the objects of the pool
  m_MaxPostAccept, \* accepts the server keeps posted
  Requests,        \* of "login", "refused" and "keepAlive", what peers send
  MaxConnections   \* bound: connections, in progress and ended

ASSUME ClientsAssumption == IsFiniteSet(Clients)
ASSUME MaxPostAcceptAssumption == m_MaxPostAccept \in Nat \ {0}
ASSUME MaxConnectionsAssumption == MaxConnections \in Nat
ASSUME RequestsAssumption == Requests \subseteq {"login", "refused", "keepAlive"}

VARIABLES
  m_NumPostAccept,  \* the server's count of posted accepts
  todo, posted,     \* PostAccept: accepts left to post, and i
  accepts,          \* objects an AcceptEx is outstanding for
  free,             \* objects in the pool
  connections,      \* the connections there have been, posted ones too
  gen,              \* the number of the connection of each object
  socket,           \* objects with a valid m_Socket
  m_State,
  m_dwLastRecv,     \* "never" (0), "lately", "late": as CheckKeepAlive sees it
  m_Clients,
  gone,             \* objects whose peer has closed the connection
  recv,             \* objects: no receive, one posted, or OnRecv running
  sends,            \* objects with sends outstanding
  tasks,            \* callbacks submitted to the thread pool
  fault,            \* what ended the program, "none" while it runs
  \* history, read by no action of the program:
  failed,           \* accepts that completed with an error
  late,             \* CheckKeepAliveGFSClients has destroyed a client
  mixed,            \* work left by a connection was done on a later one
  own               \* connections that sent a valid login themselves

acceptVars  == <<m_NumPostAccept, todo, posted, connections>>
historyVars == <<failed, late, mixed, own>>
vars == <<acceptVars, accepts, free, gen, socket, m_State, m_dwLastRecv,
          m_Clients, gone, recv, sends, tasks, fault, historyVars>>

Init ==
  /\ m_NumPostAccept = 0 /\ todo = 0 /\ posted = 0
  /\ accepts = {} /\ free = Clients
  /\ connections = 0 /\ gen = [c \in Clients |-> 0]
  /\ socket = {}
  /\ m_State = [c \in Clients |-> "WAIT"]
  /\ m_dwLastRecv = [c \in Clients |-> "never"]
  /\ m_Clients = {} /\ gone = {}
  /\ recv = [c \in Clients |-> "none"]
  /\ sends = {} /\ tasks = {}
  /\ fault = "none"
  /\ failed = 0 /\ late = FALSE /\ mixed = FALSE /\ own = {}

Runs == fault = "none"

(* The WorkerRemoveClient that OnClose submits for an operation of c.       *)
Close(c, op) == [op |-> "remove", client |-> c, gen |-> gen[c], from |-> op]

(* A task works on a connection other than the one it was submitted for.    *)
Misses(t) == t.client \in m_Clients /\ t.gen # gen[t.client]

(* Client::Destroy of the objects S, of which L leave m_Clients; the tasks  *)
(* left are T.  Closing a socket ends what is outstanding on it, and the    *)
(* callbacks that are not cancelled submit a WorkerRemoveClient: those of   *)
(* OnRecv and of an accept are never cancelled here.  A second Destroy      *)
(* works on memory that is in the pool.                                     *)
Destroy(S, L, T) ==
  /\ free' = free \cup S
  /\ socket' = socket \ S
  /\ m_State' = [c \in Clients |->
                   IF c \in S \cap socket THEN "DISCONNECTED" ELSE m_State[c]]
  /\ m_Clients' = m_Clients \ L
  /\ recv' = [c \in Clients |-> IF c \in S THEN "none" ELSE recv[c]]
  /\ accepts' = accepts \ S
  /\ failed' = failed + Cardinality(accepts \cap S)
  /\ \E run \in SUBSET ({<<c, "RECV">> : c \in {d \in S : recv[d] = "posted"}}
                          \cup {<<c, "SEND">> : c \in S \cap sends}) :
       tasks' = T \cup {Close(e[1], e[2]) : e \in run}
                  \cup {Close(c, "RECV") : c \in {d \in S : recv[d] = "called"}}
                  \cup {Close(c, "ACCEPT") : c \in S \cap accepts}
  /\ fault' = IF S \subseteq socket THEN "none" ELSE "destroyed twice"

(* PostSend to c, one of m_Clients and now in the state s, with the tasks   *)
(* left T: the send is outstanding, or fails at once and the client is      *)
(* removed.                                                                 *)
PostSend(c, s, T) ==
  \/ /\ sends' = sends \cup {c}
     /\ m_State' = [m_State EXCEPT ![c] = s]
     /\ tasks' = T
     /\ fault' = IF c \in socket THEN "none" ELSE "freed"
     /\ UNCHANGED <<accepts, failed, free, socket, m_Clients, recv>>
  \/ /\ c \in gone \cap socket
     /\ sends' = sends \ {c}
     /\ Destroy({c}, {c}, T)

-----------------------------------------------------------------------------
(* WorkerPostAccept                                                         *)

(* Mutant: i is taken for posted even when fewer are.                       *)
PostAcceptAll ==
  /\ Runs
  /\ todo = 0 /\ posted = 0
  /\ todo' = m_MaxPostAccept
  /\ todo' > 0
  /\ UNCHANGED <<m_NumPostAccept, posted, connections, accepts, free, gen, socket, m_State,
                 m_dwLastRecv, m_Clients, gone, recv, sends, tasks, fault,
                 historyVars>>

(* count is what is missing when PostAccept looks.                          *)
PostAccept ==
  /\ Runs
  /\ todo = 0 /\ posted = 0
  /\ todo' = m_MaxPostAccept - m_NumPostAccept
  /\ todo' > 0
  /\ UNCHANGED <<m_NumPostAccept, posted, connections, accepts, free, gen, socket, m_State,
                 m_dwLastRecv, m_Clients, gone, recv, sends, tasks, fault,
                 historyVars>>

(* One more turn of the loop: Client::Create and AcceptEx.  m_dwLastRecv    *)
(* and m_pTPIO are what the memory holds.                                   *)
PostOne ==
  /\ Runs
  /\ todo > 0
  /\ connections < MaxConnections
  /\ connections' = connections + 1
  /\ \E c \in free :
       /\ free' = free \ {c}
       /\ gen' = [gen EXCEPT ![c] = connections']
       /\ socket' = socket \cup {c}
       /\ m_State' = [m_State EXCEPT ![c] = "WAIT"]
       /\ gone' = gone \ {c}
       /\ accepts' = accepts \cup {c}
  /\ todo' = todo - 1
  /\ posted' = posted + 1
  /\ UNCHANGED <<m_NumPostAccept, m_dwLastRecv, m_Clients, recv, sends, tasks,
                 fault, historyVars>>

(* AcceptEx fails at once.  Client::Destroy then closes m_pTPIO, which      *)
(* nobody has set: the pool keeps its link to the next free object there.   *)
PostFails ==
  /\ Runs
  /\ todo > 0
  /\ \E c \in free : fault' = IF free = {c} THEN "none" ELSE "uninitialized"
  /\ todo' = 0
  /\ UNCHANGED <<m_NumPostAccept, posted, connections, accepts, free, gen, socket, m_State,
                 m_dwLastRecv, m_Clients, gone, recv, sends, tasks, historyVars>>

(* Mutant: i is counted again in the next round.                            *)
PostDoneAgain ==
  /\ Runs
  /\ todo > 0 \/ posted > 0
  /\ m_NumPostAccept' = m_NumPostAccept + posted
  /\ todo' = 0
  /\ UNCHANGED <<posted, connections, accepts, free, gen, socket, m_State, m_dwLastRecv,
                 m_Clients, gone, recv, sends, tasks, fault, historyVars>>

(* The loop ends, early when Client::Create gets no memory or no socket,    *)
(* and the accepts it has posted are counted only now.                      *)
PostDone ==
  /\ Runs
  /\ todo > 0 \/ posted > 0
  /\ m_NumPostAccept' = m_NumPostAccept + posted
  /\ todo' = 0 /\ posted' = 0
  /\ UNCHANGED <<connections, accepts, free, gen, socket, m_State, m_dwLastRecv,
                 m_Clients, gone, recv, sends, tasks, fault, historyVars>>

-----------------------------------------------------------------------------
(* IoCompletionCallback                                                     *)

OnAccept(c) ==
  /\ Runs
  /\ c \in accepts
  /\ accepts' = accepts \ {c}
  /\ m_NumPostAccept' = m_NumPostAccept - 1
  /\ tasks' = tasks \cup {[op |-> "add", client |-> c, gen |-> gen[c],
                           from |-> "ACCEPT"]}
  /\ UNCHANGED <<todo, posted, connections, free, gen, socket, m_State, m_dwLastRecv,
                 m_Clients, gone, recv, sends, fault, historyVars>>

(* An accept that completes with an error is closed, and stays counted.     *)
AcceptError(c) ==
  /\ Runs
  /\ c \in accepts
  /\ accepts' = accepts \ {c}
  /\ tasks' = tasks \cup {Close(c, "ACCEPT")}
  /\ failed' = failed + 1
  /\ UNCHANGED <<acceptVars, free, gen, socket, m_State, m_dwLastRecv,
                 m_Clients, gone, recv, sends, fault, late, mixed, own>>

(* OnRecv up to its PostRecv: the bytes are kept, and whole packets become  *)
(* tasks.  A login has the right ID and password, a refused one has not.    *)
(* Bound: one packet of a connection waits for its task.                    *)
OnRecv(c) ==
  /\ Runs
  /\ recv[c] = "posted" /\ c \notin gone
  /\ recv' = [recv EXCEPT ![c] = "called"]
  /\ m_dwLastRecv' = [m_dwLastRecv EXCEPT ![c] = "lately"]
  /\ \/ UNCHANGED <<tasks, own>>
     \/ \E op \in Requests :
          /\ \A t \in tasks : <<t.client, t.gen>> = <<c, gen[c]>> => t.op \notin Requests
          /\ tasks' = tasks \cup {[op |-> op, client |-> c, gen |-> gen[c],
                                   from |-> "RECV"]}
          /\ own' = IF op = "login" THEN own \cup {gen[c]} ELSE own
  /\ UNCHANGED <<acceptVars, accepts, free, gen, socket, m_State, m_Clients,
                 gone, sends, fault, failed, late, mixed>>

(* Every way out of OnRecv ends with PostRecv, which may fail at once.      *)
PostRecv(c) ==
  /\ Runs
  /\ recv[c] = "called"
  /\ \/ recv' = [recv EXCEPT ![c] = "posted"] /\ UNCHANGED tasks
     \/ /\ c \in gone
        /\ recv' = [recv EXCEPT ![c] = "none"]
        /\ tasks' = tasks \cup {Close(c, "RECV")}
  /\ UNCHANGED <<acceptVars, accepts, free, gen, socket, m_State, m_dwLastRecv,
                 m_Clients, gone, sends, fault, historyVars>>

(* Mutant: no removal is submitted.                                         *)
RecvClosedQuietly(c) ==
  /\ Runs
  /\ recv[c] = "posted" /\ c \in gone
  /\ recv' = [recv EXCEPT ![c] = "none"]
  /\ UNCHANGED <<acceptVars, accepts, free, gen, socket, m_State, m_dwLastRecv,
                 m_Clients, gone, sends, tasks, fault, historyVars>>

(* A receive completes with an error or no bytes: OnClose.                  *)
RecvClosed(c) ==
  /\ Runs
  /\ recv[c] = "posted" /\ c \in gone
  /\ recv' = [recv EXCEPT ![c] = "none"]
  /\ tasks' = tasks \cup {Close(c, "RECV")}
  /\ UNCHANGED <<acceptVars, accepts, free, gen, socket, m_State, m_dwLastRecv,
                 m_Clients, gone, sends, fault, historyVars>>

(* A send completes; with an error it is closed too.                        *)
OnSend(c) ==
  /\ Runs
  /\ c \in sends
  /\ sends' = sends \ {c}
  /\ tasks' = IF c \in gone THEN tasks \cup {Close(c, "SEND")} ELSE tasks
  /\ UNCHANGED <<acceptVars, accepts, free, gen, socket, m_State, m_dwLastRecv,
                 m_Clients, gone, recv, fault, historyVars>>

(* The peer closes the connection.                                          *)
PeerCloses(c) ==
  /\ Runs
  /\ c \in socket \ (accepts \cup gone)
  /\ gone' = gone \cup {c}
  /\ UNCHANGED <<acceptVars, accepts, free, gen, socket, m_State, m_dwLastRecv,
                 m_Clients, recv, sends, tasks, fault, historyVars>>

-----------------------------------------------------------------------------
(* The submitted callbacks                                                  *)

(* Where AddClient fails, RemoveClient finds nothing in m_Clients to remove *)
(* and the object is lost.  The receive it posts may fail at once.          *)
AddClient(t) ==
  /\ Runs
  /\ t \in tasks /\ t.op = "add"
  /\ LET c == t.client
     IN \/ /\ m_State' = [m_State EXCEPT ![c] = "ACCEPTED"]
           /\ m_dwLastRecv' = [m_dwLastRecv EXCEPT ![c] = "never"]
           /\ m_Clients' = m_Clients \cup {c}
           /\ \/ /\ recv' = [recv EXCEPT ![c] = "posted"]
                 /\ tasks' = tasks \ {t}
              \/ /\ c \in gone
                 /\ tasks' = (tasks \ {t}) \cup {Close(c, "RECV")}
                 /\ UNCHANGED recv
        \/ /\ m_State' \in {m_State, [m_State EXCEPT ![c] = "ACCEPTED"]}
           /\ tasks' = tasks \ {t}
           /\ UNCHANGED <<m_dwLastRecv, m_Clients, recv>>
  /\ UNCHANGED <<acceptVars, accepts, free, gen, socket, gone, sends, fault,
                 historyVars>>

(* Mutant: the object goes back to the pool and stays in m_Clients.         *)
RemoveClientKept(t) ==
  /\ Runs
  /\ t \in tasks /\ t.op = "remove"
  /\ IF t.client \in m_Clients
       THEN /\ Destroy({t.client}, {}, tasks \ {t})
            /\ sends' = sends \ {t.client}
       ELSE /\ tasks' = tasks \ {t}
            /\ UNCHANGED <<accepts, free, socket, m_State, m_Clients, recv,
                           sends, fault, failed>>
  /\ mixed' = (mixed \/ Misses(t))
  /\ UNCHANGED <<acceptVars, gen, m_dwLastRecv, gone, late, own>>

RemoveClient(t) ==
  /\ Runs
  /\ t \in tasks /\ t.op = "remove"
  /\ IF t.client \in m_Clients
       THEN /\ Destroy({t.client}, {t.client}, tasks \ {t})
            /\ sends' = sends \ {t.client}
       ELSE /\ tasks' = tasks \ {t}
            /\ UNCHANGED <<accepts, free, socket, m_State, m_Clients, recv,
                           sends, fault, failed>>
  /\ mixed' = (mixed \/ Misses(t))
  /\ UNCHANGED <<acceptVars, gen, m_dwLastRecv, gone, late, own>>

(* Mutant: a keep-alive counts as a login.                                  *)
LogsInAny(t) == TRUE

LogsIn(t) == t.op = "login"

(* WorkerProcessRecvPacket: SendAndSetLoggedInState for a login, Send for   *)
(* the rest; neither does a thing when the sender is not in m_Clients.      *)
Answer(t) ==
  /\ Runs
  /\ t \in tasks /\ t.op \in Requests
  /\ IF t.client \in m_Clients
       THEN PostSend(t.client,
                     IF LogsIn(t) THEN "LOGGED_IN" ELSE m_State[t.client],
                     tasks \ {t})
       ELSE /\ tasks' = tasks \ {t}
            /\ UNCHANGED <<accepts, free, socket, m_State, m_Clients, recv,
                           sends, fault, failed>>
  /\ mixed' = (mixed \/ Misses(t))
  /\ UNCHANGED <<acceptVars, gen, m_dwLastRecv, gone, late, own>>

-----------------------------------------------------------------------------
(* The sending thread and the timer                                         *)

(* ProcessGFSProtocolUnSolicitedEvent: an event goes to every client logged *)
(* in.  A send that fails (bound: one in a round) takes its client out of   *)
(* the vector that is being walked: the client behind it is passed over,    *)
(* and with none behind it the walk leaves the vector.                      *)
SendAll ==
  /\ Runs
  /\ LET to == {c \in m_Clients : m_State[c] = "LOGGED_IN"}
     IN /\ to # {}
        /\ \/ /\ sends' = sends \cup to
              /\ fault' = IF to \subseteq socket THEN "none" ELSE "freed"
              /\ UNCHANGED <<accepts, failed, free, socket, m_State, m_Clients,
                             recv, tasks>>
           \/ \E c \in to \cap gone \cap socket, next \in m_Clients :
                /\ next # c
                /\ sends' = (sends \cup to) \ ({c} \cup ({next} \ sends))
                /\ Destroy({c}, {c}, tasks)
           \/ /\ to \cap gone # {}
              /\ fault' = "past the end"
              /\ UNCHANGED <<accepts, failed, free, socket, m_State, m_Clients,
                             recv, sends, tasks>>
  /\ UNCHANGED <<acceptVars, gen, m_dwLastRecv, gone, late, mixed, own>>

Silent(c) == m_dwLastRecv[c] = "late"

(* Mutant: a client that has not sent a thing yet is overdue.               *)
MayBeOverdueNever(c) == TRUE

(* m_dwLastRecv is not 0, and a time may have passed since.                 *)
MayBeOverdue(c) == m_dwLastRecv[c] # "never"

(* Every client of m_Clients heard of too long ago is destroyed, and stays  *)
(* in m_Clients.  Who was overdue once is until its next receive.           *)
CheckKeepAliveGFSClients ==
  /\ Runs
  /\ \E overdue \in SUBSET {c \in m_Clients : MayBeOverdue(c)} :
       /\ overdue # {}
       /\ {c \in m_Clients : Silent(c)} \subseteq overdue
       /\ m_dwLastRecv' = [c \in Clients |->
                              IF c \in overdue /\ m_dwLastRecv[c] = "lately"
                              THEN "late" ELSE m_dwLastRecv[c]]
       /\ Destroy(overdue, {}, tasks)
       /\ sends' = sends \ overdue
  /\ late' = TRUE
  /\ UNCHANGED <<acceptVars, gen, gone, mixed, own>>

-----------------------------------------------------------------------------
Accepting == PostAccept \/ PostOne \/ PostFails \/ PostDone
Completion(c) ==
  \/ OnAccept(c) \/ AcceptError(c)
  \/ OnRecv(c) \/ PostRecv(c) \/ RecvClosed(c) \/ OnSend(c)
Callback(t) == AddClient(t) \/ RemoveClient(t) \/ Answer(t)

Next ==
  \/ Accepting
  \/ \E c \in Clients : Completion(c)
  \/ \E c \in Clients : PeerCloses(c)
  \/ \E t \in tasks : Callback(t)
  \/ SendAll
  \/ CheckKeepAliveGFSClients

Spec == Init /\ [][Next]_vars

(* Windows completes what is outstanding on a closed connection, and the    *)
(* thread pool comes to every callback and every removal submitted to it.   *)
FairSpec ==
  /\ Spec
  /\ \A c \in Clients :
       /\ WF_vars(PostRecv(c))
       /\ WF_vars(RecvClosed(c))
       /\ WF_vars(\E t \in tasks : t.client = c /\ RemoveClient(t))

-----------------------------------------------------------------------------
Tasks == [op : {"add", "remove"} \cup Requests, client : Clients,
          gen : 0 .. MaxConnections, from : {"ACCEPT", "RECV", "SEND"}]

(* Types; m_NumPostAccept may be below zero, while the accepts that have    *)
(* already completed are still to be counted.                               *)
TypeOK ==
  /\ m_NumPostAccept \in -m_MaxPostAccept .. m_MaxPostAccept
  /\ todo \in Nat /\ posted \in Nat
  /\ {accepts, free, socket, m_Clients, gone, sends} \subseteq SUBSET Clients
  /\ connections \in 0 .. MaxConnections
  /\ gen \in [Clients -> 0 .. MaxConnections]
  /\ m_State \in [Clients -> {"WAIT", "ACCEPTED", "LOGGED_IN", "DISCONNECTED"}]
  /\ m_dwLastRecv \in [Clients -> {"never", "lately", "late"}]
  /\ recv \in [Clients -> {"none", "posted", "called"}]
  /\ tasks \subseteq Tasks
  /\ fault \in {"none", "uninitialized", "freed", "destroyed twice",
                "past the end"}
  /\ failed \in Nat /\ {late, mixed} \subseteq BOOLEAN
  /\ own \subseteq 0 .. MaxConnections

(* Never more than m_MaxPostAccept accepts are outstanding, although they   *)
(* complete and are counted off while PostAccept still posts and has not    *)
(* counted its own.                                                         *)
AcceptsWithinMaximum == Cardinality(accepts) <= m_MaxPostAccept

(* What the server takes for posted is what is outstanding and, for ever,   *)
(* every accept that has failed.                                            *)
SlotsAccounted == m_NumPostAccept + posted = Cardinality(accepts) + failed

AcceptsCounted == SlotsAccounted /\ AcceptsWithinMaximum

(* A client in m_Clients is an object in use with an open socket, and has a *)
(* receive posted or being handled, or its removal is submitted: none goes  *)
(* deaf, as long as CheckKeepAliveGFSClients has destroyed none.            *)
ListedIsServed ==
  ~late =>
    /\ m_Clients \subseteq socket /\ m_Clients \cap (free \cup accepts) = {}
    /\ \A c \in m_Clients :
         recv[c] = "none" => \E t \in tasks : /\ t.op = "remove"
                                             /\ t.client = c
                                             /\ t.gen = gen[c]

(* Only a connection that has sent a valid login gets events, unless what   *)
(* an earlier connection left behind was done on it.                        *)
OwnLogin ==
  \A c \in m_Clients :
    m_State[c] = "LOGGED_IN" => gen[c] \in own \/ mixed

(* The server closes a connection only when its peer has, or when it is     *)
(* overdue, or when it takes it for an earlier one of the same object (or   *)
(* has destroyed an overdue client before, whose object is in use twice).   *)
ClosedForCause ==
  [][\A c \in socket \ socket' : c \in gone \/ Silent(c)' \/ mixed' \/ late]_vars

(* A client whose peer has closed the connection leaves m_Clients.          *)
GoneIsRemoved ==
  \A c \in Clients :
    c \in gone \cap m_Clients ~> c \notin m_Clients \/ late \/ fault # "none"
=============================================================================
