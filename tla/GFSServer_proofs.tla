-------------------------- MODULE GFSServer_proofs --------------------------
(***************************************************************************)
(* For every pool of objects, every maximum of posted accepts and every    *)
(* number of connections: the types, the count of posted accepts, and what *)
(* holds of the clients that are listed.                                   *)
(*                                                                         *)
(* AcceptsWithinMaximum is not inductive: m_NumPostAccept falls behind     *)
(* while PostAccept posts.  What is, is that the count, what the loop has  *)
(* posted and what it still has to post never exceed the maximum, and that *)
(* the first two are the accepts outstanding and those that have failed.   *)
(*                                                                         *)
(* What is submitted for an object may run when it serves another          *)
(* connection.  Lists says which submitted callbacks are of the connection *)
(* an object serves now, and what is then known of that connection.        *)
(***************************************************************************)
EXTENDS GFSServer, FiniteSetTheorems, TLAPS

USE ClientsAssumption, MaxPostAcceptAssumption, MaxConnectionsAssumption

-----------------------------------------------------------------------------
(* The posted accepts                                                       *)

Accounts ==
  /\ m_NumPostAccept \in Int /\ todo \in Nat /\ posted \in Nat /\ failed \in Nat
  /\ accepts \subseteq Clients /\ free \subseteq Clients
  /\ accepts \cap free = {}
  /\ m_Clients \subseteq Clients
  /\ posted + todo <= m_MaxPostAccept
  /\ m_NumPostAccept + posted + todo <= m_MaxPostAccept
  /\ SlotsAccounted

acceptState == <<acceptVars, accepts, free, m_Clients, failed>>

(* A subset of the objects is finite.                                       *)
LEMMA Finite ==
  ASSUME NEW S \in SUBSET Clients
  PROVE  IsFiniteSet(S) /\ Cardinality(S) \in Nat
  BY FS_Subset, FS_CardinalityType

(* No accept is outstanding at the start and none is counted.               *)
LEMMA AccountsInitially == Init => Accounts
  <1>1. Cardinality({}) = 0
    BY FS_EmptySet
  <1> QED
    BY <1>1 DEF Init, Accounts, SlotsAccounted

(* What leaves the accepts alone leaves the account alone.                  *)
LEMMA AccountsStutter == Accounts /\ UNCHANGED acceptState => Accounts'
  BY DEF Accounts, acceptState, acceptVars, SlotsAccounted

(* Destroying objects takes their accepts back and books them as failed.    *)
LEMMA AccountsDestroy ==
  ASSUME Accounts, NEW S \in SUBSET Clients, NEW L, NEW T, Destroy(S, L, T),
         UNCHANGED acceptVars
  PROVE  Accounts'
  <1>1. /\ accepts' = accepts \ S /\ free' = free \cup S
        /\ failed' = failed + Cardinality(accepts \cap S)
        /\ m_Clients' \subseteq m_Clients
    BY DEF Destroy
  <1>2. /\ IsFiniteSet(accepts)
        /\ Cardinality(accepts) \in Nat /\ Cardinality(accepts \ S) \in Nat
        /\ Cardinality(accepts \cap S) \in Nat
    BY Finite DEF Accounts
  <1>3. Cardinality(accepts \ S) = Cardinality(accepts) - Cardinality(accepts \cap S)
    BY <1>2, FS_Difference
  <1> QED
    BY <1>1, <1>2, <1>3 DEF Accounts, acceptVars, SlotsAccounted

(* An accept that completes, counted off or booked as failed.               *)
LEMMA AccountsComplete ==
  ASSUME Accounts, NEW c \in accepts, accepts' = accepts \ {c},
         UNCHANGED <<todo, posted, free, m_Clients>>,
         \/ m_NumPostAccept' = m_NumPostAccept - 1 /\ UNCHANGED failed
         \/ failed' = failed + 1 /\ UNCHANGED m_NumPostAccept
  PROVE  Accounts'
  <1>1. Cardinality(accepts \ {c}) = Cardinality(accepts) - 1
    BY Finite, FS_RemoveElement DEF Accounts
  <1>2. Cardinality(accepts) \in Nat
    BY Finite DEF Accounts
  <1> QED
    BY <1>1, <1>2 DEF Accounts, SlotsAccounted

(* WorkerPostAccept: what the loop has posted comes from what was missing.  *)
LEMMA AccountsAccepting == Accounts /\ Accepting => Accounts'
  <1> SUFFICES ASSUME Accounts, Accepting PROVE Accounts'
    OBVIOUS
  <1>1. CASE PostAccept
    <2>1. Cardinality(accepts) \in Nat
      BY Finite DEF Accounts
    <2> QED
      BY <1>1, <2>1 DEF Accounts, PostAccept, SlotsAccounted, historyVars
  <1>2. CASE PostOne
    <2>1. PICK c \in free : accepts' = accepts \cup {c} /\ free' = free \ {c}
      BY <1>2 DEF PostOne
    <2>2. Cardinality(accepts \cup {c}) = Cardinality(accepts) + 1
      BY Finite, FS_AddElement DEF Accounts
    <2>3. Cardinality(accepts) \in Nat
      BY Finite DEF Accounts
    <2> QED
      BY <1>2, <2>1, <2>2, <2>3 DEF Accounts, PostOne, SlotsAccounted, historyVars
  <1>3. CASE PostFails
    BY <1>3 DEF Accounts, PostFails, SlotsAccounted, historyVars
  <1>4. CASE PostDone
    <2>1. Cardinality(accepts) \in Nat
      BY Finite DEF Accounts
    <2> QED
      BY <1>4, <2>1 DEF Accounts, PostDone, SlotsAccounted, historyVars
  <1> QED
    BY <1>1, <1>2, <1>3, <1>4 DEF Accepting

(* Only accepts that complete touch the account among the completions.      *)
LEMMA AccountsCompletion ==
  ASSUME Accounts, NEW c \in Clients, Completion(c) \/ PeerCloses(c)
  PROVE  Accounts'
  <1>1. CASE OnAccept(c)
    BY <1>1, AccountsComplete DEF OnAccept, historyVars
  <1>2. CASE AcceptError(c)
    BY <1>2, AccountsComplete DEF AcceptError, acceptVars
  <1>3. CASE \/ OnRecv(c) \/ PostRecv(c) \/ RecvClosed(c) \/ OnSend(c)
             \/ PeerCloses(c)
    <2>1. UNCHANGED acceptState
      BY <1>3 DEF OnRecv, PostRecv, RecvClosed, OnSend, PeerCloses, acceptState,
                  historyVars
    <2> QED
      BY <2>1, AccountsStutter
  <1> QED
    BY <1>1, <1>2, <1>3 DEF Completion

(* A send that fails at once destroys its client.                           *)
LEMMA AccountsPostSend ==
  ASSUME Accounts, NEW c \in m_Clients, NEW s, NEW T, PostSend(c, s, T),
         UNCHANGED acceptVars
  PROVE  Accounts'
  <1>1. CASE UNCHANGED <<accepts, failed, free, socket, m_Clients, recv>>
    BY <1>1, AccountsStutter DEF acceptState
  <1>2. CASE Destroy({c}, {c}, T)
    BY <1>2, AccountsDestroy DEF Accounts
  <1> QED
    BY <1>1, <1>2 DEF PostSend
(* The callbacks submitted to the pool.                                     *)
LEMMA AccountsCallback ==
  ASSUME Accounts, NEW t, t.client \in Clients, Callback(t)
  PROVE  Accounts'
  <1>1. CASE AddClient(t)
    <2>1. m_Clients' \subseteq Clients
      BY <1>1 DEF AddClient, Accounts
    <2> QED
      BY <1>1, <2>1 DEF AddClient, Accounts, SlotsAccounted, acceptVars, historyVars
  <1>2. CASE RemoveClient(t)
    <2>1. CASE t.client \in m_Clients
      BY <1>2, <2>1, AccountsDestroy DEF RemoveClient
    <2>2. CASE t.client \notin m_Clients
      BY <1>2, <2>2, AccountsStutter DEF RemoveClient, acceptState
    <2> QED
      BY <2>1, <2>2
  <1>3. CASE Answer(t)
    <2>1. CASE t.client \in m_Clients
      BY <1>3, <2>1, AccountsPostSend DEF Answer
    <2>2. CASE t.client \notin m_Clients
      BY <1>3, <2>2, AccountsStutter DEF Answer, acceptState
    <2> QED
      BY <2>1, <2>2
  <1> QED
    BY <1>1, <1>2, <1>3 DEF Callback

(* The sending thread and the timer destroy clients of m_Clients.           *)
LEMMA AccountsOthers ==
  ASSUME Accounts, SendAll \/ CheckKeepAliveGFSClients
  PROVE  Accounts'
  <1>1. CASE SendAll
    <2>1. CASE UNCHANGED <<accepts, failed, free, m_Clients>>
      BY <1>1, <2>1, AccountsStutter DEF SendAll, acceptState
    <2>2. CASE \E c \in m_Clients : Destroy({c}, {c}, tasks)
      BY <1>1, <2>2, AccountsDestroy DEF SendAll, Accounts
    <2> QED
      BY <1>1, <2>1, <2>2 DEF SendAll
  <1>2. CASE CheckKeepAliveGFSClients
    <2>1. PICK overdue \in SUBSET {c \in m_Clients : MayBeOverdue(c)} :
            Destroy(overdue, {}, tasks)
      BY <1>2 DEF CheckKeepAliveGFSClients
    <2>2. overdue \in SUBSET Clients
      BY <2>1 DEF Accounts
    <2> QED
      BY <1>2, <2>1, <2>2, AccountsDestroy DEF CheckKeepAliveGFSClients
  <1> QED
    BY <1>1, <1>2

-----------------------------------------------------------------------------
(* Types                                                                    *)

(* Bounds and types of TypeOK that do not follow from Accounts.             *)
Types ==
  /\ connections \in 0 .. MaxConnections
  /\ gen \in [Clients -> 0 .. MaxConnections]
  /\ socket \subseteq Clients /\ gone \subseteq Clients /\ sends \subseteq Clients
  /\ m_State \in [Clients -> {"WAIT", "ACCEPTED", "LOGGED_IN", "DISCONNECTED"}]
  /\ m_dwLastRecv \in [Clients -> {"never", "lately", "late"}]
  /\ recv \in [Clients -> {"none", "posted", "called"}]
  /\ tasks \subseteq Tasks
  /\ fault \in {"none", "uninitialized", "freed", "destroyed twice",
                "past the end"}
  /\ late \in BOOLEAN /\ mixed \in BOOLEAN
  /\ own \subseteq 0 .. MaxConnections

IInv == Accounts /\ Types

(* A task submitted for an object is a task.                                *)
LEMMA CloseIsTask ==
  ASSUME Types, NEW c \in Clients, NEW op \in {"ACCEPT", "RECV", "SEND"}
  PROVE  Close(c, op) \in Tasks
  BY DEF Close, Types, Tasks

(* Destroy keeps the types.                                                 *)
LEMMA TypesDestroy ==
  ASSUME Accounts, Types, NEW S \in SUBSET Clients, NEW L, NEW T \in SUBSET Tasks,
         Destroy(S, L, T)
  PROVE  /\ socket' \subseteq Clients
         /\ m_State' \in [Clients -> {"WAIT", "ACCEPTED", "LOGGED_IN",
                                      "DISCONNECTED"}]
         /\ recv' \in [Clients -> {"none", "posted", "called"}]
         /\ tasks' \subseteq Tasks
         /\ fault' \in {"none", "destroyed twice"}
  <1>1. tasks' \subseteq Tasks
    <2>1. PICK run \in SUBSET ({<<c, "RECV">> : c \in {d \in S : recv[d] = "posted"}}
                               \cup {<<c, "SEND">> : c \in S \cap sends}) :
            tasks' = T \cup {Close(e[1], e[2]) : e \in run}
                       \cup {Close(c, "RECV") : c \in {d \in S : recv[d] = "called"}}
                       \cup {Close(c, "ACCEPT") : c \in S \cap accepts}
      BY DEF Destroy
    <2>2. \A e \in run : e[1] \in Clients /\ e[2] \in {"RECV", "SEND"}
      OBVIOUS
    <2> QED
      BY <2>1, <2>2, CloseIsTask
  <1> QED
    BY <1>1 DEF Destroy, Types
(* So does PostSend.                                                        *)
LEMMA TypesPostSend ==
  ASSUME Accounts, Types, NEW c \in m_Clients, NEW T \in SUBSET Tasks,
         NEW s \in {"WAIT", "ACCEPTED", "LOGGED_IN", "DISCONNECTED"},
         PostSend(c, s, T)
  PROVE  /\ socket' \subseteq Clients
         /\ sends' \subseteq Clients
         /\ m_State' \in [Clients -> {"WAIT", "ACCEPTED", "LOGGED_IN",
                                      "DISCONNECTED"}]
         /\ recv' \in [Clients -> {"none", "posted", "called"}]
         /\ tasks' \subseteq Tasks
         /\ fault' \in {"none", "freed", "destroyed twice"}
  <1>1. c \in Clients
    BY DEF Accounts
  <1>2. CASE Destroy({c}, {c}, T) /\ sends' = sends \ {c}
    BY <1>1, <1>2, TypesDestroy DEF Types
  <1>3. CASE /\ sends' = sends \cup {c}
             /\ m_State' = [m_State EXCEPT ![c] = s]
             /\ tasks' = T
             /\ fault' = IF c \in socket THEN "none" ELSE "freed"
             /\ UNCHANGED <<socket, recv>>
    BY <1>1, <1>3 DEF Types
  <1> QED
    BY <1>2, <1>3 DEF PostSend

(* Posting accepts keeps the types.                                         *)
LEMMA TypesAccepting == IInv /\ Accepting => Types'
  <1> SUFFICES ASSUME IInv, Accepting PROVE Types'
    OBVIOUS
  <1>1. CASE PostAccept
    BY <1>1 DEF IInv, Types, PostAccept, historyVars
  <1>2. CASE PostOne
    <2>1. connections \in 0 .. MaxConnections
      BY DEF IInv, Types
    <2>2. connections < MaxConnections /\ connections' = connections + 1
      BY <1>2 DEF PostOne
    <2>3. connections' \in 0 .. MaxConnections
      BY <2>1, <2>2
    <2>4. PICK c \in free : /\ gen' = [gen EXCEPT ![c] = connections']
                           /\ socket' = socket \cup {c}
                           /\ m_State' = [m_State EXCEPT ![c] = "WAIT"]
                           /\ gone' = gone \ {c}
      BY <1>2 DEF PostOne
    <2>5. c \in Clients
      BY DEF IInv, Accounts
    <2>6. /\ gen' \in [Clients -> 0 .. MaxConnections]
          /\ socket' \subseteq Clients /\ gone' \subseteq Clients
          /\ m_State' \in [Clients -> {"WAIT", "ACCEPTED", "LOGGED_IN",
                                       "DISCONNECTED"}]
      BY <2>3, <2>4, <2>5 DEF IInv, Types
    <2>7. UNCHANGED <<m_dwLastRecv, recv, sends, tasks, fault, late, mixed, own>>
      BY <1>2 DEF PostOne, historyVars
    <2> QED
      BY <2>3, <2>6, <2>7 DEF IInv, Types
  <1>3. CASE PostFails
    BY <1>3 DEF IInv, Types, PostFails, historyVars
  <1>4. CASE PostDone
    BY <1>4 DEF IInv, Types, PostDone, historyVars
  <1> QED
    BY <1>1, <1>2, <1>3, <1>4 DEF Accepting

(* So does every completion.                                                *)
LEMMA TypesCompletion ==
  ASSUME IInv, NEW c \in Clients, Completion(c) \/ PeerCloses(c)
  PROVE  Types'
  <1> USE DEF IInv, Accounts, acceptVars, historyVars
  <1>1. CASE OnAccept(c)
    <2>1. [op |-> "add", client |-> c, gen |-> gen[c], from |-> "ACCEPT"] \in Tasks
      BY DEF Types, Tasks
    <2> QED
      BY <1>1, <2>1 DEF Types, OnAccept
  <1>2. CASE AcceptError(c)
    BY <1>2, CloseIsTask DEF Types, AcceptError
  <1>3. CASE OnRecv(c)
    <2>1. \A op \in Requests :
            [op |-> op, client |-> c, gen |-> gen[c], from |-> "RECV"] \in Tasks
      BY DEF Types, Tasks
    <2>2. gen[c] \in 0 .. MaxConnections
      BY DEF Types
    <2>3. tasks' \subseteq Tasks /\ own' \subseteq 0 .. MaxConnections
      BY <1>3, <2>1, <2>2 DEF Types, OnRecv
    <2> QED
      BY <1>3, <2>3 DEF Types, OnRecv
  <1>4. CASE PostRecv(c)
    BY <1>4, CloseIsTask DEF Types, PostRecv
  <1>5. CASE RecvClosed(c)
    BY <1>5, CloseIsTask DEF Types, RecvClosed
  <1>6. CASE OnSend(c)
    BY <1>6, CloseIsTask DEF Types, OnSend
  <1>7. CASE PeerCloses(c)
    BY <1>7 DEF Types, PeerCloses
  <1> QED
    BY <1>1, <1>2, <1>3, <1>4, <1>5, <1>6, <1>7 DEF Completion

(* So does every submitted callback.                                        *)
LEMMA TypesCallback ==
  ASSUME IInv, NEW t \in tasks, Callback(t)
  PROVE  Types'
  <1> USE DEF IInv, acceptVars
  <1>1. t.client \in Clients /\ mixed \in BOOLEAN /\ Misses(t) \in BOOLEAN
    BY DEF Types, Tasks, Misses
  <1>2. CASE AddClient(t)
    <2>1. Close(t.client, "RECV") \in Tasks
      BY <1>1, CloseIsTask
    <2>2. \/ tasks' = tasks \ {t}
          \/ tasks' = (tasks \ {t}) \cup {Close(t.client, "RECV")}
      BY <1>2 DEF AddClient
    <2>3. tasks' \subseteq Tasks
      BY <2>1, <2>2 DEF Types
    <2> QED
      BY <1>1, <1>2, <2>3 DEF Types, AddClient, historyVars
  <1>3. CASE RemoveClient(t)
    <2>0. mixed' \in BOOLEAN
      BY <1>3, <1>1, Zenon DEF RemoveClient
    <2>1. CASE t.client \in m_Clients
      <3>1. /\ Destroy({t.client}, {t.client}, tasks \ {t})
            /\ sends' = sends \ {t.client}
        BY <1>3, <2>1 DEF RemoveClient
      <3>2. {t.client} \in SUBSET Clients /\ tasks \ {t} \in SUBSET Tasks
        BY <1>1 DEF Types
      <3>3. /\ socket' \subseteq Clients
            /\ m_State' \in [Clients -> {"WAIT", "ACCEPTED", "LOGGED_IN",
                                         "DISCONNECTED"}]
            /\ recv' \in [Clients -> {"none", "posted", "called"}]
            /\ tasks' \subseteq Tasks
            /\ fault' \in {"none", "destroyed twice"}
        BY <3>1, <3>2, TypesDestroy
      <3> QED
        BY <1>3, <2>0, <3>1, <3>3 DEF Types, RemoveClient
    <2>2. CASE t.client \notin m_Clients
      BY <2>0, <1>3, <2>2 DEF Types, RemoveClient
    <2> QED
      BY <2>1, <2>2
  <1>4. CASE Answer(t)
    <2>0. mixed' \in BOOLEAN
      BY <1>4, <1>1, Zenon DEF Answer
    <2>1. CASE t.client \in m_Clients
      <3>1. (IF LogsIn(t) THEN "LOGGED_IN" ELSE m_State[t.client])
              \in {"WAIT", "ACCEPTED", "LOGGED_IN", "DISCONNECTED"}
        BY <1>1 DEF Types
      <3>2. PostSend(t.client,
                     IF LogsIn(t) THEN "LOGGED_IN" ELSE m_State[t.client],
                     tasks \ {t})
        BY <1>4, <2>1 DEF Answer
      <3>3. tasks \ {t} \in SUBSET Tasks
        BY DEF Types
      <3>4. /\ socket' \subseteq Clients
            /\ sends' \subseteq Clients
            /\ m_State' \in [Clients -> {"WAIT", "ACCEPTED", "LOGGED_IN",
                                         "DISCONNECTED"}]
            /\ recv' \in [Clients -> {"none", "posted", "called"}]
            /\ tasks' \subseteq Tasks
            /\ fault' \in {"none", "freed", "destroyed twice"}
        BY <2>1, <3>1, <3>2, <3>3, TypesPostSend
      <3> QED
        BY <1>4, <2>0, <3>4 DEF Types, Answer
    <2>2. CASE t.client \notin m_Clients
      BY <2>0, <1>4, <2>2 DEF Types, Answer
    <2> QED
      BY <2>1, <2>2
  <1> QED
    BY <1>2, <1>3, <1>4 DEF Callback

(* So do the sending thread and the timer.                                  *)
LEMMA TypesOthers ==
  ASSUME IInv, SendAll \/ CheckKeepAliveGFSClients
  PROVE  Types'
  <1> USE DEF IInv, acceptVars
  <1>1. CASE SendAll
    <2>1. sends' \subseteq Clients
      BY <1>1 DEF SendAll, Types, Accounts
    <2>2. CASE \E c \in m_Clients : Destroy({c}, {c}, tasks)
      <3>1. PICK c \in m_Clients : Destroy({c}, {c}, tasks)
        BY <2>2
      <3>2. {c} \in SUBSET Clients /\ tasks \in SUBSET Tasks
        BY DEF Accounts, Types
      <3> QED
        BY <1>1, <2>1, <3>1, <3>2, TypesDestroy DEF SendAll, Types
    <2>3. CASE /\ fault' \in {"none", "freed", "past the end"}
               /\ UNCHANGED <<socket, m_State, recv, tasks>>
      BY <1>1, <2>1, <2>3 DEF SendAll, Types
    <2> QED
      BY <1>1, <2>2, <2>3 DEF SendAll
  <1>2. CASE CheckKeepAliveGFSClients
    <2>1. PICK overdue \in SUBSET {c \in m_Clients : MayBeOverdue(c)} :
            /\ Destroy(overdue, {}, tasks)
            /\ sends' = sends \ overdue
            /\ m_dwLastRecv' = [c \in Clients |->
                                   IF c \in overdue /\ m_dwLastRecv[c] = "lately"
                                   THEN "late" ELSE m_dwLastRecv[c]]
      BY <1>2 DEF CheckKeepAliveGFSClients
    <2>2. overdue \in SUBSET Clients /\ tasks \in SUBSET Tasks
      BY <2>1 DEF Accounts, Types
    <2>3. m_dwLastRecv' \in [Clients -> {"never", "lately", "late"}]
      BY <2>1 DEF Types
    <2> QED
      BY <1>2, <2>1, <2>2, <2>3, TypesDestroy DEF CheckKeepAliveGFSClients, Types
  <1> QED
    BY <1>1, <1>2

-----------------------------------------------------------------------------
(* The inductive invariant                                                  *)

(* The invariant holds in the initial states.                               *)
LEMMA IInvInitially == Init => IInv
  <1> SUFFICES ASSUME Init PROVE IInv
    OBVIOUS
  <1>1. late \in BOOLEAN /\ mixed \in BOOLEAN
    BY Zenon DEF Init
  <1>2. 0 \in 0 .. MaxConnections
    OBVIOUS
  <1>3. Types
    BY <1>1, <1>2 DEF Init, Types
  <1> QED
    BY <1>3, AccountsInitially DEF IInv

(* Every step keeps it.                                                     *)
LEMMA IInvNext == IInv /\ [Next]_vars => IInv'
  <1> SUFFICES ASSUME IInv, [Next]_vars PROVE IInv'
    OBVIOUS
  <1>1. CASE Accepting
    BY <1>1, AccountsAccepting, TypesAccepting DEF IInv
  <1>2. CASE \E c \in Clients : Completion(c) \/ PeerCloses(c)
    BY <1>2, AccountsCompletion, TypesCompletion DEF IInv
  <1>3. CASE \E t \in tasks : Callback(t)
    <2>1. PICK t \in tasks : Callback(t)
      BY <1>3
    <2>2. t.client \in Clients
      BY DEF IInv, Types, Tasks
    <2> QED
      BY <2>1, <2>2, AccountsCallback, TypesCallback DEF IInv
  <1>4. CASE SendAll \/ CheckKeepAliveGFSClients
    BY <1>4, AccountsOthers, TypesOthers DEF IInv
  <1>5. CASE UNCHANGED vars
    <2>1. UNCHANGED acceptState
      BY <1>5 DEF vars, acceptState, historyVars
    <2>2. Types'
      BY <1>5 DEF IInv, Types, vars, acceptVars, historyVars
    <2> QED
      BY <2>1, <2>2, AccountsStutter DEF IInv
  <1> QED
    BY <1>1, <1>2, <1>3, <1>4, <1>5 DEF Next

(* It holds in every reachable state.                                       *)
LEMMA IInvAlways == Spec => []IInv
  BY IInvInitially, IInvNext, PTL DEF Spec

(* The types, among them that m_NumPostAccept stays between the negative    *)
(* and the positive maximum although it is written by several threads.      *)
THEOREM TypeCorrect == Spec => []TypeOK
  <1>1. IInv => TypeOK
    <2> SUFFICES ASSUME IInv PROVE TypeOK
      OBVIOUS
    <2>1. Cardinality(accepts) \in Nat
      BY Finite DEF IInv, Accounts
    <2>2. m_NumPostAccept \in -m_MaxPostAccept .. m_MaxPostAccept
      BY <2>1 DEF IInv, Accounts, SlotsAccounted
    <2> QED
      BY <2>2 DEF IInv, Accounts, Types, TypeOK
  <1> QED
    BY <1>1, IInvAlways, PTL

(* The count of posted accepts is exact, but for the accepts that failed,   *)
(* and never more are outstanding than the maximum handed to Create.        *)
THEOREM AcceptsBounded == Spec => []AcceptsCounted
  <1>1. IInv => AcceptsCounted
    <2> SUFFICES ASSUME IInv PROVE AcceptsCounted
      OBVIOUS
    <2>1. Cardinality(accepts) \in Nat
      BY Finite DEF IInv, Accounts
    <2> QED
      BY <2>1 DEF IInv, Accounts, SlotsAccounted, AcceptsWithinMaximum,
                  AcceptsCounted
  <1> QED
    BY <1>1, IInvAlways, PTL

-----------------------------------------------------------------------------
(* The clients that are listed                                              *)

(* An object is in one place: posted for accept, accepted (its AddClient is *)
(* submitted, once), listed, or in the pool; in the pool it has no socket.  *)
Placed ==
  /\ accepts \subseteq socket /\ m_Clients \subseteq socket
  /\ socket \cap free = {} /\ m_Clients \cap accepts = {}
  /\ \A t \in tasks : t.op = "add" =>
       /\ t.client \in socket \ (accepts \cup m_Clients)
       /\ t.gen = gen[t.client] /\ t.from = "ACCEPT"

Served ==
  \A c \in m_Clients : recv[c] = "none" =>
    \E t \in tasks : t.op = "remove" /\ t.client = c /\ t.gen = gen[c]

(* Connections are numbered in the order they are posted.                   *)
Numbered ==
  /\ \A c \in Clients : gen[c] <= connections
  /\ \A t \in tasks : t.gen <= connections

(* A removal is of a connection the peer has closed, or is of no use.       *)
Removals ==
  \A t \in tasks : t.op = "remove" /\ t.gen = gen[t.client] =>
    \/ t.client \in gone
    \/ /\ t.client \notin accepts \cup m_Clients
       /\ \A a \in tasks : a.op = "add" => a.client # t.client

Owned ==
  /\ \A t \in tasks : t.op = "login" => t.gen \in own
  /\ ~mixed => \A c \in Clients : m_State[c] = "LOGGED_IN" => gen[c] \in own

Lists ==
  /\ Numbered /\ Owned
  /\ ~late => Placed /\ Served
  /\ ~late /\ ~mixed => Removals

(* What the parts above are about; OwnLogin's m_State is a separate matter. *)
listState == <<accepts, free, socket, m_Clients, recv, gen, gone, connections>>

(* A task names an object.                                                  *)
LEMMA TaskFields ==
  ASSUME Types, NEW t \in tasks
  PROVE  t \in Tasks /\ t.client \in Clients /\ t.gen \in Nat
  <1>1. t \in Tasks
    BY DEF Types
  <1>2. t.client \in Clients /\ t.gen \in 0 .. MaxConnections
    BY <1>1 DEF Tasks
  <1> QED BY <1>1, <1>2

LEMMA GenFields ==
  ASSUME Types, NEW c \in Clients
  PROVE  gen[c] \in Nat
  <1>1. gen[c] \in 0 .. MaxConnections
    BY DEF Types
  <1> QED BY <1>1

(* What Close submits.                                                      *)
LEMMA CloseFields ==
  ASSUME NEW c, NEW op
  PROVE  /\ Close(c, op).op = "remove" /\ Close(c, op).client = c
         /\ Close(c, op).gen = gen[c] /\ Close(c, op).from = op
  BY DEF Close

(* A callback that is done, and was no removal of a listed client.          *)
LEMMA ListsTaskDone ==
  ASSUME IInv, NEW T, tasks' = T, T \subseteq tasks, UNCHANGED listState,
         \A t \in tasks \ T : t.op = "remove" => t.client \notin m_Clients
  PROVE  /\ Numbered => Numbered'
         /\ Placed => Placed'
         /\ Served => Served'
         /\ Removals => Removals'
  <1> USE DEF listState
  <1>1. Numbered => Numbered'
    BY DEF Numbered
  <1>2. Placed => Placed'
    BY DEF Placed
  <1>3. Served => Served'
    BY DEF Served
  <1>4. Removals => Removals'
    BY DEF Removals
  <1> QED BY <1>1, <1>2, <1>3, <1>4

(* A removal is submitted for a client whose peer is gone.                  *)
LEMMA ListsClose ==
  ASSUME IInv, NEW c \in Clients \cap gone, NEW op,
         tasks' = tasks \cup {Close(c, op)},
         UNCHANGED <<accepts, free, socket, m_Clients, gen, gone, connections>>,
         recv' \in {recv, [recv EXCEPT ![c] = "none"]}
  PROVE  /\ Numbered => Numbered'
         /\ Placed => Placed'
         /\ Served => Served'
         /\ Removals => Removals'
  <1> DEFINE new == Close(c, op)
  <1>0. new.op = "remove" /\ new.client = c /\ new.gen = gen[c]
    BY CloseFields
  <1>1. Numbered => Numbered'
    BY <1>0 DEF Numbered
  <1>2. Placed => Placed'
    BY <1>0 DEF Placed
  <1>3. Served => Served'
    <2> SUFFICES ASSUME Served, NEW d \in m_Clients, recv'[d] = "none"
                 PROVE  \E t \in tasks' : t.op = "remove" /\ t.client = d /\ t.gen = gen[d]
      BY DEF Served
    <2>1. CASE d = c
      BY <1>0, <2>1
    <2>2. CASE d # c
      <3>1. d \in Clients /\ recv \in [Clients -> {"none", "posted", "called"}]
        BY DEF IInv, Accounts, Types
      <3>2. recv[d] = "none"
        BY <2>2, <3>1
      <3> QED BY <3>2 DEF Served
    <2> QED BY <2>1, <2>2
  <1>4. Removals => Removals'
    BY <1>0 DEF Removals
  <1> QED BY <1>1, <1>2, <1>3, <1>4

(* What is submitted by Destroy is a removal of what is destroyed.          *)
LEMMA DestroyTasks ==
  ASSUME IInv, NEW S \in SUBSET Clients, NEW L, NEW T, Destroy(S, L, T)
  PROVE  /\ T \subseteq tasks'
         /\ \A t \in tasks' : \/ t \in T
                              \/ /\ t.op = "remove" /\ t.client \in S
                                 /\ t.gen = gen[t.client]
  <1>1. PICK run \in SUBSET ({<<c, "RECV">> : c \in {d \in S : recv[d] = "posted"}}
                             \cup {<<c, "SEND">> : c \in S \cap sends}) :
          tasks' = T \cup {Close(e[1], e[2]) : e \in run}
                     \cup {Close(c, "RECV") : c \in {d \in S : recv[d] = "called"}}
                     \cup {Close(c, "ACCEPT") : c \in S \cap accepts}
    BY DEF Destroy
  <1>2. \A e \in run : e[1] \in S
    OBVIOUS
  <1> QED BY <1>1, <1>2, CloseFields

(* Destroy and the numbers and logins of connections.                       *)
LEMMA OwnedDestroy ==
  ASSUME IInv, Numbered, Owned, NEW S \in SUBSET Clients, NEW L,
         NEW T \in SUBSET tasks, Destroy(S, L, T),
         UNCHANGED <<gen, connections, own>>, ~mixed' => ~mixed
  PROVE  Numbered' /\ Owned'
  <1>1. \A t \in tasks' : \/ t \in tasks
                          \/ /\ t.op = "remove" /\ t.client \in Clients
                             /\ t.gen = gen[t.client]
    BY DestroyTasks
  <1>2. Numbered'
    BY <1>1 DEF Numbered
  <1>3. \A c \in Clients : m_State'[c] = "LOGGED_IN" => m_State[c] = "LOGGED_IN"
    BY DEF Destroy
  <1>4. Owned'
    <2>1. \A t \in tasks' : t.op = "login" => t.gen \in own'
      BY <1>1 DEF Owned
    <2>2. ~mixed' => \A c \in Clients : m_State'[c] = "LOGGED_IN" => gen'[c] \in own'
      BY <1>3 DEF Owned
    <2> QED BY <2>1, <2>2 DEF Owned
  <1> QED BY <1>2, <1>4

(* One client is destroyed and leaves m_Clients; what is done was no        *)
(* removal of another.                                                      *)
LEMMA ListsDestroy ==
  ASSUME IInv, NEW c \in m_Clients, NEW T \in SUBSET tasks,
         Destroy({c}, {c}, T), UNCHANGED <<gen, gone, connections>>,
         \A t \in tasks \ T : t.op = "remove" => t.client = c,
         Placed
  PROVE  Placed' /\ (Served => Served') /\ (Removals => Removals')
  <1>1. c \in Clients
    BY DEF IInv, Accounts
  <1>2. /\ T \subseteq tasks'
        /\ \A t \in tasks' : \/ t \in T
                             \/ /\ t.op = "remove" /\ t.client = c
                                /\ t.gen = gen[t.client]
    BY <1>1, DestroyTasks
  <1>3. /\ free' = free \cup {c} /\ socket' = socket \ {c}
        /\ m_Clients' = m_Clients \ {c} /\ accepts' = accepts \ {c}
        /\ recv' = [d \in Clients |-> IF d \in {c} THEN "none" ELSE recv[d]]
    BY DEF Destroy
  <1>4. \A a \in tasks' : a.op = "add" => a \in tasks /\ a.client # c
    BY <1>2 DEF Placed
  <1>5. Placed'
    BY <1>3, <1>4 DEF Placed
  <1>6. Served => Served'
    <2> SUFFICES ASSUME Served, NEW d \in m_Clients', recv'[d] = "none"
                 PROVE  \E t \in tasks' : t.op = "remove" /\ t.client = d /\ t.gen = gen'[d]
      BY DEF Served
    <2>1. d \in m_Clients /\ d # c /\ d \in Clients
      BY <1>3 DEF IInv, Accounts
    <2>2. recv[d] = "none"
      BY <1>3, <2>1
    <2> QED BY <1>2, <2>1, <2>2 DEF Served
  <1>7. Removals => Removals'
    BY <1>2, <1>3, <1>4 DEF Removals
  <1> QED BY <1>5, <1>6, <1>7

(* What leaves the lists alone.                                             *)
LEMMA ListsStutter ==
  ASSUME IInv, Lists, UNCHANGED <<listState, tasks, m_State, own>>,
         ~late' => ~late, ~mixed' => ~mixed
  PROVE  Lists'
  <1>1. Numbered' /\ (Placed => Placed') /\ (Served => Served')
        /\ (Removals => Removals')
    BY ListsTaskDone DEF Lists, listState
  <1>2. Owned'
    BY DEF Lists, Owned, listState
  <1> QED BY <1>1, <1>2 DEF Lists

(* WorkerPostAccept: an object of the pool gets a number nobody has.        *)
LEMMA ListsAccepting == IInv /\ Lists /\ Accepting => Lists'
  <1> SUFFICES ASSUME IInv, Lists, Accepting PROVE Lists'
    OBVIOUS
  <1>0. (~late' => ~late) /\ (~mixed' => ~mixed) /\ UNCHANGED <<own, tasks>>
    BY DEF Accepting, PostAccept, PostOne, PostFails, PostDone, historyVars
  <1>1. CASE PostAccept \/ PostFails \/ PostDone
    <2>1. UNCHANGED <<listState, tasks, m_State, own>>
      BY <1>1 DEF PostAccept, PostFails, PostDone, historyVars, acceptVars, listState
    <2> QED BY <1>0, <2>1, ListsStutter
  <1>2. CASE PostOne
    <2>1. PICK c \in free :
            /\ free' = free \ {c} /\ accepts' = accepts \cup {c}
            /\ gen' = [gen EXCEPT ![c] = connections + 1]
            /\ socket' = socket \cup {c}
            /\ m_State' = [m_State EXCEPT ![c] = "WAIT"]
            /\ gone' = gone \ {c}
      BY <1>2 DEF PostOne
    <2>2. /\ connections' = connections + 1
          /\ UNCHANGED <<m_Clients, recv, tasks, own>>
      BY <1>2 DEF PostOne, historyVars
    <2>a. connections \in Nat
      <3>1. connections \in 0 .. MaxConnections
        BY DEF IInv, Types
      <3> QED BY <3>1
    <2>b. \A t \in tasks : t.client \in Clients /\ t.gen \in Nat
      BY TaskFields DEF IInv
    <2>3. /\ c \in Clients /\ connections \in Nat
          /\ gen \in [Clients -> 0 .. MaxConnections]
          /\ DOMAIN m_State = Clients /\ m_Clients \subseteq Clients
          /\ \A t \in tasks : t.client \in Clients /\ t.gen \in Nat
          /\ accepts \cap free = {} /\ accepts \subseteq Clients
      BY <2>a, <2>b DEF IInv, Types, Accounts
    <2>4. \A d \in Clients : d # c => gen'[d] = gen[d]
      BY <2>1, <2>3
    <2>5. gen'[c] = connections + 1
      BY <2>1, <2>3
    <2>6. Numbered'
      <3>1. \A d \in Clients : gen[d] \in Nat /\ gen[d] <= connections
        BY <2>3 DEF Lists, Numbered
      <3>2. \A d \in Clients : gen'[d] <= connections + 1
        BY <2>3, <2>4, <2>5, <3>1
      <3>3. \A t \in tasks : t.gen <= connections + 1
        BY <2>3 DEF Lists, Numbered
      <3> QED BY <2>2, <3>2, <3>3 DEF Numbered
    <2>7. Owned'
      BY <1>0, <2>1, <2>2, <2>3, <2>4 DEF Lists, Owned
    <2>8. Placed => c \notin socket /\ c \notin m_Clients
                    /\ \A t \in tasks : t.op = "add" => t.client # c
      BY DEF Placed
    <2>9. Placed => Placed'
      BY <2>1, <2>2, <2>3, <2>4, <2>8 DEF Placed
    <2>10. Placed /\ Served => Served'
      BY <2>2, <2>3, <2>4, <2>8 DEF Served
    <2>11. Placed /\ Removals => Removals'
      <3> SUFFICES ASSUME Placed, Removals, NEW t \in tasks, t.op = "remove",
                          t.gen = gen'[t.client], t.client \notin gone'
                   PROVE  /\ t.client \notin accepts' \cup m_Clients'
                          /\ \A a \in tasks : a.op = "add" => a.client # t.client
        BY <2>2 DEF Removals
      <3>1. t.client # c
        BY <2>3, <2>5 DEF Lists, Numbered
      <3>2. t.gen = gen[t.client] /\ t.client \notin gone
        BY <2>1, <2>3, <2>4, <3>1
      <3> QED BY <2>1, <2>2, <3>1, <3>2 DEF Removals
    <2> QED BY <1>0, <2>6, <2>7, <2>9, <2>10, <2>11 DEF Lists
  <1> QED BY <1>1, <1>2 DEF Accepting

(* The completions: each that closes does it for a peer that is gone.       *)
LEMMA ListsCompletion ==
  ASSUME IInv, Lists, NEW c \in Clients, Completion(c) \/ PeerCloses(c)
  PROVE  Lists'
  <1> USE DEF acceptVars, historyVars
  <1>0. (~late' => ~late) /\ (~mixed' => ~mixed)
    BY DEF Completion, OnAccept, AcceptError, OnRecv, PostRecv, RecvClosed,
           OnSend, PeerCloses
  <1>1. /\ recv \in [Clients -> {"none", "posted", "called"}]
        /\ m_Clients \subseteq Clients
        /\ gen[c] \in Nat
    BY GenFields DEF IInv, Types, Accounts
  <1>2. CASE OnAccept(c)
    <2> DEFINE new == [op |-> "add", client |-> c, gen |-> gen[c], from |-> "ACCEPT"]
    <2>1. /\ c \in accepts /\ accepts' = accepts \ {c} /\ tasks' = tasks \cup {new}
          /\ UNCHANGED <<free, socket, m_Clients, recv, gen, gone, connections,
                         m_State, own>>
      BY <1>2 DEF OnAccept
    <2>2. Numbered' /\ Owned'
      BY <1>0, <1>1, <2>1 DEF Lists, Numbered, Owned
    <2>3. Placed => Placed'
      BY <2>1 DEF Placed
    <2>4. Served => Served'
      BY <2>1 DEF Served
    <2>5. Removals => Removals'
      BY <2>1 DEF Removals
    <2> QED BY <1>0, <2>2, <2>3, <2>4, <2>5 DEF Lists
  <1>3. CASE AcceptError(c)
    <2> DEFINE new == Close(c, "ACCEPT")
    <2>0. new.op = "remove" /\ new.client = c /\ new.gen = gen[c]
      BY CloseFields
    <2> HIDE DEF new
    <2>1. /\ c \in accepts /\ accepts' = accepts \ {c} /\ tasks' = tasks \cup {new}
          /\ UNCHANGED <<free, socket, m_Clients, recv, gen, gone, connections,
                         m_State, own>>
      BY <1>3 DEF AcceptError, new
    <2>2. Numbered' /\ Owned'
      BY <1>0, <1>1, <2>0, <2>1 DEF Lists, Numbered, Owned
    <2>3. Placed => Placed'
      BY <2>0, <2>1 DEF Placed
    <2>4. Served => Served'
      BY <2>1 DEF Served
    <2>5. Placed /\ Removals => Removals'
      BY <2>0, <2>1 DEF Placed, Removals
    <2> QED BY <1>0, <2>2, <2>3, <2>4, <2>5 DEF Lists
  <1>4. CASE OnRecv(c)
    <2>1. /\ recv' = [recv EXCEPT ![c] = "called"]
          /\ UNCHANGED <<accepts, free, socket, m_Clients, gen, gone, connections,
                         m_State>>
      BY <1>4 DEF OnRecv
    <2>2. \/ UNCHANGED <<tasks, own>>
          \/ \E op \in Requests :
               /\ tasks' = tasks \cup {[op |-> op, client |-> c, gen |-> gen[c],
                                        from |-> "RECV"]}
               /\ own' = IF op = "login" THEN own \cup {gen[c]} ELSE own
      BY <1>4 DEF OnRecv
    <2>3. /\ tasks \subseteq tasks' /\ own \subseteq own'
          /\ \A t \in tasks' :
               \/ t \in tasks
               \/ /\ t.op \notin {"add", "remove"} /\ t.gen = gen[c]
                  /\ t.op = "login" => gen[c] \in own'
      BY <2>2, RequestsAssumption
    <2>4. Numbered' /\ Owned'
      BY <1>0, <1>1, <2>1, <2>3 DEF Lists, Numbered, Owned
    <2>5. Placed => Placed'
      BY <2>1, <2>3 DEF Placed
    <2>6. Served => Served'
      BY <1>1, <2>1, <2>3 DEF Served
    <2>7. Removals => Removals'
      BY <2>1, <2>3 DEF Removals
    <2> QED BY <1>0, <2>4, <2>5, <2>6, <2>7 DEF Lists
  <1>5. ASSUME NEW op, c \in gone, tasks' = tasks \cup {Close(c, op)},
               recv' \in {recv, [recv EXCEPT ![c] = "none"]},
               UNCHANGED <<accepts, free, socket, m_Clients, gen, gone, connections,
                           m_State, own>>
        PROVE  Lists'
    <2>1. /\ Numbered => Numbered'
          /\ Placed => Placed'
          /\ Served => Served'
          /\ Removals => Removals'
      BY <1>5, ListsClose
    <2>2. Owned'
      BY <1>0, <1>5, CloseFields DEF Lists, Owned
    <2> QED BY <1>0, <2>1, <2>2 DEF Lists
  <1>6. CASE PostRecv(c)
    <2>1. CASE recv' = [recv EXCEPT ![c] = "posted"] /\ UNCHANGED tasks
      <3>1. UNCHANGED <<accepts, free, socket, m_Clients, gen, gone, connections,
                        m_State, own>>
        BY <1>6 DEF PostRecv
      <3>2. Numbered' /\ Owned' /\ (Placed => Placed') /\ (Removals => Removals')
        BY <1>0, <2>1, <3>1 DEF Lists, Numbered, Owned, Placed, Removals
      <3>3. Served => Served'
        BY <1>1, <2>1, <3>1 DEF Served
      <3> QED BY <1>0, <3>2, <3>3 DEF Lists
    <2>2. CASE c \in gone /\ recv' = [recv EXCEPT ![c] = "none"]
               /\ tasks' = tasks \cup {Close(c, "RECV")}
      BY <1>5, <1>6, <2>2 DEF PostRecv
    <2> QED BY <1>6, <2>1, <2>2 DEF PostRecv
  <1>7. CASE RecvClosed(c)
    BY <1>5, <1>7 DEF RecvClosed
  <1>8. CASE OnSend(c)
    <2>1. CASE c \in gone
      BY <1>5, <1>8, <2>1 DEF OnSend
    <2>2. CASE c \notin gone
      BY <1>0, <1>8, <2>2, ListsStutter DEF OnSend, listState
    <2> QED BY <2>1, <2>2
  <1>9. CASE PeerCloses(c)
    <2>1. /\ gone' = gone \cup {c}
          /\ UNCHANGED <<accepts, free, socket, m_Clients, recv, gen, connections,
                         tasks, m_State, own>>
      BY <1>9 DEF PeerCloses
    <2>2. /\ Numbered' /\ Owned' /\ (Placed => Placed') /\ (Served => Served')
      BY <1>0, <2>1 DEF Lists, Numbered, Owned, Placed, Served
    <2>3. Removals => Removals'
      BY <2>1 DEF Removals
    <2> QED BY <1>0, <2>2, <2>3 DEF Lists
  <1> QED BY <1>2, <1>3, <1>4, <1>6, <1>7, <1>8, <1>9 DEF Completion

(* AddClient: the object becomes a client of the list, with a receive or,   *)
(* its peer being gone, a removal; or it is lost.                           *)
LEMMA ListsAddClient ==
  ASSUME IInv, Lists, NEW t \in tasks, AddClient(t)
  PROVE  Lists'
  <1> DEFINE c == t.client
             new == Close(c, "RECV")
  <1>0. (~late' => ~late) /\ (~mixed' => ~mixed) /\ own' = own /\ t.op = "add"
    BY DEF AddClient, historyVars
  <1>a. t \in Tasks /\ c \in Clients
    BY TaskFields DEF IInv
  <1>1. /\ t \in Tasks /\ c \in Clients /\ gen[c] \in Nat
        /\ recv \in [Clients -> {"none", "posted", "called"}]
        /\ m_State \in [Clients -> {"WAIT", "ACCEPTED", "LOGGED_IN", "DISCONNECTED"}]
        /\ m_Clients \subseteq Clients
    BY <1>a, GenFields DEF IInv, Types, Accounts
  <1>2. /\ UNCHANGED <<accepts, free, socket, gen, gone, connections>>
        /\ \/ /\ m_Clients' = m_Clients \cup {c}
              /\ \/ recv' = [recv EXCEPT ![c] = "posted"] /\ tasks' = tasks \ {t}
                 \/ /\ c \in gone /\ recv' = recv
                    /\ tasks' = (tasks \ {t}) \cup {new}
           \/ m_Clients' = m_Clients /\ tasks' = tasks \ {t} /\ recv' = recv
    BY DEF AddClient, acceptVars
  <1>3. m_State' \in {m_State, [m_State EXCEPT ![c] = "ACCEPTED"]}
    BY DEF AddClient
  <1>4. new.op = "remove" /\ new.client = c /\ new.gen = gen[c]
    BY CloseFields
  <1> HIDE DEF new
  <1>5. \A a \in tasks' : (a \in tasks /\ a # t) \/ (a = new /\ c \in gone)
    BY <1>2
  <1>6. \A a \in tasks \ {t} : a \in tasks'
    BY <1>2
  <1>7. Numbered'
    BY <1>1, <1>2, <1>4, <1>5 DEF Lists, Numbered
  <1>8. Owned'
    <2>1. \A d \in Clients : m_State'[d] = "LOGGED_IN" => m_State[d] = "LOGGED_IN"
      BY <1>1, <1>3
    <2> QED BY <1>0, <1>2, <1>4, <1>5, <2>1 DEF Lists, Owned
  <1>9. Placed => \A a \in tasks : a.op = "add" /\ a # t => a.client # c
    <2> SUFFICES ASSUME Placed, NEW a \in tasks, a.op = "add", a.client = c
                 PROVE  a = t
      OBVIOUS
    <2>1. a \in Tasks /\ a.gen = t.gen /\ a.from = t.from /\ a.op = t.op
      BY <1>0, TaskFields DEF Placed, IInv
    <2> QED BY <1>1, <2>1 DEF Tasks
  <1>10. Placed => Placed'
    BY <1>0, <1>2, <1>4, <1>5, <1>9 DEF Placed
  <1>11. Served => Served'
    <2> SUFFICES ASSUME Served, NEW d \in m_Clients', recv'[d] = "none"
                 PROVE  \E r \in tasks' : r.op = "remove" /\ r.client = d /\ r.gen = gen[d]
      BY <1>2 DEF Served
    <2>1. CASE d \in m_Clients /\ recv[d] = "none"
      BY <1>0, <1>6, <2>1 DEF Served
    <2>2. CASE d = c /\ recv'[c] # "posted"
      <3>1. new \in tasks' \/ (m_Clients' = m_Clients /\ recv' = recv)
        BY <1>1, <1>2, <2>2
      <3> QED BY <1>4, <2>1, <2>2, <3>1
    <2>3. (d \in m_Clients /\ recv[d] = "none") \/ (d = c /\ recv'[c] # "posted")
      BY <1>1, <1>2
    <2> QED BY <2>1, <2>2, <2>3
  <1>12. Removals => Removals'
    BY <1>0, <1>2, <1>4, <1>5 DEF Removals
  <1> QED BY <1>0, <1>7, <1>8, <1>10, <1>11, <1>12 DEF Lists

(* RemoveClient: whoever is removed leaves the list with all that is its.   *)
LEMMA ListsRemoveClient ==
  ASSUME IInv, Lists, NEW t \in tasks, RemoveClient(t)
  PROVE  Lists'
  <1>0. /\ (~late' => ~late) /\ (~mixed' => ~mixed) /\ t.op = "remove"
        /\ UNCHANGED <<gen, gone, connections, own>>
    BY DEF RemoveClient, acceptVars
  <1>1. CASE t.client \in m_Clients
    <2>1. Destroy({t.client}, {t.client}, tasks \ {t})
      BY <1>1 DEF RemoveClient
    <2>2. {t.client} \in SUBSET Clients
      BY TaskFields DEF IInv
    <2>3. Numbered' /\ Owned'
      BY <1>0, <2>1, <2>2, OwnedDestroy DEF Lists
    <2>4. Placed => Placed' /\ (Served => Served') /\ (Removals => Removals')
      BY <1>0, <1>1, <2>1, ListsDestroy
    <2> QED BY <1>0, <2>3, <2>4 DEF Lists
  <1>2. CASE t.client \notin m_Clients
    <2>1. tasks' = tasks \ {t} /\ UNCHANGED <<listState, m_State>>
      BY <1>0, <1>2 DEF RemoveClient, listState
    <2>2. /\ Numbered' /\ (Placed => Placed') /\ (Served => Served')
          /\ (Removals => Removals')
      BY <1>2, <2>1, ListsTaskDone DEF Lists
    <2>3. Owned'
      BY <1>0, <2>1 DEF Lists, Owned
    <2> QED BY <1>0, <2>2, <2>3 DEF Lists
  <1> QED BY <1>1, <1>2

(* Answer: a login sets the state of the client it is of, or is mixed up.   *)
LEMMA ListsAnswer ==
  ASSUME IInv, Lists, NEW t \in tasks, Answer(t)
  PROVE  Lists'
  <1>0. /\ (~late' => ~late) /\ t.op # "remove" /\ t.op # "add"
        /\ UNCHANGED <<gen, gone, connections, own>>
    BY RequestsAssumption DEF Answer, acceptVars
  <1>1. ~mixed' => ~mixed /\ ~Misses(t)
    BY DEF Answer
  <1>2. t.client \in Clients /\ DOMAIN m_State = Clients
    BY TaskFields DEF IInv, Types
  <1>3. CASE /\ tasks' = tasks \ {t} /\ UNCHANGED listState
             /\ \/ m_State' = m_State
                \/ /\ t.client \in m_Clients
                   /\ m_State' = [m_State EXCEPT ![t.client] =
                                    IF LogsIn(t) THEN "LOGGED_IN" ELSE m_State[t.client]]
    <2>1. /\ Numbered' /\ (Placed => Placed') /\ (Served => Served')
          /\ (Removals => Removals')
      BY <1>0, <1>3, ListsTaskDone DEF Lists
    <2>2. ASSUME ~mixed', NEW d \in Clients, m_State'[d] = "LOGGED_IN"
          PROVE  gen[d] \in own
      <3>1. CASE m_State[d] = "LOGGED_IN"
        BY <1>1, <2>2, <3>1 DEF Lists, Owned
      <3>2. CASE m_State[d] # "LOGGED_IN"
        <4>1. d = t.client /\ t.op = "login" /\ t.client \in m_Clients
          BY <1>2, <1>3, <2>2, <3>2 DEF LogsIn
        <4> QED BY <1>1, <2>2, <4>1 DEF Lists, Owned, Misses
      <3> QED BY <3>1, <3>2
    <2>3. Owned'
      BY <1>0, <1>3, <2>2 DEF Lists, Owned
    <2> QED BY <1>0, <1>1, <2>1, <2>3 DEF Lists
  <1>4. CASE t.client \in m_Clients /\ Destroy({t.client}, {t.client}, tasks \ {t})
    <2>1. Numbered' /\ Owned'
      BY <1>0, <1>1, <1>2, <1>4, OwnedDestroy DEF Lists
    <2>2. Placed => Placed' /\ (Served => Served') /\ (Removals => Removals')
      BY <1>0, <1>4, ListsDestroy
    <2> QED BY <1>0, <1>1, <2>1, <2>2 DEF Lists
  <1> QED BY <1>0, <1>3, <1>4 DEF Answer, PostSend, listState

(* The sending thread closes for a peer that is gone; after the timer has   *)
(* closed for silence nothing is promised of the lists.                     *)
LEMMA ListsOthers ==
  ASSUME IInv, Lists, SendAll \/ CheckKeepAliveGFSClients
  PROVE  Lists'
  <1>1. CASE SendAll
    <2>0. /\ (~late' => ~late) /\ (~mixed' => ~mixed)
          /\ UNCHANGED <<gen, gone, connections, own>>
      BY <1>1 DEF SendAll, acceptVars
    <2>1. CASE \E c \in m_Clients : Destroy({c}, {c}, tasks)
      <3>1. PICK c \in m_Clients : Destroy({c}, {c}, tasks)
        BY <2>1
      <3>2. {c} \in SUBSET Clients
        BY DEF IInv, Accounts
      <3>3. Numbered' /\ Owned'
        BY <2>0, <3>1, <3>2, OwnedDestroy DEF Lists
      <3>4. Placed => Placed' /\ (Served => Served') /\ (Removals => Removals')
        BY <2>0, <3>1, ListsDestroy
      <3> QED BY <2>0, <3>3, <3>4 DEF Lists
    <2>2. CASE UNCHANGED <<accepts, free, socket, m_State, m_Clients, recv, tasks>>
      BY <2>0, <2>2, ListsStutter DEF listState
    <2> QED BY <1>1, <2>1, <2>2 DEF SendAll
  <1>2. CASE CheckKeepAliveGFSClients
    <2>1. PICK overdue \in SUBSET {c \in m_Clients : MayBeOverdue(c)} :
            Destroy(overdue, {}, tasks)
      BY <1>2 DEF CheckKeepAliveGFSClients
    <2>2. overdue \in SUBSET Clients
      BY DEF IInv, Accounts
    <2>3. (~mixed' => ~mixed) /\ late' /\ UNCHANGED <<gen, connections, own>>
      BY <1>2 DEF CheckKeepAliveGFSClients, acceptVars
    <2>4. Numbered' /\ Owned'
      BY <2>1, <2>2, <2>3, OwnedDestroy DEF Lists
    <2> QED BY <2>3, <2>4 DEF Lists
  <1> QED BY <1>1, <1>2

(* The lists are in order at every moment.                                  *)
LEMMA ListsInitially == Init => Lists
  BY DEF Init, Lists, Numbered, Owned, Placed, Served, Removals

LEMMA ListsNext == IInv /\ Lists /\ [Next]_vars => Lists'
  <1> SUFFICES ASSUME IInv, Lists, [Next]_vars PROVE Lists'
    OBVIOUS
  <1>1. CASE Accepting
    BY <1>1, ListsAccepting
  <1>2. CASE \E c \in Clients : Completion(c) \/ PeerCloses(c)
    BY <1>2, ListsCompletion
  <1>3. CASE \E t \in tasks : Callback(t)
    BY <1>3, ListsAddClient, ListsRemoveClient, ListsAnswer DEF Callback
  <1>4. CASE SendAll \/ CheckKeepAliveGFSClients
    BY <1>4, ListsOthers
  <1>5. CASE UNCHANGED vars
    BY <1>5, ListsStutter DEF vars, listState, acceptVars, historyVars
  <1> QED BY <1>1, <1>2, <1>3, <1>4, <1>5 DEF Next

LEMMA ListsAlways == Spec => [](IInv /\ Lists)
  <1>1. Init => IInv /\ Lists
    BY IInvInitially, ListsInitially
  <1>2. IInv /\ Lists /\ [Next]_vars => (IInv /\ Lists)'
    BY IInvNext, ListsNext
  <1> QED BY <1>1, <1>2, PTL DEF Spec

(* A listed client has its object and its socket for itself and listens,    *)
(* or its removal is submitted: until CheckKeepAliveGFSClients destroys a   *)
(* client and leaves it in m_Clients.                                       *)
THEOREM ListedAreServed == Spec => []ListedIsServed
  <1>1. IInv /\ Lists => ListedIsServed
    BY DEF Lists, Placed, Served, ListedIsServed
  <1> QED BY <1>1, ListsAlways, PTL

(* However completions, callbacks and reuse of objects interleave, events   *)
(* go only to connections that logged in themselves, unless a callback left *)
(* by one connection has been done on another.                              *)
THEOREM LoginsAreOwn == Spec => []OwnLogin
  <1>1. IInv /\ Lists => OwnLogin
    BY DEF IInv, Accounts, Lists, Owned, OwnLogin
  <1> QED BY <1>1, ListsAlways, PTL

(* A socket is closed for a peer that is gone, for silence, or for such a   *)
(* mix-up.                                                                  *)
THEOREM ClosesForCause == Spec => ClosedForCause
  <1> DEFINE Cause ==
        \A c \in socket \ socket' : c \in gone \/ Silent(c)' \/ mixed' \/ late
  <1>1. IInv /\ Lists /\ [Next]_vars => [Cause]_vars
    <2> SUFFICES ASSUME IInv, Lists, Next, ~late, ~mixed',
                        NEW c \in socket \ socket', c \notin gone
                 PROVE  Silent(c)'
      BY DEF Cause
    <2>0. c \in Clients
      BY DEF IInv, Types
    <2>1. CASE \E t \in tasks : RemoveClient(t)
      <3>1. PICK t \in tasks : RemoveClient(t)
        BY <2>1
      <3>2. /\ t.client \in m_Clients /\ Destroy({t.client}, {t.client}, tasks \ {t})
            /\ ~Misses(t) /\ ~mixed /\ t.op = "remove"
        BY <3>1 DEF RemoveClient
      <3>3. c = t.client /\ t.gen = gen[c]
        BY <3>2 DEF Destroy, Misses
      <3> QED BY <3>2, <3>3 DEF Lists, Removals
    <2>2. CASE \E t \in tasks : Answer(t)
      BY <2>2 DEF Answer, PostSend, Destroy
    <2>3. CASE SendAll
      BY <2>3 DEF SendAll, Destroy
    <2>4. CASE CheckKeepAliveGFSClients
      <3>1. PICK overdue \in SUBSET {d \in m_Clients : MayBeOverdue(d)} :
              /\ m_dwLastRecv' = [d \in Clients |->
                                    IF d \in overdue /\ m_dwLastRecv[d] = "lately"
                                    THEN "late" ELSE m_dwLastRecv[d]]
              /\ Destroy(overdue, {}, tasks)
        BY <2>4 DEF CheckKeepAliveGFSClients
      <3>2. c \in overdue
        BY <3>1 DEF Destroy
      <3>3. m_dwLastRecv[c] \in {"lately", "late"}
        BY <2>0, <3>1, <3>2 DEF MayBeOverdue, IInv, Types
      <3> QED BY <2>0, <3>1, <3>2, <3>3 DEF Silent
    <2>5. CASE Accepting \/ (\E d \in Clients : Completion(d) \/ PeerCloses(d))
               \/ \E t \in tasks : AddClient(t)
      BY <2>5 DEF Accepting, PostAccept, PostOne, PostFails, PostDone, Completion,
                  OnAccept, AcceptError, OnRecv, PostRecv, RecvClosed, OnSend,
                  PeerCloses, AddClient
    <2> QED BY <2>1, <2>2, <2>3, <2>4, <2>5 DEF Next, Callback
  <1> QED BY <1>1, ListsAlways, PTL DEF Spec, ClosedForCause
=============================================================================
