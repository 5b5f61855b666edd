-------------------------- MODULE SenderLifecycle --------------------------
(***************************************************************************)
(* Starting and stopping a SISender (OnBnClickedButtonStart and -Stop in   *)
(* SISender/SISenderDlg.cpp): the CEventSend singleton, the sending thread *)
(* it owns, the ThreadSMCheck thread that feeds it, and the network thread *)
(* that calls InitEvent when the server sends the list of recipients.      *)
(*                                                                         *)
(* Stop joins the sending thread but not ThreadSMCheck: it gives that one  *)
(* ten milliseconds.  The copies ThreadSMCheck queues live on its stack    *)
(* and are gone when it ends.  A thread that touches memory that is gone   *)
(* ends the program.                                                       *)
(***************************************************************************)
EXTENDS Integers, FiniteSets

CONSTANTS
  MaxObjects,   \* bound: CEventSend objects created, one per Start
  MaxThreads,   \* bound: sending threads created
  MaxAnswers    \* bound: lists of recipients received

ASSUME BoundsAssumption ==
  MaxObjects \in Nat /\ MaxThreads \in Nat /\ MaxAnswers \in Nat

Objects     == 1 .. MaxObjects
SendThreads == 1 .. MaxThreads
Readers     == 1 .. MaxObjects   \* ThreadSMCheck threads, one per Start

VARIABLES
  instance,    \* m_Instance, 0: none
  live,        \* the CEventSend objects that exist
  m_pThread,   \* the sending thread of each object, 0: none
  queue,       \* readers whose copies the queues of each object point at
  g_bThread,   \* global: sending threads go on
  m_bSMCheck,  \* readers go on
  m_bStarted,
  gpc,         \* the dialog's thread: where Start or Stop is
  joinee,      \* the sending thread Stop waits for
  tpc, owner,  \* sending threads: where each is, whose it is
  rpc, robj,   \* readers: where each is, the object it is about to call
  npc, nobj,   \* the network thread, the object it is about to call
  answers,     \* lists of recipients received
  fault,       \* what ended the program, "none" while it runs
  \* history, read by no action of the program:
  late,        \* Sleep(10) has run out before a reader had ended
  raced        \* InitEvent has run on the network thread amid a Start or Stop

guiVars    == <<m_bStarted, gpc, joinee>>
threadVars == <<m_pThread, g_bThread, tpc, owner>>
readerVars == <<rpc, robj>>
netVars    == <<npc, nobj, answers>>
vars == <<instance, live, queue, m_bSMCheck, guiVars, threadVars, readerVars,
          netVars, fault, late, raced>>

Init ==
  /\ instance = 0 /\ live = {}
  /\ m_pThread = [o \in Objects |-> 0]
  /\ queue = [o \in Objects |-> {}]
  /\ g_bThread = FALSE /\ m_bSMCheck = FALSE /\ m_bStarted = FALSE
  /\ gpc = "idle" /\ joinee = 0
  /\ tpc = [t \in SendThreads |-> "none"]
  /\ owner = [t \in SendThreads |-> 0]
  /\ rpc = [r \in Readers |-> "none"]
  /\ robj = [r \in Readers |-> 0]
  /\ npc = "idle" /\ nobj = 0 /\ answers = 0
  /\ fault = "none"
  /\ late = FALSE /\ raced = FALSE

Starting == {"init", "spawn", "read"}
Stopping == {"sleep", "join", "clear", "zero"}

RunningSenders == {t \in SendThreads : tpc[t] \notin {"none", "ended"}}
RunningReaders == {r \in Readers : rpc[r] \notin {"none", "ended"}}

(* Every step is one of a program that still runs.                          *)
Runs == fault = "none"

(* History: is InitEvent under way on the network thread amid a Start or a  *)
(* Stop after this step?                                                    *)
SeeRace ==
  raced' = (raced \/ (npc' # "idle" /\ gpc' \in Starting \cup Stopping))

(* What touching the object o does to the program.                          *)
Touch(o) == CASE o = 0 -> "null" [] o \in live -> "none" [] OTHER -> "freed"

(* m_pThread = new thread(&func_thread, this) for the object o.             *)
Spawn(o) ==
  /\ g_bThread' = TRUE
  /\ \E t \in SendThreads :
       /\ tpc[t] = "none" /\ \A u \in 1 .. t - 1 : tpc[u] # "none"
       /\ tpc' = [tpc EXCEPT ![t] = "outer"]
       /\ owner' = [owner EXCEPT ![t] = o]
       /\ m_pThread' = [m_pThread EXCEPT ![o] = t]

-----------------------------------------------------------------------------
(* OnBnClickedButtonStart                                                   *)

Gui(from, to) == gpc = from /\ gpc' = to

StartNew ==
  /\ Runs
  /\ ~m_bStarted
  /\ Gui("idle", "init")
  /\ \E o \in Objects :
       /\ rpc[o] = "none" /\ \A p \in 1 .. o - 1 : rpc[p] # "none"
       /\ IF instance = 0 THEN instance' = o /\ live' = live \cup {o}
                          ELSE UNCHANGED <<instance, live>>
  /\ UNCHANGED <<queue, m_bSMCheck, m_bStarted, joinee, threadVars, readerVars,
                 netVars, fault, late>>
  /\ SeeRace

(* InitEvent: StartSendEventThread looks at g_bThread first.                *)
StartInit ==
  /\ Runs
  /\ Gui("init", IF g_bThread THEN "read" ELSE "spawn")
  /\ UNCHANGED <<instance, live, queue, m_bSMCheck, m_bStarted, joinee,
                 threadVars, readerVars, netVars, fault, late>>
  /\ SeeRace

StartSpawn ==
  /\ Runs
  /\ Gui("spawn", "read")
  /\ Spawn(instance)
  /\ UNCHANGED <<instance, live, queue, m_bSMCheck, m_bStarted, joinee,
                 readerVars, netVars, fault, late>>
  /\ SeeRace

(* Mutant: the readers are not told to run.                                 *)
StartReaderUntold ==
  /\ Runs
  /\ Gui("read", "idle")
  /\ m_bStarted' = TRUE
  /\ rpc' = [rpc EXCEPT ![instance] = "top"]
  /\ UNCHANGED <<instance, live, queue, m_bSMCheck, joinee, threadVars, robj,
                 netVars, fault, late>>
  /\ SeeRace

(* The reader of the n-th Start has the number of the n-th object.          *)
StartReader ==
  /\ Runs
  /\ Gui("read", "idle")
  /\ m_bSMCheck' = TRUE
  /\ m_bStarted' = TRUE
  /\ rpc' = [rpc EXCEPT ![instance] = "top"]
  /\ UNCHANGED <<instance, live, queue, joinee, threadVars, robj, netVars,
                 fault, late>>
  /\ SeeRace

-----------------------------------------------------------------------------
(* OnBnClickedButtonStop                                                    *)

StopFlag ==
  /\ Runs
  /\ m_bStarted
  /\ Gui("idle", "sleep")
  /\ m_bSMCheck' = FALSE
  /\ UNCHANGED <<instance, live, queue, m_bStarted, joinee, threadVars,
                 readerVars, netVars, fault, late>>
  /\ SeeRace

(* Mutant: the destructor waits for a thread it never told to end.          *)
StopDeleteUntold ==
  /\ Runs
  /\ Gui("sleep", IF m_pThread[instance] = 0 THEN "clear" ELSE "join")
  /\ joinee' = m_pThread[instance]
  /\ late' = (late \/ RunningReaders # {})
  /\ UNCHANGED <<instance, live, queue, m_bSMCheck, m_bStarted, threadVars,
                 readerVars, netVars, fault>>
  /\ SeeRace

(* After Sleep(10), ~CEventSend: StopSendEventThread, up to the join.       *)
StopDelete ==
  /\ Runs
  /\ g_bThread' = FALSE
  /\ Gui("sleep", IF m_pThread[instance] = 0 THEN "clear" ELSE "join")
  /\ joinee' = m_pThread[instance]
  /\ late' = (late \/ RunningReaders # {})
  /\ UNCHANGED <<instance, live, queue, m_bSMCheck, m_bStarted, m_pThread, tpc,
                 owner, readerVars, netVars, fault>>
  /\ SeeRace

(* Mutant: no join.                                                         *)
StopDetach ==
  /\ Runs
  /\ Gui("join", "clear")
  /\ m_pThread' = [m_pThread EXCEPT ![instance] = 0]
  /\ UNCHANGED <<instance, live, queue, m_bSMCheck, m_bStarted, joinee,
                 g_bThread, tpc, owner, readerVars, netVars, fault, late>>
  /\ SeeRace

(* The join returns; SAFE_DELETE takes whatever m_pThread is by then, and   *)
(* deleting a thread nobody has joined terminates the program.              *)
StopJoin ==
  /\ Runs
  /\ Gui("join", "clear")
  /\ tpc[joinee] = "ended"
  /\ fault' = IF m_pThread[instance] = joinee THEN "none" ELSE "terminate"
  /\ m_pThread' = [m_pThread EXCEPT ![instance] = 0]
  /\ UNCHANGED <<instance, live, queue, m_bSMCheck, m_bStarted, joinee,
                 g_bThread, tpc, owner, readerVars, netVars, late>>
  /\ SeeRace

(* Mutant: the singleton is kept for the next Start.                        *)
StopKeep ==
  /\ Runs
  /\ Gui("clear", "idle")
  /\ m_bStarted' = FALSE
  /\ UNCHANGED <<instance, live, queue, m_bSMCheck, joinee, threadVars,
                 readerVars, netVars, fault, late>>
  /\ SeeRace

StopFree ==
  /\ Runs
  /\ Gui("clear", "zero")
  /\ live' = live \ {instance}
  /\ queue' = [queue EXCEPT ![instance] = {}]
  /\ UNCHANGED <<instance, m_bSMCheck, m_bStarted, joinee, threadVars,
                 readerVars, netVars, fault, late>>
  /\ SeeRace

(* m_Instance = 0, and the end of Stop.                                     *)
StopZero ==
  /\ Runs
  /\ Gui("zero", "idle")
  /\ instance' = 0
  /\ joinee' = 0
  /\ m_bStarted' = FALSE
  /\ UNCHANGED <<live, queue, m_bSMCheck, threadVars, readerVars, netVars,
                 fault, late>>
  /\ SeeRace

-----------------------------------------------------------------------------
(* ThreadSMCheck                                                            *)

Reader(r, from, to) ==
  /\ Runs
  /\ rpc[r] = from
  /\ rpc' = [rpc EXCEPT ![r] = to]

ReaderTop(r) ==
  /\ Reader(r, "top", IF m_bSMCheck THEN "copy" ELSE "ended")
  /\ UNCHANGED <<instance, live, queue, m_bSMCheck, guiVars, threadVars, robj,
                 netVars, fault, late>>
  /\ SeeRace

(* No event is left, or it is copied and Instance() is evaluated.           *)
ReaderIdle(r) ==
  /\ Reader(r, "copy", "top")
  /\ UNCHANGED <<instance, live, queue, m_bSMCheck, guiVars, threadVars, robj,
                 netVars, fault, late>>
  /\ SeeRace

ReaderCopy(r) ==
  /\ Reader(r, "copy", "push")
  /\ robj' = [robj EXCEPT ![r] = instance]
  /\ UNCHANGED <<instance, live, queue, m_bSMCheck, guiVars, threadVars,
                 netVars, fault, late>>
  /\ SeeRace

(* SendEvent on that object.                                                *)
ReaderPush(r) ==
  /\ Reader(r, "push", "copy")
  /\ robj' = [robj EXCEPT ![r] = 0]
  /\ fault' = Touch(robj[r])
  /\ queue' = [o \in Objects |->
                 IF o = robj[r] /\ o \in live THEN queue[o] \cup {r}
                 ELSE queue[o]]
  /\ UNCHANGED <<instance, live, m_bSMCheck, guiVars, threadVars, netVars, late>>
  /\ SeeRace

-----------------------------------------------------------------------------
(* func_thread and SendThreadLoop                                           *)

Sender(t, from, to) ==
  /\ Runs
  /\ tpc[t] = from
  /\ tpc' = [tpc EXCEPT ![t] = to]

(* SendThreadLoop begins with its object's m_dwLine, m_dwGas and m_dwSpy.   *)
SenderOuter(t) ==
  /\ Sender(t, "outer", IF g_bThread THEN "inner" ELSE "ended")
  /\ fault' = IF g_bThread THEN Touch(owner[t]) ELSE "none"
  /\ UNCHANGED <<instance, live, queue, m_bSMCheck, guiVars, m_pThread,
                 g_bThread, owner, readerVars, netVars, late>>
  /\ SeeRace

SenderInner(t) ==
  /\ Sender(t, "inner", IF g_bThread THEN "work" ELSE "outer")
  /\ UNCHANGED <<instance, live, queue, m_bSMCheck, guiVars, m_pThread,
                 g_bThread, owner, readerVars, netVars, fault, late>>
  /\ SeeRace

(* One round: the queues of its object are looked at, and of what they      *)
(* point at something may be read and stay queued or be done with.          *)
SenderWork(t) ==
  /\ Sender(t, "work", "inner")
  /\ \/ fault' = Touch(owner[t]) /\ UNCHANGED queue
     \/ \E r \in queue[owner[t]] :
          /\ fault' = IF rpc[r] = "ended" THEN "stack" ELSE "none"
          /\ \/ queue' = [queue EXCEPT ![owner[t]] = @ \ {r}]
             \/ UNCHANGED queue
  /\ UNCHANGED <<instance, live, m_bSMCheck, guiVars, m_pThread, g_bThread,
                 owner, readerVars, netVars, late>>
  /\ SeeRace

-----------------------------------------------------------------------------
(* ProcessResponseGetUserTokenList: InitEvent if there is an instance.      *)

Net(from, to) == npc = from /\ npc' = to

AnswerArrives ==
  /\ Runs
  /\ answers < MaxAnswers
  /\ instance # 0
  /\ Net("idle", "init")
  /\ nobj' = instance
  /\ answers' = answers + 1
  /\ UNCHANGED <<instance, live, queue, m_bSMCheck, guiVars, threadVars,
                 readerVars, fault, late>>
  /\ SeeRace

AnswerInit ==
  /\ Runs
  /\ Net("init", IF g_bThread THEN "idle" ELSE "spawn")
  /\ fault' = Touch(nobj)
  /\ UNCHANGED <<instance, live, queue, m_bSMCheck, guiVars, threadVars,
                 readerVars, nobj, answers, late>>
  /\ SeeRace

AnswerSpawn ==
  /\ Runs
  /\ Net("spawn", "idle")
  /\ fault' = Touch(nobj)
  /\ Spawn(nobj)
  /\ UNCHANGED <<instance, live, queue, m_bSMCheck, guiVars, readerVars, nobj,
                 answers, late>>
  /\ SeeRace

-----------------------------------------------------------------------------
Start == StartNew \/ StartInit \/ StartSpawn \/ StartReader
Stop  == StopFlag \/ StopDelete \/ StopJoin \/ StopFree \/ StopZero
ReaderThread(r) ==
  ReaderTop(r) \/ ReaderIdle(r) \/ ReaderCopy(r) \/ ReaderPush(r)
SendThread(t) == SenderOuter(t) \/ SenderInner(t) \/ SenderWork(t)
Network == AnswerArrives \/ AnswerInit \/ AnswerSpawn

Next ==
  \/ Start
  \/ Stop
  \/ \E r \in Readers : ReaderThread(r)
  \/ \E t \in SendThreads : SendThread(t)
  \/ Network

Spec == Init /\ [][Next]_vars

(* Windows schedules every thread that can run.                             *)
FairSpec ==
  /\ Spec
  /\ WF_vars(StopDelete \/ StopJoin \/ StopFree \/ StopZero)
  /\ \A r \in Readers : WF_vars(ReaderThread(r))
  /\ \A t \in SendThreads : WF_vars(SendThread(t))

-----------------------------------------------------------------------------
(* Types; the singleton is an object that exists, except between the two    *)
(* statements of Delete.                                                    *)
TypeOK ==
  /\ live \subseteq Objects
  /\ instance \in live \cup {0} \/ gpc = "zero"
  /\ m_pThread \in [Objects -> SendThreads \cup {0}]
  /\ queue \in [Objects -> SUBSET Readers]
  /\ {g_bThread, m_bSMCheck, m_bStarted, late, raced} \subseteq BOOLEAN
  /\ gpc \in {"idle"} \cup Starting \cup Stopping
  /\ joinee \in SendThreads \cup {0}
  /\ tpc \in [SendThreads -> {"none", "outer", "inner", "work", "ended"}]
  /\ owner \in [SendThreads -> Objects \cup {0}]
  /\ rpc \in [Readers -> {"none", "top", "copy", "push", "ended"}]
  /\ robj \in [Readers -> Objects \cup {0}]
  /\ npc \in {"idle", "init", "spawn"} /\ nobj \in Objects \cup {0}
  /\ answers \in 0 .. MaxAnswers
  /\ fault \in {"none", "null", "freed", "stack", "terminate"}

(* A started SISender has one reader and one sending thread that work for   *)
(* the same object, after any number of restarts, unless a Sleep(10) was    *)
(* too short or a list of recipients came amid a Start or a Stop.           *)
RunningWhenStarted ==
  m_bStarted /\ gpc = "idle" /\ fault = "none" /\ ~late /\ ~raced =>
    /\ RunningReaders = {instance}
    /\ \E t \in SendThreads : /\ RunningSenders = {t}
                              /\ owner[t] = instance
                              /\ m_pThread[instance] = t

(* What can end the program, and only so: a reader or InitEvent finds the   *)
(* singleton gone only after one of the two races; a copy is read after its *)
(* reader has ended only while Stop waits for the sending thread, or after  *)
(* one of the races; a thread object is lost only by InitEvent amid a Stop. *)
FaultsExplained ==
  /\ fault \in {"null", "freed"} => late \/ raced
  /\ fault = "stack" => gpc \in Stopping \/ late \/ raced
  /\ fault = "terminate" => raced

(* Outside of Stop no queue points into the stack of a reader that has      *)
(* ended.                                                                   *)
QueuedCopiesExist ==
  gpc \notin Stopping /\ ~late /\ ~raced =>
    \A o \in live : queue[o] \subseteq RunningReaders

(* A Stop ends, unless InitEvent has told the sending threads to go on in   *)
(* its midst.                                                               *)
StopReturns == gpc \in Stopping ~> gpc = "idle" \/ raced \/ fault # "none"
=============================================================================
