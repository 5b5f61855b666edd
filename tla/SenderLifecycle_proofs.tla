----------------------- MODULE SenderLifecycle_proofs -----------------------
(***************************************************************************)
(* For any number of Starts, sending threads and lists of recipients: the  *)
(* types, what can end the program, what the queues point at, and the      *)
(* threads of a started SISender.                                          *)
(*                                                                         *)
(* The last three speak of runs without one of the two races (Sleep(10)    *)
(* too short, InitEvent amid a Start or Stop).  They are inductive together*)
(* with what such a run looks like at each place of Start and Stop: which  *)
(* threads run, for which object, and whose copies are queued.             *)
(***************************************************************************)
EXTENDS SenderLifecycle, TLAPS

USE BoundsAssumption

(* Neither race has happened.                                               *)
Clean == ~late /\ ~raced

(* Started, and neither Start nor Stop is under way.                        *)
Up == m_bStarted /\ gpc = "idle"

(* There is an instance but before Start and after Stop.                    *)
InstanceFits ==
  IF gpc = "idle" /\ ~m_bStarted THEN instance = 0 ELSE instance \in Objects

(* Only the object of this Start exists.                                    *)
ObjectsFit ==
  /\ live \subseteq {instance}
  /\ gpc = "zero" => live = {}

(* Only the reader of this Start runs, from StartReader to Sleep(10).       *)
ReadersFit ==
  /\ \A r \in Readers : rpc[r] \notin {"none", "ended"} =>
       r = instance /\ (Up \/ gpc = "sleep")
  /\ \A r \in Readers : rpc[r] = "push" => robj[r] = instance
  /\ Up => m_bSMCheck /\ rpc[instance] \notin {"none", "ended"}

(* Only the sending thread of this object runs, from StartSpawn to the      *)
(* join, and till then it is told to go on.                                 *)
SendersFit ==
  /\ \A t \in SendThreads : tpc[t] \notin {"none", "ended"} =>
       /\ Up \/ gpc \in {"read", "sleep", "join"}
       /\ owner[t] = instance /\ m_pThread[instance] = t
  /\ g_bThread <=> Up \/ gpc \in {"read", "sleep"}
  /\ g_bThread => /\ m_pThread[instance] # 0
                  /\ tpc[m_pThread[instance]] \notin {"none", "ended"}
  /\ gpc = "join" => joinee = m_pThread[instance]

(* The queues hold copies of this Start's reader, for this object.          *)
QueuesFit ==
  \A o \in Objects : \A r \in queue[o] :
    o = instance /\ r = instance /\ (Up \/ gpc \in {"sleep", "join", "clear"})

(* InitEvent on the network thread finds the instance, and a thread.        *)
NetworkFits == npc # "idle" => Up /\ npc = "init" /\ nobj = instance

(* InitEvent is not under way amid a Stop, and Stop waits for the thread it *)
(* is going to delete.                                                      *)
JoinFits ==
  /\ gpc \in Starting \cup Stopping => npc = "idle"
  /\ gpc = "join" => joinee = m_pThread[instance]

CleanRun ==
  ObjectsFit /\ ReadersFit /\ SendersFit /\ QueuesFit /\ NetworkFits

IInv ==
  /\ TypeOK
  /\ InstanceFits
  /\ FaultsExplained
  /\ ~raced => JoinFits
  /\ Clean => CleanRun

-----------------------------------------------------------------------------
(* Types                                                                    *)

Types == TypeOK /\ InstanceFits

(* What touching an object may do.                                          *)
LEMMA TouchType ==
  ASSUME NEW o PROVE Touch(o) \in {"none", "null", "freed"}
  BY DEF Touch

(* A new sending thread has its types.                                      *)
LEMMA SpawnTypes ==
  ASSUME TypeOK, NEW o \in Objects \cup {0}, Spawn(o)
  PROVE  /\ g_bThread' \in BOOLEAN
         /\ tpc' \in [SendThreads -> {"none", "outer", "inner", "work", "ended"}]
         /\ owner' \in [SendThreads -> Objects \cup {0}]
         /\ m_pThread' \in [Objects -> SendThreads \cup {0}]
  <1>1. PICK t \in SendThreads :
          /\ tpc' = [tpc EXCEPT ![t] = "outer"]
          /\ owner' = [owner EXCEPT ![t] = o]
          /\ m_pThread' = [m_pThread EXCEPT ![o] = t]
    BY DEF Spawn
  <1>2. g_bThread' = TRUE
    BY DEF Spawn
  <1>3. /\ m_pThread \in [Objects -> SendThreads \cup {0}]
        /\ owner \in [SendThreads -> Objects \cup {0}]
        /\ tpc \in [SendThreads -> {"none", "outer", "inner", "work", "ended"}]
    BY DEF TypeOK
  <1> QED
    BY <1>1, <1>2, <1>3

LEMMA TypesStart == Types /\ Start => Types'
  <1> SUFFICES ASSUME Types, Start PROVE Types'
    OBVIOUS
  <1>1. CASE StartNew
    BY <1>1 DEF StartNew, Gui, Types, TypeOK, InstanceFits, Runs, SeeRace,
       Starting, Stopping, guiVars, threadVars, readerVars, netVars
  <1>2. CASE StartInit
    BY <1>2 DEF StartInit, Gui, Types, TypeOK, InstanceFits, Runs, SeeRace,
       Starting, Stopping, guiVars, threadVars, readerVars, netVars
  <1>3. CASE StartSpawn
    BY <1>3, SpawnTypes DEF StartSpawn, Gui, Types, TypeOK, InstanceFits,
       Runs, SeeRace, Starting, Stopping, guiVars, threadVars, readerVars,
       netVars
  <1>4. CASE StartReader
    BY <1>4 DEF StartReader, Gui, Types, TypeOK, InstanceFits, Runs, SeeRace,
       Starting, Stopping, guiVars, threadVars, readerVars, netVars
  <1> QED
    BY <1>1, <1>2, <1>3, <1>4 DEF Start

LEMMA TypesStop == Types /\ Stop => Types'
  <1> SUFFICES ASSUME Types, Stop PROVE Types'
    OBVIOUS
  <1>1. CASE StopFlag
    BY <1>1 DEF StopFlag, Gui, Types, TypeOK, InstanceFits, Runs, SeeRace,
       Starting, Stopping, guiVars, threadVars, readerVars, netVars
  <1>2. CASE StopDelete
    BY <1>2 DEF StopDelete, Gui, Types, TypeOK, InstanceFits, Runs, SeeRace,
       Starting, Stopping, guiVars, threadVars, readerVars, netVars
  <1>3. CASE StopJoin
    BY <1>3 DEF StopJoin, Gui, Types, TypeOK, InstanceFits, Runs, SeeRace,
       Starting, Stopping, guiVars, threadVars, readerVars, netVars
  <1>4. CASE StopFree
    BY <1>4 DEF StopFree, Gui, Types, TypeOK, InstanceFits, Runs, SeeRace,
       Starting, Stopping, guiVars, threadVars, readerVars, netVars
  <1>5. CASE StopZero
    BY <1>5 DEF StopZero, Gui, Types, TypeOK, InstanceFits, Runs, SeeRace,
       Starting, Stopping, guiVars, threadVars, readerVars, netVars
  <1> QED
    BY <1>1, <1>2, <1>3, <1>4, <1>5 DEF Stop

LEMMA TypesReader ==
  ASSUME Types, NEW r \in Readers, ReaderThread(r)
  PROVE  Types'
  <1>1. CASE ReaderTop(r)
    BY <1>1, TouchType DEF ReaderTop, Reader, Types, TypeOK, InstanceFits,
       Runs, SeeRace, Starting, Stopping, guiVars, threadVars, readerVars,
       netVars
  <1>2. CASE ReaderIdle(r)
    BY <1>2, TouchType DEF ReaderIdle, Reader, Types, TypeOK, InstanceFits,
       Runs, SeeRace, Starting, Stopping, guiVars, threadVars, readerVars,
       netVars
  <1>3. CASE ReaderCopy(r)
    BY <1>3, TouchType DEF ReaderCopy, Reader, Types, TypeOK, InstanceFits,
       Runs, SeeRace, Starting, Stopping, guiVars, threadVars, readerVars,
       netVars
  <1>4. CASE ReaderPush(r)
    BY <1>4, TouchType DEF ReaderPush, Reader, Types, TypeOK, InstanceFits,
       Runs, SeeRace, Starting, Stopping, guiVars, threadVars, readerVars,
       netVars
  <1> QED
    BY <1>1, <1>2, <1>3, <1>4 DEF ReaderThread

LEMMA TypesSender ==
  ASSUME Types, NEW t \in SendThreads, SendThread(t)
  PROVE  Types'
  <1>1. CASE SenderOuter(t)
    BY <1>1, TouchType DEF SenderOuter, Sender, Types, TypeOK, InstanceFits,
       Runs, SeeRace, Starting, Stopping, guiVars, threadVars, readerVars,
       netVars
  <1>2. CASE SenderInner(t)
    BY <1>2, TouchType DEF SenderInner, Sender, Types, TypeOK, InstanceFits,
       Runs, SeeRace, Starting, Stopping, guiVars, threadVars, readerVars,
       netVars
  <1>3. CASE SenderWork(t)
    BY <1>3, TouchType DEF SenderWork, Sender, Types, TypeOK, InstanceFits,
       Runs, SeeRace, Starting, Stopping, guiVars, threadVars, readerVars,
       netVars
  <1> QED
    BY <1>1, <1>2, <1>3 DEF SendThread

LEMMA TypesNetwork == Types /\ Network => Types'
  <1> SUFFICES ASSUME Types, Network PROVE Types'
    OBVIOUS
  <1>1. CASE AnswerArrives
    BY <1>1, TouchType DEF AnswerArrives, Net, Types, TypeOK, InstanceFits,
       Runs, SeeRace, Starting, Stopping, guiVars, threadVars, readerVars,
       netVars
  <1>2. CASE AnswerInit
    BY <1>2, TouchType DEF AnswerInit, Net, Types, TypeOK, InstanceFits, Runs,
       SeeRace, Starting, Stopping, guiVars, threadVars, readerVars, netVars
  <1>3. CASE AnswerSpawn
    BY <1>3, TouchType, SpawnTypes DEF AnswerSpawn, Net, Types, TypeOK,
       InstanceFits, Runs, SeeRace, Starting, Stopping, guiVars, threadVars,
       readerVars, netVars
  <1> QED
    BY <1>1, <1>2, <1>3 DEF Network

-----------------------------------------------------------------------------
(* A run without the two races                                              *)

(* The object of this Start is the only one after every step.               *)
LEMMA ObjectsFitNext ==
  ASSUME IInv, Types', Next, Clean, Clean'
  PROVE  ObjectsFit'
  <1>a. Types /\ ObjectsFit /\ ReadersFit /\ SendersFit /\ QueuesFit /\ NetworkFits
    BY DEF IInv, Types, CleanRun
  <1>1. CASE StartNew
    <2>1. instance = 0 /\ gpc' = "init"
      BY <1>1, <1>a DEF StartNew, Gui, Types, InstanceFits
    <2>2. live = {}
      BY <2>1, <1>a DEF Types, TypeOK, ObjectsFit, Objects
    <2>3. PICK o \in Objects : instance' = o /\ live' = live \cup {o}
      BY <1>1, <2>1 DEF StartNew
    <2> QED
      BY <2>1, <2>2, <2>3 DEF ObjectsFit
  <1>2. CASE StartInit
    BY <1>2, <1>a DEF StartInit, Gui, ObjectsFit
  <1>3. CASE StartSpawn
    BY <1>3, <1>a DEF StartSpawn, Gui, ObjectsFit
  <1>4. CASE StartReader
    BY <1>4, <1>a DEF StartReader, Gui, ObjectsFit
  <1>5. CASE StopFlag
    BY <1>5, <1>a DEF StopFlag, Gui, ObjectsFit
  <1>6. CASE StopDelete
    BY <1>6, <1>a DEF StopDelete, Gui, ObjectsFit
  <1>7. CASE StopJoin
    BY <1>7, <1>a DEF StopJoin, Gui, ObjectsFit
  <1>8. CASE StopFree
    BY <1>8, <1>a DEF StopFree, Gui, ObjectsFit
  <1>9. CASE StopZero
    BY <1>9, <1>a DEF StopZero, Gui, ObjectsFit
  <1>10. CASE AnswerArrives
    BY <1>10, <1>a DEF AnswerArrives, Net, ObjectsFit, guiVars
  <1>11. CASE AnswerInit
    BY <1>11, <1>a DEF AnswerInit, Net, ObjectsFit, guiVars
  <1>12. CASE AnswerSpawn
    BY <1>12, <1>a DEF AnswerSpawn, Net, NetworkFits
  <1>13. ASSUME NEW r \in Readers, ReaderTop(r) PROVE ObjectsFit'
    BY <1>13, <1>a DEF ReaderTop, Reader, ObjectsFit, guiVars
  <1>14. ASSUME NEW r \in Readers, ReaderIdle(r) PROVE ObjectsFit'
    BY <1>14, <1>a DEF ReaderIdle, Reader, ObjectsFit, guiVars
  <1>15. ASSUME NEW r \in Readers, ReaderCopy(r) PROVE ObjectsFit'
    BY <1>15, <1>a DEF ReaderCopy, Reader, ObjectsFit, guiVars
  <1>16. ASSUME NEW r \in Readers, ReaderPush(r) PROVE ObjectsFit'
    BY <1>16, <1>a DEF ReaderPush, Reader, ObjectsFit, guiVars
  <1>17. ASSUME NEW t \in SendThreads, SenderOuter(t) PROVE ObjectsFit'
    BY <1>17, <1>a DEF SenderOuter, Sender, ObjectsFit, guiVars
  <1>18. ASSUME NEW t \in SendThreads, SenderInner(t) PROVE ObjectsFit'
    BY <1>18, <1>a DEF SenderInner, Sender, ObjectsFit, guiVars
  <1>19. ASSUME NEW t \in SendThreads, SenderWork(t) PROVE ObjectsFit'
    BY <1>19, <1>a DEF SenderWork, Sender, ObjectsFit, guiVars
  <1> QED
    BY <1>1, <1>2, <1>3, <1>4, <1>5, <1>6, <1>7, <1>8, <1>9, <1>10, <1>11,
       <1>12, <1>13, <1>14, <1>15, <1>16, <1>17, <1>18, <1>19 DEF Next, Start,
       Stop, Network, ReaderThread, SendThread

(* No second reader, and none outside of its Start and Stop.                *)
LEMMA ReadersFitNext ==
  ASSUME IInv, Types', Next, Clean, Clean'
  PROVE  ReadersFit'
  <1>a. Types /\ ObjectsFit /\ ReadersFit /\ SendersFit /\ QueuesFit /\ NetworkFits
    BY DEF IInv, Types, CleanRun
  <1>1. CASE StartNew
    <2>1. \A r \in Readers : rpc[r] \in {"none", "ended"}
      BY <1>1, <1>a DEF StartNew, Gui, Types, TypeOK, InstanceFits, ReadersFit, Up
    <2>2. UNCHANGED rpc /\ gpc' = "init"
      BY <1>1 DEF StartNew, Gui, readerVars
    <2> QED
      BY <2>1, <2>2 DEF ReadersFit, Up
  <1>2. CASE StartInit
    BY <1>2, <1>a DEF StartInit, Gui, Up, ReadersFit, readerVars
  <1>3. CASE StartSpawn
    BY <1>3, <1>a DEF StartSpawn, Gui, Up, ReadersFit, readerVars
  <1>4. CASE StartReader
    BY <1>4, <1>a DEF StartReader, Gui, TypeOK, Up, ReadersFit, Types
  <1>5. CASE StopFlag
    BY <1>5, <1>a DEF StopFlag, Gui, Up, ReadersFit, readerVars
  <1>6. CASE StopDelete
    BY <1>6, <1>a DEF StopDelete, Gui, Up, ReadersFit, Clean, RunningReaders,
       readerVars
  <1>7. CASE StopJoin
    BY <1>7, <1>a DEF StopJoin, Gui, Up, ReadersFit, readerVars
  <1>8. CASE StopFree
    BY <1>8, <1>a DEF StopFree, Gui, Up, ReadersFit, readerVars
  <1>9. CASE StopZero
    BY <1>9, <1>a DEF StopZero, Gui, Up, ReadersFit, readerVars
  <1>10. CASE AnswerArrives
    BY <1>10, <1>a DEF AnswerArrives, Net, Up, ReadersFit, guiVars, readerVars
  <1>11. CASE AnswerInit
    BY <1>11, <1>a DEF AnswerInit, Net, Up, ReadersFit, guiVars, readerVars
  <1>12. CASE AnswerSpawn
    BY <1>12, <1>a DEF AnswerSpawn, Net, NetworkFits
  <1>13. ASSUME NEW r \in Readers, ReaderTop(r) PROVE ReadersFit'
    BY <1>13, <1>a DEF ReaderTop, Reader, Up, ReadersFit, guiVars
  <1>14. ASSUME NEW r \in Readers, ReaderIdle(r) PROVE ReadersFit'
    BY <1>14, <1>a DEF ReaderIdle, Reader, Up, ReadersFit, guiVars
  <1>15. ASSUME NEW r \in Readers, ReaderCopy(r) PROVE ReadersFit'
    BY <1>15, <1>a DEF ReaderCopy, Reader, TypeOK, Up, ReadersFit, guiVars,
       Types
  <1>16. ASSUME NEW r \in Readers, ReaderPush(r) PROVE ReadersFit'
    BY <1>16, <1>a DEF ReaderPush, Reader, TypeOK, Up, ReadersFit, guiVars,
       Types
  <1>17. ASSUME NEW t \in SendThreads, SenderOuter(t) PROVE ReadersFit'
    BY <1>17, <1>a DEF SenderOuter, Sender, Up, ReadersFit, guiVars, readerVars
  <1>18. ASSUME NEW t \in SendThreads, SenderInner(t) PROVE ReadersFit'
    BY <1>18, <1>a DEF SenderInner, Sender, Up, ReadersFit, guiVars, readerVars
  <1>19. ASSUME NEW t \in SendThreads, SenderWork(t) PROVE ReadersFit'
    BY <1>19, <1>a DEF SenderWork, Sender, Up, ReadersFit, guiVars, readerVars
  <1> QED
    BY <1>1, <1>2, <1>3, <1>4, <1>5, <1>6, <1>7, <1>8, <1>9, <1>10, <1>11,
       <1>12, <1>13, <1>14, <1>15, <1>16, <1>17, <1>18, <1>19 DEF Next, Start,
       Stop, Network, ReaderThread, SendThread

(* No second sending thread, and none that works for another object.        *)
LEMMA SendersFitNext ==
  ASSUME IInv, Types', Next, Clean, Clean'
  PROVE  SendersFit'
  <1>a. Types /\ ObjectsFit /\ ReadersFit /\ SendersFit /\ QueuesFit /\ NetworkFits
    BY DEF IInv, Types, CleanRun
  <1>1. CASE StartNew
    BY <1>1, <1>a DEF StartNew, Gui, Up, SendersFit, threadVars
  <1>2. CASE StartInit
    BY <1>2, <1>a DEF StartInit, Gui, Up, SendersFit, threadVars
  <1>3. CASE StartSpawn
    <2>1. PICK t \in SendThreads :
            /\ tpc' = [tpc EXCEPT ![t] = "outer"]
            /\ owner' = [owner EXCEPT ![t] = instance]
            /\ m_pThread' = [m_pThread EXCEPT ![instance] = t]
      BY <1>3 DEF StartSpawn, Spawn
    <2>2. g_bThread' = TRUE /\ UNCHANGED instance /\ gpc = "spawn" /\ gpc' = "read"
      BY <1>3 DEF StartSpawn, Spawn, Gui
    <2>3. instance \in Objects /\ t # 0
      BY <1>a, <2>2 DEF Types, InstanceFits, SendThreads
    <2>4. /\ m_pThread \in [Objects -> SendThreads \cup {0}]
          /\ owner \in [SendThreads -> Objects \cup {0}]
          /\ tpc \in [SendThreads -> {"none", "outer", "inner", "work", "ended"}]
      BY <1>a DEF Types, TypeOK
    <2>5. \A u \in SendThreads : tpc[u] \in {"none", "ended"}
      BY <1>a, <2>2, <2>4 DEF SendersFit, Up
    <2> QED
      BY <2>1, <2>2, <2>3, <2>4, <2>5 DEF SendersFit, Up
  <1>4. CASE StartReader
    BY <1>4, <1>a DEF StartReader, Gui, Up, SendersFit, threadVars
  <1>5. CASE StopFlag
    BY <1>5, <1>a DEF StopFlag, Gui, Up, SendersFit, threadVars
  <1>6. CASE StopDelete
    BY <1>6, <1>a DEF StopDelete, Gui, Up, SendersFit
  <1>7. CASE StopJoin
    BY <1>7, <1>a DEF StopJoin, Gui, Up, SendersFit
  <1>8. CASE StopFree
    BY <1>8, <1>a DEF StopFree, Gui, Up, SendersFit, threadVars
  <1>9. CASE StopZero
    BY <1>9, <1>a DEF StopZero, Gui, Up, SendersFit, threadVars
  <1>10. CASE AnswerArrives
    BY <1>10, <1>a DEF AnswerArrives, Net, Up, SendersFit, guiVars, threadVars
  <1>11. CASE AnswerInit
    BY <1>11, <1>a DEF AnswerInit, Net, Up, SendersFit, guiVars, threadVars
  <1>12. CASE AnswerSpawn
    BY <1>12, <1>a DEF AnswerSpawn, Net, NetworkFits
  <1>13. ASSUME NEW r \in Readers, ReaderTop(r) PROVE SendersFit'
    BY <1>13, <1>a DEF ReaderTop, Reader, Up, SendersFit, guiVars, threadVars
  <1>14. ASSUME NEW r \in Readers, ReaderIdle(r) PROVE SendersFit'
    BY <1>14, <1>a DEF ReaderIdle, Reader, Up, SendersFit, guiVars, threadVars
  <1>15. ASSUME NEW r \in Readers, ReaderCopy(r) PROVE SendersFit'
    BY <1>15, <1>a DEF ReaderCopy, Reader, Up, SendersFit, guiVars, threadVars
  <1>16. ASSUME NEW r \in Readers, ReaderPush(r) PROVE SendersFit'
    BY <1>16, <1>a DEF ReaderPush, Reader, Up, SendersFit, guiVars, threadVars
  <1>17. ASSUME NEW t \in SendThreads, SenderOuter(t) PROVE SendersFit'
    BY <1>17, <1>a DEF SenderOuter, Sender, Up, SendersFit, guiVars
  <1>18. ASSUME NEW t \in SendThreads, SenderInner(t) PROVE SendersFit'
    BY <1>18, <1>a DEF SenderInner, Sender, Up, SendersFit, guiVars
  <1>19. ASSUME NEW t \in SendThreads, SenderWork(t) PROVE SendersFit'
    BY <1>19, <1>a DEF SenderWork, Sender, Up, SendersFit, guiVars
  <1> QED
    BY <1>1, <1>2, <1>3, <1>4, <1>5, <1>6, <1>7, <1>8, <1>9, <1>10, <1>11,
       <1>12, <1>13, <1>14, <1>15, <1>16, <1>17, <1>18, <1>19 DEF Next, Start,
       Stop, Network, ReaderThread, SendThread

(* No copy of another reader, and none that outlives the object.            *)
LEMMA QueuesFitNext ==
  ASSUME IInv, Types', Next, Clean, Clean'
  PROVE  QueuesFit'
  <1>a. Types /\ ObjectsFit /\ ReadersFit /\ SendersFit /\ QueuesFit /\ NetworkFits
    BY DEF IInv, Types, CleanRun
  <1>1. CASE StartNew
    BY <1>1, <1>a DEF StartNew, Gui, Up, QueuesFit
  <1>2. CASE StartInit
    BY <1>2, <1>a DEF StartInit, Gui, Up, QueuesFit
  <1>3. CASE StartSpawn
    BY <1>3, <1>a DEF StartSpawn, Gui, Up, QueuesFit
  <1>4. CASE StartReader
    BY <1>4, <1>a DEF StartReader, Gui, Up, QueuesFit
  <1>5. CASE StopFlag
    BY <1>5, <1>a DEF StopFlag, Gui, QueuesFit
  <1>6. CASE StopDelete
    BY <1>6, <1>a DEF StopDelete, Gui, QueuesFit
  <1>7. CASE StopJoin
    BY <1>7, <1>a DEF StopJoin, Gui, QueuesFit
  <1>8. CASE StopFree
    BY <1>8, <1>a DEF StopFree, Gui, TypeOK, QueuesFit, Types
  <1>9. CASE StopZero
    BY <1>9, <1>a DEF StopZero, Gui, Up, QueuesFit
  <1>10. CASE AnswerArrives
    BY <1>10, <1>a DEF AnswerArrives, Net, Up, QueuesFit, guiVars
  <1>11. CASE AnswerInit
    BY <1>11, <1>a DEF AnswerInit, Net, Up, QueuesFit, guiVars
  <1>12. CASE AnswerSpawn
    BY <1>12, <1>a DEF AnswerSpawn, Net, NetworkFits
  <1>13. ASSUME NEW r \in Readers, ReaderTop(r) PROVE QueuesFit'
    BY <1>13, <1>a DEF ReaderTop, Reader, Up, QueuesFit, guiVars
  <1>14. ASSUME NEW r \in Readers, ReaderIdle(r) PROVE QueuesFit'
    BY <1>14, <1>a DEF ReaderIdle, Reader, Up, QueuesFit, guiVars
  <1>15. ASSUME NEW r \in Readers, ReaderCopy(r) PROVE QueuesFit'
    BY <1>15, <1>a DEF ReaderCopy, Reader, Up, QueuesFit, guiVars
  <1>16. ASSUME NEW r \in Readers, ReaderPush(r) PROVE QueuesFit'
    BY <1>16, <1>a DEF ReaderPush, Reader, Up, ReadersFit, QueuesFit, guiVars
  <1>17. ASSUME NEW t \in SendThreads, SenderOuter(t) PROVE QueuesFit'
    BY <1>17, <1>a DEF SenderOuter, Sender, Up, QueuesFit, guiVars
  <1>18. ASSUME NEW t \in SendThreads, SenderInner(t) PROVE QueuesFit'
    BY <1>18, <1>a DEF SenderInner, Sender, Up, QueuesFit, guiVars
  <1>19. ASSUME NEW t \in SendThreads, SenderWork(t) PROVE QueuesFit'
    BY <1>19, <1>a DEF SenderWork, Sender, TypeOK, Up, QueuesFit, guiVars, Types
  <1> QED
    BY <1>1, <1>2, <1>3, <1>4, <1>5, <1>6, <1>7, <1>8, <1>9, <1>10, <1>11,
       <1>12, <1>13, <1>14, <1>15, <1>16, <1>17, <1>18, <1>19 DEF Next, Start,
       Stop, Network, ReaderThread, SendThread

(* InitEvent runs on the network thread only while nothing starts or stops. *)
LEMMA NetworkFitsNext ==
  ASSUME IInv, Types', Next, Clean, Clean'
  PROVE  NetworkFits'
  <1>a. Types /\ ObjectsFit /\ ReadersFit /\ SendersFit /\ QueuesFit /\ NetworkFits
    BY DEF IInv, Types, CleanRun
  <1>1. CASE StartNew
    BY <1>1, <1>a DEF StartNew, Gui, NetworkFits, Clean, SeeRace, Starting
  <1>2. CASE StartInit
    BY <1>2, <1>a DEF StartInit, Gui, NetworkFits, Clean, SeeRace, Starting
  <1>3. CASE StartSpawn
    BY <1>3, <1>a DEF StartSpawn, Gui, NetworkFits, Clean, SeeRace, Starting
  <1>4. CASE StartReader
    BY <1>4, <1>a DEF StartReader, Gui, Up, NetworkFits, netVars
  <1>5. CASE StopFlag
    BY <1>5, <1>a DEF StopFlag, Gui, NetworkFits, Clean, SeeRace, Stopping
  <1>6. CASE StopDelete
    BY <1>6, <1>a DEF StopDelete, Gui, NetworkFits, Clean, SeeRace, Stopping
  <1>7. CASE StopJoin
    BY <1>7, <1>a DEF StopJoin, Gui, NetworkFits, Clean, SeeRace, Stopping
  <1>8. CASE StopFree
    BY <1>8, <1>a DEF StopFree, Gui, NetworkFits, Clean, SeeRace, Stopping
  <1>9. CASE StopZero
    BY <1>9, <1>a DEF StopZero, Gui, Up, NetworkFits, netVars
  <1>10. CASE AnswerArrives
    BY <1>10, <1>a DEF AnswerArrives, Net, TypeOK, InstanceFits, Up,
       NetworkFits, Clean, SeeRace, Types
  <1>11. CASE AnswerInit
    BY <1>11, <1>a DEF AnswerInit, Net, SendersFit, NetworkFits
  <1>12. CASE AnswerSpawn
    BY <1>12, <1>a DEF AnswerSpawn, Net, NetworkFits
  <1>13. ASSUME NEW r \in Readers, ReaderTop(r) PROVE NetworkFits'
    BY <1>13, <1>a DEF ReaderTop, Reader, Up, NetworkFits, guiVars, netVars
  <1>14. ASSUME NEW r \in Readers, ReaderIdle(r) PROVE NetworkFits'
    BY <1>14, <1>a DEF ReaderIdle, Reader, Up, NetworkFits, guiVars, netVars
  <1>15. ASSUME NEW r \in Readers, ReaderCopy(r) PROVE NetworkFits'
    BY <1>15, <1>a DEF ReaderCopy, Reader, Up, NetworkFits, guiVars, netVars
  <1>16. ASSUME NEW r \in Readers, ReaderPush(r) PROVE NetworkFits'
    BY <1>16, <1>a DEF ReaderPush, Reader, Up, NetworkFits, guiVars, netVars
  <1>17. ASSUME NEW t \in SendThreads, SenderOuter(t) PROVE NetworkFits'
    BY <1>17, <1>a DEF SenderOuter, Sender, Up, NetworkFits, guiVars, netVars
  <1>18. ASSUME NEW t \in SendThreads, SenderInner(t) PROVE NetworkFits'
    BY <1>18, <1>a DEF SenderInner, Sender, Up, NetworkFits, guiVars, netVars
  <1>19. ASSUME NEW t \in SendThreads, SenderWork(t) PROVE NetworkFits'
    BY <1>19, <1>a DEF SenderWork, Sender, Up, NetworkFits, guiVars, netVars
  <1> QED
    BY <1>1, <1>2, <1>3, <1>4, <1>5, <1>6, <1>7, <1>8, <1>9, <1>10, <1>11,
       <1>12, <1>13, <1>14, <1>15, <1>16, <1>17, <1>18, <1>19 DEF Next, Start,
       Stop, Network, ReaderThread, SendThread

-----------------------------------------------------------------------------
(* The races, and what they explain                                         *)

(* A race that has happened is not forgotten.                               *)
LEMMA RacesStay ==
  ASSUME Types, Next
  PROVE  (late => late') /\ (raced => raced')
  <1>t. late \in BOOLEAN /\ raced \in BOOLEAN
    BY DEF Types, TypeOK
  <1>1. CASE Start
    BY <1>1, <1>t DEF Start, StartNew, StartInit, StartSpawn, StartReader,
                      SeeRace
  <1>2. CASE Stop
    BY <1>2, <1>t DEF Stop, StopFlag, StopDelete, StopJoin, StopFree, StopZero,
                      SeeRace
  <1>3. ASSUME NEW r \in Readers, ReaderThread(r)
        PROVE  (late => late') /\ (raced => raced')
    BY <1>3, <1>t DEF ReaderThread, ReaderTop, ReaderIdle, ReaderCopy,
                      ReaderPush, SeeRace
  <1>4. ASSUME NEW t \in SendThreads, SendThread(t)
        PROVE  (late => late') /\ (raced => raced')
    BY <1>4, <1>t DEF SendThread, SenderOuter, SenderInner, SenderWork, SeeRace
  <1>5. CASE Network
    BY <1>5, <1>t DEF Network, AnswerArrives, AnswerInit, AnswerSpawn, SeeRace
  <1> QED
    BY <1>1, <1>2, <1>3, <1>4, <1>5 DEF Next

(* Who changes what Stop waits for.                                         *)
LEMMA JoinFitsNext ==
  ASSUME IInv, Next, ~raced, ~raced'
  PROVE  JoinFits'
  <1>a. JoinFits
    BY DEF IInv
  <1>b. SeeRace
    BY DEF Next, Start, Stop, ReaderThread, SendThread, Network, StartNew,
           StartInit, StartSpawn, StartReader, StopFlag, StopDelete, StopJoin,
           StopFree, StopZero, ReaderTop, ReaderIdle, ReaderCopy, ReaderPush,
           SenderOuter, SenderInner, SenderWork, AnswerArrives, AnswerInit,
           AnswerSpawn
  <1>c. gpc' \in Starting \cup Stopping => npc' = "idle"
    BY <1>b DEF SeeRace
  <1>1. CASE Start
    BY <1>1, <1>c DEF Start, StartNew, StartInit, StartSpawn, StartReader, Gui,
                      JoinFits
  <1>2. CASE Stop
    BY <1>2, <1>c DEF Stop, StopFlag, StopDelete, StopJoin, StopFree, StopZero,
                      Gui, JoinFits
  <1>3. ASSUME NEW r \in Readers, ReaderThread(r) PROVE JoinFits'
    BY <1>3, <1>a, <1>c DEF ReaderThread, ReaderTop, ReaderIdle, ReaderCopy,
                            ReaderPush, JoinFits, guiVars, threadVars
  <1>4. ASSUME NEW t \in SendThreads, SendThread(t) PROVE JoinFits'
    BY <1>4, <1>a, <1>c DEF SendThread, SenderOuter, SenderInner, SenderWork,
                            JoinFits, guiVars
  <1>5. CASE Network
    BY <1>5, <1>a, <1>c DEF Network, AnswerArrives, AnswerInit, AnswerSpawn,
                            Net, JoinFits, Stopping, guiVars, threadVars
  <1> QED
    BY <1>1, <1>2, <1>3, <1>4, <1>5 DEF Next

(* Between StartNew and Delete the singleton can be called.                 *)
LEMMA InstanceLives ==
  ASSUME Types, Up \/ gpc \in {"read", "sleep", "join"}
  PROVE  Touch(instance) = "none"
  <1>1. instance \in Objects /\ instance # 0
    BY DEF Types, InstanceFits, Up, Objects
  <1>2. instance \in live
    BY <1>1 DEF Types, TypeOK, Up
  <1> QED
    BY <1>1, <1>2 DEF Touch

(* Each of the steps that can end the program does so only after its race.  *)
LEMMA FaultsNext ==
  ASSUME IInv, Types', Next
  PROVE  FaultsExplained'
  <1>a. Types /\ (~raced => JoinFits) /\ (Clean => CleanRun)
    BY DEF IInv, Types
  <1>b. (late => late') /\ (raced => raced')
    BY <1>a, RacesStay
  <1>c. fault = "none"
    BY DEF Next, Start, Stop, ReaderThread, SendThread, Network, StartNew,
           StartInit, StartSpawn, StartReader, StopFlag, StopDelete, StopJoin,
           StopFree, StopZero, ReaderTop, ReaderIdle, ReaderCopy, ReaderPush,
           SenderOuter, SenderInner, SenderWork, AnswerArrives, AnswerInit,
           AnswerSpawn, Reader, Sender, Runs
  <1>d. fault' = "none" => FaultsExplained'
    BY DEF FaultsExplained
  <1>1. CASE Start
    BY <1>1, <1>c, <1>d DEF Start, StartNew, StartInit, StartSpawn, StartReader
  <1>2. CASE StopJoin
    BY <1>2, <1>a, <1>b, <1>d DEF StopJoin, Gui, JoinFits, FaultsExplained
  <1>3. CASE Stop /\ ~StopJoin
    BY <1>3, <1>c, <1>d DEF Stop, StopFlag, StopDelete, StopFree, StopZero
  <1>4. ASSUME NEW r \in Readers, ReaderThread(r) PROVE FaultsExplained'
    <2>1. CASE ReaderPush(r)
      <3>1. fault' = Touch(robj[r]) /\ fault' \in {"none", "null", "freed"}
        BY <2>1, TouchType DEF ReaderPush
      <3>2. Clean => fault' = "none"
        BY <2>1, <3>1, <1>a, InstanceLives DEF ReaderPush, Reader, CleanRun,
                                               ReadersFit
      <3> QED
        BY <3>1, <3>2, <1>b DEF Clean, FaultsExplained
    <2> QED
      BY <2>1, <1>4, <1>c, <1>d DEF ReaderThread, ReaderTop, ReaderIdle,
                                    ReaderCopy
  <1>5. ASSUME NEW t \in SendThreads, SendThread(t) PROVE FaultsExplained'
    <2>o. tpc[t] \notin {"none", "ended"}
      BY <1>5 DEF SendThread, SenderOuter, SenderInner, SenderWork, Sender
    <2>i. Clean => /\ owner[t] = instance
                   /\ Touch(owner[t]) = "none"
                   /\ Up \/ gpc \in {"read", "sleep", "join"}
      BY <2>o, <1>a, InstanceLives DEF CleanRun, SendersFit
    <2>1. CASE SenderOuter(t)
      <3>1. fault' \in {"none", "null", "freed"} /\ (Clean => fault' = "none")
        BY <2>1, <2>i, TouchType DEF SenderOuter
      <3> QED
        BY <3>1, <1>b DEF Clean, FaultsExplained
    <2>2. CASE SenderInner(t)
      BY <2>2, <1>c, <1>d DEF SenderInner
    <2>3. CASE SenderWork(t)
      <3>1. CASE fault' = Touch(owner[t])
        BY <3>1, <2>i, <1>b, TouchType DEF Clean, FaultsExplained
      <3>2. CASE \E r \in queue[owner[t]] :
                   fault' = IF rpc[r] = "ended" THEN "stack" ELSE "none"
        <4>1. PICK r \in queue[owner[t]] :
                fault' = IF rpc[r] = "ended" THEN "stack" ELSE "none"
          BY <3>2
        <4>2. UNCHANGED gpc
          BY <2>3 DEF SenderWork, guiVars
        <4>3. Clean /\ fault' = "stack" => gpc \in Stopping
          BY <4>1, <2>i, <1>a DEF CleanRun, QueuesFit, ReadersFit, Types,
                                  InstanceFits, Up, Stopping
        <4> QED
          BY <4>1, <4>2, <4>3, <1>b DEF Clean, FaultsExplained
      <3> QED
        BY <2>3, <3>1, <3>2 DEF SenderWork
    <2> QED
      BY <1>5, <2>1, <2>2, <2>3 DEF SendThread
  <1>6. CASE AnswerArrives
    BY <1>6, <1>c, <1>d DEF AnswerArrives
  <1>7. CASE AnswerInit \/ AnswerSpawn
    <2>1. fault' \in {"none", "null", "freed"}
      BY <1>7, TouchType DEF AnswerInit, AnswerSpawn
    <2>2. Clean => fault' = "none"
      BY <1>7, <1>a, InstanceLives DEF AnswerInit, AnswerSpawn, Net, CleanRun,
                                       NetworkFits
    <2> QED
      BY <2>1, <2>2, <1>b DEF Clean, FaultsExplained
  <1> QED
    BY <1>1, <1>2, <1>3, <1>4, <1>5, <1>6, <1>7 DEF Next, Network

-----------------------------------------------------------------------------
(* The invariant                                                            *)

LEMMA IInvInitially == Init => IInv
  <1> SUFFICES ASSUME Init PROVE IInv
    OBVIOUS
  <1>1. TypeOK
    <2>1. /\ m_pThread \in [Objects -> SendThreads \cup {0}]
          /\ queue \in [Objects -> SUBSET Readers]
          /\ tpc \in [SendThreads -> {"none", "outer", "inner", "work", "ended"}]
          /\ owner \in [SendThreads -> Objects \cup {0}]
          /\ rpc \in [Readers -> {"none", "top", "copy", "push", "ended"}]
          /\ robj \in [Readers -> Objects \cup {0}]
      BY DEF Init
    <2>2. answers \in 0 .. MaxAnswers
      BY DEF Init
    <2> QED
      BY <2>1, <2>2 DEF Init, TypeOK
  <1>2. InstanceFits /\ FaultsExplained /\ JoinFits
    BY DEF Init, InstanceFits, FaultsExplained, JoinFits, Starting, Stopping
  <1>3. CleanRun
    BY DEF Init, CleanRun, ObjectsFit, ReadersFit, SendersFit, QueuesFit,
           NetworkFits, Up
  <1> QED
    BY <1>1, <1>2, <1>3 DEF IInv

LEMMA TypesNext == Types /\ Next => Types'
  BY TypesStart, TypesStop, TypesReader, TypesSender, TypesNetwork DEF Next

LEMMA IInvStep == IInv /\ Next => IInv'
  <1> SUFFICES ASSUME IInv, Next PROVE IInv'
    OBVIOUS
  <1>1. Types'
    BY TypesNext DEF IInv, Types
  <1>2. Clean' => Clean /\ ~raced
    BY RacesStay DEF Clean, IInv, Types
  <1>3. Clean' => CleanRun'
    BY <1>1, <1>2, ObjectsFitNext, ReadersFitNext, SendersFitNext,
       QueuesFitNext, NetworkFitsNext DEF CleanRun
  <1>4. ~raced' => JoinFits'
    BY RacesStay, JoinFitsNext DEF IInv, Types
  <1>5. FaultsExplained'
    BY <1>1, FaultsNext
  <1> QED
    BY <1>1, <1>3, <1>4, <1>5 DEF IInv, Types

LEMMA IInvStutter == IInv /\ UNCHANGED vars => IInv'
  BY DEF IInv, vars, guiVars, threadVars, readerVars, netVars, TypeOK,
         InstanceFits, FaultsExplained, JoinFits, Clean, CleanRun, ObjectsFit,
         ReadersFit, SendersFit, QueuesFit, NetworkFits, Up

LEMMA IInvAlways == Spec => []IInv
  <1>1. IInv /\ [Next]_vars => IInv'
    BY IInvStep, IInvStutter
  <1> QED
    BY <1>1, IInvInitially, PTL DEF Spec

(* The singleton m_Instance is an object that exists except between the two *)
(* statements of CEventSend::Delete, and every variable has its type.       *)
THEOREM TypeCorrect == Spec => []TypeOK
  BY IInvAlways, PTL DEF IInv

(* What ends the program has its cause: ThreadSMCheck or                    *)
(* ProcessResponseGetUserTokenList finds CEventSend gone, or a second       *)
(* sending thread takes the place of the joined one, only after one of the  *)
(* two races; a copy is read off a dead stack only amid a Stop or after one.*)
THEOREM FaultsAreExplained == Spec => []FaultsExplained
  BY IInvAlways, PTL DEF IInv

(* After any number of Starts and Stops without a race, a started SISender  *)
(* has exactly one ThreadSMCheck and one func_thread, of the same object.   *)
THEOREM StartedRuns == Spec => []RunningWhenStarted
  <1>1. IInv => RunningWhenStarted
    <2> SUFFICES ASSUME IInv, m_bStarted, gpc = "idle", ~late, ~raced
                 PROVE  /\ RunningReaders = {instance}
                        /\ \E t \in SendThreads :
                             /\ RunningSenders = {t}
                             /\ owner[t] = instance
                             /\ m_pThread[instance] = t
      BY DEF RunningWhenStarted
    <2>1. Up /\ ReadersFit /\ SendersFit /\ instance \in Objects
      BY DEF IInv, Clean, CleanRun, Up, InstanceFits
    <2>2. RunningReaders = {instance}
      BY <2>1 DEF ReadersFit, RunningReaders, Readers, Objects
    <2>3. g_bThread /\ m_pThread[instance] \in SendThreads
      BY <2>1 DEF IInv, TypeOK, SendersFit
    <2>4. /\ RunningSenders = {m_pThread[instance]}
          /\ owner[m_pThread[instance]] = instance
      BY <2>1, <2>3 DEF SendersFit, RunningSenders
    <2> QED
      BY <2>2, <2>3, <2>4
  <1> QED
    BY <1>1, IInvAlways, PTL

(* Outside of Stop the queues of CEventSend point at the stack of a         *)
(* ThreadSMCheck that runs.                                                 *)
THEOREM CopiesExist == Spec => []QueuedCopiesExist
  <1>1. IInv => QueuedCopiesExist
    <2> SUFFICES ASSUME IInv, gpc \notin Stopping, ~late, ~raced,
                        NEW o \in live, NEW r \in queue[o]
                 PROVE  r \in RunningReaders
      BY DEF QueuedCopiesExist
    <2>1. o \in Objects /\ r \in Readers
      BY DEF IInv, TypeOK
    <2>2. r = instance /\ Up
      BY <2>1 DEF IInv, Clean, CleanRun, QueuesFit, Stopping
    <2> QED
      BY <2>1, <2>2 DEF IInv, Clean, CleanRun, ReadersFit, RunningReaders
  <1> QED
    BY <1>1, IInvAlways, PTL
=============================================================================
