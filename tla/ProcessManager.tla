--------------------------- MODULE ProcessManager ---------------------------
(***************************************************************************)
(* The process manager PM and the processes it runs (PM/PMDlg.cpp and the  *)
(* alive and quit timers of Broker, SISender, GFSServer and LogRemover).   *)
(* They share two arrays in shared memory: a process counts its aliveCount *)
(* up, PM compares it with the count it saw last, and a process that finds *)
(* its processRun flag false quits.                                        *)
(*                                                                         *)
(* PM takes a process for dead when its count stands still, asks its       *)
(* window to close and starts another.  The window's OnClose only moves it *)
(* to the tray, so a process that is merely slow lives on beside its       *)
(* successor, and a process that does not answer keeps PM waiting in       *)
(* SendMessage.                                                            *)
(*                                                                         *)
(* Time is in ticks of TIMER_ALIVE_COUNT_PERIOD (500 ms).                  *)
(***************************************************************************)
EXTENDS Integers, FiniteSets

CONSTANTS
  Used,         \* the process indices with use = true
  MaxPids,      \* bound: processes at a time
  CheckPeriod,  \* TIMER_PROCESS_CHECK_PERIOD in ticks
  MaxFaults     \* bound: crashes, hangs, failed launches and exits of PM

BROKER     == 0
SI_SENDER1 == 1
SI_SENDER2 == 2
SI_SENDER3 == 3
Index      == 0 .. 5       \* PROCESS_TOTAL_COUNT
QuitPeriod == 2            \* TIMER_PM_QUIT_CHECK_PERIOD
NONE       == 0            \* no process id
Pids       == 1 .. MaxPids

ASSUME ConstantsAssumption ==
  /\ Used \subseteq Index /\ Used # {}
  /\ MaxPids \in Nat
  /\ CheckPeriod \in Nat /\ CheckPeriod > QuitPeriod
  /\ MaxFaults \in Nat

(* A count up to Small is itself.  Of a larger one it matters only whether  *)
(* it is the one PM has saved, so that two values are enough.               *)
Small  == CheckPeriod + 1
Large  == {Small + 1, Small + 2}
Counts == 0 .. Small + 2

VARIABLES
  \* shared memory
  aliveCount, processRun,
  \* the processes, by process id
  index,     \* the index each was started with, -1: no such process
  phase,     \* "gone", "starting", "up" or "quitting"
  hung,      \* those that do not get to their message queue for now
  count,     \* m_nAliveCount
  quitIn,    \* ticks until TIMER_PM_QUIT_CHECK fires
  \* PM
  pm,        \* where PM is
  i,         \* nCnt, the process its loop is at
  processId, m_nPreAliveCount,
  cur,       \* nCurAliveCount
  bKillTimer,
  wait,      \* ticks until the Sleep or the check timer is over, -1: never
  faults,
  \* history, read by no action of the program:
  replaced,  \* processes that lived when PM took theirs for dead
  steady     \* "seen": PM has saved a count of its own, "fresh": not yet, and
             \* since then it has not hung nor shared its index; "no": it has

memory  == <<aliveCount, processRun>>
procs   == <<index, phase, hung, count, quitIn>>
manager == <<pm, i, processId, m_nPreAliveCount, cur, bKillTimer, wait>>
vars    == <<memory, procs, manager, faults, replaced, steady>>

Live     == {q \in Pids : phase[q] # "gone"}
Of(p)    == {q \in Live : index[q] = p}
Pumps(q) == phase[q] = "up" /\ q \notin hung   \* gets to its messages

Init ==
  /\ aliveCount = [p \in Index |-> 0] /\ processRun = [p \in Index |-> FALSE]
  /\ index = [q \in Pids |-> -1] /\ phase = [q \in Pids |-> "gone"]
  /\ hung = {}
  /\ count = [q \in Pids |-> 0] /\ quitIn = [q \in Pids |-> 0]
  /\ pm = "down" /\ i = 0 /\ wait = 0 /\ cur = 0 /\ bKillTimer = FALSE
  /\ processId = [p \in Index |-> NONE]
  /\ m_nPreAliveCount = [p \in Index |-> 0]
  /\ faults = 0 /\ replaced = {} /\ steady = [q \in Pids |-> "no"]

(* The first used index from p on, or the number of indices.                *)
NextUsed(p) ==
  IF \E u \in Used : u >= p THEN CHOOSE u \in Used : u >= p /\ \A v \in Used : v >= p => u <= v
                            ELSE Cardinality(Index)

Fault == faults < MaxFaults /\ faults' = faults + 1

(* The processes of Q are gone.                                             *)
Ends(Q) ==
  /\ phase' = [q \in Pids |-> IF q \in Q THEN "gone" ELSE phase[q]]
  /\ index' = [q \in Pids |-> IF q \in Q THEN -1 ELSE index[q]]
  /\ count' = [q \in Pids |-> IF q \in Q THEN 0 ELSE count[q]]
  /\ quitIn' = [q \in Pids |-> IF q \in Q THEN 0 ELSE quitIn[q]]
  /\ hung' = hung \ Q
  /\ replaced' = replaced \ Q
  /\ steady' = [q \in Pids |-> IF q \in Q THEN "no" ELSE steady[q]]

-----------------------------------------------------------------------------
(* A process under PM                                                       *)

(* OnInitDialog ends by setting the timers.                                 *)
StartUp(q) ==
  /\ phase[q] = "starting" /\ q \notin hung
  /\ phase' = [phase EXCEPT ![q] = "up"]
  /\ quitIn' = [quitIn EXCEPT ![q] = QuitPeriod]
  /\ UNCHANGED <<memory, index, hung, count, manager, faults, replaced, steady>>

(* What PM has saved of p, or is about to.                                  *)
Saved(p) == IF pm \in {"sleep", "update"} /\ i = p THEN cur ELSE m_nPreAliveCount[p]

(* Mutant: the count stops at its maximum.                                  *)
IncrementStops(q, met) == IF count[q] < Small + 2 THEN count[q] + 1 ELSE count[q]

(* m_nAliveCount++: a large count that grows is not the one saved before.   *)
(* One that is large for the first time may meet a large one that was saved *)
(* of another process.                                                      *)
Increment(q, met) ==
  IF count[q] < Small THEN count[q] + 1
                      ELSE CHOOSE n \in Large : met <=> n = Saved(index[q])

MayMeet(q) == count[q] = Small /\ Saved(index[q]) \in Large

(* TIMER_ALIVE_COUNT fires in the processes of T; of those that share an    *)
(* index the last to write stays.                                           *)
AliveTimers(T) ==
  \E meeting \in SUBSET {q \in T : MayMeet(q)}, last \in SUBSET T :
    /\ count' = [q \in Pids |-> IF q \in T THEN Increment(q, q \in meeting) ELSE count[q]]
    /\ \A q \in T : \E l \in last : index[l] = index[q]
    /\ \A k, l \in last : index[k] = index[l] => k = l
    /\ aliveCount' = [p \in Index |-> IF \E l \in last : index[l] = p
                        THEN count'[CHOOSE l \in last : index[l] = p]
                        ELSE aliveCount[p]]

QuitTimer(q) ==
  /\ Pumps(q) /\ quitIn[q] = 0
  /\ IF processRun[index[q]]
       THEN quitIn' = [quitIn EXCEPT ![q] = QuitPeriod] /\ UNCHANGED phase
       ELSE phase' = [phase EXCEPT ![q] = "quitting"] /\ UNCHANGED quitIn
  /\ UNCHANGED <<memory, index, hung, count, manager, faults, replaced,
                 steady>>

(* OnDestroy.  Broker kills the first process of its own name, whichever    *)
(* that is, and goes on only if it was another.                             *)
Quit(q) ==
  /\ phase[q] = "quitting" /\ q \notin hung
  /\ \/ index[q] = BROKER /\ \E b \in Of(BROKER) : Ends({q, b})
     \/ index[q] # BROKER /\ Ends({q})
  /\ UNCHANGED <<memory, manager, faults>>

(* The process ends by itself, or is taken to the exit from the tray.       *)
Crash(q) ==
  /\ q \in Live /\ Fault
  /\ Ends({q})
  /\ UNCHANGED <<memory, manager>>

Hang(q) ==
  /\ q \in Live \ hung /\ Fault
  /\ hung' = hung \cup {q}
  /\ steady' = [steady EXCEPT ![q] = "no"]
  /\ UNCHANGED <<memory, index, phase, count, quitIn, manager, replaced>>

Recover(q) ==
  /\ q \in hung
  /\ hung' = hung \ {q}
  /\ UNCHANGED <<memory, index, phase, count, quitIn, manager, faults,
                 replaced, steady>>

-----------------------------------------------------------------------------
(* PM                                                                       *)

PMDown == pm \in {"down", "closed"}   \* never started or crashed, or quit

(* The shared memory goes with the last process that has it open.           *)
MemoryGone == PMDown /\ Live = {}

(* g_lpszProcessName: the three senders are one program.                    *)
Name(p) == IF p \in SI_SENDER1 .. SI_SENDER3 THEN SI_SENDER1 ELSE p

(* Mutant: all senders are passed over, not the second and third only.      *)
KilledFewer ==
  {q \in Live : \E p \in Index \ (SI_SENDER1 .. SI_SENDER3) : Name(p) = Name(index[q])}

Killed ==
  {q \in Live : \E p \in Index \ {SI_SENDER2, SI_SENDER3} : Name(p) = Name(index[q])}

(* OnInitDialog up to KillAllExe, which terminates by name what still runs. *)
StartPM ==
  /\ PMDown
  /\ pm' = "launch" /\ i' = NextUsed(0)
  /\ IF MemoryGone
       THEN /\ aliveCount' = [p \in Index |-> 0]
            /\ processRun' = [p \in Index |-> FALSE]
       ELSE UNCHANGED memory
  /\ Ends(Killed)
  /\ UNCHANGED <<processId, m_nPreAliveCount, cur, bKillTimer, wait, faults>>

(* RunProcessAndForget for index p: a process id, or 0.  The lowest free id *)
(* is taken, so that ids are used again as early as can be.                 *)
RunProcess(p) ==
  \/ \E q \in Pids \ Live :
       /\ 1 .. q - 1 \subseteq Live
       /\ index' = [index EXCEPT ![q] = p]
       /\ phase' = [phase EXCEPT ![q] = "starting"]
       /\ processId' = [processId EXCEPT ![p] = q]
       /\ steady' = IF Of(p) = {} THEN [steady EXCEPT ![q] = "fresh"]
                                  ELSE [s \in Pids |-> IF s \in Of(p) THEN "no" ELSE steady[s]]
       /\ UNCHANGED faults
  \/ /\ Fault \/ (Pids \subseteq Live /\ UNCHANGED faults)
     /\ processId' = [processId EXCEPT ![p] = NONE]
     /\ UNCHANGED <<index, phase, steady>>

(* ExcuteAllExe: one turn of its loop, with the Sleep(1000) at its end.  A  *)
(* launch that fails ends PM.                                               *)
ExcuteNext ==
  /\ pm = "launch" /\ wait = 0 /\ i \in Used
  /\ RunProcess(i)
  /\ IF processId'[i] # NONE
       THEN /\ processRun' = [processRun EXCEPT ![i] = TRUE]
            /\ i' = NextUsed(i + 1) /\ wait' = 2 /\ UNCHANGED pm
       ELSE pm' = "quit" /\ UNCHANGED <<processRun, i, wait>>
  /\ UNCHANGED <<aliveCount, hung, count, quitIn, m_nPreAliveCount, cur,
                 bKillTimer, replaced>>

ExcuteDone ==
  /\ pm = "launch" /\ wait = 0 /\ i \notin Used
  /\ pm' = "idle" /\ wait' = CheckPeriod
  /\ UNCHANGED <<memory, procs, i, processId, m_nPreAliveCount, cur, bKillTimer,
                 faults, replaced, steady>>

(* TIMER_PROCESS_CHECK fires.                                               *)
OnTimer ==
  /\ pm = "idle" /\ wait = 0
  /\ pm' = "check" /\ i' = NextUsed(0) /\ bKillTimer' = FALSE
  /\ UNCHANGED <<memory, procs, processId, m_nPreAliveCount, cur, wait, faults,
                 replaced, steady>>

(* bAlive, from the count just read and the one saved.                      *)
IsAlive(n, pre) == n # 0 /\ n # pre

(* History: PM has saved the count n of p, or is about to.                  *)
Looked(p, n) ==
  steady' = [q \in Pids |->
               IF Of(p) = {q} /\ Pumps(q) /\ n > 0 /\ count[q] = n /\ aliveCount[p] = n
                 THEN "seen" ELSE steady[q]]

(* The end of one turn of the loop.                                         *)
NextProcess(n) ==
  /\ pm' = "check" /\ i' = NextUsed(i + 1)
  /\ m_nPreAliveCount' = [m_nPreAliveCount EXCEPT ![i] = n]

CheckAlive ==
  /\ pm = "check" /\ i \in Used
  /\ IsAlive(aliveCount[i], m_nPreAliveCount[i])
  /\ processRun' = [processRun EXCEPT ![i] = TRUE]
  /\ NextProcess(aliveCount[i])
  /\ Looked(i, aliveCount[i])
  /\ UNCHANGED <<aliveCount, procs, processId, cur, bKillTimer, wait, faults,
                 replaced>>

(* KillTimer; PM is about to close the process.                             *)
CheckDead ==
  /\ pm = "check" /\ i \in Used
  /\ ~IsAlive(aliveCount[i], m_nPreAliveCount[i])
  /\ pm' = "close" /\ cur' = aliveCount[i] /\ bKillTimer' = TRUE /\ wait' = -1
  /\ UNCHANGED <<memory, procs, i, processId, m_nPreAliveCount, faults,
                 replaced, steady>>

(* PM waits for the window of a process that does not get to its messages.  *)
Waits == pm = "close" /\ processId[i] \in Live /\ ~Pumps(processId[i])

(* SoftKillProcess: SendMessage(WM_CLOSE) returns once the window has       *)
(* answered or is gone.  OnClose of every process only moves it to the      *)
(* tray.  A process that is starting may have no window yet: then nothing is*)
(* sent.                                                                    *)
SoftKillProcess ==
  /\ pm = "close"
  /\ Waits => phase[processId[i]] = "starting"
  /\ processRun' = [processRun EXCEPT ![i] = FALSE]
  /\ m_nPreAliveCount' = [m_nPreAliveCount EXCEPT ![i] = 0]
  /\ pm' = "sleep" /\ wait' = 1
  /\ replaced' = replaced \cup Of(i)
  /\ Looked(i, cur)
  /\ UNCHANGED <<aliveCount, procs, i, processId, cur, bKillTimer, faults>>

Restart ==
  /\ pm = "sleep" /\ wait = 0
  /\ RunProcess(i)
  /\ pm' = "update"
  /\ UNCHANGED <<memory, hung, count, quitIn, i, m_nPreAliveCount, cur,
                 bKillTimer, wait, replaced>>

(* Mutant: the flag is not looked at again after a restart.                 *)
UpdateRunNot ==
  /\ pm = "update"
  /\ NextProcess(cur)
  /\ UNCHANGED <<memory, procs, processId, cur, bKillTimer, wait,
                 faults, replaced, steady>>

(* processRun follows bAlive, and the dead process' count is saved.         *)
UpdateRun ==
  /\ pm = "update"
  /\ processRun' = [processRun EXCEPT ![i] = processId[i] # NONE]
  /\ NextProcess(cur)
  /\ UNCHANGED <<aliveCount, procs, processId, cur, bKillTimer, wait, faults,
                 replaced, steady>>

(* Mutant: a failed restart leaves the timer off.                           *)
CheckDoneLess ==
  /\ pm = "check" /\ i \notin Used
  /\ pm' = "idle" /\ cur' = 0 /\ bKillTimer' = FALSE
  /\ wait' = IF \E p \in Used : processId[p] = NONE THEN -1 ELSE CheckPeriod
  /\ UNCHANGED <<memory, procs, i, processId, m_nPreAliveCount, faults,
                 replaced, steady>>

(* The timer goes on, or is set again when it was killed.                   *)
CheckDone ==
  /\ pm = "check" /\ i \notin Used
  /\ pm' = "idle" /\ cur' = 0 /\ bKillTimer' = FALSE
  /\ wait' = IF bKillTimer \/ wait = 0 THEN CheckPeriod ELSE wait
  /\ UNCHANGED <<memory, procs, i, processId, m_nPreAliveCount, faults,
                 replaced, steady>>

(* Mutant: only the first used process is told.                             *)
ToldFirst == {NextUsed(0)}

(* QuitGracefullyAllExe tells every used process.                           *)
Told == Used

(* PM is no more; the next one starts with its constructor's values.        *)
PMEnds(how) ==
  /\ pm' = how /\ i' = 0 /\ wait' = 0 /\ cur' = 0 /\ bKillTimer' = FALSE
  /\ processId' = [p \in Index |-> NONE]
  /\ m_nPreAliveCount' = [p \in Index |-> 0]

(* OnDestroy, after the user has closed PM; or a launch has failed, and the *)
(* user has closed the two message boxes PM has shown.                      *)
QuitPM ==
  /\ \/ pm = "quit" /\ UNCHANGED faults
     \/ pm = "idle" /\ Fault
  /\ processRun' = [p \in Index |-> IF p \in Told THEN FALSE ELSE processRun[p]]
  /\ PMEnds("closed")
  /\ UNCHANGED <<aliveCount, procs, replaced, steady>>

CrashPM ==
  /\ ~PMDown /\ Fault
  /\ PMEnds("down")
  /\ UNCHANGED <<memory, procs, replaced, steady>>

-----------------------------------------------------------------------------
(* Every timer that is due has fired, every process has started up or quit  *)
(* (one that takes longer hangs) and PM waits: half a second goes by, and   *)
(* the alive timers fire.                                                   *)
Quiet(q) ==
  /\ phase[q] \notin {"starting", "quitting"} \/ q \in hung
  /\ Pumps(q) => quitIn[q] > 0

Tick ==
  /\ \A q \in Pids : Quiet(q)
  /\ wait > 0 \/ PMDown \/ pm = "quit" \/ Waits
  /\ AliveTimers({q \in Pids : Pumps(q)})
  /\ quitIn' = [q \in Pids |-> IF quitIn[q] > 0 THEN quitIn[q] - 1 ELSE 0]
  /\ wait' = IF wait > 0 THEN wait - 1 ELSE wait
  /\ UNCHANGED <<processRun, index, phase, hung, pm, i, processId,
                 m_nPreAliveCount, cur, bKillTimer, faults, replaced, steady>>

ProcessStep(q) == StartUp(q) \/ QuitTimer(q) \/ Quit(q)

PMStep ==
  \/ ExcuteNext \/ ExcuteDone \/ OnTimer \/ CheckAlive \/ CheckDead
  \/ SoftKillProcess \/ Restart \/ UpdateRun \/ CheckDone

Next ==
  \/ StartPM \/ PMStep \/ QuitPM \/ CrashPM \/ Tick
  \/ \E q \in Pids : ProcessStep(q) \/ Crash(q) \/ Hang(q) \/ Recover(q)

Spec == Init /\ [][Next]_vars

(* PM and the processes run, and time goes on.  Nobody has to start PM or to*)
(* close a message box, a process that hangs need not recover, and one that *)
(* is starting may keep PM waiting.                                         *)
Fairness ==
  /\ WF_vars(PMStep /\ ~Waits) /\ WF_vars(Tick)
  /\ \A q \in Pids : WF_vars(ProcessStep(q))

FairSpec == Spec /\ Fairness

-----------------------------------------------------------------------------
TypeOK ==
  /\ aliveCount \in [Index -> Counts] /\ processRun \in [Index -> BOOLEAN]
  /\ index \in [Pids -> Index \cup {-1}]
  /\ phase \in [Pids -> {"gone", "starting", "up", "quitting"}]
  /\ hung \subseteq Pids
  /\ count \in [Pids -> Counts] /\ quitIn \in [Pids -> 0 .. QuitPeriod]
  /\ pm \in {"down", "closed", "launch", "idle", "check", "close", "sleep", "update", "quit"}
  /\ i \in 0 .. Cardinality(Index)
  /\ processId \in [Index -> Pids \cup {NONE}]
  /\ m_nPreAliveCount \in [Index -> Counts]
  /\ cur \in Counts /\ bKillTimer \in BOOLEAN
  /\ wait \in -1 .. CheckPeriod
  /\ faults \in 0 .. MaxFaults
  /\ replaced \subseteq Live /\ steady \in [Pids -> {"seen", "fresh", "no"}]

(* KillAllExe and the restart of the process check (PMDlg.cpp:402-441 and   *)
(* 612-755): of the processes with one index, all but one are such as PM    *)
(* took for dead while they lived, over restarts and crashes of PM too.     *)
TwinsWereReplaced == \A p \in Index : Cardinality(Of(p) \ replaced) <= 1

(* The comparison with the count saved last (PMDlg.cpp:637-652): PM never   *)
(* replaces a process of which it has saved a count and that has not hung   *)
(* nor shared its index since; one it has not saved a count of, it replaces *)
(* only if that has counted to just the number saved, which is its          *)
(* predecessor's.                                                           *)
JudgedDeadForCause ==
  [][(pm = "check" /\ pm' = "close") =>
       \A q \in Of(i) :
         (Pumps(q) /\ count[q] > 0) =>
           /\ steady[q] # "seen"
           /\ steady[q] = "fresh" => count[q] = m_nPreAliveCount[i]]_vars

(* The processRun flag is false for a while around a restart                *)
(* (PMDlg.cpp:694-738): a process that quits has been told by a PM that     *)
(* ends, or PM has replaced it.                                             *)
QuitForCause ==
  [][\A q \in Pids : (phase[q] = "up" /\ phase'[q] = "quitting") =>
                        q \in replaced \/ PMDown]_vars

(* The process check (PMDlg.cpp:612-755): once nothing fails any more, a    *)
(* used process is up again and again, unless PM is down, waits in          *)
(* SendMessage for a process that hangs for good, or in a message box that a*)
(* launch has failed (PMDlg.cpp:593 and 174: the check does not run then),  *)
(* or the bound on processes is reached.                                    *)
DeadComesBack ==
  \A p \in Used :
    \/ []<>(\E q \in Of(p) : Pumps(q))
    \/ []<>PMDown
    \/ <>[](pm = "close" /\ processId[i] \in hung)
    \/ <>[](pm = "quit")
    \/ []<>(Live = Pids)

(* QuitGracefullyAllExe (PMDlg.cpp:780-796): after PM has quit, no process  *)
(* stays, twins neither, but those that hang.                               *)
QuitReachesAll == (pm = "closed") ~> (pm # "closed" \/ Live \subseteq hung)

(* "To keep it from being started too fast and several from running"        *)
(* (PMDlg.cpp:698): the half second PM waits is to leave one process of     *)
(* each index.                                                              *)
OneOfEach == \A p \in Index : Cardinality(Of(p)) <= 1
=============================================================================
