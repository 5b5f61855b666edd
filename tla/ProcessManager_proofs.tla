------------------------ MODULE ProcessManager_proofs ------------------------
(* That PM leaves no process of an index beside another but those it took   *)
(* for dead, that no process quits by itself while PM runs but those, and   *)
(* that PM takes none for dead that it has seen count: for any processes    *)
(* used, any number of them, any period of the check and any number of      *)
(* faults.                                                                  *)
EXTENDS ProcessManager, FiniteSetTheorems, WellFoundedInduction, TLAPS

-----------------------------------------------------------------------------
(* A process has an index as long as it lives.                              *)
IndexFits == \A q \in Pids : phase[q] # "gone" <=> index[q] \in Index

(* Two processes of one index: PM has taken one for dead.                   *)
OneNotReplaced ==
  \A a, b \in Live \ replaced : index[a] = index[b] => a = b

(* While PM launches, what lives it has launched.                           *)
LaunchIsFirst == pm = "launch" => replaced = {} /\ \A q \in Live : index[q] < i

(* While PM waits before a restart there is no other but those replaced.    *)
SleepIsAlone ==
  /\ pm \in {"close", "sleep", "update"} => i \in Index
  /\ pm = "sleep" => Of(i) \subseteq replaced

(* After the restart no tick passes until the flag is set again.            *)
UpdateIsSoon ==
  pm = "update" =>
    /\ wait = 0
    /\ processId[i] = NONE => Of(i) \subseteq replaced
    /\ \A q \in Of(i) \ replaced :
         phase[q] = "starting" \/ (phase[q] = "up" /\ quitIn[q] = QuitPeriod)

(* The flags of those that are not replaced are set.                        *)
FlagsAreSet ==
  ~PMDown => \A q \in Live \ replaced :
               processRun[index[q]] \/ (pm = "update" /\ index[q] = i)

IInv == /\ TypeOK /\ IndexFits /\ OneNotReplaced /\ LaunchIsFirst
        /\ SleepIsAlone /\ UpdateIsSoon /\ FlagsAreSet

(* What steady says of a process: it is the only one of its index, and what *)
(* it has counted is what the shared memory holds.                          *)
SteadyIsAlone ==
  /\ hung \subseteq Live
  /\ \A q \in Pids : phase[q] \in {"gone", "starting"} => count[q] = 0
  /\ \A q \in Pids : steady[q] # "no" =>
       /\ q \in Live /\ q \notin hung
       /\ \A r \in Of(index[q]) : r = q
       /\ count[q] > 0 => aliveCount[index[q]] = count[q]

(* PM has just saved the count of p: no half second has gone by since.      *)
JustSaved(p) ==
  \/ pm \in {"check", "close", "sleep", "update"} /\ p < i
  \/ pm = "idle" /\ wait = CheckPeriod
  \/ pm = "sleep" /\ p = i /\ wait = 1

(* A process that PM has seen count has gone on from the count saved.       *)
CountsOn(q) ==
  /\ count[q] > 0
  /\ phase[q] = "up" =>
       /\ count[q] \in Large \/ Saved(index[q]) <= count[q]
       /\ count[q] # Saved(index[q]) \/ JustSaved(index[q])

SeenCountsOn == \A q \in Pids : steady[q] = "seen" => CountsOn(q)

(* While PM closes a process, there is none of its index that it has seen   *)
(* count; and no time passes while it looks.                                *)
CloseIsForCause ==
  /\ pm = "close" =>
       \A q \in Pids : steady[q] = "seen" /\ phase[q] = "up" => index[q] # i
  /\ pm = "check" => wait = 0

SInv == SteadyIsAlone /\ SeenCountsOn /\ CloseIsForCause

-----------------------------------------------------------------------------
LEMMA Constants ==
  /\ Cardinality(Index) = 6 /\ Index = 0 .. 5
  /\ Used \subseteq Index /\ MaxPids \in Nat /\ MaxFaults \in Nat
  /\ CheckPeriod \in Nat /\ CheckPeriod > 2 /\ QuitPeriod = 2
  /\ Small \in Nat /\ Large = {Small + 1, Small + 2} /\ Counts = 0 .. Small + 2
  /\ Pids = 1 .. MaxPids /\ NONE = 0 /\ NONE \notin Pids
  <1>1. Cardinality(Index) = 6 /\ Index = 0 .. 5
    <2>1. 0 \in Int /\ 5 \in Int
      OBVIOUS
    <2>2. Cardinality(0 .. 5) = IF 0 > 5 THEN 0 ELSE 5 - 0 + 1
      BY <2>1, FS_Interval, Zenon
    <2> QED BY <2>2 DEF Index
  <1>2. /\ CheckPeriod \in Nat /\ CheckPeriod > 2 /\ QuitPeriod = 2
        /\ MaxPids \in Nat /\ MaxFaults \in Nat /\ Used \subseteq Index
    BY ConstantsAssumption DEF QuitPeriod
  <1>3. Small \in Nat /\ Large = {Small + 1, Small + 2} /\ Counts = 0 .. Small + 2
    BY <1>2 DEF Small, Large, Counts
  <1>4. Pids = 1 .. MaxPids /\ NONE = 0 /\ NONE \notin Pids
    BY <1>2 DEF Pids, NONE
  <1> QED BY <1>1, <1>2, <1>3, <1>4

LEMMA NextUsedBounds ==
  ASSUME NEW p \in 0 .. 6
  PROVE  NextUsed(p) \in 0 .. 6 /\ NextUsed(p) >= p
  <1>1. Cardinality(Index) = 6 /\ Used \subseteq Nat /\ \A u \in Used : u <= 5
    BY Constants
  <1>2. CASE ~ \E u \in Used : u >= p
    <2>1. NextUsed(p) = 6
      BY <1>1, <1>2 DEF NextUsed
    <2> QED BY <2>1
  <1>3. CASE \E u \in Used : u >= p
    <2> DEFINE S == {u \in Used : u >= p}
               First(u) == u >= p /\ \A v \in Used : v >= p => u <= v
    <2>1. S \in SUBSET Nat /\ S # {}
      <3>1. S \subseteq Nat
        BY <1>1
      <3>2. PICK u \in Used : u >= p
        BY <1>3
      <3>3. u \in S
        BY <3>2
      <3> QED BY <3>1, <3>3
    <2>2. IsWellFoundedOn(OpToRel(<, Nat), Nat)
      BY NatLessThanWellFounded
    <2>3. PICK u \in S : \A v \in S : ~(<<v, u>> \in OpToRel(<, Nat))
      BY <2>1, <2>2, WFMin
    <2>4. \A v \in S : ~(v < u)
      BY <2>1, <2>3 DEF OpToRel
    <2>5. u \in Used /\ First(u)
      <3>1. u \in Used /\ u >= p
        BY <2>3
      <3>2. ASSUME NEW v \in Used, v >= p PROVE u <= v
        <4>1. v \in S
          BY <3>2
        <4> HIDE DEF S
        <4>2. v \in Nat /\ u \in Nat /\ ~(v < u)
          BY <1>1, <2>4, <3>1, <4>1
        <4> QED BY <4>2
      <3> QED BY <3>1, <3>2
    <2>6. NextUsed(p) = CHOOSE w \in Used : First(w)
      BY <1>3, Zenon DEF NextUsed
    <2> HIDE DEF First
    <2>7. NextUsed(p) \in Used /\ First(NextUsed(p))
      BY <2>5, <2>6, Zenon
    <2>8. NextUsed(p) >= p
      BY <2>7 DEF First
    <2>9. NextUsed(p) \in Nat /\ NextUsed(p) <= 5
      BY <1>1, <2>7
    <2> QED BY <2>8, <2>9
  <1> QED BY <1>2, <1>3

(* A count that grows stays in range; one that was not below the number     *)
(* saved goes on from it.                                                   *)
LEMMA IncrementGrows ==
  ASSUME TypeOK, NEW q \in Pids, NEW met, met \in BOOLEAN, met => MayMeet(q)
  PROVE  /\ Increment(q, met) \in Counts /\ Increment(q, met) > 0
         /\ (/\ Saved(index[q]) \in Counts
             /\ count[q] \in Large \/ Saved(index[q]) <= count[q]) =>
              /\ Increment(q, met) \in Large \/ Saved(index[q]) <= Increment(q, met)
              /\ Increment(q, met) # Saved(index[q])
  <1> DEFINE s == Saved(index[q])
             P(n) == met <=> n = s
             m == CHOOSE n \in Large : P(n)
  <1>1. count[q] \in Counts
    BY DEF TypeOK
  <1>2. Small \in Nat /\ Large = {Small + 1, Small + 2} /\ Counts = 0 .. Small + 2
    BY Constants
  <1>3. met => count[q] = Small /\ s \in Large
    BY DEF MayMeet
  <1>4. Increment(q, met) = IF count[q] < Small THEN count[q] + 1 ELSE m
    BY DEF Increment
  <1> HIDE DEF s
  <1>6. \E n \in Large : met <=> n = s
    <2>1. CASE met
      BY <1>3, <2>1
    <2>2. CASE ~met
      BY <1>2, <2>2
    <2> QED BY <2>1, <2>2
  <1>7. m \in Large /\ (met <=> m = s)
    <2>1. \E n \in Large : P(n)
      BY <1>6
    <2> HIDE DEF P
    <2>2. m \in Large /\ P(m)
      BY <2>1, Zenon
    <2> QED BY <2>2 DEF P
  <1> HIDE DEF m
  <1>8. CASE count[q] < Small
    BY <1>1, <1>2, <1>4, <1>8 DEF s
  <1>9. CASE ~(count[q] < Small)
    <2>1. Increment(q, met) = m /\ m \in Counts /\ m > 0
      BY <1>2, <1>4, <1>7, <1>9
    <2>2. ASSUME s \in Counts, count[q] \in Large \/ s <= count[q]
          PROVE  m # s
      <3>1. CASE met
        <4>1. count[q] = Small /\ s \in Large
          BY <1>3, <3>1
        <4> QED BY <1>2, <2>2, <4>1
      <3>2. CASE ~met
        BY <1>7, <3>2
      <3> QED BY <3>1, <3>2
    <2> QED BY <1>7, <2>1, <2>2 DEF s
  <1> QED BY <1>8, <1>9

(* What is left when the processes of Q have ended.                         *)
LEMMA EndsLeaves ==
  ASSUME IInv, NEW Q, Ends(Q)
  PROVE  /\ Live' = Live \ Q /\ replaced' = replaced \ Q
         /\ \A q \in Live' : index'[q] = index[q] /\ phase'[q] = phase[q]
                             /\ quitIn'[q] = quitIn[q]
         /\ \A p : Of(p)' = Of(p) \ Q
         /\ IndexFits' /\ OneNotReplaced'
         /\ index' \in [Pids -> Index \cup {-1}]
         /\ phase' \in [Pids -> {"gone", "starting", "up", "quitting"}]
         /\ hung' \subseteq Pids
         /\ count' \in [Pids -> Counts] /\ quitIn' \in [Pids -> 0 .. QuitPeriod]
         /\ replaced' \subseteq Live'
         /\ steady' \in [Pids -> {"seen", "fresh", "no"}]
  <1> USE DEF Ends
  <1>1. Live' = Live \ Q /\ replaced' = replaced \ Q
    BY DEF Live
  <1>2. \A q \in Live' : index'[q] = index[q] /\ phase'[q] = phase[q]
                         /\ quitIn'[q] = quitIn[q]
    BY DEF Live
  <1>3. \A p : Of(p)' = Of(p) \ Q
    BY <1>1, <1>2 DEF Of
  <1>4. IndexFits'
    BY Constants DEF IInv, IndexFits
  <1>5. OneNotReplaced'
    BY <1>1, <1>2 DEF IInv, OneNotReplaced
  <1>6. /\ index' \in [Pids -> Index \cup {-1}]
        /\ phase' \in [Pids -> {"gone", "starting", "up", "quitting"}]
        /\ hung' \subseteq Pids
        /\ steady' \in [Pids -> {"seen", "fresh", "no"}]
    BY DEF IInv, TypeOK
  <1>7. count' \in [Pids -> Counts] /\ quitIn' \in [Pids -> 0 .. QuitPeriod]
    <2>1. 0 \in Counts /\ 0 \in 0 .. QuitPeriod
      BY Constants
    <2> QED BY <2>1 DEF IInv, TypeOK
  <1>8. replaced' \subseteq Live'
    BY <1>1 DEF IInv, TypeOK
  <1> QED BY <1>1, <1>2, <1>3, <1>4, <1>5, <1>6, <1>7, <1>8

-----------------------------------------------------------------------------
LEMMA InitIInv == Init => IInv
  <1> SUFFICES ASSUME Init PROVE IInv
    OBVIOUS
  <1> USE DEF Init
  <1>1. Live = {}
    BY DEF Live
  <1>2. 0 \in Counts /\ 0 \in 0 .. QuitPeriod /\ 0 \in 0 .. Cardinality(Index)
        /\ 0 \in -1 .. CheckPeriod /\ 0 \in 0 .. MaxFaults
        /\ NONE \in Pids \cup {NONE}
    BY Constants
  <1>3. /\ aliveCount \in [Index -> Counts] /\ processRun \in [Index -> BOOLEAN]
        /\ index \in [Pids -> Index \cup {-1}]
        /\ phase \in [Pids -> {"gone", "starting", "up", "quitting"}]
        /\ count \in [Pids -> Counts] /\ quitIn \in [Pids -> 0 .. QuitPeriod]
        /\ processId \in [Index -> Pids \cup {NONE}]
        /\ m_nPreAliveCount \in [Index -> Counts]
        /\ steady \in [Pids -> {"seen", "fresh", "no"}]
    BY <1>2
  <1>4. TypeOK
    BY <1>2, <1>3 DEF TypeOK
  <1>5. IndexFits
    BY Constants DEF IndexFits
  <1> QED
    BY <1>1, <1>4, <1>5
    DEF IInv, OneNotReplaced, LaunchIsFirst, SleepIsAlone, UpdateIsSoon,
        FlagsAreSet, PMDown

(* The steps that leave PM, the flags and which processes there are alone.  *)
LEMMA StayIInv ==
  ASSUME IInv, TypeOK',
         UNCHANGED <<index, processRun, pm, i, processId, wait, replaced>>,
         Live' = Live,
         pm = "update" =>
           \A q \in Of(i) \ replaced :
             phase'[q] = "starting" \/ (phase'[q] = "up" /\ quitIn'[q] = QuitPeriod)
  PROVE  IInv'
  <1>1. \A p : Of(p)' = Of(p)
    BY DEF Of
  <1>2. IndexFits'
    BY DEF IInv, TypeOK, IndexFits, Live
  <1>3. OneNotReplaced' /\ LaunchIsFirst' /\ SleepIsAlone'
    BY <1>1 DEF IInv, OneNotReplaced, LaunchIsFirst, SleepIsAlone
  <1>4. UpdateIsSoon'
    BY <1>1 DEF IInv, UpdateIsSoon
  <1>5. FlagsAreSet'
    BY DEF IInv, FlagsAreSet, PMDown
  <1> QED BY <1>2, <1>3, <1>4, <1>5 DEF IInv

LEMMA StartUpIInv ==
  ASSUME IInv, NEW q \in Pids, StartUp(q)
  PROVE  IInv'
  <1> USE DEF StartUp
  <1>1. TypeOK'
    <2>1. QuitPeriod \in 0 .. QuitPeriod
      BY Constants
    <2>2. /\ phase' \in [Pids -> {"gone", "starting", "up", "quitting"}]
          /\ quitIn' \in [Pids -> 0 .. QuitPeriod]
      BY <2>1 DEF IInv, TypeOK
    <2>3. Live' = Live
      BY DEF Live, IInv, TypeOK
    <2> QED BY <2>2, <2>3 DEF IInv, TypeOK, memory, manager
  <1>2. Live' = Live
    BY DEF Live, IInv, TypeOK
  <1>3. pm = "update" =>
           \A s \in Of(i) \ replaced :
             phase'[s] = "starting" \/ (phase'[s] = "up" /\ quitIn'[s] = QuitPeriod)
    BY DEF IInv, TypeOK, UpdateIsSoon, Of, Live
  <1> QED BY <1>1, <1>2, <1>3, StayIInv DEF memory, manager

(* A process that is not replaced finds its flag set while PM runs.         *)
LEMMA QuitTimerForCause ==
  ASSUME IInv, NEW q \in Pids, QuitTimer(q), phase'[q] # phase[q]
  PROVE  q \in replaced \/ PMDown
  <1>1. quitIn[q] = 0 /\ phase[q] = "up" /\ ~processRun[index[q]]
    BY DEF QuitTimer, Pumps
  <1>2. q \in Live /\ q \in Of(index[q])
    BY <1>1 DEF Live, Of
  <1>3. SUFFICES ASSUME q \notin replaced, ~PMDown PROVE FALSE
    OBVIOUS
  <1>4. pm = "update" /\ index[q] = i
    BY <1>1, <1>2, <1>3 DEF IInv, FlagsAreSet
  <1> QED
    BY <1>1, <1>2, <1>3, <1>4, Constants DEF IInv, UpdateIsSoon

LEMMA QuitTimerIInv ==
  ASSUME IInv, NEW q \in Pids, QuitTimer(q)
  PROVE  IInv'
  <1> USE DEF QuitTimer
  <1>1. TypeOK'
    <2>1. QuitPeriod \in 0 .. QuitPeriod
      BY Constants
    <2>2. /\ phase' \in [Pids -> {"gone", "starting", "up", "quitting"}]
          /\ quitIn' \in [Pids -> 0 .. QuitPeriod]
      BY <2>1 DEF IInv, TypeOK
    <2>3. Live' = Live
      BY DEF Live, IInv, TypeOK, Pumps
    <2> QED BY <2>2, <2>3 DEF IInv, TypeOK, memory, manager
  <1>2. Live' = Live
    BY DEF Live, IInv, TypeOK, Pumps
  <1>3. pm = "update" =>
           \A s \in Of(i) \ replaced :
             phase'[s] = "starting" \/ (phase'[s] = "up" /\ quitIn'[s] = QuitPeriod)
    <2> SUFFICES ASSUME pm = "update", NEW s \in Of(i) \ replaced
                 PROVE  phase'[s] = "starting"
                          \/ (phase'[s] = "up" /\ quitIn'[s] = QuitPeriod)
      OBVIOUS
    <2>1. phase[s] = "starting" \/ (phase[s] = "up" /\ quitIn[s] = QuitPeriod)
      BY DEF IInv, UpdateIsSoon
    <2>2. s # q
      BY <2>1, Constants DEF Pumps
    <2> QED BY <2>1, <2>2 DEF IInv, TypeOK, Of, Live
  <1> QED BY <1>1, <1>2, <1>3, StayIInv DEF memory, manager

(* Processes end, and PM goes on or is no more.                             *)
LEMMA EndsIInv ==
  ASSUME IInv, NEW Q, Ends(Q), UNCHANGED <<memory, manager>>,
         faults' \in 0 .. MaxFaults
  PROVE  IInv'
  <1>1. TypeOK'
    BY EndsLeaves DEF IInv, TypeOK, memory, manager
  <1>2. UNCHANGED <<pm, i, wait, processId, processRun>>
    BY DEF memory, manager
  <1>3. LaunchIsFirst' /\ SleepIsAlone'
    BY <1>2, EndsLeaves DEF IInv, LaunchIsFirst, SleepIsAlone
  <1>4. UpdateIsSoon'
    BY <1>2, EndsLeaves DEF IInv, UpdateIsSoon, Of
  <1>5. FlagsAreSet'
    BY <1>2, EndsLeaves DEF IInv, FlagsAreSet, PMDown
  <1> QED BY <1>1, <1>3, <1>4, <1>5, EndsLeaves DEF IInv

LEMMA QuitIInv ==
  ASSUME IInv, NEW q \in Pids, Quit(q)
  PROVE  IInv'
  <1>1. \E Q : Ends(Q)
    BY DEF Quit
  <1>2. faults' \in 0 .. MaxFaults
    BY DEF Quit, IInv, TypeOK
  <1> QED BY <1>1, <1>2, EndsIInv DEF Quit

LEMMA FaultCounts ==
  ASSUME TypeOK, Fault \/ UNCHANGED faults
  PROVE  faults' \in 0 .. MaxFaults
  <1>1. faults \in 0 .. MaxFaults /\ MaxFaults \in Nat
    BY Constants DEF TypeOK
  <1>2. CASE Fault
    BY <1>1, <1>2 DEF Fault
  <1>3. CASE UNCHANGED faults
    BY <1>1, <1>3
  <1> QED BY <1>2, <1>3

LEMMA CrashIInv ==
  ASSUME IInv, NEW q \in Pids, Crash(q)
  PROVE  IInv'
  <1>1. faults' \in 0 .. MaxFaults
    BY FaultCounts DEF Crash, IInv
  <1> QED BY <1>1, EndsIInv DEF Crash

LEMMA HangIInv ==
  ASSUME IInv, NEW q \in Pids, Hang(q) \/ Recover(q)
  PROVE  IInv'
  <1> USE DEF Hang, Recover
  <1>1. faults' \in 0 .. MaxFaults
    BY FaultCounts DEF IInv
  <1>2. Live' = Live
    BY DEF Live
  <1>3. TypeOK'
    <2>1. hung' \subseteq Pids /\ steady' \in [Pids -> {"seen", "fresh", "no"}]
      BY DEF IInv, TypeOK
    <2> QED BY <1>1, <1>2, <2>1 DEF IInv, TypeOK, memory, manager
  <1> QED BY <1>2, <1>3, StayIInv DEF memory, manager, IInv, UpdateIsSoon

-----------------------------------------------------------------------------
(* PM kills by name whatever has an index.                                  *)
LEMMA KillsAll ==
  ASSUME IInv
  PROVE  Killed = Live
  <1> SUFFICES ASSUME NEW q \in Live PROVE q \in Killed
    BY DEF Killed
  <1>1. index[q] \in Index
    BY DEF Live, IInv, IndexFits
  <1>2. CASE index[q] \in {SI_SENDER2, SI_SENDER3}
    <2>1. SI_SENDER1 \in Index \ {SI_SENDER2, SI_SENDER3}
          /\ Name(SI_SENDER1) = Name(index[q])
      BY <1>2, Constants DEF Name, SI_SENDER1, SI_SENDER2, SI_SENDER3
    <2> QED BY <2>1 DEF Killed
  <1>3. CASE index[q] \notin {SI_SENDER2, SI_SENDER3}
    BY <1>1, <1>3 DEF Killed
  <1> QED BY <1>2, <1>3

LEMMA StartPMIInv == IInv /\ StartPM => IInv'
  <1> SUFFICES ASSUME IInv, StartPM PROVE IInv'
    OBVIOUS
  <1> USE DEF StartPM, memory
  <1>1. Ends(Live) /\ Live' = {}
    BY KillsAll, EndsLeaves
  <1>2. replaced' = {} /\ IndexFits' /\ OneNotReplaced'
    BY <1>1, EndsLeaves DEF IInv, TypeOK
  <1>3. i' \in 0 .. Cardinality(Index) /\ pm' = "launch"
    BY NextUsedBounds, Constants
  <1>4. aliveCount' \in [Index -> Counts] /\ processRun' \in [Index -> BOOLEAN]
    <2>1. 0 \in Counts
      BY Constants
    <2>2. CASE MemoryGone
      BY <2>1, <2>2
    <2>3. CASE ~MemoryGone
      BY <2>3 DEF IInv, TypeOK
    <2> QED BY <2>2, <2>3
  <1>5. TypeOK'
    BY <1>1, <1>3, <1>4, EndsLeaves DEF IInv, TypeOK
  <1> QED
    BY <1>1, <1>2, <1>3, <1>5
    DEF IInv, LaunchIsFirst, SleepIsAlone, UpdateIsSoon, FlagsAreSet

(* What a launch for index p leaves.                                        *)
LEMMA RunProcessAdds ==
  ASSUME IInv, NEW p \in Index, RunProcess(p),
         UNCHANGED <<hung, count, quitIn, replaced>>
  PROVE  /\ \/ /\ processId'[p] = NONE
               /\ UNCHANGED <<index, phase, Live>>
            \/ \E q \in Pids \ Live :
                 /\ processId'[p] = q /\ q # NONE
                 /\ Live' = Live \cup {q} /\ q \notin replaced
                 /\ index'[q] = p /\ phase'[q] = "starting"
                 /\ \A s \in Live : index'[s] = index[s] /\ phase'[s] = phase[s]
         /\ IndexFits' /\ faults' \in 0 .. MaxFaults
         /\ index' \in [Pids -> Index \cup {-1}]
         /\ phase' \in [Pids -> {"gone", "starting", "up", "quitting"}]
         /\ processId' \in [Index -> Pids \cup {NONE}]
         /\ steady' \in [Pids -> {"seen", "fresh", "no"}]
         /\ replaced' \subseteq Live'
  <1>1. CASE \E q \in Pids \ Live :
               /\ index' = [index EXCEPT ![q] = p]
               /\ phase' = [phase EXCEPT ![q] = "starting"]
               /\ processId' = [processId EXCEPT ![p] = q]
               /\ steady' = IF Of(p) = {} THEN [steady EXCEPT ![q] = "fresh"]
                             ELSE [s \in Pids |-> IF s \in Of(p) THEN "no" ELSE steady[s]]
               /\ UNCHANGED faults
    <2>1. PICK q \in Pids \ Live :
               /\ index' = [index EXCEPT ![q] = p]
               /\ phase' = [phase EXCEPT ![q] = "starting"]
               /\ processId' = [processId EXCEPT ![p] = q]
               /\ steady' = IF Of(p) = {} THEN [steady EXCEPT ![q] = "fresh"]
                             ELSE [s \in Pids |-> IF s \in Of(p) THEN "no" ELSE steady[s]]
               /\ UNCHANGED faults
      BY <1>1
    <2>2. Live' = Live \cup {q} /\ q \notin replaced
      BY <2>1 DEF Live, IInv, TypeOK
    <2>3. processId'[p] = q /\ q # NONE /\ index'[q] = p /\ phase'[q] = "starting"
      BY <2>1, Constants DEF IInv, TypeOK
    <2>4. \A s \in Live : index'[s] = index[s] /\ phase'[s] = phase[s]
      BY <2>1 DEF IInv, TypeOK, Live
    <2>5. IndexFits'
      BY <2>1 DEF IInv, TypeOK, IndexFits, Live
    <2>6. /\ index' \in [Pids -> Index \cup {-1}]
          /\ phase' \in [Pids -> {"gone", "starting", "up", "quitting"}]
          /\ processId' \in [Index -> Pids \cup {NONE}]
      BY <2>1 DEF IInv, TypeOK
    <2>7. steady' \in [Pids -> {"seen", "fresh", "no"}]
      BY <2>1 DEF IInv, TypeOK
    <2> QED BY <2>1, <2>2, <2>3, <2>4, <2>5, <2>6, <2>7 DEF IInv, TypeOK
  <1>2. CASE /\ Fault \/ (Pids \subseteq Live /\ UNCHANGED faults)
             /\ processId' = [processId EXCEPT ![p] = NONE]
             /\ UNCHANGED <<index, phase, steady>>
    <2>1. Live' = Live
      BY <1>2 DEF Live
    <2>2. faults' \in 0 .. MaxFaults
      BY <1>2, FaultCounts DEF IInv
    <2>3. processId'[p] = NONE /\ processId' \in [Index -> Pids \cup {NONE}]
      BY <1>2 DEF IInv, TypeOK
    <2> QED BY <1>2, <2>1, <2>2, <2>3 DEF IInv, TypeOK, IndexFits
  <1> QED BY <1>1, <1>2 DEF RunProcess

LEMMA ExcuteNextIInv == IInv /\ ExcuteNext => IInv'
  <1> SUFFICES ASSUME IInv, ExcuteNext PROVE IInv'
    OBVIOUS
  <1> USE DEF ExcuteNext
  <1>1. i \in 0 .. 5 /\ i \in Index /\ i + 1 \in 0 .. 6
    BY Constants
  <1>2. NextUsed(i + 1) \in 0 .. 6 /\ NextUsed(i + 1) >= i + 1
    BY <1>1, NextUsedBounds
  <1>3. replaced = {} /\ \A s \in Live : index[s] < i /\ index[s] \in Index
    BY DEF IInv, LaunchIsFirst, IndexFits, Live
  <1>4. RunProcess(i) /\ UNCHANGED <<hung, count, quitIn, replaced>>
    OBVIOUS
  <1>5. /\ IndexFits' /\ faults' \in 0 .. MaxFaults
        /\ index' \in [Pids -> Index \cup {-1}]
        /\ phase' \in [Pids -> {"gone", "starting", "up", "quitting"}]
        /\ processId' \in [Index -> Pids \cup {NONE}]
        /\ steady' \in [Pids -> {"seen", "fresh", "no"}]
        /\ replaced' \subseteq Live'
    BY <1>1, <1>4, RunProcessAdds
  <1>6. CASE processId'[i] = NONE
    <2>1. UNCHANGED <<index, Live>> /\ pm' = "quit"
          /\ UNCHANGED <<processRun, i, wait>>
      BY <1>1, <1>4, <1>6, RunProcessAdds
    <2>2. TypeOK'
      BY <1>5, <2>1 DEF IInv, TypeOK
    <2>3. OneNotReplaced' /\ FlagsAreSet'
      BY <2>1 DEF IInv, OneNotReplaced, FlagsAreSet, PMDown
    <2> QED
      BY <1>5, <2>1, <2>2, <2>3
      DEF IInv, LaunchIsFirst, SleepIsAlone, UpdateIsSoon
  <1>7. CASE processId'[i] # NONE
    <2>1. PICK q \in Pids \ Live :
            /\ Live' = Live \cup {q} /\ index'[q] = i
            /\ \A s \in Live : index'[s] = index[s]
      BY <1>1, <1>4, <1>7, RunProcessAdds
    <2>2. /\ processRun' = [processRun EXCEPT ![i] = TRUE]
          /\ i' = NextUsed(i + 1) /\ wait' = 2 /\ pm' = "launch"
      BY <1>7
    <2>3. wait' \in -1 .. CheckPeriod /\ i' \in 0 .. Cardinality(Index)
      BY <1>2, <2>2, Constants
    <2>4. TypeOK'
      BY <1>5, <2>2, <2>3 DEF IInv, TypeOK
    <2>5. OneNotReplaced'
      BY <1>1, <1>3, <2>1 DEF IInv, OneNotReplaced
    <2>6. LaunchIsFirst'
      BY <1>1, <1>2, <1>3, <2>1, <2>2, Constants DEF LaunchIsFirst
    <2>7. FlagsAreSet'
      BY <1>1, <1>3, <2>1, <2>2 DEF IInv, TypeOK, FlagsAreSet, PMDown
    <2> QED
      BY <1>5, <2>2, <2>4, <2>5, <2>6, <2>7
      DEF IInv, SleepIsAlone, UpdateIsSoon
  <1> QED BY <1>6, <1>7

(* The steps of PM that leave the processes, the flags and replaced alone.  *)
LEMMA PMOnlyIInv ==
  ASSUME IInv, TypeOK', UNCHANGED <<processRun, index, phase, quitIn, replaced>>,
         pm' \in {"idle", "check", "close"}, pm \notin {"down", "closed", "update"},
         pm' = "close" => i' \in Index
  PROVE  IInv'
  <1>1. Live' = Live
    BY DEF Live
  <1>2. IndexFits' /\ OneNotReplaced' /\ LaunchIsFirst' /\ SleepIsAlone' /\ UpdateIsSoon'
    BY <1>1
    DEF IInv, IndexFits, OneNotReplaced, LaunchIsFirst, SleepIsAlone, UpdateIsSoon
  <1>3. FlagsAreSet'
    BY <1>1 DEF IInv, FlagsAreSet, PMDown
  <1> QED BY <1>2, <1>3 DEF IInv

LEMMA CheckIInv ==
  ASSUME IInv, ExcuteDone \/ OnTimer \/ CheckDead \/ CheckDone
  PROVE  IInv'
  <1>1. CASE ExcuteDone
    <2> USE <1>1 DEF ExcuteDone, memory, procs
    <2>1. wait' \in -1 .. CheckPeriod
      BY Constants
    <2>2. TypeOK'
      BY <2>1 DEF IInv, TypeOK, Live
    <2> QED BY <2>2, PMOnlyIInv
  <1>2. CASE OnTimer
    <2> USE <1>2 DEF OnTimer, memory, procs
    <2>1. i' \in 0 .. Cardinality(Index)
      BY NextUsedBounds, Constants
    <2>2. TypeOK'
      BY <2>1 DEF IInv, TypeOK, Live
    <2> QED BY <2>2, PMOnlyIInv
  <1>3. CASE CheckDead
    <2> USE <1>3 DEF CheckDead, memory, procs
    <2>1. i \in Index /\ wait' \in -1 .. CheckPeriod
      BY Constants
    <2>2. cur' \in Counts
      BY <2>1 DEF IInv, TypeOK
    <2>3. TypeOK'
      BY <2>1, <2>2 DEF IInv, TypeOK, Live
    <2> QED BY <2>1, <2>3, PMOnlyIInv
  <1>4. CASE CheckDone
    <2> USE <1>4 DEF CheckDone, memory, procs
    <2>1. cur' \in Counts /\ wait' \in -1 .. CheckPeriod
      BY Constants DEF IInv, TypeOK
    <2>2. TypeOK'
      BY <2>1 DEF IInv, TypeOK, Live
    <2> QED BY <2>2, PMOnlyIInv
  <1> QED BY <1>1, <1>2, <1>3, <1>4

LEMMA NextProcessTypes ==
  ASSUME IInv, i \in Index, NEW n \in Counts, NextProcess(n)
  PROVE  /\ pm' = "check" /\ i' \in 0 .. Cardinality(Index)
         /\ m_nPreAliveCount' \in [Index -> Counts]
  <1>1. i + 1 \in 0 .. 6
    BY Constants
  <1> QED BY <1>1, NextUsedBounds, Constants DEF NextProcess, IInv, TypeOK

LEMMA CheckAliveIInv == IInv /\ CheckAlive => IInv'
  <1> SUFFICES ASSUME IInv, CheckAlive PROVE IInv'
    OBVIOUS
  <1> USE DEF CheckAlive, procs
  <1>1. i \in Index /\ aliveCount[i] \in Counts
    BY Constants DEF IInv, TypeOK
  <1>2. /\ pm' = "check" /\ i' \in 0 .. Cardinality(Index)
        /\ m_nPreAliveCount' \in [Index -> Counts]
    BY <1>1, NextProcessTypes
  <1>3. Live' = Live
    BY DEF Live
  <1>4. processRun' \in [Index -> BOOLEAN]
        /\ steady' \in [Pids -> {"seen", "fresh", "no"}]
    BY <1>1 DEF IInv, TypeOK, Looked
  <1>5. TypeOK'
    BY <1>2, <1>3, <1>4 DEF IInv, TypeOK
  <1>6. FlagsAreSet'
    BY <1>1, <1>2, <1>3 DEF IInv, TypeOK, FlagsAreSet, PMDown
  <1> QED
    BY <1>2, <1>3, <1>5, <1>6
    DEF IInv, IndexFits, OneNotReplaced, LaunchIsFirst, SleepIsAlone, UpdateIsSoon

LEMMA SoftKillProcessIInv == IInv /\ SoftKillProcess => IInv'
  <1> SUFFICES ASSUME IInv, SoftKillProcess PROVE IInv'
    OBVIOUS
  <1> USE DEF SoftKillProcess
  <1>1. i \in Index /\ 0 \in Counts /\ wait' \in -1 .. CheckPeriod
    BY Constants DEF IInv, SleepIsAlone
  <1>2. Live' = Live /\ Of(i) \subseteq Live /\ \A p : Of(p)' = Of(p)
    BY DEF Live, Of, procs
  <1>3. replaced' = replaced \cup Of(i) /\ replaced' \subseteq Live'
    BY <1>2 DEF IInv, TypeOK
  <1>4. /\ processRun' \in [Index -> BOOLEAN]
        /\ m_nPreAliveCount' \in [Index -> Counts]
        /\ steady' \in [Pids -> {"seen", "fresh", "no"}]
    BY <1>1 DEF IInv, TypeOK, Looked
  <1>5. TypeOK'
    BY <1>1, <1>3, <1>4 DEF IInv, TypeOK, procs
  <1>6. IndexFits' /\ OneNotReplaced'
    BY <1>2, <1>3 DEF IInv, IndexFits, OneNotReplaced, procs
  <1>7. SleepIsAlone'
    BY <1>1, <1>2, <1>3 DEF SleepIsAlone
  <1>8. FlagsAreSet'
    <2> SUFFICES ASSUME NEW q \in Live \ replaced'
                 PROVE  processRun'[index[q]]
      BY <1>2 DEF FlagsAreSet, procs
    <2>1. q \in Live \ replaced /\ index[q] # i /\ index[q] \in Index
      BY <1>3 DEF Of, Live, IInv, IndexFits
    <2>2. processRun[index[q]]
      BY <2>1 DEF IInv, FlagsAreSet, PMDown
    <2> QED BY <2>1, <2>2 DEF IInv, TypeOK
  <1> QED
    BY <1>5, <1>6, <1>7, <1>8 DEF IInv, LaunchIsFirst, UpdateIsSoon

LEMMA RestartIInv == IInv /\ Restart => IInv'
  <1> SUFFICES ASSUME IInv, Restart PROVE IInv'
    OBVIOUS
  <1> USE DEF Restart, memory
  <1>1. i \in Index /\ Of(i) \subseteq replaced
    BY DEF IInv, SleepIsAlone
  <1>2. RunProcess(i) /\ UNCHANGED <<hung, count, quitIn, replaced>>
    OBVIOUS
  <1>3. /\ IndexFits' /\ faults' \in 0 .. MaxFaults
        /\ index' \in [Pids -> Index \cup {-1}]
        /\ phase' \in [Pids -> {"gone", "starting", "up", "quitting"}]
        /\ processId' \in [Index -> Pids \cup {NONE}]
        /\ steady' \in [Pids -> {"seen", "fresh", "no"}]
        /\ replaced' \subseteq Live'
    BY <1>1, <1>2, RunProcessAdds
  <1>4. TypeOK'
    BY <1>3 DEF IInv, TypeOK
  <1>5. CASE processId'[i] = NONE /\ UNCHANGED <<index, phase, Live>>
    <2>1. Of(i)' = Of(i)
      BY <1>5 DEF Of
    <2>2. OneNotReplaced' /\ UpdateIsSoon'
      BY <1>1, <1>5, <2>1 DEF IInv, OneNotReplaced, UpdateIsSoon
    <2>3. FlagsAreSet'
      BY <1>5 DEF IInv, FlagsAreSet, PMDown
    <2> QED
      BY <1>1, <1>3, <1>4, <2>2, <2>3 DEF IInv, LaunchIsFirst, SleepIsAlone
  <1>6. CASE \E q \in Pids \ Live :
               /\ processId'[i] = q /\ q # NONE
               /\ Live' = Live \cup {q} /\ q \notin replaced
               /\ index'[q] = i /\ phase'[q] = "starting"
               /\ \A s \in Live : index'[s] = index[s] /\ phase'[s] = phase[s]
    <2>1. PICK q \in Pids \ Live :
               /\ processId'[i] = q /\ q # NONE
               /\ Live' = Live \cup {q} /\ q \notin replaced
               /\ index'[q] = i /\ phase'[q] = "starting"
               /\ \A s \in Live : index'[s] = index[s] /\ phase'[s] = phase[s]
      BY <1>6
    <2>2. \A s \in Live \ replaced : index[s] # i
      BY <1>1 DEF Of
    <2>3. OneNotReplaced'
      BY <2>1, <2>2 DEF IInv, OneNotReplaced
    <2>4. Of(i)' \ replaced' = {q}
      BY <2>1, <2>2 DEF Of
    <2>5. UpdateIsSoon'
      BY <2>1, <2>4 DEF UpdateIsSoon
    <2>6. FlagsAreSet'
      BY <2>1, <2>2 DEF IInv, FlagsAreSet, PMDown
    <2> QED
      BY <1>1, <1>3, <1>4, <2>3, <2>5, <2>6 DEF IInv, LaunchIsFirst, SleepIsAlone
  <1> QED BY <1>1, <1>2, <1>5, <1>6, RunProcessAdds

LEMMA UpdateRunIInv == IInv /\ UpdateRun => IInv'
  <1> SUFFICES ASSUME IInv, UpdateRun PROVE IInv'
    OBVIOUS
  <1> USE DEF UpdateRun, procs
  <1>1. i \in Index /\ cur \in Counts
    BY DEF IInv, TypeOK, SleepIsAlone
  <1>2. /\ pm' = "check" /\ i' \in 0 .. Cardinality(Index)
        /\ m_nPreAliveCount' \in [Index -> Counts]
    BY <1>1, NextProcessTypes
  <1>3. Live' = Live /\ processRun' \in [Index -> BOOLEAN]
    BY DEF Live, IInv, TypeOK
  <1>4. TypeOK'
    BY <1>2, <1>3 DEF IInv, TypeOK
  <1>5. FlagsAreSet'
    <2> SUFFICES ASSUME NEW q \in Live \ replaced
                 PROVE  processRun'[index[q]]
      BY <1>3 DEF FlagsAreSet
    <2>1. index[q] \in Index
      BY DEF Live, IInv, IndexFits
    <2>2. CASE index[q] = i
      <3>1. processId[i] # NONE
        BY <2>2 DEF IInv, UpdateIsSoon, Of
      <3> QED BY <1>1, <2>2, <3>1 DEF IInv, TypeOK
    <2>3. CASE index[q] # i
      <3>1. processRun[index[q]]
        BY <2>3 DEF IInv, FlagsAreSet, PMDown
      <3> QED BY <2>1, <2>3, <3>1 DEF IInv, TypeOK
    <2> QED BY <2>2, <2>3
  <1> QED
    BY <1>2, <1>3, <1>4, <1>5
    DEF IInv, IndexFits, OneNotReplaced, LaunchIsFirst, SleepIsAlone, UpdateIsSoon

-----------------------------------------------------------------------------
LEMMA QuitPMIInv == IInv /\ (QuitPM \/ CrashPM) => IInv'
  <1> SUFFICES ASSUME IInv, QuitPM \/ CrashPM PROVE IInv'
    OBVIOUS
  <1> USE DEF QuitPM, CrashPM, PMEnds, procs, memory
  <1>1. pm' \in {"closed", "down"} /\ UNCHANGED <<index, phase, hung, count,
          quitIn, replaced, steady, aliveCount>>
    OBVIOUS
  <1>2. /\ i' = 0 /\ wait' = 0 /\ cur' = 0 /\ bKillTimer' = FALSE
        /\ processId' = [p \in Index |-> NONE]
        /\ m_nPreAliveCount' = [p \in Index |-> 0]
    OBVIOUS
  <1>3. processRun' \in [Index -> BOOLEAN]
    BY DEF IInv, TypeOK
  <1>4. faults' \in 0 .. MaxFaults
    BY FaultCounts DEF IInv
  <1>5. /\ 0 \in 0 .. Cardinality(Index) /\ 0 \in -1 .. CheckPeriod /\ 0 \in Counts
    BY Constants
  <1>6. Live' = Live
    BY <1>1 DEF Live
  <1>7. TypeOK'
    BY <1>1, <1>2, <1>3, <1>4, <1>5, <1>6 DEF IInv, TypeOK
  <1> QED
    BY <1>1, <1>6, <1>7
    DEF IInv, IndexFits, OneNotReplaced, LaunchIsFirst, SleepIsAlone,
        UpdateIsSoon, FlagsAreSet, PMDown

LEMMA TickIInv == IInv /\ Tick => IInv'
  <1> SUFFICES ASSUME IInv, Tick PROVE IInv'
    OBVIOUS
  <1> USE DEF Tick
  <1> DEFINE T == {q \in Pids : Pumps(q)}
  <1>1. count' \in [Pids -> Counts]
    <2>1. PICK meeting \in SUBSET {q \in T : MayMeet(q)} :
            count' = [q \in Pids |-> IF q \in T THEN Increment(q, q \in meeting)
                                                ELSE count[q]]
      BY DEF AliveTimers
    <2>2. ASSUME NEW q \in Pids
          PROVE  Increment(q, q \in meeting) \in Counts
      <3>1. (q \in meeting) \in BOOLEAN /\ (q \in meeting => MayMeet(q))
        BY <2>1
      <3> QED BY <3>1, IncrementGrows DEF IInv
    <2> QED BY <2>1, <2>2 DEF IInv, TypeOK
  <1>2. aliveCount' \in [Index -> Counts]
    <2>1. PICK last \in SUBSET T :
            aliveCount' = [p \in Index |-> IF \E l \in last : index[l] = p
                             THEN count'[CHOOSE l \in last : index[l] = p]
                             ELSE aliveCount[p]]
      BY DEF AliveTimers
    <2>2. ASSUME NEW p \in Index, \E l \in last : index[l] = p
          PROVE  count'[CHOOSE l \in last : index[l] = p] \in Counts
      <3>1. (CHOOSE l \in last : index[l] = p) \in last
        BY <2>2, Zenon
      <3>2. (CHOOSE l \in last : index[l] = p) \in Pids
        BY <2>1, <3>1
      <3> QED BY <1>1, <3>2
    <2> QED BY <2>1, <2>2 DEF IInv, TypeOK
  <1>3. quitIn' \in [Pids -> 0 .. QuitPeriod]
    BY Constants DEF IInv, TypeOK
  <1>4. wait' \in -1 .. CheckPeriod
    BY Constants DEF IInv, TypeOK
  <1>5. Live' = Live
    BY DEF Live
  <1>6. TypeOK'
    BY <1>1, <1>2, <1>3, <1>4, <1>5 DEF IInv, TypeOK
  <1>7. pm # "update"
    BY DEF IInv, UpdateIsSoon, PMDown, Waits
  <1> QED
    BY <1>5, <1>6, <1>7
    DEF IInv, IndexFits, OneNotReplaced, LaunchIsFirst, SleepIsAlone,
        UpdateIsSoon, FlagsAreSet, PMDown, Of

LEMMA UnchangedIInv == IInv /\ UNCHANGED vars => IInv'
  BY DEF IInv, vars, memory, procs, manager, TypeOK, IndexFits, OneNotReplaced,
         LaunchIsFirst, SleepIsAlone, UpdateIsSoon, FlagsAreSet, PMDown, Live, Of

LEMMA NextIInv == IInv /\ [Next]_vars => IInv'
  <1> SUFFICES ASSUME IInv, Next PROVE IInv'
    BY UnchangedIInv
  <1>1. CASE PMStep
    BY <1>1, ExcuteNextIInv, CheckIInv, CheckAliveIInv, SoftKillProcessIInv,
       RestartIInv, UpdateRunIInv DEF PMStep
  <1>2. CASE StartPM \/ QuitPM \/ CrashPM \/ Tick
    BY <1>2, StartPMIInv, QuitPMIInv, TickIInv
  <1>3. CASE \E q \in Pids : ProcessStep(q) \/ Crash(q) \/ Hang(q) \/ Recover(q)
    BY <1>3, StartUpIInv, QuitTimerIInv, QuitIInv, CrashIInv, HangIInv
    DEF ProcessStep
  <1> QED BY <1>1, <1>2, <1>3 DEF Next

LEMMA Inductive == Spec => []IInv
  BY InitIInv, NextIInv, PTL DEF Spec

(* Counts, process ids and indices stay what they are.                      *)
THEOREM TypeCorrect == Spec => []TypeOK
  BY Inductive, PTL DEF IInv

(* Of the processes that live with one index, all but one are such as PM    *)
(* has taken for dead, over restarts and crashes of PM too.                 *)
THEOREM TwinsReplaced == Spec => []TwinsWereReplaced
  <1>1. IInv => TwinsWereReplaced
    <2> SUFFICES ASSUME IInv, NEW p \in Index
                 PROVE  Cardinality(Of(p) \ replaced) <= 1
      BY DEF TwinsWereReplaced
    <2>1. \A a, b \in Of(p) \ replaced : a = b
      BY DEF IInv, OneNotReplaced, Of
    <2>2. CASE Of(p) \ replaced = {}
      BY <2>2, FS_EmptySet
    <2>3. CASE \E a : Of(p) \ replaced = {a}
      BY <2>3, FS_Singleton
    <2> QED BY <2>1, <2>2, <2>3
  <1> QED BY <1>1, Inductive, PTL

-----------------------------------------------------------------------------
(* What PM has saved of a process it has seen count.                        *)
LEMMA SavedCounts ==
  ASSUME IInv, NEW q \in Live
  PROVE  Saved(index[q]) \in Counts /\ index[q] \in Index
  BY DEF Saved, IInv, TypeOK, IndexFits, Live

LEMMA InitSInv == Init => SInv
  BY DEF Init, SInv, SteadyIsAlone, SeenCountsOn, CloseIsForCause

(* The steps that leave the counts, PM and what steady says alone, but for  *)
(* processes that end, start up, quit or hang.                              *)
LEMMA ProcessKeepsSInv ==
  ASSUME IInv, SInv, UNCHANGED <<memory, manager>>,
         Live' \subseteq Live, hung' \subseteq Live',
         \A q \in Live' : UNCHANGED <<index[q], count[q]>>,
         \A q \in Pids : phase'[q] = "gone" => count'[q] = 0,
         \A q \in Live' : phase'[q] = "starting" => phase[q] = "starting",
         \A q \in Live' : phase'[q] = "up" => phase[q] \in {"up", "starting"},
         \A q \in Pids : steady'[q] # "no" =>
           q \in Live' /\ q \notin hung' /\ steady'[q] = steady[q]
  PROVE  SInv'
  <1>1. \A p : Saved(p)' = Saved(p) /\ JustSaved(p)' = JustSaved(p)
    BY DEF Saved, JustSaved, manager
  <1>2. \A q \in Live' : Of(index[q])' \subseteq Of(index[q])
    BY DEF Of
  <1>3. Live \subseteq Pids /\ Live' \subseteq Pids
    BY DEF Live
  <1>4. SteadyIsAlone'
    <2>1. \A q \in Pids : phase'[q] \in {"gone", "starting"} => count'[q] = 0
      BY DEF SInv, SteadyIsAlone, Live
    <2>2. ASSUME NEW q \in Pids, steady'[q] # "no"
          PROVE  /\ q \in Live' /\ q \notin hung'
                 /\ \A r \in Of(index[q])' : r = q
                 /\ count'[q] > 0 => aliveCount'[index'[q]] = count'[q]
      BY <1>2, <2>2 DEF SInv, SteadyIsAlone, memory
    <2> QED BY <2>1, <2>2 DEF SteadyIsAlone
  <1>5. ASSUME NEW q \in Pids, steady'[q] = "seen"
        PROVE  q \in Live' /\ steady[q] = "seen" /\ CountsOn(q)
               /\ (phase'[q] = "up" => phase[q] = "up")
    <2>1. q \in Live' /\ steady[q] = "seen" /\ CountsOn(q)
      BY <1>5 DEF SInv, SeenCountsOn
    <2>2. phase[q] # "starting"
      BY <2>1 DEF CountsOn, SInv, SteadyIsAlone
    <2> QED BY <2>1, <2>2
  <1>6. SeenCountsOn'
    BY <1>1, <1>5 DEF SeenCountsOn, CountsOn
  <1>7. CloseIsForCause'
    BY <1>5 DEF SInv, CloseIsForCause, manager
  <1> QED BY <1>4, <1>6, <1>7 DEF SInv

LEMMA ProcessSInv ==
  ASSUME IInv, SInv, NEW q \in Pids,
         StartUp(q) \/ QuitTimer(q) \/ Hang(q) \/ Recover(q)
  PROVE  SInv'
  <1>1. Live' = Live /\ UNCHANGED <<memory, manager, index, count>>
    BY DEF StartUp, QuitTimer, Hang, Recover, Pumps, Live, IInv, TypeOK
  <1>2. \A s \in Pids : phase'[s] = "gone" => count'[s] = 0
    BY <1>1 DEF SInv, SteadyIsAlone, Live
  <1>3. /\ \A s \in Live' : phase'[s] = "starting" => phase[s] = "starting"
        /\ \A s \in Live' : phase'[s] = "up" => phase[s] \in {"up", "starting"}
    BY DEF StartUp, QuitTimer, Hang, Recover, Live, IInv, TypeOK
  <1>4. \A s \in Pids : steady'[s] # "no" =>
          s \in Live' /\ s \notin hung' /\ steady'[s] = steady[s]
    <2>1. CASE StartUp(q) \/ QuitTimer(q) \/ Recover(q)
      BY <1>1, <2>1 DEF StartUp, QuitTimer, Recover, SInv, SteadyIsAlone
    <2>2. CASE Hang(q)
      BY <1>1, <2>2 DEF Hang, SInv, SteadyIsAlone, IInv, TypeOK
    <2> QED BY <2>1, <2>2
  <1>5. hung' \subseteq Live'
    BY <1>1 DEF StartUp, QuitTimer, Hang, Recover, SInv, SteadyIsAlone
  <1> QED BY <1>1, <1>2, <1>3, <1>4, <1>5, ProcessKeepsSInv

LEMMA EndsSInv ==
  ASSUME IInv, SInv, NEW Q, Ends(Q), UNCHANGED <<memory, manager>>
  PROVE  SInv'
  <1>1. Live' = Live \ Q
    BY EndsLeaves
  <1>2. \A q \in Live' : UNCHANGED <<index[q], count[q], phase[q]>>
    BY <1>1 DEF Ends, Live
  <1>3. \A q \in Pids : phase'[q] = "gone" => count'[q] = 0
    BY DEF Ends, SInv, SteadyIsAlone
  <1>4. \A q \in Pids : steady'[q] # "no" =>
          q \in Live' /\ q \notin hung' /\ steady'[q] = steady[q]
    BY <1>1 DEF Ends, SInv, SteadyIsAlone
  <1>5. hung' \subseteq Live'
    BY <1>1 DEF Ends, SInv, SteadyIsAlone
  <1> QED BY <1>1, <1>2, <1>3, <1>4, <1>5, ProcessKeepsSInv

(* A process that PM takes for dead though it has counted.                  *)
LEMMA DeadForCause ==
  ASSUME IInv, SInv, CheckDead, NEW q \in Pids, q \in Of(i), phase[q] = "up", count[q] > 0
  PROVE  /\ steady[q] # "seen"
         /\ steady[q] = "fresh" => count[q] = m_nPreAliveCount[i]
  <1>1. pm = "check" /\ ~IsAlive(aliveCount[i], m_nPreAliveCount[i]) /\ index[q] = i
    BY DEF CheckDead, Of
  <1>2. ASSUME steady[q] # "no"
        PROVE  aliveCount[i] = count[q] /\ count[q] = m_nPreAliveCount[i]
    <2>1. aliveCount[i] = count[q]
      BY <1>1, <1>2 DEF SInv, SteadyIsAlone
    <2>2. count[q] # 0
      OBVIOUS
    <2> QED BY <1>1, <2>1, <2>2 DEF IsAlive
  <1>3. ASSUME steady[q] = "seen"
        PROVE  FALSE
    <2>1. count[q] # Saved(i) \/ JustSaved(i)
      BY <1>1, <1>3 DEF SInv, SeenCountsOn, CountsOn
    <2>2. Saved(i) = m_nPreAliveCount[i] /\ ~JustSaved(i)
      BY <1>1 DEF Saved, JustSaved, IInv, TypeOK
    <2> QED BY <1>2, <1>3, <2>1, <2>2
  <1> QED BY <1>2, <1>3

(* PM goes on without a look at a process' count.                           *)
LEMMA PMKeepsSInv ==
  ASSUME IInv, SInv, UNCHANGED <<aliveCount, procs, steady>>,
         \A p \in Index : Saved(p)' = Saved(p) /\ (JustSaved(p) => JustSaved(p)'),
         CloseIsForCause'
  PROVE  SInv'
  <1>1. Live' = Live /\ \A p : Of(p)' = Of(p)
    BY DEF Live, Of, procs
  <1>2. SteadyIsAlone'
    BY <1>1 DEF SInv, SteadyIsAlone, procs
  <1>3. SeenCountsOn'
    <2> SUFFICES ASSUME NEW q \in Pids, steady[q] = "seen" PROVE CountsOn(q)'
      BY DEF SeenCountsOn
    <2>1. CountsOn(q) /\ index[q] \in Index
      BY SavedCounts DEF SInv, SeenCountsOn, SteadyIsAlone
    <2> QED BY <2>1 DEF CountsOn, procs
  <1> QED BY <1>2, <1>3 DEF SInv

LEMMA CheckSInv ==
  ASSUME IInv, SInv, ExcuteDone \/ OnTimer \/ CheckDead \/ CheckDone \/ UpdateRun
  PROVE  SInv'
  <1> USE DEF memory, procs
  <1>1. CASE ExcuteDone \/ OnTimer \/ CheckDone
    <2>1. UNCHANGED <<aliveCount, procs, steady, m_nPreAliveCount>>
          /\ pm \notin {"sleep", "update"} /\ pm' \in {"idle", "check"}
          /\ (pm' = "check" => wait' = 0)
      BY <1>1 DEF ExcuteDone, OnTimer, CheckDone
    <2>2. \A p \in Index : Saved(p)' = Saved(p)
      BY <2>1 DEF Saved
    <2>3. ASSUME NEW p \in Index, JustSaved(p)
          PROVE  JustSaved(p)'
      BY <1>1, <2>3, Constants
      DEF JustSaved, ExcuteDone, OnTimer, CheckDone, SInv, CloseIsForCause
    <2>4. CloseIsForCause'
      BY <2>1 DEF CloseIsForCause
    <2> QED BY <2>1, <2>2, <2>3, <2>4, PMKeepsSInv
  <1>2. CASE CheckDead
    <2> USE <1>2 DEF CheckDead
    <2>1. \A p \in Index : Saved(p)' = Saved(p) /\ (JustSaved(p) => JustSaved(p)')
      BY DEF Saved, JustSaved
    <2>2. ASSUME NEW q \in Pids, steady[q] = "seen", phase[q] = "up"
          PROVE  index[q] # i
      <3>1. q \in Live /\ count[q] > 0
        BY <2>2 DEF SInv, SteadyIsAlone, SeenCountsOn, CountsOn
      <3> QED BY <2>2, <3>1, DeadForCause DEF Of
    <2>3. CloseIsForCause'
      BY <2>2 DEF CloseIsForCause
    <2> QED BY <2>1, <2>3, PMKeepsSInv
  <1>3. CASE UpdateRun
    <2> USE <1>3 DEF UpdateRun, NextProcess
    <2>1. i \in Index /\ wait = 0
      BY DEF IInv, SleepIsAlone, UpdateIsSoon
    <2>2. i' > i /\ i \in Int /\ i' \in Int
      <3>1. i + 1 \in 0 .. 6 /\ i \in Int
        BY <2>1, Constants
      <3> QED BY <3>1, NextUsedBounds
    <2>3. \A p \in Index : Saved(p)' = Saved(p)
      BY <2>1 DEF Saved, IInv, TypeOK
    <2>4. \A p \in Index : JustSaved(p) => JustSaved(p)'
      BY <2>2, Constants DEF JustSaved
    <2>5. CloseIsForCause'
      BY <2>1 DEF CloseIsForCause
    <2> QED BY <2>3, <2>4, <2>5, PMKeepsSInv
  <1> QED BY <1>1, <1>2, <1>3

(* PM looks at the processes with index r and has saved n of them.          *)
LEMMA LookedSInv ==
  ASSUME IInv, SInv, UNCHANGED <<aliveCount, procs>>, NEW r \in Index,
         NEW n \in Counts, Looked(r, n), Saved(r)' = n, JustSaved(r)',
         \A q \in Of(r) : steady[q] = "seen" /\ phase[q] = "up" => count[q] = n,
         \A p \in Index \ {r} : Saved(p)' = Saved(p) /\ (JustSaved(p) => JustSaved(p)'),
         CloseIsForCause'
  PROVE  SInv'
  <1>1. Live' = Live /\ \A p : Of(p)' = Of(p)
    BY DEF Live, Of, procs
  <1>2. \A q \in Pids :
          \/ steady'[q] = steady[q]
          \/ /\ steady'[q] = "seen" /\ Of(r) = {q} /\ Pumps(q)
             /\ count[q] = n /\ n > 0 /\ aliveCount[r] = n
    BY DEF Looked
  <1>3. SteadyIsAlone'
    <2>1. ASSUME NEW q \in Pids, steady'[q] # "no"
          PROVE  /\ q \in Live /\ q \notin hung
                 /\ \A o \in Of(index[q]) : o = q
                 /\ count[q] > 0 => aliveCount[index[q]] = count[q]
      <3>1. CASE steady'[q] = steady[q]
        BY <2>1, <3>1 DEF SInv, SteadyIsAlone
      <3>2. CASE /\ Of(r) = {q} /\ Pumps(q) /\ count[q] = n /\ aliveCount[r] = n
        <4>1. index[q] = r /\ q \in Live
          BY <3>2 DEF Of
        <4> QED BY <3>2, <4>1 DEF Pumps
      <3> QED BY <1>2, <3>1, <3>2
    <2>2. hung \subseteq Live
      BY DEF SInv, SteadyIsAlone
    <2> QED BY <1>1, <2>1, <2>2 DEF SteadyIsAlone, SInv, procs
  <1>4. SeenCountsOn'
    <2> SUFFICES ASSUME NEW q \in Pids, steady'[q] = "seen" PROVE CountsOn(q)'
      BY DEF SeenCountsOn
    <2>1. q \in Live /\ index[q] \in Index
      BY <1>1, <1>3, SavedCounts DEF SteadyIsAlone
    <2>2. count[q] > 0
      BY <1>2 DEF SInv, SeenCountsOn, CountsOn
    <2>3. CASE index[q] = r
      <3>1. phase[q] = "up" => count[q] = n
        BY <1>2, <2>1, <2>3 DEF Of
      <3>2. n <= n
        BY Constants
      <3> QED BY <2>2, <2>3, <3>1, <3>2 DEF CountsOn, procs
    <2>4. CASE index[q] # r
      <3>1. steady[q] = "seen"
        BY <1>2, <2>4 DEF Of
      <3> QED BY <2>1, <2>4, <3>1 DEF SInv, SeenCountsOn, CountsOn, procs
    <2> QED BY <2>3, <2>4
  <1> QED BY <1>3, <1>4 DEF SInv

LEMMA CheckAliveSInv == IInv /\ SInv /\ CheckAlive => SInv'
  <1> SUFFICES ASSUME IInv, SInv, CheckAlive PROVE SInv'
    OBVIOUS
  <1> USE DEF CheckAlive, NextProcess
  <1>0. i \in Index /\ aliveCount[i] \in Counts
    BY Constants DEF IInv, TypeOK
  <1> PICK r \in Index, n \in Counts : r = i /\ n = aliveCount[i]
    BY <1>0
  <1>1. r \in 0 .. 5 /\ r \in Int
    BY Constants
  <1>2. i' > r /\ i' \in Int
    <2>1. r + 1 \in 0 .. 6
      BY <1>1
    <2> QED BY <1>1, <2>1, NextUsedBounds
  <1>3. Saved(r)' = n
    BY DEF Saved, IInv, TypeOK
  <1>4. JustSaved(r)'
    BY <1>1, <1>2 DEF JustSaved
  <1>5. ASSUME NEW q \in Of(r), steady[q] = "seen"
        PROVE  count[q] = n
    <2>1. q \in Pids /\ index[q] = r
      BY DEF Of, Live
    <2> QED BY <1>5, <2>1 DEF SInv, SteadyIsAlone, SeenCountsOn, CountsOn
  <1>6. ASSUME NEW p \in Index \ {r}
        PROVE  Saved(p)' = Saved(p) /\ (JustSaved(p) => JustSaved(p)')
    <2>1. Saved(p)' = Saved(p)
      BY DEF Saved, IInv, TypeOK
    <2>2. p < r => p < i'
      BY <1>1, <1>2, Constants
    <2> QED BY <2>1, <2>2 DEF JustSaved
  <1>7. CloseIsForCause'
    BY DEF CloseIsForCause, SInv
  <1> QED BY <1>3, <1>4, <1>5, <1>6, <1>7, LookedSInv

LEMMA SoftKillProcessSInv == IInv /\ SInv /\ SoftKillProcess => SInv'
  <1> SUFFICES ASSUME IInv, SInv, SoftKillProcess PROVE SInv'
    OBVIOUS
  <1> USE DEF SoftKillProcess
  <1>0. i \in Index /\ cur \in Counts
    BY DEF IInv, SleepIsAlone, TypeOK
  <1> PICK r \in Index, n \in Counts : r = i /\ n = cur
    BY <1>0
  <1>2. Saved(r)' = n /\ JustSaved(r)'
    BY DEF Saved, JustSaved
  <1>3. \A q \in Of(r) : ~(steady[q] = "seen" /\ phase[q] = "up")
    BY DEF SInv, CloseIsForCause, Of, Live
  <1>4. \A p \in Index \ {r} : Saved(p)' = Saved(p) /\ (JustSaved(p) => JustSaved(p)')
    BY DEF Saved, JustSaved, IInv, TypeOK
  <1>5. CloseIsForCause'
    BY DEF CloseIsForCause
  <1> QED BY <1>2, <1>3, <1>4, <1>5, LookedSInv

(* A process is launched, or is not.                                        *)
LEMMA LaunchSInv ==
  ASSUME IInv, SInv, NEW r \in Index, RunProcess(r), UNCHANGED <<aliveCount, hung, count>>,
         \A p \in Index : Saved(p)' = Saved(p) /\ (JustSaved(p) => JustSaved(p)'),
         pm' \notin {"close", "check"}
  PROVE  SInv'
  <1>1. CloseIsForCause'
    BY DEF CloseIsForCause
  <1>2. CASE UNCHANGED <<index, phase, steady>>
    <2>1. Live' = Live /\ \A p : Of(p)' = Of(p)
      BY <1>2 DEF Live, Of
    <2>2. SteadyIsAlone'
      BY <1>2, <2>1 DEF SInv, SteadyIsAlone
    <2>3. SeenCountsOn'
      BY <1>2, SavedCounts DEF SInv, SteadyIsAlone, SeenCountsOn, CountsOn
    <2> QED BY <1>1, <2>2, <2>3 DEF SInv
  <1>3. CASE \E q \in Pids \ Live :
               /\ index' = [index EXCEPT ![q] = r]
               /\ phase' = [phase EXCEPT ![q] = "starting"]
               /\ steady' = IF Of(r) = {} THEN [steady EXCEPT ![q] = "fresh"]
                             ELSE [s \in Pids |-> IF s \in Of(r) THEN "no" ELSE steady[s]]
    <2>1. PICK q \in Pids \ Live :
               /\ index' = [index EXCEPT ![q] = r]
               /\ phase' = [phase EXCEPT ![q] = "starting"]
               /\ steady' = IF Of(r) = {} THEN [steady EXCEPT ![q] = "fresh"]
                             ELSE [s \in Pids |-> IF s \in Of(r) THEN "no" ELSE steady[s]]
      BY <1>3
    <2>2. Live' = Live \cup {q} /\ index'[q] = r /\ phase'[q] = "starting"
          /\ \A s \in Live : index'[s] = index[s] /\ phase'[s] = phase[s]
      BY <2>1 DEF Live, IInv, TypeOK
    <2>3. phase[q] = "gone" /\ count[q] = 0 /\ steady[q] = "no" /\ q \notin hung
      <3>1. phase[q] = "gone"
        BY DEF Live
      <3>2. steady[q] = "no"
        BY DEF SInv, SteadyIsAlone
      <3>3. hung \subseteq Live
        BY DEF SInv, SteadyIsAlone
      <3> QED BY <3>1, <3>2, <3>3 DEF SInv, SteadyIsAlone
    <2>4. ASSUME NEW s \in Pids, s # q, steady'[s] # "no"
          PROVE  steady'[s] = steady[s] /\ s \in Live /\ index[s] # r
      <3>1. steady'[s] = steady[s] /\ s \notin Of(r)
        BY <2>1, <2>4 DEF IInv, TypeOK
      <3> QED BY <2>4, <3>1 DEF SInv, SteadyIsAlone, Of
    <2>5. steady'[q] # "no" => steady'[q] = "fresh" /\ Of(r) = {}
      BY <2>1, <2>3 DEF IInv, TypeOK
    <2>6. SteadyIsAlone'
      <3>1. \A s \in Pids : phase'[s] \in {"gone", "starting"} => count[s] = 0
        BY <2>1, <2>3 DEF SInv, SteadyIsAlone, IInv, TypeOK
      <3>2. ASSUME NEW s \in Pids, steady'[s] # "no"
            PROVE  /\ s \in Live' /\ s \notin hung
                   /\ \A o \in Live' : index'[o] = index'[s] => o = s
                   /\ count[s] > 0 => aliveCount[index'[s]] = count[s]
        <4>1. CASE s = q
          BY <2>2, <2>3, <2>5, <3>2, <4>1 DEF Of
        <4>2. CASE s # q
          <5>1. steady'[s] = steady[s] /\ s \in Live /\ index[s] # r
            BY <2>4, <3>2, <4>2
          <5> QED BY <2>2, <3>2, <5>1 DEF SInv, SteadyIsAlone, Of
        <4> QED BY <4>1, <4>2
      <3>3. hung \subseteq Live'
        BY <2>2 DEF SInv, SteadyIsAlone
      <3> QED BY <3>1, <3>2, <3>3 DEF SteadyIsAlone, Of
    <2>7. SeenCountsOn'
      <3> SUFFICES ASSUME NEW s \in Pids, steady'[s] = "seen" PROVE CountsOn(s)'
        BY DEF SeenCountsOn
      <3>1. s # q
        BY <2>5
      <3>2. steady[s] = "seen" /\ s \in Live
        BY <2>4, <3>1
      <3>3. index'[s] = index[s] /\ phase'[s] = phase[s] /\ index[s] \in Index
        BY <2>2, <3>2, SavedCounts
      <3> QED BY <3>2, <3>3 DEF SInv, SeenCountsOn, CountsOn
    <2> QED BY <1>1, <2>6, <2>7 DEF SInv
  <1> QED BY <1>2, <1>3 DEF RunProcess

LEMMA RunSInv ==
  ASSUME IInv, SInv, ExcuteNext \/ Restart
  PROVE  SInv'
  <1>1. CASE ExcuteNext
    <2> USE <1>1 DEF ExcuteNext
    <2>1. i \in Index /\ pm' \in {"launch", "quit"}
      BY Constants
    <2>2. \A p \in Index : Saved(p)' = Saved(p) /\ (JustSaved(p) => JustSaved(p)')
      BY <2>1 DEF Saved, JustSaved
    <2> QED BY <2>1, <2>2, LaunchSInv
  <1>2. CASE Restart
    <2> USE <1>2 DEF Restart, memory
    <2>1. i \in Index
      BY DEF IInv, SleepIsAlone
    <2>2. \A p \in Index : Saved(p)' = Saved(p) /\ (JustSaved(p) => JustSaved(p)')
      BY DEF Saved, JustSaved
    <2> QED BY <2>1, <2>2, LaunchSInv
  <1> QED BY <1>1, <1>2

LEMMA StartPMSInv == IInv /\ SInv /\ StartPM => SInv'
  <1> SUFFICES ASSUME IInv, SInv, StartPM PROVE SInv'
    OBVIOUS
  <1>1. Ends(Live) /\ Live' = {} /\ pm' = "launch"
    BY KillsAll, EndsLeaves DEF StartPM
  <1>2. \A q \in Pids : steady'[q] = "no" /\ count'[q] = 0
    BY <1>1 DEF Ends, SInv, SteadyIsAlone, Live
  <1>3. hung' = {}
    BY <1>1 DEF Ends, SInv, SteadyIsAlone
  <1> QED BY <1>1, <1>2, <1>3 DEF SInv, SteadyIsAlone, SeenCountsOn, CloseIsForCause

LEMMA PMEndsSInv == IInv /\ SInv /\ (QuitPM \/ CrashPM) => SInv'
  <1> SUFFICES ASSUME IInv, SInv, QuitPM \/ CrashPM PROVE SInv'
    OBVIOUS
  <1>1. UNCHANGED <<aliveCount, procs, steady>> /\ pm' \in {"closed", "down"}
        /\ m_nPreAliveCount' = [p \in Index |-> 0]
    BY DEF QuitPM, CrashPM, PMEnds, memory
  <1>2. Live' = Live /\ \A p : Of(p)' = Of(p)
    BY <1>1 DEF Live, Of, procs
  <1>3. SteadyIsAlone'
    BY <1>1, <1>2 DEF SInv, SteadyIsAlone, procs
  <1>4. SeenCountsOn'
    <2> SUFFICES ASSUME NEW q \in Pids, steady[q] = "seen" PROVE CountsOn(q)'
      BY <1>1 DEF SeenCountsOn
    <2>1. count[q] > 0 /\ q \in Live
      BY DEF SInv, SeenCountsOn, CountsOn, SteadyIsAlone
    <2>2. index[q] \in Index /\ count[q] \in Nat
      <3>1. index[q] \in Index /\ count[q] \in Counts
        BY <2>1, SavedCounts DEF IInv, TypeOK
      <3> QED BY <3>1, Constants
    <2>3. Saved(index[q])' = 0
      BY <1>1, <2>2 DEF Saved, procs
    <2>4. count'[q] = count[q]
      BY <1>1 DEF procs
    <2> QED BY <2>1, <2>2, <2>3, <2>4 DEF CountsOn
  <1>5. CloseIsForCause'
    BY <1>1 DEF CloseIsForCause
  <1> QED BY <1>3, <1>4, <1>5 DEF SInv

LEMMA TickSInv == IInv /\ SInv /\ Tick => SInv'
  <1> SUFFICES ASSUME IInv, SInv, Tick PROVE SInv'
    OBVIOUS
  <1> USE DEF Tick
  <1> DEFINE T == {q \in Pids : Pumps(q)}
  <1>1. PICK meeting \in SUBSET {q \in T : MayMeet(q)}, last \in SUBSET T :
          /\ count' = [q \in Pids |-> IF q \in T THEN Increment(q, q \in meeting)
                                              ELSE count[q]]
          /\ \A q \in T : \E l \in last : index[l] = index[q]
          /\ \A k, l \in last : index[k] = index[l] => k = l
          /\ aliveCount' = [p \in Index |-> IF \E l \in last : index[l] = p
                              THEN count'[CHOOSE l \in last : index[l] = p]
                              ELSE aliveCount[p]]
    <2>1. AliveTimers(T)
      OBVIOUS
    <2> HIDE DEF T
    <2> QED BY <2>1, Zenon DEF AliveTimers
  <1>2. Live' = Live /\ \A p : Of(p)' = Of(p)
    BY DEF Live, Of
  <1>3. T \subseteq Live
    BY DEF Pumps, Live
  <1>4. \A q \in Pids \ T : count'[q] = count[q]
    BY <1>1
  <1>5. \A p : Saved(p)' = Saved(p)
    BY DEF Saved
  <1>6. ASSUME NEW q \in T
        PROVE  /\ count'[q] > 0
               /\ (count[q] \in Large \/ Saved(index[q]) <= count[q]) =>
                    /\ count'[q] \in Large \/ Saved(index[q]) <= count'[q]
                    /\ count'[q] # Saved(index[q])
    <2>1. count'[q] = Increment(q, q \in meeting)
      BY <1>1
    <2>2. (q \in meeting) \in BOOLEAN /\ (q \in meeting => MayMeet(q))
      BY <1>1
    <2>3. Saved(index[q]) \in Counts
      BY <1>3, SavedCounts
    <2> QED BY <2>1, <2>2, <2>3, IncrementGrows DEF IInv
  <1>7. ASSUME NEW q \in Pids, steady[q] # "no"
        PROVE  /\ q \in Live /\ q \notin hung
               /\ \A o \in Of(index[q]) : o = q
               /\ count'[q] > 0 => aliveCount'[index[q]] = count'[q]
    <2>1. q \in Live /\ q \notin hung /\ \A o \in Of(index[q]) : o = q
      BY <1>7 DEF SInv, SteadyIsAlone
    <2>2. index[q] \in Index
      BY <2>1, SavedCounts
    <2>3. \A l \in last : index[l] = index[q] => l = q
      BY <1>1, <1>3, <2>1 DEF Of
    <2>4. CASE q \in T
      <3>1. \E l \in last : index[l] = index[q]
        BY <1>1, <2>4
      <3>2. (CHOOSE l \in last : index[l] = index[q]) = q
        <4>1. /\ (CHOOSE l \in last : index[l] = index[q]) \in last
              /\ index[CHOOSE l \in last : index[l] = index[q]] = index[q]
          BY <3>1, Zenon
        <4> QED BY <2>3, <4>1
      <3>3. aliveCount'[index[q]] = count'[CHOOSE l \in last : index[l] = index[q]]
        BY <1>1, <2>2, <3>1
      <3> QED BY <2>1, <3>2, <3>3
    <2>5. CASE q \notin T
      <3>1. ~\E l \in last : index[l] = index[q]
        BY <1>1, <2>3, <2>5
      <3>2. aliveCount'[index[q]] = aliveCount[index[q]]
        BY <1>1, <2>2, <3>1
      <3> QED BY <1>4, <1>7, <2>1, <2>5, <3>2 DEF SInv, SteadyIsAlone
    <2> QED BY <2>4, <2>5
  <1>8. SteadyIsAlone'
    <2>1. \A q \in Pids : phase[q] \in {"gone", "starting"} => count'[q] = 0
      BY <1>4 DEF SInv, SteadyIsAlone, Pumps
    <2>2. hung \subseteq Live
      BY DEF SInv, SteadyIsAlone
    <2> QED BY <1>2, <1>7, <2>1, <2>2 DEF SteadyIsAlone
  <1>9. SeenCountsOn'
    <2> SUFFICES ASSUME NEW q \in Pids, steady[q] = "seen" PROVE CountsOn(q)'
      BY DEF SeenCountsOn
    <2>1. CountsOn(q) /\ q \notin hung
      BY <1>7 DEF SInv, SeenCountsOn
    <2>2. CASE phase[q] = "up"
      <3>1. q \in T
        BY <2>1, <2>2 DEF Pumps
      <3> QED BY <1>5, <1>6, <2>1, <2>2, <3>1 DEF CountsOn
    <2>3. CASE phase[q] # "up"
      <3>1. count'[q] = count[q]
        BY <1>4, <2>3 DEF Pumps
      <3> QED BY <2>1, <2>3, <3>1 DEF CountsOn
    <2> QED BY <2>2, <2>3
  <1>10. CloseIsForCause'
    BY DEF SInv, CloseIsForCause, PMDown
  <1> QED BY <1>8, <1>9, <1>10 DEF SInv

LEMMA UnchangedSInv == SInv /\ UNCHANGED vars => SInv'
  BY DEF SInv, SteadyIsAlone, SeenCountsOn, CountsOn, CloseIsForCause, Saved, JustSaved,
         Live, Of, vars, memory, procs, manager

LEMMA NextSInv == IInv /\ SInv /\ [Next]_vars => SInv'
  <1> SUFFICES ASSUME IInv, SInv, Next PROVE SInv'
    BY UnchangedSInv
  <1>1. CASE PMStep
    BY <1>1, RunSInv, CheckSInv, CheckAliveSInv, SoftKillProcessSInv DEF PMStep
  <1>2. CASE StartPM \/ QuitPM \/ CrashPM \/ Tick
    BY <1>2, StartPMSInv, PMEndsSInv, TickSInv
  <1>3. ASSUME NEW q \in Pids, ProcessStep(q) \/ Crash(q) \/ Hang(q) \/ Recover(q)
        PROVE  SInv'
    <2>1. CASE StartUp(q) \/ QuitTimer(q) \/ Hang(q) \/ Recover(q)
      BY <2>1, ProcessSInv
    <2>2. CASE Quit(q) \/ Crash(q)
      <3>1. UNCHANGED <<memory, manager>> /\ \E Q : Ends(Q)
        BY <2>2 DEF Quit, Crash
      <3> QED BY <3>1, EndsSInv
    <2> QED BY <1>3, <2>1, <2>2 DEF ProcessStep
  <1> QED BY <1>1, <1>2, <1>3 DEF Next

(* PM replaces no process of which it has saved a count and that has not    *)
(* hung nor shared its index since; one it has not, it replaces only if     *)
(* that has counted to just what it saved of the predecessor.               *)
THEOREM JudgesForCause == Spec => JudgedDeadForCause
  <1>1. ASSUME IInv, SInv, Next, pm = "check", pm' = "close",
               NEW q \in Of(i), Pumps(q), count[q] > 0
        PROVE  /\ steady[q] # "seen"
               /\ steady[q] = "fresh" => count[q] = m_nPreAliveCount[i]
    <2>1. CheckDead
      BY <1>1
      DEF Next, PMStep, ProcessStep, StartPM, ExcuteNext, ExcuteDone, OnTimer,
          CheckAlive, NextProcess, SoftKillProcess, Restart, UpdateRun, CheckDone,
          QuitPM, CrashPM, PMEnds, Tick, StartUp, QuitTimer, Quit, Crash, Hang,
          Recover, manager
    <2>2. q \in Pids /\ phase[q] = "up"
      BY <1>1 DEF Of, Live, Pumps
    <2> QED BY <1>1, <2>1, <2>2, DeadForCause
  <1>2. IInv /\ SInv /\ [Next]_vars =>
          [(pm = "check" /\ pm' = "close") =>
             \A q \in Of(i) :
               (Pumps(q) /\ count[q] > 0) =>
                 /\ steady[q] # "seen"
                 /\ steady[q] = "fresh" => count[q] = m_nPreAliveCount[i]]_vars
    BY <1>1
  <1> QED BY <1>2, Inductive, InitSInv, NextSInv, PTL DEF Spec, JudgedDeadForCause

(* A process that quits by itself has been told by a PM that ends, or PM    *)
(* has replaced it.                                                         *)
THEOREM QuitsForCause == Spec => QuitForCause
  <1>1. ASSUME IInv, Next, NEW q \in Pids, phase[q] = "up", phase'[q] = "quitting"
        PROVE  q \in replaced \/ PMDown
    <2>1. CASE QuitTimer(q)
      BY <1>1, <2>1, QuitTimerForCause
    <2>2. CASE \E s \in Pids \ {q} : QuitTimer(s)
      BY <1>1, <2>2 DEF QuitTimer, IInv, TypeOK
    <2>3. CASE \E s \in Pids : StartUp(s) \/ Hang(s) \/ Recover(s)
      BY <1>1, <2>3 DEF StartUp, Hang, Recover, IInv, TypeOK
    <2>4. CASE StartPM \/ \E s \in Pids : Quit(s) \/ Crash(s)
      BY <1>1, <2>4 DEF StartPM, Quit, Crash, Ends
    <2>5. CASE ExcuteNext \/ Restart
      BY <1>1, <2>5 DEF ExcuteNext, Restart, RunProcess, IInv, TypeOK
    <2>6. CASE \/ QuitPM \/ CrashPM \/ Tick \/ ExcuteDone \/ OnTimer \/ CheckAlive
               \/ CheckDead \/ SoftKillProcess \/ UpdateRun \/ CheckDone
      BY <1>1, <2>6
      DEF QuitPM, CrashPM, Tick, ExcuteDone, OnTimer, CheckAlive, CheckDead,
          SoftKillProcess, UpdateRun, CheckDone, procs
    <2> QED
      BY <1>1, <2>1, <2>2, <2>3, <2>4, <2>5, <2>6 DEF Next, PMStep, ProcessStep
  <1>2. IInv /\ [Next]_vars =>
          [\A q \in Pids : (phase[q] = "up" /\ phase'[q] = "quitting") =>
                               q \in replaced \/ PMDown]_vars
    BY <1>1
  <1> QED BY <1>2, Inductive, PTL DEF Spec, QuitForCause
=============================================================================
