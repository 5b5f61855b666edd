----------------------------- MODULE LogRemover -----------------------------
(***************************************************************************)
(* The log files of the processes (Include/Log.cpp) and LogRemover, which  *)
(* deletes the old ones (LogRemover/LogRemoverDlg.cpp).  Setup.ini decides *)
(* which processes PM starts and which folders LogRemover looks after.     *)
(*                                                                         *)
(* Folders of different processes have nothing in common, so one process   *)
(* is followed, any that logs.  Its log of an hour is <<day, hour>>, in the*)
(* folder of that day, which is in one of the month.  Folders of years are *)
(* never removed: for them and for months DeleteLogfiles gives             *)
(* DeleteDirectory a name without a path, which no working directory is    *)
(* taken to contain.                                                       *)
(***************************************************************************)
EXTENDS Integers, FiniteSets

CONSTANTS
  Senders,        \* the sections SI_INFO_1 ...: the SISenders
  Types,          \* values of TYPE: "SI_TEST", "KOCOM", "COMMAX"
  Terms,          \* days to keep that may be in the edit box
  HoursPerDay, DaysPerMonth, MonthsPerYear,
  MaxHours        \* bound: the hours after this one count as this one

ASSUME LogRemoverAssumption ==
  /\ Types \subseteq {"SI_TEST", "KOCOM", "COMMAX"}
  /\ Terms \subseteq Nat /\ MaxHours \in Nat
  /\ {HoursPerDay, DaysPerMonth, MonthsPerYear} \subseteq Nat \ {0}
  /\ DaysPerMonth < 100 /\ MonthsPerYear < 100

VARIABLES
  listed,          \* m_vecLogFolder has the folder of the process
  now,             \* hours
  \* the folder of the process
  files, days, months,
  \* Log of the process
  file,            \* the one that is open; NoFile
  lpc, path,       \* "idle", or "mkdir" and "fopen": path is to be opened
  \* LogRemover
  m_Thread,        \* "none", "runs", or "join": Stop waits for it
  rpc,             \* "sleep", "walk" through the folders, "in" a day's folder,
                   \* "out" of it again
  nTerm, tDel,     \* days to keep; the last day to delete
  nDay, seen,      \* the day's folder it is in; those it has been in
  due,             \* an hour has passed since the last time
  \* history
  silence,         \* hours since its last line was begun, up to a day
  quiet,           \* it has been silent for a day with this file open
  late,            \* other files with a line of a later day than the folder's
  latest,          \* the last day whose folder the process has had, -1: none
  terms            \* the terms LogRemover has run with

log     == <<file, lpc, path>>
remover == <<m_Thread, rpc, nTerm, tDel, nDay, seen>>
folder  == <<files, days, months>>
removed == <<latest, terms>>
logVars == <<listed, now, folder, log, remover, due, silence, quiet, late, removed>>

NoFile == <<>>

-----------------------------------------------------------------------------
(* Setup.ini: the keys of a section that have a value, and the value TYPE   *)
(* has if it has one.                                                       *)

Sections == Senders \cup {"SERVER"}
Inis == [keys : [Sections -> SUBSET {"IP", "PORT", "TYPE", "ID", "PW"}],
         type : [Senders -> Types]]

(* A sender PM starts.                                                      *)
Needed(type) ==
  {"TYPE", "IP", "PORT"} \cup (IF type = "COMMAX" THEN {} ELSE {"ID"})
                         \cup (IF type = "KOCOM" THEN {"PW"} ELSE {})

ServerUsed(ini) == {"PORT", "ID", "PW"} \subseteq ini.keys["SERVER"]

(* The processes that log while PM runs: PM, Broker and those it starts.    *)
InitProcessInfo(ini) ==
  {"PM", "Broker"}
  \cup {s \in Senders : Needed(ini.type[s]) \subseteq ini.keys[s]}
  \cup (IF ServerUsed(ini) THEN {"GFSServer"} ELSE {})

(* Mutant: every type is taken to have an ID.                               *)
WithFolderStrict(type) ==
  {"TYPE", "IP", "PORT", "ID"} \cup (IF type = "KOCOM" THEN {"PW"} ELSE {})

(* A sender whose folder LogRemover looks after.  The test of LOGIN leaves  *)
(* none out: where the key is missing, nTemp is still the TYPE, which is 0. *)
WithFolder(type) ==
  {"TYPE", "IP", "PORT"} \cup (IF type = "KOCOM" THEN {"ID", "PW"} ELSE {})

GetLogFolderList(ini) ==
  {"PM", "Broker"}
  \cup {s \in Senders : WithFolder(ini.type[s]) \subseteq ini.keys[s]}
  \cup (IF ServerUsed(ini) THEN {"GFSServer"} ELSE {})

-----------------------------------------------------------------------------
(* Days are numbered; a folder has the numbers of its year, month and day.  *)

Day(t)  == t \div HoursPerDay
Hour(t) == t % HoursPerDay
Month(day) == day \div DaysPerMonth
LogTime(day) ==
  10000 * (Month(day) \div MonthsPerYear + 1)
  + 100 * ((Month(day) % MonthsPerYear) + 1) + (day % DaysPerMonth) + 1

(* The day nTerm days before today.                                         *)
DelDay(term) == Day(now) - term

LogInit ==
  /\ \E ini \in Inis : \E process \in InitProcessInfo(ini) :
       listed = (process \in GetLogFolderList(ini))
  /\ now = 0
  /\ files = {} /\ days = {} /\ months = {}
  /\ file = NoFile /\ lpc = "idle" /\ path = NoFile
  /\ m_Thread = "none" /\ rpc = "sleep" /\ nTerm = 0 /\ tDel = 0
  /\ nDay = -1 /\ seen = {} /\ due = FALSE
  /\ silence = 0 /\ quiet = FALSE /\ late = {}
  /\ latest = -1 /\ terms = {}

(* An hour passes.  A call of Log takes less than an hour.                  *)
Tick ==
  /\ lpc = "idle" \/ path = <<Day(now), Hour(now)>>
  /\ now' = IF now < MaxHours THEN now + 1 ELSE now
  /\ silence' = IF silence < HoursPerDay /\ (file # NoFile \/ lpc # "idle")
                THEN silence + 1 ELSE silence
  /\ quiet' = (quiet \/ silence' = HoursPerDay)
  /\ due' = TRUE
  /\ UNCHANGED <<listed, folder, log, remover, late, removed>>

-----------------------------------------------------------------------------
(* WriteLog.  A file is kept open for as long as the hour is its own.       *)

(* Mutant: a file that is open is never changed.                            *)
StaysOpenForGood == file # NoFile

StaysOpen == file # NoFile /\ file[2] = Hour(now)

(* The line goes to the file that is open.                                  *)
WriteLog ==
  /\ lpc = "idle"
  /\ StaysOpen
  /\ silence' = 0
  /\ late' = IF Day(now) > file[1] /\ ~quiet THEN late \cup {file} ELSE late
  /\ UNCHANGED <<listed, now, folder, log, remover, due, quiet, removed>>

(* The old file is closed, and CreateDirectory looks for the folder of the  *)
(* day.  If it is not there, it is called for that of the month first, which*)
(* is looked for, and made.                                                 *)
MakePath ==
  /\ lpc = "idle"
  /\ ~StaysOpen
  /\ file' = NoFile
  /\ path' = <<Day(now), Hour(now)>>
  /\ \/ Day(now) \in days /\ lpc' = "fopen" /\ UNCHANGED months
     \/ Day(now) \notin days /\ lpc' = "mkdir" /\ months' = months \cup {Month(Day(now))}
  /\ silence' = 0 /\ quiet' = FALSE
  /\ UNCHANGED <<listed, now, files, days, remover, due, late, removed>>

(* Then that of the day is made, if that of the month is still there.       *)
MakeDay ==
  /\ lpc = "mkdir"
  /\ lpc' = "fopen"
  /\ \/ Month(path[1]) \in months /\ days' = days \cup {path[1]} /\ latest' = path[1]
     \/ Month(path[1]) \notin months /\ UNCHANGED <<days, latest>>
  /\ UNCHANGED <<listed, now, files, months, file, path, remover, due,
                 silence, quiet, late, terms>>

(* _wfopen and the line; without the folder the line is lost.               *)
FOpen ==
  /\ lpc = "fopen"
  /\ lpc' = "idle" /\ path' = NoFile
  /\ \/ /\ path[1] \in days
        /\ files' = files \cup {path} /\ file' = path
     \/ path[1] \notin days /\ UNCHANGED <<files, file>>
  /\ UNCHANGED <<listed, now, days, months, remover, due,
                 silence, quiet, late, removed>>

(* The process ends, at any point, and is started again.                    *)
Restarted ==
  /\ file' = NoFile /\ lpc' = "idle" /\ path' = NoFile
  /\ silence' = 0 /\ quiet' = FALSE
  /\ UNCHANGED <<listed, now, folder, remover, due, late, removed>>

-----------------------------------------------------------------------------
(* The dialog of LogRemover                                                 *)

(* On a machine that has just been started the first hour has to pass.      *)
Start ==
  /\ m_Thread = "none"
  /\ m_Thread' = "runs"
  /\ nTerm' \in Terms /\ terms' = terms \cup {nTerm'}
  /\ due' \in BOOLEAN
  /\ UNCHANGED <<listed, now, folder, log, rpc, tDel, nDay, seen,
                 silence, quiet, late, latest>>

Stop ==
  /\ m_Thread = "runs"
  /\ m_Thread' = "join"
  /\ UNCHANGED <<listed, now, folder, log, rpc, nTerm, tDel, nDay,
                 seen, due, silence, quiet, late, removed>>

(* The thread looks at g_bThread between two passes only.                   *)
Joined ==
  /\ m_Thread = "join" /\ rpc = "sleep"
  /\ m_Thread' = "none" /\ nTerm' = 0
  /\ UNCHANGED <<listed, now, folder, log, rpc, tDel, nDay,
                 seen, due, silence, quiet, late, removed>>

-----------------------------------------------------------------------------
(* func_thread                                                              *)

(* An hour is over.                                                         *)
PassBegin ==
  /\ rpc = "sleep" /\ m_Thread = "runs" /\ due
  /\ rpc' = "walk" /\ tDel' = DelDay(nTerm) /\ seen' = {}
  /\ UNCHANGED <<listed, now, folder, log, m_Thread, nTerm, nDay,
                 due, silence, quiet, late, removed>>

(* DeleteLogfiles: the folders of days it has found and has to delete.      *)
(* Before the first day there is no log.                                    *)
ToDelete ==
  {d \in days \ seen : listed /\ tDel >= 0
                       /\ LogTime(d) <= LogTime(tDel)}

(* DeleteDirectory: a file that is open stays.                              *)
DeleteFiles ==
  /\ rpc = "walk"
  /\ \E d \in ToDelete :
       /\ rpc' = "in" /\ nDay' = d /\ seen' = seen \cup {d}
       /\ files' = {f \in files : f[1] # d \/ f = file}
  /\ late' = late \cap files'
  /\ UNCHANGED <<listed, now, days, months, log, m_Thread, nTerm, tDel, due,
                 silence, quiet, removed>>

(* The folder of the day, if it is empty.                                   *)
RemoveDay ==
  /\ rpc = "in"
  /\ rpc' = "out"
  /\ days' = IF \E f \in files : f[1] = nDay THEN days ELSE days \ {nDay}
  /\ UNCHANGED <<listed, now, files, months, log, m_Thread, nTerm, tDel, nDay,
                 seen, due, silence, quiet, late, removed>>

(* The day's folder has been looked for as the one match within the month's,*)
(* which is removed as well, if it is empty.                                *)
RemoveMonth ==
  /\ rpc = "out"
  /\ rpc' = "walk" /\ nDay' = -1
  /\ months' = IF \E d \in days : Month(d) = Month(nDay)
               THEN months ELSE months \ {Month(nDay)}
  /\ UNCHANGED <<listed, now, files, days, log, m_Thread, nTerm, tDel,
                 seen, due, silence, quiet, late, removed>>

PassEnd ==
  /\ rpc = "walk" /\ ToDelete = {}
  /\ rpc' = "sleep" /\ due' = FALSE /\ tDel' = 0 /\ seen' = {}
  /\ UNCHANGED <<listed, now, folder, log, m_Thread, nTerm, nDay, silence, quiet,
                 late, removed>>

-----------------------------------------------------------------------------
FuncThread == PassBegin \/ DeleteFiles \/ RemoveDay \/ RemoveMonth \/ PassEnd

Logging == WriteLog \/ MakePath \/ MakeDay \/ FOpen \/ Restarted

LogNext == Tick \/ Logging \/ Start \/ Stop \/ Joined \/ FuncThread

LogSpec == LogInit /\ [][LogNext]_logVars

(* Hours pass and threads are scheduled; nobody has to log, end or click.   *)
LogFairSpec ==
  LogSpec /\ WF_logVars(Tick) /\ WF_logVars(MakeDay) /\ WF_logVars(FOpen)
          /\ WF_logVars(Joined) /\ WF_logVars(FuncThread)

-----------------------------------------------------------------------------
(* Types; files are in folders that exist, also the one that is open.       *)
LogTypeOK ==
  /\ listed \in BOOLEAN
  /\ now \in 0 .. MaxHours /\ silence \in 0 .. HoursPerDay
  /\ {days, seen} \subseteq SUBSET (0 .. Day(MaxHours))
  /\ files \subseteq days \X (0 .. HoursPerDay - 1)
  /\ {Month(d) : d \in days} \subseteq months /\ months \subseteq 0 .. Month(Day(MaxHours))
  /\ file \in files \cup {NoFile}
  /\ lpc \in {"idle", "mkdir", "fopen"} /\ (lpc = "idle" <=> path = NoFile)
  /\ m_Thread \in {"none", "runs", "join"} /\ rpc \in {"sleep", "walk", "in", "out"}
  /\ nTerm \in Terms \cup {0} /\ tDel \in Int /\ due \in BOOLEAN
  /\ nDay \in (IF rpc \in {"in", "out"} THEN 0 .. Day(MaxHours) ELSE {-1})
  /\ quiet \in BOOLEAN /\ late \subseteq files
  /\ latest \in -1 .. Day(now) /\ terms \subseteq Terms

(* No line is deleted before it is nTerm days old, except in a file that    *)
(* was open while its process was silent for a day, so that the hour was    *)
(* that of the file again.  And no line is lost because the folder of its   *)
(* day or month goes just when its file is to be opened, but for a process  *)
(* that has had no folder within the term, one LogRemover has run with: that*)
(* is one silent for so long, or any when the term is a day or none.        *)
LinesKept ==
  [][/\ \A f \in files \ files' :
          f[1] + nTerm <= Day(now) /\ f \notin late
     /\ lpc = "fopen" /\ path[1] \notin days =>
          \E t \in terms : latest + t <= Day(now)]_logVars

(* While LogRemover runs, the folder of every day past the term goes, of    *)
(* every process PM starts, once no file in it is open.                     *)
OldLogsGo ==
  \A d \in 0 .. Day(MaxHours) :
    d \in days /\ d + nTerm <= Day(now) ~>
      d \notin days \/ (file # NoFile /\ file[1] = d) \/ m_Thread # "runs"
=============================================================================
