# SISender in TLA+

SISender is a suite of Windows processes (C++/MFC) that relays the events of a
fire alarm receiver to building systems, to a push service and to the clients of
a server of its own. This directory holds models of what its processes and
threads do together, the TLC runs that check them and proofs about them. File
names without a directory are modules of this directory; paths such as
`SISender/EventSend.cpp` are relative to `src/`.

## The system

| part | code | state | operations |
|---|---|---|---|
| Broker | `Broker/SerialComm.cpp`, `BrokerDlg.cpp` | serial port, line buffer, ring of lines | start, stop, cut bytes into lines, write a line to the event ring, restart after an error; a test button writes too |
| event ring | `Include/SM.cpp`, `SM.h` | shared memory: `SMIndex`, `event[]`, and for the process manager `aliveCount[]`, `processRun[]` | write an event, read the index, read a slot |
| readers | `ThreadSMCheck` in `SISender/SISenderDlg.cpp` and `GFSServer/GFSServerDlg.cpp` | `m_nSMIndex`, a private ring of copies on the thread's stack | poll the index, copy what is new, queue pointers to the copies |
| event sending | `SISender/EventSend.cpp` | `m_sendQueue`, three class queues with time stamps, `m_dwToken` | classify, collect, hand over, ask for recipients, push an alarm, tell KOCOM or COMMAX |
| connection layer | `SISender/Client*.cpp`, `CommaxFunc.cpp` | connection state, one send buffer, list of clients | connect, send, receive, close, reconnect; KOCOM: bind and keep-alive, COMMAX: a connection for each event |
| dialog | `SISender/SISenderDlg.cpp` | `m_bStarted`, `m_bSMCheck`, the `CEventSend` singleton | start, stop, timers, watchdog |
| GFS server | `GFSServer/Server.cpp`, `Server_Process.cpp`, `Client.cpp` | `m_NumPostAccept`, `m_Clients`, a pool of `Client` objects | accept, receive, send, log in, keep-alive, remove |
| GFS client | `GFSClient/` | as the connection layer, plus `m_dwLastRecv` | log in, ask for a keep-alive, show events, end itself when unanswered |
| process manager | `PM/PMDlg.cpp`, `ProcWrapper.cpp` | process ids, alive counts seen last | start, check, ask to close, restart and quit the others |
| log remover | `LogRemover/LogRemoverDlg.cpp` | folders, term | delete old log folders once an hour |
| utilities | `Include/` | the open log file; the table of circuits | strings, INI files, logging, circuit locations, crash dumps |

Data flows one way: receiver → Broker → event ring → one reader in each of up to
three SISenders and the GFS server → that process' sending thread → network.
Within a process the reader calls `CEventSend::SendEvent`, which queues a
pointer under `m_sync`; answers of a partner come on thread-pool threads and call
back into `CEventSend` and `CCommonState`. The process manager and the others
share the alive counts and the `processRun` flags; LogRemover and the others
share the folders of their logs.

What makes each part correct:

* ring and readers: a reader that keeps up gets every event once and in order;
* event sending: no event is lost, sent twice or sent out of its order, nothing
  waits for ever, a stop ends;
* start and stop: one reader and one sending thread, and they use what exists;
* connections, on both sides: who is connected listens; nobody is closed, logged
  in or given up for what happened to another; who is not connected comes back;
* Broker: events are the lines of the receiver, buffers hold them, an error does
  not leave it deaf;
* process manager: who lives is left alone, who died comes back, a quit reaches
  everybody;
* log remover: old folders go, younger lines stay.

What is hard:

* **Between processes** the ring has no lock. The index and a slot are two
  separate writes, the reader reads the index twice per batch, both sides wrap,
  and an old slot looks like a new one. Alive counts are compared by a process
  that may be late itself.
* **Between threads** flags (`g_bThread`, `m_bSMCheck`, `m_dwToken`) are plain
  variables, `Stop` joins one thread and gives the other ten milliseconds, the
  queues hold pointers into a thread's stack, and completions work on pooled
  objects through plain pointers that may belong to another connection by then.
* **Between machines** both ends judge the other by silence, each with a timer of
  its own, and TCP joins messages.
* **Time** is `GetTickCount`, which wraps and passes through 0, a value the code
  uses for "none".

Each of these is listed, at its line and with the properties that would catch
it, under `hazards` in `PROJECT.json`.

## Modules

| module | what it is | proofs |
|---|---|---|
| `EventFeed` | abstract specification: what the ring promises its subscribers | |
| `EventRing` | the ring, its writers, the readers and the pointers they queue; implements `EventFeed` | `EventRing_proofs` |
| `FireAlarm` | what is told of an event to KOCOM, COMMAX and GFS clients, and the table of circuits: operators without state | `EventSend_proofs` |
| `EventSend` | the sending thread of a SISender; extends `FireAlarm` | `EventSend_proofs` |
| `SenderLifecycle` | start and stop of a SISender and the threads around it | `SenderLifecycle_proofs` |
| `ClientConn` | the connection of a SISender to KOCOM or of a GFSClient to its server: one side, thread by thread | `ConnAndLogs_proofs` |
| `GFSServer` | the server on pooled objects: the other side, callback by callback | `GFSServer_proofs` |
| `GFSSession` | client and server together, with clocks: logins, keep-alives, events | `GFSSession_proofs` |
| `ProcessManager` | PM and the processes it runs | `ProcessManager_proofs` |
| `Broker` | the serial port's thread and the dialog that starts and stops it | `Broker_proofs` |
| `LogRemover` | a process' log and the thread that deletes old ones | `ConnAndLogs_proofs` |
| `MC...` | the instances TLC checks | |

A definition keeps the name of the function it models where there is one; `map`
in `PROJECT.json` gives the lines of each. Some definitions are preceded by a
variant marked "Mutant": a plausible bug in the same lines, used to see that the
properties notice it (`mutants` in `PROJECT.json`). No specification uses it.
Variables below the line "history" are written by actions and read only by
properties.

How the modules fit together: Broker's `EndLine` is the call whose inside is a
writer of `EventRing`; what a reader queues in `EventRing` is what `SendEvent`
brings into `EventSend`; `EventSend`'s hand-over is the `Send` of `ClientConn`.
`SenderLifecycle` starts and stops the threads of the two in the middle.
`ClientConn` and `GFSServer` split the handlers of one side into what other
threads can see; `GFSSession` takes each handler in one step and adds the other
side and time.

### EventRing and EventFeed

An event is the number of its raising. `WriteEventToSharedMemory` is four kinds
of step: the test for the wrap (`WriteEvent`), the reset to 0 (`ResetIndex`) or
the load and the store of `SMIndex++` (`LoadIndex`, `StoreIndex`), and the
`memcpy` (`CopyEvent`), so that two writers and any number of readers interleave
at each access. `ThreadSMCheck` is `ReaderStart` (first index),
`CheckSMIndexChanged` or `Spin`, `CountEvents` (the second look at `SMIndex`),
`ReadNext` and `SendEvent` (one turn of the `for`), and `EndBatch`. `TakeEvent`
is the sending thread's `front`/`pop`. The buffer has `EventMax + 1` slots,
because the code uses that many, one more than `SM.h:10` declares.

`EventFeed` numbers the events; a subscriber is handed every one since it
subscribed, singly and in order, until it falls more than `EventMax` behind.
The mapping reads a subscriber's cursor off the history variables `head` and
`lag`; `StaleOnlyDuringCopy` ties these to what was copied.

### FireAlarm and EventSend

`FireAlarm` holds the table (`Rows`, from the CSV file and after it the text files; the
last line about a circuit counts) and for each partner whether an event is for it
(`KocomTells`, `CommaxTells`, `GfsTells`) and what it is told (`KocomAlarm`,
`CommaxMessage`, `GfsEvent`). A text is what the code's `atoi` makes of it, which is 0
where it finds no digits. Of a circuit the table does not have KOCOM is told apartment
101-101-1 and a text nobody has set, COMMAX an event without a place, the GFS clients
nothing. `FloorNumber` shows that floors such as `M2`, `PH2` and `2` are told alike and
those of `RF` and `PIT` as 0.

`EventSend` is `CEventSend` as the sending thread sees it. `pc` is where
`SendThreadLoop` is, `step` how far `ProcessEventQueue` is, which both `CheckAndSend`
and `SendAll` call for one queue after the other (`qi`). `AskForToken`, `ClearToken` and
`AwaitToken` are the three moments of lines 409-426, between which `Answer`
(`ProcessResponseGetUserTokenList` on a network thread) can come. `m_nSIType` is chosen
at the start: with the test server events go in batches with an alarm; KOCOM and COMMAX
are told of each (`Tell`, with whether it was reached in `told`). An alarm counts the
events it stands for, and the history field `upTo` says how many had been reported by
then. COMMAX gets a connection of its own for each event, which may fail (the event is
gone, as in the code, and the socket leaks); the text for an unlisted circuit may be too
long for `strcpy_s`, which ends the process (`TextTooLong`). Time passes where the
thread sleeps, waits or talks to a server. The 100 KB splitting of a request is
abstracted; `m_fireQueue` and `m_fixQueue` hold only the event in hand and are the
variable `urgent`.

### SenderLifecycle

`Start` is `StartNew` (`TSingleton::New`), `StartInit` and `StartSpawn` (the test
and the set of `g_bThread`), `StartReader`. `Stop` is `StopFlag`, after the ten
milliseconds `StopDelete` (`g_bThread = false`), `StopJoin`, `StopFree` and
`StopZero` (the two statements of `TSingleton::Delete`). Readers, sending threads
and the network thread's `InitEvent` are steps around these. Objects are never
reused by number, so a pointer to a deleted one is seen as such. A use of freed
memory, of a null singleton, of the stack of an ended reader, or the deletion of
an unjoined `std::thread` ends the program (`fault`).

### ClientConn

One process, one client at a time. Who sends goes through `Enter`, `Look`
(`GetNumClients`), `PostSend` or `TryConnection`, and `Leave`, holding
`mConnectionCheck`; a completion is an item of `work`, with the connection it is of and
how far it has come: `Callback`, `OnConnect`, `FirstReceive`, `Bind`, `OnRecv`,
`OnClose`, `RemoveClient`. A completion and the submitted callback it leads to are one
item. The object pool gives a new client the memory of the last (one address), so that
an item left of an earlier connection finds the new one, as in the code. `m_nConn`
numbers connections and is used by sockets and history only. `CONNECTED` is set after
the first `WSARecv` is out and may bring a destroyed client back (`FirstReceive`); so
may one left of an earlier connection call a client connected whose own `PostConnect`
failed. `OnConnect` posts the first receive, unless `setsockopt` fails (`NoReceive`):
then it only logs that, and the client stays in the list with nothing out for it
(`unheard`) until the watchdog ends the process. `Destroy` is one step, though it clears
`m_Socket` before `m_pTPIO`: a call of another thread that finds no socket has both
outcomes, a fault on the `NULL` and a call that merely fails. The timer of the dialog is
`TimerFires` and `CheckLate`: `since` counts timers since `m_dwLastRecv`, with
`MayBeLate` where the limit and two periods are too close to tell. A process that is on
its way out takes no more steps but `TryShutdown`. `Aborted`, `Accepted`, `Received`,
`Sent` and what is below them are the network and the other side.

Left out: a `ConnectEx` that returns TRUE at once, the failure of
`Network::Initialize`, two threads inside `Destroy` at once (both would close the one
`m_pTPIO`), the test server's protocol, COMMAX (no connection of this
kind), and the code of the client for the first three seconds after boot.

### GFSServer

`PostAccept`, `PostOne`, `PostFails` and `PostDone` are the accept worker's loop;
`OnAccept`, `AcceptError`, `OnRecv`, `PostRecv`, `RecvClosed` and `OnSend` run as
completions; `AddClient`, `RemoveClient` and `Answer` run as submitted callbacks,
held in `tasks`; `SendAll` comes from the event sending thread and
`CheckKeepAliveGFSClients` from the dialog's timer. What runs under
`m_CSForClients` is one step. `Destroy` is `Client::Destroy`: it closes the
socket, drains or cancels the callbacks outstanding and gives the object back to
the pool, from where `PostOne` may take it for the next connection. `gen`, the
number of that connection, is history: it lets the properties say when work left
by one connection was done on another (`mixed`). What is wrong and no property
asks for: `Server.cpp:244` speaks of a limit on clients, and the code limits
posted accepts only; a keep-alive is answered without a login.

### GFSSession

`down` and `up` are the messages on their way, each with its age. A message
takes at most `Delay`, a timer comes at most `Slack` after it is due (`Older`,
`InTime`), and a connection keeps the order. `Refused`, `ConnectionCut` (both sides
notice) and `ConnectionDies` (neither does) are the network's. `OnRecv(n)` is a
receive that joins `n` messages: the client looks at the first of them only,
except for the error response (`LooksAt`), because it reads the size of a message
from the upper half of its command and always finds 0. For the same reason a
refused login ends the client with a fault. `OnTimer` is timer 99: late by two
periods, ask, or neither; since an answer comes a little after the timer that
asked, only every second timer asks. `ServerRecv` merges `OnRecv` and the worker
that answers; `CheckKeepAliveGFSClients` closes a connection after two periods of
silence. The pool object a drop leaves behind, and the second `Destroy` of it,
are `GFSServer`'s. Nobody starts a GFSClient again that has ended: PM does not know
of it.

### ProcessManager

PM's timer is a loop over the indices in use: `OnTimer`, `CheckAlive`,
`CheckDead` (which ends in `SoftKillProcess`: `WM_CLOSE`, and `SendMessage` waits for
a window that hangs, `Waits`; a process that is starting may have no window yet, and
nothing is sent), `Restart`, `UpdateRun` (half a second later) and `CheckDone`.
`StartPM` ends by name what still runs, `ExcuteNext` and `ExcuteDone` are the launch,
`QuitPM` and `CrashPM` PM's two ends. When a launch fails, PM shows two message boxes
(`PMDlg.cpp:593` and 174) and has not set its timer: with `pm = "quit"` it supervises
nobody until a user has closed them and `QuitPM` comes, which may be never.
A process starts up (`StartUp`), counts (`AliveTimers`), looks at its flag
(`QuitTimer`), quits (`Quit`, where Broker kills the first process of its name), may
`Crash`, `Hang` and `Recover`. Ticks are 500 ms and all alive timers of a tick fire
with it; a counter above a small value is one of two; process ids are reused
lowest first; a start or a quit that takes longer than a tick is a hang. About
700 lines of `ProcWrapper.cpp` are functions nobody calls.

### Broker

Bytes are numbered as the receiver sends them, and an event is the sequence of the
numbers of its line. `ReadComm` reads one byte and `StoreByte` or `EndLine` stores it:
an overlong line drops what it has and goes on as its own end, a line cut by a start
comes without its beginning, both as in the code. `WatchBegin`, `WatchTest`, `WatchWait`
and `WaitFails` are the thread's waits, `deaf` is one that ended without a message.
`Start`, `Stop` (with `StopJoin` and `ClosePort`), `Timer2`, `Timer3`, `Timer10` and
`PortError` are the dialog's. Memory written past its end is a fault: the end of a line
at `BUFF_SIZE` overwrites what lies behind the buffer (`smashed`), a line too long for
what is left of the ring runs over its end (`overrun`); a `Stop` after a failed start
waits on a handle nobody set (`hung`). `NotOpened` is every way a start fails: the port
is not there or is held by somebody; `CreateFile` or `CreateThread` fails for once
(counted with the losses of the device, `MaxBreaks`); or `SetCommState` fails and the
handle is never closed, after which every start fails (`leaked`). `recent` stands for
the 7.5 s in which an error counts as the same. Timer 10 is never killed, so that Broker
starts again even after a user's stop. Overflow of the driver's queue is not modelled,
nor that `WriteEventToSharedMemory` copies a fixed number of bytes whatever the length
of the line.

### LogRemover

One process and its log are followed, any of those PM starts; folders of different
processes do not touch. Its specification is `LogSpec`: the names of the module differ
from those of `ClientConn`, with which it shares a proof module. `WriteLog`, `MakePath`,
`MakeDay` and `FOpen` are the moments of `Log`: is the hour another one; look for the
folder of the day and, if it is not there, make that of its month; make that of the day,
if the month is still there; open the file, if the day is. `PassBegin`, `DeleteFiles`,
`RemoveDay`, `RemoveMonth` and `PassEnd` are a pass of `FuncThread`; `Stop` waits for a
whole one. So a month whose last day has gone may go between `MakePath` and `MakeDay`,
with any term, and the line is lost: `LinesKept` allows that only for a process that has
had no folder for as long as a term LogRemover has run with (`latest`, `terms`). A file
that is open is not deleted, and a `RemoveDirectory` that succeeds removes at once.
`Needed`, `InitProcessInfo` and `GetLogFolderList` are how PM, and how LogRemover, read
`Setup.ini` (an INI file is the set of its sections and the type of each): they agree on
who logs. Year folders are never removed; at the level of years and months
`DeleteDirectory` is given a bare name, which is relative to the working directory and
finds nothing. An SI_TEST sender without `LOGIN=1` is started by PM, quits in
`ReadIniFile` and is started again for ever.

## Runs

| run | question | bounds |
|---|---|---|
| `ring` | Does a reader the writer has not lapped get every event once and in order, over the wraps of both indexes, and is a pending event handed over eventually? Are queued pointers intact, is a stale copy confined to the one window? | ring of 3 slots, 7 events (two wraps of index and private ring), one writer, one reader |
| `sending` | With each partner: is every event reported as often as its kind asks for, nothing after a fire raised before it, every alarm matched with its share of the reports, KOCOM and COMMAX told once of what is for them? Are queues bounded, answers seen, classes reported in the end, and does a stop end the thread? | 3 events of 3 reports for each server, queues of 2, quiet time 1 tick, clock of 4 ticks |
| `lifecycle` | After any number of starts and stops, do exactly one reader and one sending thread work for the current object? Which races can end the program or hang Stop? | 2 starts, 2 lists of recipients, 4 threads |
| `client` | Does a connected client listen, is a connection the network keeps left alone, does the watchdog end the program only for a late answer, does a lost connection come back, or the program end? | KOCOM with 2 connections, GFS with 1; one fault (a `setsockopt` that fails among them), one alarm, one send outstanding, two answers on their way |
| `server` | Is the count of accepts kept, does no client go deaf, is no connection logged in or closed for another except by a named reuse, does every client whose peer is gone leave the list? | 2 pooled objects, 2 connections, one accept posted at a time, one login and one refused request |
| `session` | Is every event shown or its loss explained, do client and server give each other up only for cause, does a session that ended come back or the client end? | period of 5 ticks, messages of up to 1, timers late by up to 2, 2 events, one fault |
| `manager` | Whom does PM take for dead and why, who quits and why, does what died come back, does a quit reach everybody? | Broker and the second SISender, 3 processes at a time, a check every 3 ticks, 2 faults |
| `broker` | Is every event one line, do short lines stay in their buffers, does an error stop only the port it is of, does Broker receive again? | 4 bytes, line buffer of 2, ring of 7 with a margin of 2, 2 losses of the device or calls that fail once, one error posted |
| `logs` | Does a line stay for its term, does a folder past it go? | 6 hours: 4 days of 2 hours, months of 3 days, terms of 0 and 2 days, every `Setup.ini` with one SISender |
| `ring_stale` | (violation) Is the indexed event there when a reader copies it? | ring of 3 slots, 3 events, one reader |
| `ring_writers` | (violation) Does the index stay within the maximum with two writers? | ring of 3 slots, 5 events |
| `manager_twins` | (violation) Is there never more than one process of an index? | as `manager` |

Why the bounds are enough. The ring run wraps the shared index twice at every
alignment with the private one. A queue of two is handed over both by time and
by length, and the clock meets 0 and its wrap during every wait. Two starts are
needed for a reader or a thread of the first to meet the second; two connections
of two objects for an object to be reused while work for it waits (the server's
safety properties were also checked with three), and two of KOCOM's for an item of
the first to find the second. In `session` the bounds on delays are assumptions
about the network, and `Slack + 2 * Delay < Period` is what the code's two periods
count on: a request is answered before the timer after it. Two faults of PM's
processes are a hang and the crash of the successor, or a crash of both; Broker's
end kills by name, and the second SISender is found only by the name of the first.
In `broker` a line of one byte fits everywhere, of two not everywhere in the ring,
of three not in the line buffer, and bytes without an end are dropped. Four days
in two months put a folder of the same month and one of the last past the term, and
let the last folder of a month go just when the next file is to be opened in it.
The proofs below do not depend on any of these bounds.

`MaxAlarms` of `client` bounds the alarms of SISender and the events of the
server, `MaxSends` the sends outstanding of alarms and keep-alives; a bind is not
bounded. `MaxPids` can keep PM from launching: then the launch fails without being
counted as a fault. In `logs` hours after the last count as that one.

Where a property has an exception, the exception is a variable of its own and records a
behaviour of the code: `late` in `SenderLifecycle` (a reader outlived the ten
milliseconds), `raced` (a list of recipients came amid a start or a stop), `late` in
`GFSServer` (the keep-alive check has destroyed a client that stays in the list),
`mixed` there and in `ClientConn` (reuse of an object), `alive` and `before` in
`ClientConn` (what became of the keep-alives of the last two timers), `unheard` there
(`OnConnect` posted no receive; it and `mixed` there are about the present connection
and start anew with the next), `atZero` in `EventSend` (a stamp of 0), `replaced` and
`steady` in `ProcessManager` (PM took it for dead while it lived; PM has saved a count
that was its own, and it has neither hung nor shared its index since), `quiet` in
`LogRemover` (the file was kept open over a silent day), `latest` and `terms` there (the
last day the process has had a folder of, the terms of the passes), `unsent`, `behind`,
`gone`, `unheard` and `dropped` in `GFSSession` (why an event or an answer was missed).
What the runs show is that nothing else leads to the same failure.

### Fairness

* `EventRing`: `WF` of each reader's loop. It polls and never blocks.
* `EventSend`: `WF` of the sending thread. It waits for nobody: its waits are
  bounded by three seconds and by `g_bThread`. Nothing is assumed of answers.
* `SenderLifecycle`: `WF` of the rest of a stop once it has begun, of each reader
  and of each sending thread. Nobody has to press a button, and no answer has to
  arrive.
* `ClientConn`: one `WF` of the process' own steps together (sending, the dialog and its
  timer, the pool's threads) and of operations that end when their socket is
  closed. The server need not answer.
* `GFSServer`: `WF` of completing a receive on a closed connection, of the
  `PostRecv` that ends `OnRecv`, and of the removals submitted for one client.
  Clients need not send, accepts need not complete and the timer need not
  fire.
* `GFSSession`: `WF` of the client, of the server and of time, which does not run past
  a message or a timer that is due.
* `ProcessManager`: `WF` of PM while it does not wait for a window, of each process'
  own steps and of time. A process that hangs need not recover, one that is starting
  may keep PM waiting, nobody need start PM or close its message boxes: `DeadComesBack`
  excepts a PM that waits for a process that hangs for good and one that stays in the
  boxes.
* `Broker`: `WF` of the thread, of the end of a stop, of messages and of timers; `SF` of
  `Elapse`, the 7.5 s that pass whatever else happens in between.
* `LogRemover`: `WF` of time, of making the day's folder and opening the file once
  that has begun, of the thread and of the end of a stop.

### Findings

Three runs show a disagreement between the code and what it says of itself;
`findings` in `PROJECT.json` quotes the lines. In short: `SMIndex` is advanced
before the slot is filled; two writers can push it past the maximum for good; a
process that is only slow is not killed when PM replaces it, so that two run with
one index.

## Proofs

TLC checks the instances above; TLAPS proves the following for every value of
the constants. The runs check the same formulas on small instances, with the
exception of the types (`TypeOK`, `LogTypeOK`) of `SenderLifecycle`, `ProcessManager`,
`Broker`, `LogRemover` and `GFSSession`, which are proved and not run. Every safety
property of a run, invariant or action property, is the statement of a theorem.

Three properties that hold on the runs' instances turned out to be false on larger
ones when their proofs were tried, and are stated correctly now: a process could be
taken for one PM had seen counting when the count PM had saved was a dead twin's
(`steady` of `ProcessManager`; it takes three faults); the number `ResetNo` may be that of
a listed circuit, and what is told of an event there does not depend on its row
(`EveryEventAccounted` of `EventSend`); and a client whose `PostConnect` failed has a
socket, may be called connected by what an earlier connection left, and has nothing
out (`ListedIsServed` of `ClientConn`; two faults).

`EventRing_proofs`, for any size of the ring, number of readers and number of
events, with one writer (`SingleWriter`; with two, `ring_writers` shows the types
already fail):

* `TypeCorrect`. `TypeOK` is not inductive: that `SMIndex + 1` is still a slot
  needs where the writer is (`WriterControl`: it is at `load` or `store` only
  below `EventMax`), and that `nSMIndex + 1` is one needs that a batch ends at or
  before the last slot (`ReaderControl`). `Control` is their conjunction.
* `IndexesInStep`: from `Follow`, which adds the distance between the two indexes
  and the length of the batch in terms of `lag`. An advance of the writer and the
  restart at -1 are the two steps that move the difference by a turn.
* `StaleReads`: from `Filled`, which says what every slot holds in terms of `head`
  and `SMIndex`, the slot in hand excepted.
* `PointersIntact`: from `Pointers`, which places the queued pointers one behind
  the other in the private ring.
* `RingImplementsFeed`: every step of `EventRing` is a step of `EventFeed` or
  stutters, under the mapping in `EventRing`.

`EventSend_proofs`, for any of the three servers, any events, any delay and modulus of
the clock and any length of the queues: `TypeCorrect`, `OrderKept`,
`EveryEventIsAccounted`, `AnswersAreSeen`, and the parts `NoneIsLost`, `AlarmsCover`,
`ToldOnce` and `QueuesStayShort`. Two invariants carry them.

* `IInv` says what is in each queue: the send queue holds the last
  events raised, in order (`Waiting`); a class queue holds taken events of its class in
  order (`PendingFits`), and one that was urgent, there for unit 63, is the oldest
  pending (`UrgentIsOldest`); what is reported is older than what is pending in its
  class, or anywhere if it was urgent (`SentIsOlder`), because all queues are empty when
  an urgent event is reported (`Control`). How often an event is reported or pending is
  counted (`Kept`): handing over moves counts from a queue to the reports. A queue that
  was looked at is not full (`Sizes`), and while the thread waits the time since it
  asked has not wrapped (`Clock`).
* `RInv` says what becomes of the reports: every report has one entry in `told`, in
  order, which says whether KOCOM or COMMAX was told and is empty for an event that is
  not for them (`ToldFits`); with the test server the alarms cut the reports into
  pieces without a gap, the last one being that of the alarm `ProcessEventQueue` still
  has to push, if it is at work (`AlarmsFit`). `Raised` and `Rest` are the types.

Also there, of the operators of `FireAlarm` and for any table: `ApartmentFireToldAlike`
(a fire in a listed apartment block is told to all three with the same place and
meaning), `UnlistedFireToldUnlike`, `ClearFollowsFire` (whoever was told of a fire is
told of its end, at the same place), `ResetTold`, `LastLineCounts`.

`SenderLifecycle_proofs`, for any number of starts, threads and lists:
`TypeCorrect`, `FaultsAreExplained`, `StartedRuns`, `CopiesExist`. `IInv` is `TypeOK`,
`InstanceFits` (what `m_Instance` is at each point of a start or stop),
`FaultsExplained`, without a race `JoinFits` (whom a stop waits for), and in a run
without any race or late reader `CleanRun`, which says for each point of the
dialog which threads exist and what they work on.

`GFSServer_proofs`, for any finite pool, any maximum and any number of
connections: `AcceptsBounded`, from `Accounts`. That at most `m_MaxPostAccept` accepts
are outstanding is not inductive, because `m_NumPostAccept` lags behind while
`PostAccept` posts; that the count, what is posted and what is still to be posted
together stay within the maximum is. `TypeCorrect`: `m_NumPostAccept` is at
least `-m_MaxPostAccept` because of the same account. `ListedAreServed`,
`LoginsAreOwn` and `ClosesForCause` rest on `Lists`: while nothing has gone wrong an
object is in one place, the accepts, one submitted callback that will list it, the
list or the pool (`Placed`); what is listed has a connection of its own that listens
or is to be removed (`Served`); a submitted removal carries the connection the object
serves now only if that peer is gone or of no use (`Removals`); and a login is of the
connection that sent it (`Owned`). The history variables `late` and `mixed` of the model
say what has gone wrong, so each part is an implication with one of them as its escape.

`GFSSession_proofs`, for every period, delay and lateness with
`Slack + 2 * Delay < Period` (`TimesAssumption`): `TypeCorrect`, `EventsAreAccounted`,
`ClientEndsForCause`, `ServerDropsForCause`. Without a fault no request and no
answer is outstanding when timer 99 comes, since a turn (`Slack + 2 * Delay`) fits into
a period (`InTurn`, `Quiet`). An answer is at least as old as the time since the timer
that asked for it, less a turn (`AgeFits`); the server has heard the client since the
last timer, or since the one before and then the last answer is old enough for the next
timer to ask (`HeardLately`). So a timer finds the client late only when no answer came
or none was heard, and the server finds two periods of silence only when that next
timer is due or what it sent is on its way.

`ProcessManager_proofs`, for any set of processes used, any number of them and any
period above the flags' two ticks: `TypeCorrect`, `TwinsReplaced`, `JudgesForCause`,
`QuitsForCause`. `IInv`
adds that of the processes of an index all but one have been replaced
(`OneNotReplaced`), that a launch finds none (`LaunchIsFirst`), and that the flag is
false only within the half second after a restart (`SleepIsAlone`, `UpdateIsSoon`,
`FlagsAreSet`), and that whoever is not replaced then has not looked yet. `JudgesForCause`
(whom PM takes for dead has hung or shared its index since PM saved a count of it, or
has not been looked at yet and has counted to just its predecessor's number) needs
`SInv` besides: a process that has done neither is alone at its index, whose shared
count is its own (`SteadyIsAlone`), and has gone on from the count PM saved unless PM
has saved it just now (`SeenCountsOn`).

`Broker_proofs`, for any sizes of the buffers, any bytes, losses and errors:
`TypeCorrect`, `LinesArriveWhole`, `ShortLinesStay`, `StopsForCause`. `IInv` relates where
dialog and thread are (`Control`, `Flags`, `Port`), says that every byte sent is in
one event, in the line, in the queue or lost, in order (`Bytes`, `LinesInv`), that a
closed port has no bytes (`ClosedIsEmpty`), that no error waits for the dialog while
the port is open (`ErrorsAreOfThisPort`), and that a line starts where the margin fits
(`RingFits`).

`ConnAndLogs_proofs` holds two components that have nothing to do with each other.

* Of `ClientConn`, for either kind of client and any number of connections, failures,
  alarms, sends and answers: `ConnTypeCorrect`, `ListedClientIsServed`, `KeepsUntilLost`,
  `QuitsOnlyUnanswered`. That a listed client with a socket has an operation out is not
  inductive as it stands: one has to know what each operation can become (`ItemsFit`:
  a `ConnectEx` of this connection is out only while it is connecting, nothing of it is
  when `PostConnect` failed). `KeptFits` says that while the network keeps a connection
  nothing on its way destroys it and a sender about to post finds it `CONNECTED`, and
  that until it is accepted its `ConnectEx` is all there is. `WatchFits` ties the
  keep-alives of the last two timers to `since`: one that was answered has set it back
  within the last timer. `NoFaultFits` is the course of a process nothing fails in: one
  connection, open and connected from the first keep-alive sent on, and no keep-alive
  dropped after that. `ConnInv` is their conjunction with the types and `ListedIsServed`.
* Of `LogRemover`, for any calendar, terms and length of time: `LogTypeCorrect` and
  `KeepsLines`. `IInv` says that no file has a line of a later day than its folder's
  (`late`), because a file open or about to be opened is of the last hours unless the
  process was silent for a day (`FileIsRecent`, `PathIsRecent`), and that what a pass is
  about to delete was old when the pass began, by a term it has run with (`PassIsOld`).
  That the folders of a path about to be opened can only go with such a term needs
  besides that the day and the month of the path exist or have been removed since
  (`FolderKept`, `TermIsOver`).

Assumptions are those on the constants, each a named `ASSUME` of the module that
declares them, and `SingleWriter` where stated; TLC evaluates the former in the runs.

Model-checked only is every liveness property: `FeedSpec` beyond its safety part,
`ClassReported`, `StopReturns`, `GoneIsRemoved`, `ComesBack`, `SessionRenewed`,
`DeadComesBack`, `QuitReachesAll`, `ReceivesAgain`, `OldLogsGo`. Liveness under fairness,
`ENABLED` and induction over data are beyond the prover used here. No module declares a
`RECURSIVE` operator.

## Not modelled, and why

The mapped lines are about a fifth of the sources. Most of the rest is no behaviour
of the system: whole files are copies (the four `Network.cpp`, the `Client*.cpp` of
GFSClient beside those of SISender, two crash dump modules), are not in a build or
are not fed (`EventSend` of Broker, GFSServer and GFSClient, most of it commented
out), are switched off (`Server_Process.cpp:152-1390`, the old COMMAX code of
`SISenderDlg.cpp`) or have no caller (most of `CommonFunc.cpp` and
`ProcWrapper.cpp`), and the dialogs draw lists, tabs and tray icons. Not
modelled of what runs:

* `Server::Create` and `Destroy` and a thread pool that refuses work (`Server.cpp:571`);
* the test server's protocol (SI_TEST) beyond what `EventSend` needs of it, message
  bytes, the push service's HTTP calls, logging texts;
* the splitting of a long request, which changes how many packets carry a batch and
  not what is in them;
* the end of a process: nothing of a SISender's queues is kept, so a restart is a
  new start;
* Broker's `WriteComm`, which nothing calls; the functions of the windows.

Seen in the source and not stated as properties, since nothing in the code
promises otherwise:

* one send buffer serves all overlapped sends of a connection (`SISender/Client.cpp:367`);
* a failed `PostSend` removes its client from the vector `SendAll` walks
  (`GFSServer/Server.cpp:696`): the next is passed over, and behind the last the walk
  leaves the vector;
* `GFSServer/Client.cpp:55` looks at `m_pTPIO` of an object whose accept failed, which
  nothing has set in fresh memory; an `AcceptEx` that returns TRUE is handled twice
  (`Server.cpp:278`);
* `SM.h:10` declares one slot fewer than the writer uses; the last one lies behind the
  structure, in the same page;
* `Log`'s cleanup deletes a critical section it holds;
* after a lost connection KOCOM's keep-alive of the next timer is spent on
  connecting, and the timer after it ends SISender just after it has sent one
  (`SISenderDlg.cpp:467`);
* in COMMAX a `connect` that succeeds at once is taken for a timeout
  (`CommaxFunc.cpp:262`).

## Plan

What is left, in the order of what it would add:

1. `Server::Create`, `Destroy` and the start and stop of GFSServer around them: packets'
   callbacks are submitted without the clean-up group (`Server.cpp:444`), are not
   waited for by `Destroy` and find `Server::Instance()` 0; a `Create` that fails leaks.
2. Proofs: the steps of the liveness properties that are no liveness themselves, each
   as an action property with its theorem (what a step of the thread brings nearer, and
   that no other step takes it back), so that only the fairness argument is left to TLC.
3. SISender's test button in `SenderLifecycle` (`SISenderDlg.cpp:738-780`), which uses the
   singleton from the dialog without starting it.
4. The reading of `Setup.ini` by all processes as one module, so that who is started,
   what it connects to and whose logs are kept come from one file.
