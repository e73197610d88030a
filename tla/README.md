# V-Wise Agent: TLA+ models

The V-Wise Agent is a daemon on a Raspberry Pi with a cellular module. It measures the cellular
link in a fixed cycle, publishes the measurements over MQTT, keeps them on disk while it is
offline, runs ping tasks for the platform, and upgrades itself. This directory holds TLA+
specifications of its parts, the configurations with which TLC checks them on small instances, and
proofs that TLAPS checks for every value of the constants. Every definition is translated from the
C++ code; the comments in the modules name the function they stand for.

## 1. The system

### 1.1 Threads

| Thread | Started by | Runs |
|---|---|---|
| main | systemd (`Restart=always`) | `main.cpp`: checkPendingOta, module, satellite terminal, GPS, login, `probeMgrStart` (client, cache, timer), sleep loop |
| MQTT client | the Paho client library | onConnectSuccess, onConnectFailure, connLost; `receiveMsgHandler` → OTA, collection and ping commands |
| collection timer | `Timer::start` | one collection cycle per interval; `publishData` |
| flush | `flushOfflineCache`, detached | `OfflineCache::flush` |
| OTA worker | `handleOtaCommand`, detached, one per accepted command | `otaWorker` |
| commit timer | `checkPendingOta` | `commitOta` after `m_bootCommitSec` |
| AT reader, URC worker | `AtClient::connect` | reader_loop, worker_loop with the URC handlers |
| ping threads, ping timer | `PING::start`, ping command | getPingTime, getPingLossPacket; pingSendMsg and the end of the task |
| GPS poll | `GPS::start` | switches GNSS on, polls the position every three seconds |

### 1.2 Components

For every component: what it keeps, what it does, with whom it interacts, what is hard about it,
what makes it correct.

**OtaManager** (`src/src/ota_manager.cpp`). *State*: `m_running` with its watchdog time and
generation, the pending trial in memory and on disk, program, backup and package files. *Operations*:
`handleOtaCommand`, `otaWorker` (download, unpack, verify, `installBinary`), `checkPendingOta` at
boot, `commitOta` on a timer, `rollbackOta`, `restartSelf`. *Hard*: a kill between any two file
operations, a worker that outlives the watchdog, a command during a trial, crash loops of a bad
image. *Correct*: one upgrade at a time; only a verified image becomes the program; an unconfirmed
image can be rolled back; a program that can be executed stays in place; every trial is decided.

**OfflineCache** and **ProbeManager: publishing** (`offline_cache.cpp`, `probe_manager.cpp`
638-680). *State*: the queue and its file, `m_flushing`. *Operations*: `init`, `push`, `flush`;
`publishData`, `flushOfflineCache`. *Hard*: the flush sends outside the lock while cycles push, the
connection comes and goes, the process ends anywhere, wall-clock steps, a full disk. *Correct*: what is
cached is sent once and in order, one flush at a time, bounded span, the backlog drains.

**AtClient, UrcDispatcher, SerialPort** (`boards/rpi/rpi_at_client.cpp`, `rpi_urc.cpp`,
`rpi_serial_port.cpp`). *State*: the one pending command, the slot flag, the log of unsolicited
lines (URCs), the dispatcher's queue, the port. *Operations*: `connect`, `disconnect`, `command`,
`reader_loop`, `dispatch`, `worker_loop`, `drain_urc_log`, and typed commands built on `command`. *Hard*:
answers and URCs share a line and a prefix; handlers call `command()`; time-outs leave answers
behind; `disconnect` among waiting callers. *Correct*: a command gets its own answer; no URC is lost;
every call and every disconnect ends.

**ProbeManager: collection cycle** (`probe_manager.cpp` 188-591) with **CellularDiagnosis**
(`cellular_diagnosis.cpp`) and the **modem drivers** (`modem/drivers/quectel_5g`). *State*:
the slow snapshot and its time, pending REBOOT, edge filter (candidate, stable count, last reported
state), the RAT of the last cycle, fields sent once. *Operations*: one cycle = drain the URC log, read the
signal, refresh the slow values when due, judge, filter, publish. *Hard*: cycles overlap after
`restartCollectionTimer`; failed queries; a REBOOT takes the place of a state. *Correct*: a change that
lasts is reported once, a short one is not; a REBOOT is reported; no switch is made up.

**ProbeManager: platform commands, probe tasks** (`probe_manager.cpp` 676-1237), **PING**
(`ping.cpp`), **Timer** (`common/timer.hpp`). *State*: the ping task with its timer, two
thread handles, the loop flags. *Operations*: START and STOP of a task, end of a task by its timer,
`collection_config`. *Hard*: a timer task that is running when its timer is stopped, joins from several
threads. *Correct*: loops are single and end, a STOP returns, a report is of its own task.

**MQTTAPP** (`mqtt_async_app.cpp`). *State*: client handle, connection, topics. *Operations*:
`start`, `sendOnce`, the callbacks, each of which starts the next attempt. *Hard*: an attempt that cannot be
started ends the chain; the callbacks and the commands share one thread of the library; the broker may refuse a
subscription; what a command throws ends the process. *Correct*: an agent that can reach the broker gets connected
again and hears the topics it was granted.

**RPIModuleInterface** (`rpi_module_interface.cpp`) and the typed commands of **AtClient**. *State*: opened,
two slots or one, identities and device data read once. *Operations*: `init`, `deinit`, `setAtPort`, queries for
a slot, each of which selects the slot, asks and switches back. *Hard*: each command may go unanswered, each has the
AT channel to itself but their sequence has not. *Correct*: the slot after a query is the slot before it, what is
reported of a slot was read on it.

**GPS** (`rpi_gps_info.cpp`). *State*: the polling thread, its count of failures, the last position. *Hard*: the
module restarts and its receiver is off again. *Correct*: no position without a fix; the receiver is on.

**SatelliteTerminal** (`rpi_satellite_terminal.cpp`, only with `ENABLE_SATELLITE`). A request-answer protocol over a
second serial port. *Hard*: statements come unasked, late, cut and several in one read. *Correct*: a query takes
only a whole statement of the type asked for, and it ends.

**main, GlobalData, Authenticator** (`main.cpp`, `global.cpp`, `authenticate.cpp`) with **HTTP client**. The
start: configuration, boot check, module, satellite terminal, GPS, login with retries, `probeMgrStart`. *Hard*: each
part may fail, hang or throw; the platform's commands run before the start is through. *Correct*: the
agent gets to its collection cycles.

**CJsonObject and cJSON** (`basetools/base_json_object.cpp`, `basetools/cJSON.c`). *State*: a document, the wrappers
that `operator[]` handed out, a list of keys. *Operations*: add, replace, delete by key, index, at the end and at the
head for eight kinds of values; look up, parse, copy, clear. *Hard*: wrappers point into the document; four integer
types share one field, and copies go by way of the text. *Correct*: a wrapper is of the item that its key names; an
integer is read as it was given, a double as far as six decimals have it. The agent itself uses nlohmann::json; this
library is part of basetools.

**DiagEventBus** (`modem/diag_event_bus.cpp`). A bounded ring of events under one mutex. **Tools**
(`basetools`). Sockets, encodings, logging; no coordination.

The lists of `PROJECT.json` give the sources of each component, whether it is modelled, and the
hazards: each line of the code where something can go wrong that a test would hardly reach, with the
properties that cover it.

## 2. Modules

| Module | Stands for | Checked by |
|---|---|---|
| `OtaManager` | ota_manager.cpp, boot by systemd | `ota_any`, `ota_kill_install` |
| `UpgradeSlot` | what an upgrade promises (abstract) | |
| `OtaRefinement` | OtaManager implements UpgradeSlot | `ota_upgrade` |
| `OtaManagerProofs` | theorems about OtaManager, and that it implements UpgradeSlot | TLAPS |
| `OfflineCache` | offline_cache.cpp, publishData, flushOfflineCache, the client library | `cache_overlap` |
| `StoreAndForward` | what the cache promises (abstract) | |
| `CacheRefinement` | OfflineCache implements StoreAndForward | `cache_store` |
| `OfflineCacheProofs` | theorems about OfflineCache, and that it implements StoreAndForward | TLAPS |
| `CollectionCycle` | vwiseProbeTaskHandle, collection_config, cellular_diagnosis.cpp, timer.hpp, the driver's answers | |
| `Debounce` | what the error_code stream promises (abstract) | |
| `CollectionRefinement` | CollectionCycle implements Debounce; values for TLC | `collect_cycle` |
| `CollectionProofs` | theorems about CollectionCycle, and that it implements Debounce | TLAPS |
| `AtClient` | rpi_at_client.cpp (channel), rpi_urc.cpp, rpi_serial_port.cpp, the module | `at_answer`, `at_live` |
| `AtClientProofs` | theorems about AtClient | TLAPS |
| `PingTask` | ping.cpp, the ping task of probe_manager.cpp, its timer | (part of AgentOnline) |
| `MqttConnection` | mqtt_async_app.cpp, the library and the network | (part of AgentOnline) |
| `AgentOnline` | both, on the one thread of the library that runs commands and callbacks | `agent_online` |
| `AgentOnlineProofs` | theorems about the three | TLAPS |
| `SimAccess` | rpi_module_interface.cpp and the typed commands of rpi_at_client.cpp | `sim_slots` |
| `SimAccessProofs` | theorems about SimAccess | TLAPS |
| `GpsPoller` | rpi_gps_info.cpp and the receiver of the module | (part of AgentStart) |
| `SatelliteTerminal` | rpi_satellite_terminal.cpp and the terminal | (part of AgentStart) |
| `AgentStart` | main.cpp, global.cpp, authenticate.cpp, probeMgrStart, the supervisor, with both | `startup` |
| `AgentStartProofs` | theorems about the three | TLAPS |
| `JsonObject` | base_json_object.cpp and the lists and numbers of cJSON.c | `json_object` |
| `JsonObjectProofs` | theorems about JsonObject | TLAPS |

Definitions named `Bug...` are mutants: an action or operator with a plausible mistake. They are not
part of any specification; `PROJECT.json` says which definition each replaces and which property then
fails, so every property is known to depend on the code.

### 2.1 OtaManager

An image stands for its SHA-256; a file holds an image, `Torn` (anything else) or `None`, and the file at
`m_exePath` can be executed or not (what `std::ofstream` creates cannot until its `chmod`).
Each worker thread (`worker[g]`, one per generation g = `m_workerGen` at its start) has a program
counter with one step per call that a kill or another thread can observe:

| Code | Actions |
|---|---|
| `handleOtaCommand` | HandleTakeLock (exchange of `m_running`), HandleTurnPage (`++m_workerGen`), HandleReject, HandleSpawn |
| `otaWorker` | CheckDisk, FetchOpen / FetchDone / FetchFails, CheckStale, Unpack, Unpacked, Verify, CheckStaleInstall, MarkOpen, MarkWrite, MarkFails |
| `installBinary` | CopyOpen, CopyDone, BackupOpen, BackupDone, Swap, Chmod, Sweep (each open and the rename may fail) |
| `releaseLock` | ReleaseCheck, ReleaseStore (compare, then store: not atomic in the code) |
| `checkPendingOta` | CheckNothingPending, CheckTorn, CheckPending, BumpOpen, BumpWrite, BumpFails |
| `rollbackOta` | RollbackRemove, RollbackNoBackup, RollbackRestore, RollbackRestoreFails, RollbackChmod, RollbackUnmark |
| `commitOta` | CommitRemovePending, CommitRemoveBackup |
| process | Boot, BootFails, Kill, RestartSelf, Overdue (time) |

The process may be killed at every step. Four constants say what else the environment may do: `Outlasts` (a job may
outlast the watchdog), `CommandsDuringTrial`, `DiskFails` (an open, a rename, or a write of the pending file may
fail), `ShortCopy` (a copy may be cut short unnoticed). Where the code does not look at the result it goes on:
MarkFails, BumpFails, RollbackRestoreFails.

Two history variables: `committed` is the last image that was confirmed. `mishap` says that since then a kill fell
between the rename of the new program and the writing of its pending file (`Installing`, ota_manager.cpp:311-320,
218-219), or into the rewriting of that file (`Recounting`, 377), or that one of the three failures above was ignored.
These are the places where the code gives up its promise. The properties that except them say so by `mishap`, and it
is reset only by the next confirmed image.

### 2.2 OfflineCache

A record is a payload and its time. What happens under OfflineCache's mutex is one step; the file is
replaced by a rename, so a kill leaves the old or the new one. `publishData` is Stamp,
TrySend, then LookForBacklog and Trigger, or Push; a flush thread loops through FlushFront, FlushSend
(outside the lock) and FlushPop and ends with FlushEnd. The client library (external) accepts
messages while it is connected and delivers them later or drops them when the connection is lost. `given` is
a history: whether an id was handed to the library in this life of the process, an earlier one, or twice.

### 2.3 AtClient

One prefix stands for a family of answers that are also URCs (`+CEREG:`). `caller[c]` is a
thread in `command()`: waiting for the slot (TakeSlot, GiveUpSlot), writing (Write, WriteFails),
waiting (Return, TimeOut, and Segfault for the null pointer after a disconnect). The reader classifies
a line under the lock (ReadFinal, ReadReg, ReadData), and buffers, logs or dispatches it
in steps of their own, as the code releases the lock in between. The main thread's `connect` is OpenPort,
StartThreads, SendAte0, Connected, its `disconnect` Disconnect, Wake, JoinReader, StopUrc, JoinWorker,
Reset, ClosePort. The cellular module (external) answers the commands it got in order: a data line,
then a final result, or nothing. `pending.clean` is a history: nothing of an earlier answer was left
when the command took the slot.

### 2.4 CollectionCycle

`cycle[t]` is a thread of the collection timer, with the message it is putting together. Of the message
only error_code, sw_version and the mark of a REBOOT matter. What the module answers is chosen anew at every
query: a registration of `Regs`, a SIM state of `Sims`, a cell or none, a power or none.

| Code | Actions |
|---|---|
| `Timer::stop` | RestartTimer (`_expired`), EndGeneration (`_generation`) |
| `Timer::start` | CheckExpired, ClearExpired, StartTimer; Exit (a thread of an older generation) |
| `vwiseProbeTaskHandle` | Begin (sw_version), SlowStart and SlowDone (getSimInfo, getDiagSnapshot, every 30 s), Drain (PB DONE), Fast (getServingSignal), Judge with Compose (error_code), Publish |
| `deriveWirelessErrorCode...` | Derive, DeriveFallback |
| `ErrorCodeEdgeFilter`, `RatSwitchDetector` | Filtered, Switched |
| `proccessCollectionConfig` | SetCategory, RestartTimer |
| `probeMgrStart` | InitModule, Connect (a command may come before, between or after), Start |
| environment | TimePasses (the slow refresh is due), ModuleBoots (PB DONE), OtherUrc |

`fed` and `told` are histories: the last state the filter was given and the last one in a published message;
`unreported` says that the module has restarted since the last REBOOT.
`calls` is where main and the command's thread are in `Timer::start` and `stop`, which take no lock and may overtake each
other between any two statements; `stranded` is a history: a `stop` set `_expired` before a `start` and ended its
generation after it (timer.hpp:62-63), which leaves no timer. The log of unsolicited lines keeps the `LogCap`
latest (100 in the code, rpi_at_client.cpp:216-217): `log` is the place of the latest PB DONE in it and `dropped` a
history, that the line has fallen out of the full log. The measured powers are negative, so a
threshold (`thr > 0 && rsrp <= thr`) makes a signal weak always or never: `WeakRats` are the technologies
with a positive threshold. The code does nothing to keep a cycle of an old timer thread from running beside one of the new
thread; `Overlaps = FALSE` assumes that every cycle ends before the next one begins. `Overlaps = TRUE` lets them
interleave between steps. The data race inside a step (two threads in `ErrorCodeEdgeFilter::changed`) is
undefined behaviour and not modelled.

### 2.5 PingTask, MqttConnection, AgentOnline

A loop thread is at the test of its flag or in a ping; `handle[l]` is what `m_pTimeThd` or
`m_pLossThd` holds. Actors that may be inside `PING::stop` are the command handler and the timer threads:

| Code | Actions |
|---|---|
| `getPingTime`, `getPingLossPacket` | LoopTop, LoopMeasured (a loss that is not found leaves the one before, ping.cpp:119-122; the file may not open: the loop ends and its handle stays) |
| `PING::start` | StartTask, StartTime (the two flags), StartThreads |
| `PING::stop` | StopLoss, StopFlags (the two flags), then Joined for each handle that is set |
| `Timer::start` | StartTimer, Wake; task: Report (pingSendMsg), LastReport (timer stopped, PING::stop follows) |
| `vwiseProccessTaskMgrHandle` | StartTask, StopTask, IgnoreCommand |
| `MQTTAPP` | StartClient (`MQTTAsync_create` may fail), OnConnectSuccess, OnConnectFailure, ConnLost |
| the client library | Accepted, Refused, Suback, Lose |
| `receiveMsgHandler` | Deliver; Abort (a JSON text that is no object) |
| end of the process | Die (two actors join the same thread), Abort (nothing catches what `j["task_id"]` throws), Crash (connecting through a null handle); the process comes up again |

`target` and `value` say whether a ping in progress and a measured value are of the present address, `fresh` which
loops have found a result since the task was started, `calm` that no command met a tick of the timer; properties alone
look at them. `asked` are subscriptions that the broker has not answered; `subs` are granted, `refused` were refused
by the library or by the broker's SUBACK (mqtt_async_app.cpp:179-181: the callback is empty). `scheme` says whether
the library knows the scheme of `broker.address`, without which `MQTTAsync_create` fails and `start` goes on with a
null handle (211-214). `retained` says that the broker keeps a command that ends the process: it comes again with
every subscription. The callbacks of the connection wait while the handler is in `PING::stop`. Left out is the moment
in which `m_pingTime` is 0 while its loop parses (ping.cpp:53).

### 2.6 SimAccess

An operation of the interface is the sequence of the commands it has still to send (`op[c].todo`), so that those of
two threads interleave between commands; a command is answered or not, and was carried out or not. `home` is a
history: the slot that was last chosen by `selectSimSlot`. `alone`, `steady` and `blind` record what the properties
except: that operations overlapped, that the slot in use was not learned or a selection not answered, and that an
operation does not know the slot. The first line of the answer to `AT+QUIMSLOT?` is taken for the active slot
(rpi_at_client.cpp:548-555). It may name the slot in use, or slot 1, which the comment at 499-500 puts first, and an
answer without a line counts as slot 1 (558): each such query is a choice between the slot in use and slot 1, or goes
unanswered. `steady` ends with an answer that did not name the slot in use, or with none, and `blind` marks an
operation whose SimSlotGuard was told so.

### 2.7 AgentStart with GpsPoller and SatelliteTerminal

`pc` follows `main` and `probeMgrStart`; at every step the process may be killed, and it ends itself in five places:
when the configuration is no object (ReadConfig), when a success comes without data (Authenticate), when a topic is
too short for the IMEI (ReadTopics), when the library does not know the scheme of the broker's address (StartMqtt: the
null handle that a failing `MQTTAsync_create` leaves), and when the broker delivers a command that is JSON and no
object (Abort; here the command is `retained`, so it comes in every life of the process). From `mqtt.start` on the
client's thread runs Line, Command, Abort and Cycle, so the offline cache may hold records before it is loaded. Of
OfflineCache the number of records is kept, of OtaManager's boot check that it takes place. The satellite terminal
says any sequence of statements, whole or cut; a read takes any number of them and perhaps a part of the next. Without
`ENABLE_SATELLITE` the start is that of a terminal that does not open.

### 2.8 JsonObject

A document is its kind and the list of its items; a pointer to an item is its place, which moves with
the item; `Dangling` is a pointer to one that was freed. Every `Add`, `AddAsFirst`,
`Replace` and `Delete` is an action, by what it does to list, wrappers and keys. `careful` is a history: the caller has
not changed what it had looked up in a way that the code does not follow.

An integer is its 64 bits and a sign flag, as in cJSON; `Top` stands for 2^31, and the values tried are the least and
the greatest of each type. A double without a fraction is that number; one with a fraction is a number of steps finer
than the six decimals of its text: `Decimals` stands for 10^6, `Half` for the steps in half of the last decimal. What
the conversions lose is in the model: printing rounds to six decimals (Nearest; cJSON.c:174-179), `parse_number` may
be off by `Slip` steps and has integers exactly up to `Digits` (the long double of 119-153), a whole double becomes an
integer in a copy, a get by key of an integer as double has those below `DoubleDigits` exactly (ToDouble;
base_json_object.cpp:795-802), and a get by index refuses it (ReadsDouble is empty; 1816). `given` and `drift` are
histories of each value: the number that the caller passed, and how far from it a double was when a copy made it
whole. This stands for doubles below 10^9, whose neighbours are closer than 10^-6; -0 is taken as 0, and `Get(float)`
is left out.

## 3. Runs

| Run | Bounds | Shows |
|---|---|---|
| `ota_upgrade` | 3 images, 1 command per process life, 3 attempts; kills anywhere, refused files | outside what `mishap` names, an unconfirmed image is guarded by pending file and backup; the program stays startable; only verified images are installed, every trial is decided, the upgrade slot is implemented |
| `ota_any` | 2 images, 2 commands, 2 attempts; takeovers, commands during a trial, short copies, kills | the lock is never left to nobody |
| `ota_kill_install` | 2 images, 2 commands, 3 attempts; kills anywhere | violation: see section 6 |
| `cache_store` | 4 ids, 1 cycle at a time, 1 flusher, clock to 2, queue to 3, 1 restart | nothing lost, span, drain; by the refinement the order and at most one record repeated |
| `cache_overlap` | 3 ids, 2 cycles, 2 flushers, clock set back, refusals, file failures | nothing handed over twice in one life |
| `at_answer` | 3 threads, 3 calls, 1 URC, 2 sessions, time-outs, write errors | own answer, nothing swallowed, dispatcher outlives reader |
| `at_live` | 3 threads, 3 calls, 1 URC, 1 session | every call and every disconnect ends |
| `collect_cycle` | 2 timer threads, 1 command, 1 restart of the module, a log of 2 lines, 2 registrations, LTE and NR5G, one cycle at a time | states and restarts reach the platform, in step with the filter and debounced; cycles go on whatever the start is overtaken by |
| `agent_online` | 2 timer threads, 2 commands, tasks of at most 2 reports, 1 outage, 1 refused call or subscription | loops single and ending, own reports, a stop command returns, connection and subscriptions come back |
| `sim_slots` | 2 threads, 3 operations, 1 lost command, modules with one and two slots, any answer for the active slot | slot restored, data of the right slot, caches kept |
| `json_object` | 4 calls, 3 items, 2 names of which one in two spellings, 2-bit and 4-bit integers, long doubles to 8, doubles to 4, 2 decimals of 3 steps | wrappers, key list and numbers are right |
| `startup` | 2 types of statements, 2 in the port, 1 fault of the module, 1 kill, 1 record, re-enabling every 2 failures (20 in the code) | the agent gets up, the cache is loaded over nothing, position and receiver |

Why the bounds are enough: in `ota_any` two generations give a superseded and a current worker, which is all that the
stale checks compare. In `ota_upgrade` no worker is superseded, and a second command of the same life could only
follow a failed one or a committed trial; both also happen with a restart between them. Three attempts separate the
first boot, a repeated one and the limit; with three images a trial can begin from the factory image or from a
confirmed one and name another. Three queued records give a front, a middle and an end, four ids one more that is in
flight or being pushed; the age limit of 1 with times 0..2 has records that fit and one that does not. In
`cache_store` MaxQueue is below the number of ids, so that a cycle always finds an unused id: ids are only names for
payloads, and with all of them in use a stuck cycle would be an artefact. One flusher is enough there, since with two
flushers `cache_overlap` finds none handing over what the other did (NoRepeat). Three calls are one in flight, one
waiting and one that comes late; the main thread's ATE0 uses one of them. Two sessions are needed for a caller of the
first to meet the second. Two timer threads are the old and the new one; a third would end like the first. One
registered and one refused registration together with "no cell" give three states besides the one without a driver,
which is what the filter compares: last, candidate, another. One restart of the module can hit every step of a cycle.
A log of two lines is the least that can overflow behind a PB DONE, as the code's 100 can.

In `agent_online` two commands are a start and a stop, or two starts with the last tick of a task between them; two
timer threads are one in its last task and a new one, two reports separate the last from others. One outage gives a
session that was lost and a new one; a refusal may hit an attempt, a subscription call, or its SUBACK. In `sim_slots`
three operations are an opening and two that overlap or follow each other; one lost command hits each step of an
operation, a second would only meet the exceptions of the properties. In `json_object` four calls are what it takes to
make a document, look something up, change it and look again; 2 and 4 bits are the smallest widths in which the least
and greatest values of the four types differ. `Digits` and `DoubleDigits` lie inside the larger types, so that some of
their values are beyond a long double and some beyond a double, as on 32-bit ARM; two small steps beside each number
of the text are one on each side. In `startup` two statements in the port are one that answers and one that came
before or behind it. The failures are counted modulo EnableEvery, so that 2 and 20 differ only in how long it takes.

### 3.1 Fairness

* `BootFairness`: systemd starts the program again (weak); a boot sequence that is begun again and again
  gets through sometimes (strong, per step: a kill or a full disk cannot hit the same few instructions forever).
* `TrialEnds`, `MarkWrite`: a process on trial stays up until its timer fires or is killed before, as by a crash of
  its image; a pending file that was opened is written. Nothing is assumed of downloads or commands.
* `CacheFairness`: a thread that can go on does; the library delivers while it is connected. The
  connection itself owes nothing: BacklogDrains assumes that it stays up at last.
* `CollectionFairness`: timer threads, the main thread and the thread of a command go on. Time, answers and commands owe nothing;
  TimePasses needs no fairness, as CollectionGoesOn does not depend on the slow refresh.
* `AtFairness`: threads go on and waiting is limited by `wait_for`. The module owes no answer.
* `AgentOnline!Fairness`: threads go on, a ping ends, a sleep ends, the library reports each attempt and notices a dead
  connection. Platform and network owe nothing, and no SUBACK need come: OnlineAgain assumes that the broker stays reachable
  at last, and excepts an attempt the library did not accept (nothing starts another), an unknown scheme and a retained
  command that ends every life of the process.
* `AgentStart!Fairness`: main and the polling thread go on, time ends a query, systemd starts the process again.
  Server, line, terminal and module owe nothing: StartsEventually assumes that the server accepts in the end, and a
  configuration and a broker that do not end every start (section 2.7).

## 4. Proofs

Every safety property of the runs is a theorem of the module's specification, for every value of the constants
that its ASSUMEs allow. A table row names the theorem, the formula and the conditions on the constants (on what the
environment may do) under which it holds; without them TLC refutes it, and section 6 says what then happens in the
code. After each table come the strengthenings: the named conjuncts of the invariant that is inductive.

`OtaManagerProofs`, for all images, generations and attempts:

| Theorem | States | Assumes |
|---|---|---|
| `TypeCorrect` | `Spec => []TypeOK` | |
| `LockHasHolder` | `Spec => []LockNeverLeaks` | |
| `OneWorker` | `Spec => []LockExclusive` | `~Outlasts` |
| `InstallsOnlyVerified` | `Spec => VerifiedInstall` | `~Outlasts`, `~ShortCopy` |
| `ExeAlwaysWhole` | `Spec => []ExeWhole` | `~Outlasts`, `~ShortCopy`, `~CommandsDuringTrial` |
| `TrialGuarded` | `Spec => []UnconfirmedGuarded` | the same |
| `LastGoodKept` | `Spec => []LastGoodOnDisk` | the same |
| `DeviceStarts` | `Spec => []StaysStartable` | the same |
| `OtaImplementsSlot` | `Spec => ImplementsUpgradeSlot` | the same |

Nothing is assumed of kills and of refused files: they may come at every step, and what two windows and `mishap` except is in
the properties themselves.

The strengthenings, each on top of the one before:

* `TypeInv`. TypeOK is not inductive: a handler and a worker must carry a real image, a handler that
  took the lock must have a generation left, a process must run an image.
* `LeakInv`. A handler that has turned the page has a generation whose worker slot is its own. The step
  that matters is the end of a worker: the current one only ends through ReleaseStore, its other
  exits are stale checks (lemma CurrentWorkerReleases).
* `ExclInv`. The lock is never overdue, and while a handler holds it no worker is alive. So a command only
  ever takes a lock that is free, and finds no worker.
* `CarryInv`. Between the hash and the rename lie several steps; per program counter, the file or the copy in
  progress that holds the worker's image (`Carries`). It is kept because ExclInv leaves nobody else to write
  the files, and it makes every change of the program file outside the boot one to a verified image.
* `WholeInv`. QuietInv: a worker works while no trial is open; BackupInv: the backup is torn only while no
  trial can go back to it. Hence what a rollback restores is whole. Commands during a trial are
  excluded because they rewrite the backup in place while the pending file is there.
* `ImageInv`. A process on trial runs the image at the program's path. It holds over a mishap too, so the image that is
  confirmed after one is the one on the disk.
* `mishap \/ GuardInv`. DiskInv: what program, backup and pending file hold together, with the steps of an installation or a
  rollback in which they do not; BootInv: where the boot is with the trial; InstallInv: where the worker is with the
  files. Every step keeps it or is a mishap, and the commit, which ends a mishap, restores it.
* `ModeInv`. The program cannot be executed only between a rename and its `chmod`, or after a kill there, which is a mishap
  or falls into a rollback at the last attempt.
* The refinement maps each step by GuardInv: MarkWrite begins a trial, BumpOpen counts it, the commit
  confirms it, RollbackRestore reverts it and RollbackUnmark ends it; everything else stutters (SlotStep).

`OfflineCacheProofs`, for all cycles, flushes, ids, ages and lengths of the queue:

| Theorem | States | Assumes |
|---|---|---|
| `TypeCorrect` | `Spec => []TypeOK` | |
| `FlushesAlone` | `Spec => []FlushExclusive` | |
| `NothingTwice` | `Spec => []NoRepeat` | |
| `CachedIsHanded` | `Spec => CachedUntilHanded` | `~ShortWrite` |
| `SpansMaxAge` | `Spec => []SpanBounded` | `~ClockSetBack`, one cycle at a time |
| `FlushesOldest` | `Spec => OldestFirst` | the same |
| `RepeatsOne` | `Spec => []OnlyFrontHanded` | no write fails (`WritesWork`) |
| `CacheImplementsStore` | `Spec => ImplementsStoreAndForward` | the same |

* `CacheInv`. `flush` sends outside the lock and then removes the front of the queue if its time stamp is that of the
  record sent; two records may have the same one. HoldsFront says why it is the right one: while a flush is between
  reading and removing, the front stays, because one flush runs at a time (FlushExclusive) and `push` only appends (a
  record it will not keep is the new one). SentIsPopping and OwnRecord then give NoRepeat.
* `FileBehind`: a record of the file is in the queue or was handed over. `push` and `flush` change
  the queue first, and a write that fails leaves the older file.
* `OrderInv`: queue and file are in the order of time, and no record on its way is older than those in the queue. It is
  this that overlapping cycles break, and a clock that is set back.
* `ExactInv`: when no write fails the file is the queue.

`AtClientProofs`, for all callers, sessions, lengths of the log and modules:

| Theorem | States | Assumes |
|---|---|---|
| `TypeCorrect` | `Spec => []TypeOK` | |
| `DispatcherRuns` | `Spec => []NoUrcDropped` | |
| `OneInFlight` | `Spec => []SlotExclusive` | `Prompt` |
| `AnswersAreRight` | `Spec => []RightAnswer` | `Prompt` |
| `AnswersAreKept` | `Spec => []AnswerNotSwallowed` | `Prompt` |

* `PhaseInv` says which threads run in which step of `connect` and `disconnect`; it is all that DispatcherRuns needs.
* `SlotInv`: the slot has one holder, whose command `pending_` is. `Prompt` is needed here: without it `disconnect`
  resets `pending_` and the slot while a caller of the old session still believes it has them (section 6).
* `FreshInv`: a call's number is nowhere on the way before its command is written. With `UrcInv` and `StreamInv`: of a
  command that found nothing of an earlier answer, the line to the module, the wire and the reader hold only its own
  lines and URCs, each own line once and the data line first (`OnlyOwn`, `InOrder`, `NotYet`, `NotLost`).

`CollectionProofs`, for all threads, registrations, thresholds and bounds:

| Theorem | States | Assumes |
|---|---|---|
| `TypeCorrect` | `Spec => []TypeOK` | |
| `StreamImplementsDebounce` | `Spec => ImplementsDebounce` | |
| `RebootsAreCaused` | `Spec => []RebootsHaveCause` | |
| `PlatformKnows` | `Spec => []PlatformInSync` | `~Overlaps` |
| `StartIsReboot` | `Spec => []SwVersionWithReboot` | `~Overlaps` |

* `FilterInv` ties the candidate to what the filter was given last: with it, "seen once before" in the
  filter and "found in the last cycle" in Debounce are the same (lemma FilterStep). Only Judge touches the
  filter (FilterKept), so every other step stutters.
* `CauseInv` counts: messages sent with REBOOT, cycles that carry one, the line in the log and the pending flag
  together are never more than the restarts of module and process. Drain takes the line and the flag into one cycle,
  so overlapping cycles can delay a REBOOT but not double it.
* `OneCycle`: at most one thread is between Begin and Publish; a thread that ends rests (lemma Alone).
* `SyncInv` fills the gap of PlatformInSync: between Compose and Publish the message holds what the filter
  has just taken for reported, and otherwise the platform knows it already.
* `RebootInv` follows what sw_version has announced through the steps: pending in `s_bootPending`, taken into the
  message, in its error_code.

`AgentOnlineProofs`, for all threads, timers, topics and bounds, and `AgentStartProofs`, for all settings:

| Theorem | States |
|---|---|
| `TypeCorrect` (both) | `Spec => []TypeOK` |
| `LoopsAreSingle` | `Spec => []OneLoopEach` |
| `ReportsAreFresh` | `Spec => FreshReport` |
| `TopicsAreHeard` | `Spec => []HearsTopics` |
| `ForgetsIfEarly` | `Spec => ForgetsOnlyEarly` |

* `Held`: a thread that was not joined is the one its handle names; `Joiner`: who joins it does so alone, as two end the
  process. So `start`, which only makes a thread where no handle is set, never makes a second one.
* `CalmInv`: while no command met a tick, one actor at a time is busy (OneAtATime), a completed stop leaves no
  thread (StopIsComplete), and what is measured is of the present address (OwnAddress).
* ReportsAreFresh is about the loops that have found a result since the task was started: a loss loop whose pings say nothing
  finds none and reports what the task before left (section 6).
* `LineInv`: which events can be due in which state of the connection. A lost connection can overtake the callback of its
  own success, never that of the next one. A topic is granted, asked for or refused, and nothing else.
* `TimerInv`: before `probeMgrStart` has started the timer, only a command has, and without a timer there is no record.

`SimAccessProofs`, for all callers, modules and bounds:

| Theorem | States | Assumes |
|---|---|---|
| `TypeCorrect` | `Spec => []TypeOK` | |
| `KnownIsKept` | `Spec => KnownStays` | |
| `ReadsItsSlot` | `Spec => DataFromSlot` | |
| `FindsItsWayBack` | `Spec => []SlotRestored` | |

* `TodoInv`: the commands that an operation has left are of one of a few shapes (`Shaped`), in which every read comes
  after a selection. `GuardInv`: who is inside SimSlotGuard knows the slot to go back to.
* `OnceInv`: identities are read only while there are none. `ReadInv`: at a read the module is on the slot it is of,
  whatever it has answered before; only for slot 1 under a SimSlotGuard that was told another slot than the one in use
  (`blind`) it need not be, as the guard then selects nothing.
* `BackInv`: the commands left, from the slot that is selected, end on `home` (`Way`), as long as operations are
  `steady`. The parts of the operations differ in what takes them there: the guard, the answer to the query, or the
  last selection.

`JsonObjectProofs`, for all names, sizes and numbers of calls, and whatever numbers `Top`, `Digits`, `DoubleDigits`,
`Decimals`, `Half` and `Slip <= Half` are:

| Theorem | States |
|---|---|
| `TypeCorrect` | `Spec => []TypeOK` |
| `WrappersAreCurrent` | `Spec => []WrappersCurrent` |
| `KeysAreCurrent` | `Spec => []KeysCurrent` |
| `NumbersAreKept` | `Spec => []NumbersKept` |

* `Sound`: the bits of a stored integer are the low 64 of what was given, and its sign flag says unsigned only when
  that was not negative. Every input is (SoundInputs), and a copy by way of the text is again (SoundCopies), also
  where the text shows another number; each type reads it right (SoundReads). An integer is `lost` only if a long
  double or 64 bits do not have it.
* A double with a fraction is kept by NearestIs: what was rounded to six decimals and parsed with a slip below half of
  the last is rounded to the same text again (SoundParsesFraction), so copies do not add up. When a copy makes it
  whole, `drift` is that one rounding. DoubleIs: integers from 0 below `DoubleDigits` have one double.
* `FirstAtEnd`, `FirstAtPlace`, `FirstTakenOut`: what a key finds after an item was added, replaced or removed. They go by
  the characterisation `IsFirst` of the first place, which determines it (FirstUnique).
* `RefsInv`: a wrapper points into the list only in a document of its own kind; so a deletion in an object leaves no index
  wrapper behind the end. `KeyInv`: a list of keys exists only for an object.

## 5. Only model-checked

Liveness (TrialDecided, BacklogDrains, CallReturns, DisconnectEnds, CollectionGoesOn, RebootTold, StateTold, PingsEnd,
HandlerReturns, OnlineAgain, StartsEventually, GnssComesOn, PositionExpires) needs fairness and ENABLED, which are out of the
prover's reach. All other properties of the runs are proved.

Type correctness, LockExclusive, FlushExclusive, OldestFirst, OnlyFrontHanded, SlotExclusive and SwVersionWithReboot are
proved and in no configuration, as those that are checked say more. OtaManager defines some further invariants that are
neither checked by a run nor proved yet: TimerHasTrial, ExePresentWhenUp and SuccessNamesRunning.

## 6. Where code and documentation disagree

With a run that shows it (`findings` of `PROJECT.json`): a kill between the rename of the program and
the pending file leaves an image that no boot rolls back (`ota_kill_install`).

With a property of the module that fails when it is put into the configuration named:

| Property | Configuration | Then | Documented |
|---|---|---|---|
| OfflineCache!OldestFirst | CacheOverlap, MaxClock 3, nothing else failing | overlapping cycles queue records against their time order (probe_manager.cpp:647) | offline_cache.h:36 "按时间顺序（旧->新）逐条回传" |
| AtClient!UrcNotInAnswer | AtAnswer | a URC of the family of the query in flight ends up in the answer (rpi_at_client.cpp:158) | URC框架说明.md:94 "也不会污染命令响应" |
| AtClient!WaiterHasPending | AtAnswer, Prompt FALSE | `disconnect` resets `pending_` under a waiting caller (131) | URC框架说明.md:117 "确保不挂起、不崩溃" |
| CollectionCycle!NoFalseSwitch | CollectCycle, NetRats {"NR5G"} | a QENG that fails once is answered by CESQ, as if the device were on LTE, and reported as a change of technology and back (quectel_5g_driver.cpp:273) | probe_manager.cpp:410 "不会假触发" |

Seen with other values of the constants, or excepted by the property named, without a run of their own:

| Set | Then | Documented |
|---|---|---|
| OtaManager, Outlasts = TRUE | VerifiedInstall and LockExclusive fail: a worker that is superseded after its last check (ota_manager.cpp:197) still installs; it also removes the files of its successor (149) | 196 "过期线程绝不能碰 exe/pending", 112 |
| same | releaseLock compares and stores in two steps (123): the successor's lock is released | 121 |
| UnconfirmedGuarded, TrialDecided without `mishap` | a pending file that cannot be opened or written is noticed nowhere (ota_manager.cpp:218-219): the agent restarts into an image that no boot counts or rolls back | ota_manager.h:4 |
| same | a kill or a full disk while checkPendingOta rewrites the pending file (377) leaves a torn one, which the next boot removes (393): the trial is over, undecided; when it cannot even be opened the boot is not counted | |
| StaysStartable without its exceptions | a kill between remove and rename of a rollback (406-407) leaves no program, one between rename and chmod (408) a program without execute bits, as `std::ofstream` made the backup; the same between 311 and 316 of an installation. systemd then has nothing to start, and TrialDecided excepts it | 349, 415 |
| CommandsDuringTrial = TRUE | a second upgrade overwrites the backup with the unconfirmed image (301), and a rollback restores that | 415 |
| ShortCopy = TRUE | a copy cut short by a full disk is renamed to the program (295) | ota_manager.h:4 |
| OfflineCache, ConnLost | a record accepted at QoS 0 (mqtt_async_app.cpp:123) and not delivered is in no cache | offline_cache.h:3, 36 |
| ClockSetBack = TRUE | SpanBounded fails (offline_cache.cpp:86) | offline_cache.h:4 |
| ShortWrite = TRUE | CachedUntilHanded fails: the file is cut (offline_cache.cpp:78) | 63 |
| AtClient, Timeouts = TRUE, clean ignored | after one time-out every answer is that of the command before (rpi_at_client.cpp:194) | URC框架说明.md:226 |
| Prompt = FALSE, 2 sessions | SlotExclusive fails: a caller of the old session finds the new one's `pending_` (278) | 277 |
| CollectionCycle, any | after a REBOOT of the module the state is not repeated: the filter keeps its history (probe_manager.cpp:421) | cellular_diagnosis.h:58-59, probe_manager.cpp:416-420 |
| RebootTold without `dropped` | a PB DONE that is followed by 100 other lines before a cycle takes the log falls out of it (rpi_at_client.cpp:216-217), and the restart is never told | |
| RebootTold, StateTold, CollectionGoesOn without `stranded` | a command whose `stop` has its two statements around the `start` of probeMgrStart leaves no timer (timer.hpp:62-63) | |
| any | a module without registration is REGISTER_FAIL on the driver's path, never NOT_REGISTERED (cellular_diagnosis.cpp:48) | cellular_diagnosis.cpp:17, 20 |
| WeakRats | a positive threshold reports WEAK_SIGNAL at any power, a negative one never (cellular_diagnosis.cpp:56) | |
| Overlaps = TRUE | PlatformInSync, SwVersionWithReboot and StateTold fail: one cycle drains or judges between another's steps | 241-245 |
| SimAccess, without `steady` | where the module lists slot 1 first, as rpi_at_client.cpp:499-500 says, its first line is taken for the active slot (548-555): a guarded query of slot 2 leaves the module there, as the guard believes it is back already, and one of slot 1 then reads slot 2's data (`blind`) | rpi_module_interface.cpp:19 "restores on destruction" |
| SimAccess, without `alone` | two operations at a time leave the module on the other slot, and report one slot's data as the other's | |
| PingTask, any | two threads that stop the task join the same thread, which ends the process (ping.cpp:157); a start that finds an ended loop's handle set runs without that loop (137) | |
| PingTask, without `fresh` | a loss command whose output says nothing, as after a failing name lookup, leaves the loss of the task before, which is reported for the new address (ping.cpp:119-122) | |
| AgentOnline | a command that is JSON and no object throws at `j["task_id"]` (probe_manager.cpp:1089) and ends the process; retained by the broker it does so again at every start (OnlineAgain and StartsEventually except it) | |
| AgentOnline, AgentStart | an address whose scheme the library was not built for makes `MQTTAsync_create` fail; `start` goes on, and the null handle ends every start (mqtt_async_app.cpp:211-214) | |
| AgentOnline, HearsTopics without `refused` | a topic that the broker refuses in its SUBACK is not noticed: onSubscribeFailure is empty (mqtt_async_app.cpp:179-181) | |
| AgentStart, timer started by a command | records cached before OfflineCache::init are forgotten (probe_manager.cpp:1341) | |
| AgentStart, a success without data | the JSON library throws in `main` (authenticate.cpp:512) | |
| GpsPoller, everFixed | a module that restarts after the first fix stays without GNSS (rpi_gps_info.cpp:104) | 103 |
| JsonObject, without `careful` | a wrapper from `operator[]` is left on a freed or another item by Replace and Add of a plain value (base_json_object.cpp:1437, 2095) | |
| JsonObject, integers | a negative one read as double is a large positive number (798), one beyond 2^53 is rounded (802); one beyond int64 put at the head is printed negative (2469); where a long double is a double (32-bit ARM) a copy rounds those beyond 2^53 (cJSON.c:119-153) | |
| JsonObject, doubles | a copy rounds to six decimals (cJSON.c:174-179), once; a whole double is an integer after a copy, which `Get(int, double&)` refuses (base_json_object.cpp:1816) | |
| SetCategory before the first cycle | in category "core" the start is never reported | cellular_diagnosis.h:55-57 |

A caller that was woken by `disconnect` may also return ok, if the final result came just before (rpi_at_client.cpp:195,
against 103-104).

## 7. Not modelled

* Power loss: files are what the process wrote, as if always synced (the code never calls fsync).
* Of OTA: a failing `remove` or `chmod`, errors while reading. Short copies and takeovers are only in `ota_any`, whose one
  property survives them.
* OTA status reports; nothing reads or repeats them. A boot image that crashes before `checkPendingOta`
  is a Kill in "check". `m_cacheEnabled = false`, where records are only sent.
* The table of URC handlers (constant at run time) and the splitting of bytes into lines. `connect` on an open
  port. `disconnect` is only called by `deinit` and the destructor, which run at `std::exit` in
  `restartSelf` (ota_manager.cpp:350); the model lets the main thread call it at any time.
  `main.cpp:70` opens the same serial device a second time for its own use.
* Of the collection cycle: the connectivity probe (`s_pingInFlight`), the diag fields, hw_version and
  modem_version; the clock (a slow refresh may be due at any time, as after a clock step); a driver whose init fails for
  good, with which the fallback is used forever.
* Of the start: the keys that `genRsaKeys` writes and the secret that `writeToFile` keeps (nothing reads them), fixed
  buffers of the decryption, log levels. `init` of the module interface never connects again after it has failed, which
  is part of the model; that nothing recovers from it is how the code is.
* Without a caller in the program: the older task table of ProbeManager (`proccessTaskMgrHandle`, `probeTaskStart`,
  `probeTaskSearch`, ...), Authenticator's registration and token requests, `GPS::stop`, `query_signal_info`, AtClient's
  PDP contexts, network mode and reset.
* Of the satellite terminal: the fields of its statements, which `main` only logs.
* Of CJsonObject: documents inside documents beyond one level, null values, printing of strings, `Get(float)`, doubles
  from 10^9 on, whole ones beyond 64 bits, and that a fraction below DBL_EPSILON is printed as none.
* A negative collection interval, of which `sleep_for` makes a busy loop (probe_manager.cpp:1179).
* DiagEventBus, and the drivers beyond what their queries may return.
* Pure conversions: AT parsing, encodings, cryptography, and third-party code (optional, spdlog, nlohmann::json).

## 8. Plan

1. *Proofs*: the three properties of OtaManager that no run checks (section 5). The safety properties of
   the runs are all proved (section 4).
2. *Rest of the collection cycle*: the connectivity probe with its detached thread, the diag fields, fields
   sent once; a finer grain for overlapping cycles, with the races on the statics as choices.
3. *DiagEventBus*: the ring with its subscribers.

The runs stay few: one per module or composition for safety with everything the environment may do, one for
liveness or refinement where that needs a smaller environment.
