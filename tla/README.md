# A verification model of dataDrill

dataDrill runs on a National Instruments cRIO. It samples analogue, counter and
digital modules through DAQmx and serves the result as a Modbus TCP gateway; an
SSL command server lets operators switch between acquisition and simulation,
read single channels and exchange files. This directory holds TLA+ models of the
parts of that program where several threads meet, TLC configurations that check
them, and TLAPS proofs of their main invariants. All paths below are relative to
`src/src/`.

## 1. The system

### Threads

| thread | started at | runs |
|---|---|---|
| boot | `main.cpp` | creates everything, starts the command server, then `startAcquisition()`, then sleeps for ever |
| simulation timer, acquisition timer | `timers/simpleTimer.h:30` | `onSimulationTimerTimeOut()`, `onDataAcquisitionTimerTimeOut()` every interval |
| Modbus server | `main.cpp` | `NewModbusServer::runServer()`: select, accept, requests |
| command accept thread | `CrioSSLServer.cpp:48` | `acceptClients()` |
| one per command client | `CrioSSLServer.cpp:267` | `handleClient()`, `parseRequest()` |
| readMod1, readMod2, readMod3 | `main.cpp:146-149` | endless DAQmx reads into rolling windows |

### Components

* **Timers** (`timers/simpleTimer.h`). State: `m_active`, `m_timerThread`.
  Operations: `start()`, `stop()`, the thread's loop. Neither `start()` nor
  `stop()` is atomic. Correct if the flag tells the truth about the thread, if
  `stop()` returns with the thread gone, and if it returns at all.
* **Bridge, run control** (`Bridge/niToModbusBridge.cpp:428-538`). State: the two
  timers, `m_realDataBufferLine`. Operations: start and stop of simulation and
  acquisition, called by the boot thread and by every command thread without a
  lock. Correct if one source at a time feeds the registers, no sequence of
  commands ends or blocks the process, and the line is not resized under a tick;
  the code keeps this only until commands meet, and the model says which.
* **Bridge, ticks** (`:540-969`). State: line, counters' last values, simulation
  step. Operations: read each mapped channel, interpolate, publish; simulate;
  drive relays. Correct if a tick is published as a whole, at the mapped
  registers, and a failed channel does not silently freeze the rest.
* **Bridge, mapping** (`:68-426`). Loads the channel and alarm mappings once.
* **Modbus server, connections** (`Modbus/NewModbusServer.cpp`). State: `refset`,
  `fdmax`, `clientList`. Operations: select loop, accept, one request or a burst
  of coil writes, disconnection. Correct if the three agree with the sockets
  held, no descriptor is mistaken for an earlier one, and every master is served.
* **Modbus server, registers**. State: `mb_mapping`. Written by the timer thread
  (`reMapInputRegisterValuesForAnalogics`), read by `modbus_reply()`. Correct if
  a reply is consistent and recent.
* **Modbus server, coils**. Function codes 0x05 and 0x0F drive relays through
  `setRelays()`; the simulation drives the same ones. Correct if acknowledged
  writes took effect and the last write wins.
* **Command server** (`TCP Command server/CrioSSLServer.cpp`). State:
  `m_clientIPs`, `clientThreads_`, per thread `accumulatedData`. Operations:
  accept and handshake, list, read and split lines, run commands, uploads and
  downloads, shutdown. Correct if every line is answered once, files and
  commands stay apart, and descriptors and entries are released; after a refused
  upload the second cannot be kept.
* **DAQmx wrapper** (`NiWrappers/QNiDaqWrapper.cpp`). State: task handles per
  key, rolling windows, four mutexes. Operations: reads with retries, continuous
  reads of modules 1 to 4, counters, relays. Correct if a counter has one task
  and keeps it whatever fails, a call that fails keeps no module or line, and
  every call ends.
* **Channel readers and writers** (`channelReaders/`, `channelWriters/`). Look a
  module up by alias and read a window, a counter, or drive an output; a writer
  swallows what the wrapper throws.
* **Thread-safe vector** (`threadSafeBuffers/threadSafeVector.h`). `copy()` and
  `restore()` of a window under a mutex. Correct if a tick never sees an older
  window than was there when it began.
* **Device modules and ini files** (`NiModulesDefinitions/`,
  `filesUtils/iniObject.cpp`,
  `QNiSysConfigWrapper::EnumerateCRIOPluggedModules()`). State: a module's
  settings and its file. Operations, at every start: built-in settings, alias,
  load, truncate, save. Correct if limits stay ranges, a proper file is taken,
  and settings do not drift from start to start.
* **Thread-safe circular buffer**, **filters**, **helpers**: unused at run time or
  pure; see the list of components in `PROJECT.json`.
* `CrioTCPServer` is the plain-text predecessor and is never created. mINI,
  iniCpp, the circular buffer, libmodbus and the NI headers are third-party.

### Interactions

    command threads --start/stop--> bridge <--start-- boot
                                      |
                        simulation / acquisition timer
                                      | one tick: a vector of registers
                                      v
                 mb_mapping (mb_mapping_mutex, taken by the writer only)
                                      ^ modbus_reply(), no mutex
                                      |
    Modbus masters <--select loop--> Modbus server --setRelays--> relays

### What is hard here

Start and stop sequences of several threads interleave without a lock; a thread
object is assigned while it may hold a thread; `join()` waits for a flag that
others may raise again; registers are read while they are written; descriptors
are closed and given out again while tables keyed by them still hold the old
owner; one handler of a single-threaded server blocks all the others; stream
reads do not respect lines. `PROJECT.json` lists these hazards with the lines
where they bite and the properties that watch them.

## 2. Modules

### `SimpleTimer`, `BridgeControl` and the abstract `BridgeMode`

`SimpleTimer` holds the flag, the thread's program point (`"none"` when
`m_timerThread` is not joinable) and the caller that joins it. Each of its
operators is one atomic access of `start()`, `stop()` or the loop. `join()` on a
thread that somebody else is joining, or that is no longer joinable, fails: this
is what glibc's `pthread_join` reports and `std::thread::join` turns into a
`std::system_error`.

`BridgeControl` adds the callers. A command goes through the program points

    idle -> asked -> entered -> prepare -> lower -> probe -> join -> joining -> raise -> launch -> idle

of which a stop command uses `lower .. joining` and `prepare` is the resize of
`m_realDataBufferLine` (only `startAcquisition()`). Every early return, both
`isActive()` tests (command server and bridge) and every catch block is an
action. The boot thread starts at `entered`, with the command server already
accepting clients, as `main.cpp:156-162` does. Assigning a joinable `std::thread`
sets `terminated`; so may the resize of the line during a tick or beside another
resize, the worst outcome of that data race. With `SpawnMayFail` the
`std::thread` constructor may throw after the flag was raised. Nothing keeps the
callers apart: every interleaving of the boot's start, the clients' commands and
the timer threads is a behaviour.

Three history variables, which no guard reads, say what the commands have met:
`clash` (two start commands under way at once), `crossed` (a start and a stop of
the timer it starts) and `orphan[t]` (a thread for the raised flag could not be
created). What the bridge keeps is stated with them: the timers exclude each
other until two starts clash, stops and failures notwithstanding
(`ExclusiveUntilClash`); the process does not end, and the line is not resized
under a tick, until a start has met another start or a stop of its timer
(`EndsOnlyWhenMet`, `LineNotShared`); every command returns but one that waits
for a thread whose flag a start it has met has raised again (`CommandReturns`);
a stop that answers is complete, or another caller is still waiting for that
thread (`StopIsComplete`).

`BridgeMode` is what the bridge promises: one source in force, entered from
"idle" only, left between ticks only, and alone in publishing, until it is
`disturbed`, after which it promises nothing. `BridgeControl` maps to it by
`ModeInForce` (the timer whose thread has not yet left its loop), "some thread is
in its slot function" and `clash`.

### `ModbusServer`

The loop of `runServer()` and `handleClientRequest()` over a small operating
system: the sockets held, the connections waiting, the requests waiting in each
socket. `Select` copies `refset` to `rdset`; `Reaches` is the scan up to the
current `fdmax`, which may change during the scan; `Accept` is
`handleNewConnection()`, with the descriptor chosen freely among the unused
ones; `ReceiveCoil` stays in the handler and blocks again on the same socket,
`ReceiveOther` leaves it; `CloseClient` is the `rc == -1` branch with
`findMaxSocket()`. Replies and register contents are left out.

### `RegisterImage`

`reMapInputRegisterValuesForAnalogics()` and `modbus_reply()` register by
register. Each register holds the source and number of the tick that wrote it.
The mutex is taken by one thread only, so it is not a variable. The run control
enters through `Control == INSTANCE BridgeMode`, so this module composes with
the bridge at the level of its abstract specification: what it shows of the
registers holds as long as no two start commands have met. `Width` is the number
of registers in a tick of each source: equal in general, but one more for a
simulated tick in the compatibility mode (`m_modeSRU`, line 760), which the
shipped `modBus.ini` switches on and the runs use. `last` keeps the last
published tick of each source: a register beyond an acquired tick holds the last
simulated one (`NewestReaching`), since nothing clears it. `SRUMapping`
computes it from the settings of `modBus.ini`: what each register of a simulated
tick stands for, how long the line of an acquired one is, and how much of a tick
is copied. The widths of the instances are tied to it by an assumption
(`WidthsAreConfigured`).

### `CommandServer`

The accept thread (`Accept`, `HandshakeDone`, `HandshakeFails`, `Register`) and
one thread per connection (`read`, `line`, `upload`, `shutdown`, `closed`). What
clients send is a sequence of records of tokens: "cmd", "put" and "eol" in
commands, "data" and "nl" in files, which are ini and csv files with lines of
their own; to the server both "eol" and "nl" are the newline it looks for.
`SSL_read()` returns one record. A connection in `Polite` waits for each answer;
the others may send two lines in one record. A client may send half a line, a
line that is too long, or leave at any moment. An upload may be refused when its
file cannot be opened; the client sends the file all the same, and its lines are
run as commands (`TakeLine`), each with an answer that the client takes for one
to a command of its own. An empty line has no tokens, and `parseRequest()` reads
the first of them: `EmptyLineEnds` is the build in which that ends the process,
`RunCommand` the one in which it is an unknown command.

`asked`, `answered`, `filed` (command lines that an upload took for its data) and
`strayed` (lines of a file that were run) keep the account of a client, `refused`
whether an upload of its was refused. The effect of the commands themselves is
that of `BridgeControl`.

### `AcquireData`

The acquisition tick, `acquireData()`, row by row of the mapping, together with
the sampling threads that feed it. A sampling thread goes through "sample",
"average", "first" and "second"; the last two are `restore()` and the keeping of
the old window, whose order differs between modules 1 and 2 and module 3
(`OldFirst`). `ReadAnalog` copies a buffer; `RowThrows` is `getModuleByAlias()`
of a module that is not plugged, whose exception ends the loop without a
publication; each counter row walks over all counter rows (`CountersBegin`,
`SkipRow`, `ReadCounter`), and rows of other modules are passed over
(`PassRow`). A counter's edges are counted without wrapping beside the wrapped
count that the program sees, time in timer periods. Windows are known by their
numbers, and by those averaged into them.

### `MappingFiles`

`loadMapping()` and `loadAlarmMapping()` as folds over the lines of the two
files. A line with a field that is missing, or that `std::stoi` or `std::stof`
finds no number in (`NoNumber`), is skipped, the others are kept in order. A
number out of range is not caught and ends the program, so no later state
exists. The rows that `acquire`, `acquire_frequency` and `relay` use are what
these operators return for files with bad lines among the good ones; an
assumption of their MC modules (`RowsAreLoaded`) says so.

### `DaqTasks`

Every method of `QNiDaqWrapper` that creates a task is a script: a sequence of
driver calls and, for each, what the method does after an error (throw, clean
and throw, reset the map entry, retry with a new task, call again, ignore). The
threads run the scripts call by call, under the mutex of the method, if it has
one. The driver is external: it refuses calls on cleared tasks, starts of tasks
without a channel or of a resource another started task holds, and may fail at
any call. A handle that the wrapper still remembers is not given out again; the
real driver might give out one that `counterTasksMap` holds of a cleared task.

The calls of the instance are those the program makes: the timer's thread reads
counters by name, and no other thread reads them (`CrioSSLServer` has no command
that does); command clients read modules by index; `readMod1..3` run on the
threads of `main()`. `resetCounter()` is left out, as its only call is commented
out (`digitalReader.cpp:50`).

### `ModuleConfig`

A module of the factory and its ini file over any number of starts: `Start` (new
object, alias of the chassis), `Load` key by key in the order of
`loadFromFile()`, with the guarded setters and the defaults that are written
back, `Truncate` (`fopen(..., "w")`), `Save` key by key as `saveToFile()` writes
them, each a read-modify-write of the file. The keys `type`, `edgecountingmode`
and `countingdirection` are left out: nothing else depends on them. Between two
starts a user edits or deletes the file or renames the module; the power may
fail between any two steps and within a write. `calm` remembers whether the
starts before were undisturbed. Constants: what `initModule()` sets per type,
and the values a user writes.

`DeviceModules` has the factory and the five modules it makes, each with what its
`initModule()` sets over the members' initialisers. Limits are in the unit of the
module's range (mA, V). The names of the relay module are counted, not spelled:
from the second port on they are built from the wrong prefix
(`NI9481.cpp:34`), so that only the first four lines are named properly.

### `RelayPath`

Coil writes from the masters to the outputs. A request is one coil or several;
`Receive` takes it, `SkipCoil` and `DriveCoil` are `setRelays()` of a coil
without and with a row, `CoilWritten` is the end of `setRelayState()` (done,
failed, or refused because another task holds the line), `Answer` the
acknowledgement. The simulation drives line after line at each tick. Both pass
`alarmsMutex` (`Drive`). Masters repeat their last write whenever they like:
they get no answer to a multiple write, nor to any write in the compatibility
mode. `wanted` is what the only master of a relay asked for last, `sure` are the
relays whose last write came from the server and went well.

## 3. Runs

Every property of a passing run has a mutant: a variant of a definition with a
plausible bug (`EnterBridge_KeepsOther`, `CloseClient_KeepsMax`, ...) under which
TLC finds that property violated.

| run | instance | shows |
|---|---|---|
| `bridge` | boot, 2 clients, any interleaving, threads may not be created | exclusion and refinement of `BridgeMode` until two starts clash; no end of the process and no unsafe resize until a start meets another command for its timer; complete stops; an active flag stands for a thread |
| `bridge_live` | boot, 1 client, any interleaving, threads may not be created | every command returns, but for the one case; an active timer ticks |
| `bridge_conflict` | boot, 1 client, any interleaving | **violated**: both timers run |
| `modbus` | 3 descriptors around the listening one, 1 request per socket, 2 connections waiting | bookkeeping, no stale descriptor, no blocking but in bursts, service as long as passes end |
| `image` | 4 registers, 4 ticks, the compatibility mode: simulated ticks of 4 registers, acquired ones of 3 | whole ticks, recent replies, the newest tick that reaches a register |
| `image_torn` | 3 ticks | **violated**: the two words of a counter come from two ticks |
| `command` | 2 connections sharing a descriptor, lines of 4 tokens, files of 2 with any newlines, 2 commands of a client that waits and 4 of one that does not | lines conserved, those of refused files included, framing for the client that waits, its answers, no ghost entries, descriptors released |
| `acquire` | 4 rows from a file with bad lines: a sampled module, a counter, a module that may be missing, a coder; words of one bit, 2 ticks, 6 periods | whole and recent ticks, words of one reading, no frequency too high across the wrap |
| `acquire_frequency` | 2 counters, 3 ticks, 2 periods to a second | **violated**: a counter that counts keeps the frequency 0 |
| `daq` | the timer on 2 counters, 2 clients and 1 sampler on a module, 3 tasks, 2 attempts, a driver that fails at will | one task per counter, lost only at a failed start, nothing held by a call that gave up, every call ends |
| `config` | the five products, 2 changes between two starts, limits below, inside and above the range, the largest count scaled down | ranges, files taken, settings that change at most once over undisturbed starts, with power failures at any step |
| `relay` | 2 masters, 2 relays, 3 mapped coils, 2 requests waiting each, the simulation on one relay | last command stands, acknowledgements are honest, requests are worked off |

Bounds. Two clients and the boot thread are enough for every pair of commands to
overlap with a third caller behind, and the safety properties are proved for any
number of clients; the boot and one client are enough for every pair of
overlapping commands, on which `CommandReturns` and `ActiveTimerTicks` depend.
Where clients, or the aliases of a module, are interchangeable, the runs without
liveness use symmetry. Three descriptors, one below and two above the listening
socket, make `fdmax` fall to another client and to the listening socket, and let
a number be given out again within a pass. Four registers leave registers before
and in the pair of the counter's words, and one beyond an acquired tick; four
ticks allow simulation, acquisition and back. One descriptor forces its reuse;
two connections suffice for the race, and four commands of the hasty client for
the server to be a line behind when a file comes, and to write the next line to
the file. A counter of two one-bit words wraps after four edges, so every
difference of two counts occurs, wrapped or not; two ticks with readings that
may fail give each reading a predecessor of either kind. One analogue row before
and one after the counter let a tick end before, and after, it has written
registers. Two attempts tell a retry from the last one; three tasks are fewer
than the threads and counters ask for, so a creation fails too. Limits below,
inside and above a module's range meet every guard of the setters from either
side; two changes allow an edit of both limits, or of a number and its opposite.
The largest count, 4294967295, is 9 there: only comparisons of counts matter. A
relay of its own and one shared with the simulation and by two coils, as the
shipped mapping has it, cover the path; the coil between them has no relay. The
remaining bounds (`MaxInbox`, `MaxBacklog`, `MaxQueue`, `MaxTick`,
`MaxCommands`, `MaxUnderWay`) only limit how much is pending or sent.

Deadlock is not checked where the system may really stop: in the bridge after
`std::terminate` or in a lasting wait, in the command server when all
connections are used up or the process has ended, in the acquisition at the
bounds of time and ticks, in the wrapper after `std::terminate`, and in a
module's configuration, which may rest after a start.

Fairness. Weak fairness of each server thread: they are ordinary threads of a
running process, and every blocking call is a guard. Clients, masters and
operators owe nothing. `ServedIfPassesEnd` and `ForgottenIfPassesEnd` have the
premise that passes end, which is needed: the burst loop waits for a master
that may stay silent. In `RelayPath` the handler's wait for `alarmsMutex` has
strong fairness: the simulation releases it after every line and sleeps between
two ticks, so it is free again and again. `CallsProgress` of `DaqTasks` needs no
fairness: it says that every step of a call moves on or counts an attempt.
`ActiveTimerTicks` needs no assumption on callers: while a command is under way
it promises nothing. `CommandReturns` names the one wait that no fairness ends.

Findings. The three violation runs are disagreements between the code and its
own comments; `PROJECT.json` quotes the comments. The start and stop sequences
of the two timers need one lock around check, stop and start; `modbus_reply()`
needs the mutex the writer takes; the frequency of a counter needs a time finer
than seconds.

The models show more behaviours that a maintainer should know of. Properties
that state the contrary are kept in the modules, beside the checked ones; they
do not hold, and no run checks them:

* Two overlapping starts of one timer assign a joinable `std::thread`, which ends
  the process; so does a start that overlaps a stop of its timer, which finds the
  thread not yet joined. A stop whose flag a start raises again waits for ever.
  `EndsOnlyWhenMet` and `CommandReturns` say that this takes such a meeting; the
  boot's start is enough for one.
* A master that sends one write single coil request and then nothing starves all
  other masters (`Served` in `ModbusServer`; `NewModbusServer.cpp:381`).
* In the compatibility mode, which the shipped `modBus.ini` switches on, a
  simulated tick has one register more than an acquired one, and its last value
  is served for ever after (`CleanSlate` in `RegisterImage`).
* The socket of a command client is closed before its entry is erased; a client
  that gets the same descriptor meanwhile is struck off the list
  (`ServedIsListed` in `CommandServer`), and `getClientList()` walks the map
  without the mutex.
* A client that sends two commands in one record leaves the server one line
  behind, as `handleClient()` takes one line per `SSL_read()`. If the next command
  announces a file, the file's data is accumulated as commands, and the commands
  after it are written to the file (`FramingKeptForAll` in `CommandServer`;
  `CrioSSLServer.cpp:318`). `FramingKept` is about clients that wait for each
  answer.
* The file of a refused upload is read as commands, line by line, and each line is
  answered (`CrioSSLServer.cpp:149`): the client takes these answers for those to
  its later commands. An empty line among them reads the first of no tokens
  (`:378`), which may end the process. `LinesConserved` counts such lines,
  `FramingKept` and `CommandAnswered` name these exceptions.
* A reading by hand of a module that a sampling thread samples makes that
  thread's next start fail; it throws, and the process ends (`GatewaySurvives` in
  `DaqTasks`; `EndsOnlyBlocked` proves that, with a driver that never fails by
  itself, nothing else but a lack of tasks ends it).
* A counter task that cannot be started is cleared but stays in
  `counterTasksMap`; every later reading of the counter fails on the dead handle
  (`EntryReset`; `QNiDaqWrapper.cpp:2132`). `readVoltage` by name starts its task
  before it has a channel and can never succeed.
* A failed reading of a counter is published as the count 0; with several
  counters in the mapping each is read several times per tick, and the second
  reading replaces the frequency of the first by 0 (`FrequencySeen`).
* The two-point average of modules 1 and 2 averages averages, since the old
  window is copied after the average was restored; that of module 3 averages a
  window with the one before the last, and that one may be an average, too
  (`TwoPoint` in `AcquireData`; `NeighboursSkipped` proves it of module 3).
* A power failure while a start saves leaves a partial file, and the module comes
  up with a mixture of its settings and defaults (`PreviousOrDefault` in
  `ModuleConfig`); a module that is renamed in the chassis keeps the alias of its
  file (`AliasSynchronized`).
* A new NI9481 comes up with 20 names for its 4 outputs (`NI9481.cpp:29-38`);
  `saveOutputs()` leaves out a section whose number does not fit its names
  (`NIDeviceModule.cpp:614`), and the next start, though nothing was changed,
  makes 4 names of the first 4. A counter file with another `numberofcounters`
  goes the same way. `StableStart` says that this happens once: the second
  undisturbed start in a row changes nothing. The numbers of counters and
  outputs in a file never reach the object, a file with no counters makes it
  eight; a range whose high limit lies below the built-in low one is refused
  without a word; a list longer than the built-in one is read beyond its end
  (`iniObject.cpp:552`).
* Coils read back what the last acknowledged single write set, never what a
  multiple write or the simulation drove: `reMapCoilsValues()` is not called. The
  shipped mapping (`defaults config files/alarmsMapping.csv`) gives coils 4 and 6
  the same line, `/port0/line2`.
* The Modbus server's thread starts before the mappings are loaded
  (`main.cpp:64`, `:92`).

## 4. Proofs

`BridgeControlProofs`, for any set of clients, under any interleaving and with
threads that may not be created:

* `TypeCorrect` and `FlagIsTruthful` (`ActiveMeansRunning`), which is inductive
  with the types: only the caller that launches lowers no flag in between, and a
  thread leaves its loop only on a lowered flag.
* `Exclusion`, `EndsWhenMet`, `LineSafe`, `StopCompletes` and `Refinement`
  (`ImplementsMode`), from the inductive invariant `ControlInv` in three layers.
  `CallersInv` always holds: a caller's command fits its program point, who waits
  for a thread is its joiner, and the history knows of every meeting of the
  commands now under way. `NoClashInv` holds until two starts clash: never two
  threads at once, and a start that has stopped the other timer finds it without
  a thread up to its own launch, since only another start could give it one.
  `NotMetInv` holds until a start meets a stop of its timer either: a start that
  has found its timer inactive keeps it without a thread, and a thread whose flag
  is down has somebody who is about to join it. None of the five properties is
  inductive without these.

`ModbusServerProofs`, for any descriptors, requests and bounds: `ServerTypes`,
`BookkeepingHolds`, `NothingStaleHolds`, `AheadIsReadyHolds`. The four are
inductive only together: `accept()` takes a connection off a backlog that is not
empty because what `select()` found ready is still ready, and that because the
scan meets registered sockets only.

`RegisterImageProofs`, for any number of registers and ticks and any widths:
`ImageTypes`, `PrefixHolds`, `Freshness`, `NewestStays` from `ImageInv`, which
adds that a publication runs inside a tick not yet done (`TickOrder`) and that
registers still to be read are no older than the tick before the read
(`NothingOlder`).
`SlateIsClean` proves the clean slate under the condition that a simulated tick
is no wider than an acquired one. `WidthsCompare` says for which settings of the
rig that is so: outside the compatibility mode, or with an analogue output, or
with 125 registers and more. Otherwise, as in the shipped `modBus.ini`, the
simulated tick is the wider one and the slate keeps the last register it wrote.
`SlateOfRig` puts the two together. The counting is in `SimulatedLen`, over
sequences of any length.

`CommandServerProofs`, for any connections and descriptors:

* `SocketsHold` and `NoGhostHolds`, from `ListInv`, which adds `SetUpOrder` (who
  is being set up has a descriptor and no thread yet).
* `LinesKept` (`LinesConserved`), for any size of lines and files and any number
  of commands, from `LineInv`: the account of each client balances, and a client
  that waits has at most one line that is not answered, until an upload of its is
  refused. It is proved together with `FrameInv` below (`LinesAndFrames`): that no
  line of a file is run for such a client follows from its framing, and its
  framing from the account. The proof rests on
  lemmas that count the newlines of a sequence (`LinesOfConcat`,
  `FirstLineTaken`) and of a sequence of records (`LinesAppended`, `LinesRead`),
  by bijections instead of an induction.
* `FramingHolds` (`FramingKept`), from `FrameInv`: what a client that waits has
  under way is text, then the pieces of one file (`UnderWay`). The text announces
  a file in its last record only; pieces follow only an announcement that is
  still to be served, or is being served (`Announced`), so the thread that reads
  a line never meets one, unless the upload was refused. A function that marks
  where each record ends in the file, at the latest, bounds their sum without an
  induction: when the upload has its size, nothing of the file is left behind
  (`FlowTaken`, `DataFlows`). That text is sent only when no announcement is
  pending follows from `LineInv`.
* `TypeCorrect`.

`AcquireDataProofs`, for any mapping, chassis, word size and bounds:

* `PublishedWhole` (`WholeTick`) and `PublishedFresh` (`Fresh`). The invariant
  says which registers the current tick has written when it stands at a row, and
  that the walk over the counters has written those of the rows it has passed;
  disjointness of the rows' registers (`MappingAssumption`) keeps later rows from
  undoing earlier ones. Freshness adds that a buffer's window never gets older
  during a tick.
* `AcquisitionTyped` (`TypeOK`), `PublishedWords` (`WordsWhole`) and
  `FrequenciesSound` (`FrequencySound`, an action property), from `CountInv`: the
  words that the line holds of a counter that the tick has passed are those of
  the count kept for it, a good count is the edges modulo 2^32 at an instant
  that has passed, and the image holds the line of the last whole tick. The
  arithmetic is in lemmas: a count is put together again from its two words
  (`DivMod`), and the unsigned difference of two counts is never more than the
  edges between them (`DeltaSound`), however often the count wrapped.
* `NeighboursSkipped`: of a module that keeps its old window before it restores
  the new one (`readMod3()`), no value is ever made of two neighbouring windows,
  since all windows averaged into it are an even number of windows apart
  (`Alternate`); `RollInv` follows the three windows through the thread.

`ModuleConfigProofs`, for any module types, limits and numbers:
`ConfigInductive`, `ConfigTyped` and `ConfigRanges`, where the ranges are
inductive with the types: each setter refuses a limit that would empty the
range, whatever the file says, and built-in ranges are proper. `FilesTaken`
(`FileTaken`) and `StartsStable` (`StableStart`) come from `SettingsInv`, which
follows a start key by key: what has been loaded is what the file holds, or the
default that was written back (`LoadedSoFar`, `LastRead`); what has been saved
is on the disk (`SavedSoFar`); and settings that were saved whole and left alone
are read back as they are (`Settled`, `Untouched`), the low limit before the
high one. `StartsStable` needs `CompleteInv` besides: after an undisturbed start
the file either has the section of the module's kind whole or lacks it, what is
loaded then are the built-in number and as many names (`Completes`), and so two
such starts in a row have left settings that are whole (`BeforeWhole`). Two
assumptions are for this proof: every module is built with a number of channels,
counters or outputs that is not 0, and a counter module is built with one number
under both of its names for it, as `NI9423.cpp` has it. Without the second the
first start, which saves one and loads the other, would not be stable.

`DaqTasksProofs`, for any threads, calls, keys, resources and bounds, and a
driver that may fail at every call: `OneTask`, `NothingHeld`, `LostOnlyAtStart`
and `CallsEnd`, the four properties of the wrapper that are checked, and
`HandlesStay` (`NoHandlePulled`), for instances in which several threads read
counters. `Shape` collects what the fourteen scripts have in common and is
proved script by script. The invariant `TasksInv` says that who works on a
counter is alone inside `countersMutex` (`CountersLocked`) and agrees with the
map on its task (`MapAgrees`), that no two threads hold one task (`Apart`), that
a keyed task is the one in its entry (`KeyedIsEntry`), and that a method which
may give up on its channel has not got one (`NoChannelYet`): this is why the
retries that throw without cleaning (`QNiDaqWrapper.cpp:459`) hold nothing.
`LostOnlyAtStart` adds that the two scripts that keep their task clean it,
without resetting the entry, after an error of the start alone (`KeepersClean`).
`EndsOnlyBlocked` is about what is not so in general, that the gateway survives
the readings by hand (`GatewaySurvives`): with a driver that never fails by
itself, a sampling thread throws only at its creation, with no task left in the
driver, or at a start, with its module in another started task that a method
under way or an entry of `counterTasksMap` holds. It needs two more invariants:
a sampling thread has at each position of its script the task that the call
there needs (`SamplersReady`), and no two started tasks share a resource
(`StartedApart`), so that never a read but only a start is refused.

`RelayPathProofs`, for any masters, mapping and simulation: `AckHonest`
(`AckIsDriven`): at most one thread is inside `alarmsMutex`, so no write of the
server ends in a conflict, and while a single write is served, its coil is still
to be driven or its outcome is known. `RelaysObey` (`Obeyed`): what the only
master of a relay asked for last is either in the last of its requests that
names the relay, waiting or being served, or already driven; a request that is
being served agrees with it from the coil it stands at on. When one relay has
several coils in a request, the last of them decides, on the master's side and on
the server's (`CoilAt`, `Hits`); that there is a last one is a least-element
argument over a well-founded order, the only kind of induction the provers can
use here.

The proofs assume the named assumptions on the constants in the modules, which
TLC evaluates in the runs. Each inductive invariant was evaluated by TLC on the
instance of its run before it was proved (those of `EndsOnlyBlocked` with
`DriverFails = FALSE`, those of `NeighboursSkipped` with the module in
`OldFirst`). Every safety invariant and every action property of the passing
runs is proved. Only model-checked: the liveness properties (`CommandReturns`,
`ActiveTimerTicks`, `ServedIfPassesEnd`, `ForgottenIfPassesEnd`,
`CommandAnswered`, `LeaverReleased`, `RequestEnds`), since TLAPS has no rules
for fairness of parameterized actions and no `ENABLED`; what the folds of
`MappingFiles` return, which would take induction over their lines; and the
three violations.

## 5. Not modelled, and the plan

Not modelled, and why:

* Filters, the interpolation of analogue values and the simulated sine wave:
  floating point, nothing discrete to check.
* The boot order: one thread fills the two mappings once, while the Modbus
  server's thread runs already (see above); every model starts with the mappings
  loaded. The clamping and the characters of a mapping's fields: formatting.
* String, log and conversion helpers: formatting.
* The commands that only read and answer (clocks, lists, single channels): their
  effect is the call of the wrapper in `DaqTasks` and the answered line in
  `CommandServer`.
* `stopServer()`, `CrioTCPServer`, `readMod4`'s windows, the circular buffers,
  `reMapCoilsValues()`: nothing reaches them.
* Vendored code: mINI, iniCpp, the circular buffer, libmodbus and the NI headers
  make up more than half of the repository's lines (the two NI headers alone
  some 13,000), so that no model of the program itself can cover a large share
  of all lines.

Next: the conditions under which the other properties of section 3 that do not
hold in general do hold (`ServedIsListed` while no descriptor is handed out
between a close and the erase that follows, `EntryReset` while every start of a
counter succeeds, `AliasSynchronized` while no module is renamed), and that the
register image's run control is a behaviour of `BridgeMode`.
