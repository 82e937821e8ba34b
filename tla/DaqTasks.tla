------------------------------ MODULE DaqTasks ------------------------------
(***************************************************************************)
(* The DAQmx tasks of QNiDaqWrapper. Every method of the wrapper is a      *)
(* fixed sequence of driver calls on one task, written here as a script:   *)
(* for each call, what the method does when the driver reports an error.   *)
(* The threads of the gateway run the scripts call by call, each under the *)
(* mutex of the method, if it has one.                                     *)
(*                                                                         *)
(* The driver is external. It is modelled by what the scripts rely on: a   *)
(* call on a task that was cleared is an error, a task without channels    *)
(* cannot start, and a resource (a module, a counter, a line) belongs to   *)
(* one started task at a time. A handle that the wrapper still remembers   *)
(* is not given out again; the real driver may give out the number of a    *)
(* cleared task while counterTasksMap holds it, see ReadCounterByName.     *)
(*                                                                         *)
(* resetCounter() is left out: its only call is commented out.             *)
(***************************************************************************)
EXTENDS Naturals, Sequences

CONSTANTS
  Threads,      \* the threads that call the wrapper
  Calls,        \* Calls[t]: the calls thread t makes, see Call
  Resources,    \* modules, counters and lines
  Keys,         \* keys of counterTasksMap
  NoKey,        \* stands for "none of them"
  MaxRetries,   \* maxRetries of the calls that have one
  MaxTasks,     \* bound: tasks the driver can hold
  DriverFails   \* may the driver report errors of its own?

Handles == 1 .. MaxTasks
NoHandle == 0

----------------------------------------------------------------------------
(* The scripts. onError says how the method goes on after an error:        *)
(*   clean   handleErrorAndCleanTask() and throw                           *)
(*   throw   throw, and leave the task                                     *)
(*   reset   as clean, and the entry of the map becomes nullptr            *)
(*   retry   count the attempt; at the limit throw and leave the task,     *)
(*           else clean it and begin again with a new one                  *)
(*   again   count the attempt; at the limit throw, else call again        *)
(*   ignore  log it, if that, and go on                                    *)

DoCall(call, onError) == [call |-> call, onError |-> onError]

ReadCurrentByName ==
  << DoCall("create", "clean"), DoCall("event", "clean"),
     DoCall("chan", "retry"), DoCall("start", "clean"),
     DoCall("read", "clean"), DoCall("stop", "clean"),
     DoCall("clear", "ignore") >>

ReadCurrentByIndex ==
  << DoCall("create", "clean"), DoCall("event", "clean"),
     DoCall("chan", "retry"), DoCall("start", "clean"),
     DoCall("read", "clean"), DoCall("stop", "clean"),
     DoCall("clear", "ignore") >>

(* Starts its task before it has a channel: no attempt can succeed.        *)
ReadVoltageByName ==
  << DoCall("create", "clean"), DoCall("start", "clean"),
     DoCall("clock", "clean"), DoCall("read", "clean"),
     DoCall("stop", "ignore"), DoCall("clear", "ignore") >>

ReadVoltageByIndex_NoRelease ==   \* mutant: a failed read leaves its task started
  << DoCall("create", "clean"), DoCall("event", "clean"),
     DoCall("chan", "retry"), DoCall("clock", "clean"),
     DoCall("start", "clean"), DoCall("read", "throw"),
     DoCall("stop", "clean"), DoCall("clear", "ignore") >>

ReadVoltageByIndex ==
  << DoCall("create", "clean"), DoCall("event", "clean"),
     DoCall("chan", "retry"), DoCall("clock", "clean"),
     DoCall("start", "clean"), DoCall("read", "clean"),
     DoCall("stop", "clean"), DoCall("clear", "ignore") >>

(* The task of a counter stays in counterTasksMap. An error of the start   *)
(* cleans the task and leaves its handle in the map. Here every later call *)
(* on that handle is an error; should the driver give the number out again *)
(* meanwhile, the reading would use the task of another method.            *)
ReadCounterByName_ReadCleans ==   \* mutant: a failed read cleans the task too
  << DoCall("create", "reset"), DoCall("chan", "reset"),
     DoCall("term", "ignore"), DoCall("start", "clean"),
     DoCall("read", "clean") >>

ReadCounterByName ==
  << DoCall("create", "reset"), DoCall("chan", "reset"),
     DoCall("term", "ignore"), DoCall("start", "clean"),
     DoCall("read", "ignore") >>

ReadCounterByIndex ==
  << DoCall("create", "reset"), DoCall("chan", "reset"),
     DoCall("read", "again") >>

SetRelayByName ==
  << DoCall("create", "clean"), DoCall("chan", "clean"),
     DoCall("start", "clean"), DoCall("write", "clean"),
     DoCall("clear", "ignore") >>

SetRelayByIndex ==
  << DoCall("create", "clean"), DoCall("chan", "clean"),
     DoCall("start", "clean"), DoCall("write", "clean"),
     DoCall("clear", "ignore") >>

TestSetRelay ==
  << DoCall("create", "clean"), DoCall("chan", "clean"),
     DoCall("start", "clean"), DoCall("write", "clean"),
     DoCall("clear", "ignore") >>

GetDevicesList == << DoCall("create", "throw"), DoCall("clear", "ignore") >>

(* The sampling threads: after the stop they go back to the start.         *)
ReadMod1 ==
  << DoCall("create", "throw"), DoCall("chan", "clean"),
     DoCall("clock", "clean"), DoCall("start", "clean"),
     DoCall("read", "clean"), DoCall("stop", "ignore") >>

ReadMod2 ==
  << DoCall("create", "throw"), DoCall("chan", "clean"),
     DoCall("clock", "clean"), DoCall("start", "clean"),
     DoCall("read", "clean"), DoCall("stop", "ignore") >>

(* initMod3() and readMod3Samples().                                       *)
ReadMod3 ==
  << DoCall("create", "throw"), DoCall("chan", "clean"),
     DoCall("clock", "clean"), DoCall("start", "clean"),
     DoCall("read", "clean"), DoCall("stop", "ignore") >>

ReadMod4 ==
  << DoCall("create", "throw"), DoCall("chan", "clean"),
     DoCall("clock", "clean"), DoCall("start", "clean"),
     DoCall("read", "clean"), DoCall("stop", "ignore") >>

Scripts ==
  [ readCurrentByName  |-> ReadCurrentByName,
    readCurrentByIndex |-> ReadCurrentByIndex,
    readVoltageByName  |-> ReadVoltageByName,
    readVoltageByIndex |-> ReadVoltageByIndex,
    readCounterByName  |-> ReadCounterByName,
    readCounterByIndex |-> ReadCounterByIndex,
    setRelayByName     |-> SetRelayByName,
    setRelayByIndex    |-> SetRelayByIndex,
    testSetRelay       |-> TestSetRelay,
    getDevicesList     |-> GetDevicesList,
    readMod1 |-> ReadMod1, readMod2 |-> ReadMod2,
    readMod3 |-> ReadMod3, readMod4 |-> ReadMod4 ]

Samplers == {"readMod1", "readMod2", "readMod3", "readMod4"}

(* The methods that keep their task in an entry of counterTasksMap.        *)
Keeping == {"readCounterByName", "readCounterByIndex"}

(* A call: the method, the entry it looks up and the resource it uses. The *)
(* two ways to read a counter use different keys: the name of the channel, *)
(* and the alias of the module with that name.                             *)
Call == [op : DOMAIN Scripts, key : Keys \cup {NoKey}, res : Resources]

Mutexes == {"current", "voltage", "counters", "alarms"}
NoMutex == "none"

MutexOf(op) ==
  CASE op \in {"readCurrentByName", "readCurrentByIndex"} -> "current"
    [] op \in {"readVoltageByName", "readVoltageByIndex"} -> "voltage"
    [] op \in {"readCounterByName", "readCounterByIndex"} -> "counters"
    [] op \in {"setRelayByName", "setRelayByIndex", "testSetRelay"} -> "alarms"
    [] OTHER -> NoMutex

ASSUME DaqAssumption ==
  /\ Calls \in [Threads -> SUBSET Call]
  /\ NoKey \notin Keys
  /\ MaxRetries \in Nat \ {0}
  /\ MaxTasks \in Nat \ {0}
  /\ DriverFails \in BOOLEAN
  /\ \A t \in Threads : \A c \in Calls[t] : 
       c.op \in Keeping => c.key \in Keys

----------------------------------------------------------------------------

VARIABLES
  alive,    \* the process runs
  tasks,    \* tasks[h]: the driver's task of handle h
  known,    \* the keys that are in counterTasksMap
  entry,    \* entry[k]: the handle counterTasksMap holds under k
  owner,    \* owner[m]: the threads inside mutex m
  call,     \* call[t]: the call thread t is inside, or NoCall
  pc,       \* pc[t]: the position in its script
  handle,   \* handle[t]: its local variable taskHandle
  tries     \* tries[t]: its retryCount

mapVars == <<known, entry>>
localVars == <<call, pc, handle, tries>>
vars == <<alive, tasks, mapVars, owner, localVars>>

NoCall == [op |-> "none", key |-> NoKey, res |-> "none"]
NoTask == [state |-> "none", key |-> NoKey, res |-> "none"]

TypeOK ==
  /\ alive \in BOOLEAN
  /\ tasks \in [Handles -> [state : {"none", "created", "ready", "started"},
                            key : Keys \cup {NoKey},
                            res : Resources \cup {"none"}]]
  /\ known \subseteq Keys
  /\ entry \in [Keys -> Handles \cup {NoHandle}]
  /\ owner \in [Mutexes -> SUBSET Threads]
  /\ call \in [Threads -> Call \cup {NoCall}]
  /\ pc \in [Threads -> 0 .. 8]
  /\ handle \in [Threads -> Handles \cup {NoHandle}]
  /\ tries \in [Threads -> 0 .. MaxRetries - 1]

Init ==
  /\ alive = TRUE
  /\ tasks = [h \in Handles |-> NoTask]
  /\ known = {}
  /\ entry = [k \in Keys |-> NoHandle]
  /\ owner = [m \in Mutexes |-> {}]
  /\ call = [t \in Threads |-> NoCall]
  /\ pc = [t \in Threads |-> 0]
  /\ handle = [t \in Threads |-> NoHandle]
  /\ tries = [t \in Threads |-> 0]

Script(t) == Scripts[call[t].op]
Now(t) == Script(t)[pc[t]]
Position(script, c) == CHOOSE i \in DOMAIN script : script[i].call = c

Live(h) == h # NoHandle /\ tasks[h].state # "none"

(* handleErrorAndCleanTask() and DAQmxClearTask().                        *)
Cleaned(h) == IF Live(h) THEN [tasks EXCEPT ![h] = NoTask] ELSE tasks

(* The handles the program remembers.                                      *)
Remembered == {entry[k] : k \in known} \cup {handle[t] : t \in Threads}

Unused == {h \in Handles : ~Live(h) /\ h \notin Remembered}
NextHandle == CHOOSE h \in Unused : \A g \in Unused : h <= g

Available(h) ==
  \A g \in Handles \ {h} :
    tasks[g].state = "started" => tasks[g].res # tasks[h].res

(* What the driver asks of a call on the task h.                           *)
Accepts(h, c) ==
  IF c = "create" THEN Unused # {}
  ELSE /\ Live(h)
       /\ c \in {"clock", "term", "start", "read", "write"} =>
            tasks[h].state # "created"
       /\ c = "start" => tasks[h].state = "ready"
       /\ c \in {"start", "read", "write"} => Available(h)

----------------------------------------------------------------------------
(* A call takes its mutex and looks up the task it keeps.                  *)

Free(m) == m \in Mutexes => owner[m] = {}

Enter(t, c) ==
  LET m == MutexOf(c.op)
      keeps == c.op \in Keeping
      found == keeps /\ entry[c.key] # NoHandle
  IN
  /\ alive /\ call[t] = NoCall
  /\ Free(m)
  /\ owner' = [n \in Mutexes |-> IF n = m THEN {t} ELSE owner[n]]
  /\ call' = [call EXCEPT ![t] = c]
  /\ known' = IF keeps THEN known \cup {c.key} ELSE known
  /\ handle' = [handle EXCEPT ![t] = IF found THEN entry[c.key] ELSE NoHandle]
  /\ pc' = [pc EXCEPT ![t] =
              IF found THEN Position(Scripts[c.op], "read") ELSE 1]
  /\ UNCHANGED <<alive, tasks, entry, tries>>

----------------------------------------------------------------------------
(* The steps of a script.                                                  *)

(* Leave the method, by return or by a throw that its caller catches.      *)
Leave(t) ==
  /\ call' = [call EXCEPT ![t] = NoCall]
  /\ pc' = [pc EXCEPT ![t] = 0]
  /\ handle' = [handle EXCEPT ![t] = NoHandle]
  /\ tries' = [tries EXCEPT ![t] = 0]
  /\ owner' = [m \in Mutexes |-> owner[m] \ {t}]

(* Nothing catches what a sampling thread throws: std::terminate.          *)
Throw(t) ==
  /\ alive' = (call[t].op \notin Samplers)
  /\ Leave(t)

GoTo(t, i) ==
  /\ pc' = [pc EXCEPT ![t] = i]
  /\ UNCHANGED <<alive, owner, call>>

Advance(t) ==
  \/ /\ pc[t] < Len(Script(t))
     /\ GoTo(t, pc[t] + 1)
     /\ UNCHANGED <<handle, tries>>
  \/ /\ pc[t] = Len(Script(t)) /\ call[t].op \in Samplers
     /\ GoTo(t, Position(Script(t), "start"))
     /\ UNCHANGED <<handle, tries>>
  \/ /\ pc[t] = Len(Script(t)) /\ call[t].op \notin Samplers
     /\ Leave(t)
     /\ UNCHANGED alive

TaskAfter(h, c) ==
  CASE c = "chan"  -> [tasks[h] EXCEPT !.state = "ready"]
    [] c = "start" -> [tasks[h] EXCEPT !.state = "started"]
    [] c = "stop"  -> [tasks[h] EXCEPT !.state = "ready"]
    [] c = "clear" -> NoTask
    [] OTHER       -> tasks[h]

CreateTask_Copied(t) ==   \* mutant: a copy of the entry is filled, not the entry
  LET h == NextHandle
      k == call[t].key
  IN
  /\ alive /\ call[t] # NoCall /\ Now(t).call = "create"
  /\ Accepts(handle[t], "create")
  /\ tasks' = [tasks EXCEPT ![h] =
       [state |-> "created", res |-> call[t].res,
        key |-> IF call[t].op \in Keeping THEN k ELSE NoKey]]
  /\ handle' = [handle EXCEPT ![t] = h]
  /\ GoTo(t, pc[t] + 1)
  /\ UNCHANGED <<mapVars, tries>>

CreateTask(t) ==
  LET h == NextHandle
      k == call[t].key
  IN
  /\ alive /\ call[t] # NoCall /\ Now(t).call = "create"
  /\ Accepts(handle[t], "create")
  /\ tasks' = [tasks EXCEPT ![h] =
       [state |-> "created", res |-> call[t].res,
        key |-> IF call[t].op \in Keeping THEN k ELSE NoKey]]
  /\ entry' = IF call[t].op \in Keeping THEN [entry EXCEPT ![k] = h] ELSE entry
  /\ handle' = [handle EXCEPT ![t] = h]
  /\ GoTo(t, pc[t] + 1)
  /\ UNCHANGED <<known, tries>>

CallDriver(t) ==
  LET h == handle[t]
      c == Now(t).call
  IN
  /\ alive /\ call[t] # NoCall /\ c # "create"
  /\ Accepts(h, c)
  /\ tasks' = [tasks EXCEPT ![h] = TaskAfter(h, c)]
  /\ Advance(t)
  /\ UNCHANGED mapVars

(* The driver reports an error: because it must, or on its own account. It *)
(* always lets go of a task that is cleared.                               *)
Errs(t) ==
  /\ alive /\ call[t] # NoCall
  /\ \/ ~Accepts(handle[t], Now(t).call)
     \/ DriverFails /\ Now(t).call # "clear"

ErrorThrows(t) ==
  LET k == call[t].key
      h == handle[t]
      resets == Now(t).onError = "reset"
  IN
  /\ Errs(t)
  /\ Now(t).onError \in {"clean", "throw", "reset"}
  /\ tasks' = IF Now(t).onError = "throw" THEN tasks ELSE Cleaned(h)
  /\ entry' = IF resets THEN [entry EXCEPT ![k] = NoHandle] ELSE entry
  /\ Throw(t)
  /\ UNCHANGED known

LastTry(t) == tries[t] + 1 >= MaxRetries

ErrorRetries_Uncounted(t) ==   \* mutant: retryCount stays 0
  /\ Errs(t)
  /\ Now(t).onError \in {"retry", "again"}
  /\ tasks' = IF Now(t).onError = "retry" THEN Cleaned(handle[t]) ELSE tasks
  /\ handle' = IF Now(t).onError = "retry"
               THEN [handle EXCEPT ![t] = NoHandle] ELSE handle
  /\ GoTo(t, IF Now(t).onError = "retry" THEN 1 ELSE pc[t])
  /\ UNCHANGED <<mapVars, tries>>

ErrorRetries(t) ==
  /\ Errs(t)
  /\ Now(t).onError \in {"retry", "again"}
  /\ ~LastTry(t)
  /\ tries' = [tries EXCEPT ![t] = @ + 1]
  /\ tasks' = IF Now(t).onError = "retry" THEN Cleaned(handle[t]) ELSE tasks
  /\ handle' = IF Now(t).onError = "retry"
               THEN [handle EXCEPT ![t] = NoHandle] ELSE handle
  /\ GoTo(t, IF Now(t).onError = "retry" THEN 1 ELSE pc[t])
  /\ UNCHANGED mapVars

GivesUp(t) ==
  /\ Errs(t)
  /\ Now(t).onError \in {"retry", "again"}
  /\ LastTry(t)
  /\ Throw(t)
  /\ UNCHANGED <<tasks, mapVars>>

ErrorIgnored(t) ==
  /\ Errs(t)
  /\ Now(t).onError = "ignore"
  /\ Advance(t)
  /\ UNCHANGED <<tasks, mapVars>>

Work(t) ==
  \/ CreateTask(t) \/ CallDriver(t)
  \/ ErrorThrows(t) \/ ErrorRetries(t) \/ GivesUp(t) \/ ErrorIgnored(t)

Next ==
  \E t \in Threads :
    \/ \E c \in Calls[t] : Enter(t, c)
    \/ Work(t)

Spec == Init /\ [][Next]_vars

----------------------------------------------------------------------------
(* Properties.                                                             *)

(* The map of readCounter(): whatever fails, a counter that still has a    *)
(* task never gets a second one, which would start its count again.        *)
OneTaskPerKey ==
  \A g, h \in Handles :
    (tasks[g].key = tasks[h].key /\ tasks[g].key # NoKey) => g = h

(* A task that nobody remembers any more, because its creator gave up on   *)
(* it, has no channel: it cannot be started and keeps no module, counter   *)
(* or line from the others.                                                *)
ForgottenHoldNothing ==
  alive => \A h \in Handles :
    tasks[h].state \in {"ready", "started"} => h \in Remembered

(* A failed reading of a counter must not cost the counter its task: an    *)
(* entry of counterTasksMap loses its task under the handle that it goes   *)
(* on holding only when the start of that task has failed.                 *)
TaskLost(k) ==
  /\ k \in known /\ Live(entry[k])
  /\ entry'[k] = entry[k] /\ tasks'[entry[k]] = NoTask

LostAtStart ==
  [][\A k \in Keys : TaskLost(k) =>
       \E t \in Threads : /\ call[t].op \in Keeping /\ call[t].key = k
                          /\ Now(t).call = "start"]_vars

(* No thread is left with a handle that another thread cleared: a clear    *)
(* takes the handle from every thread that was using the task.             *)
NoHandlePulled ==
  [][\A h \in Handles : (tasks[h] # NoTask /\ tasks'[h] = NoTask) =>
       \A t \in Threads : handle'[t] # h]_vars

(* Whatever the driver answers, a method comes to its end: each of its     *)
(* steps leaves it, or moves on in the script, or counts an attempt, and   *)
(* both are bounded.                                                       *)
CallsProgress ==
  [][\A t \in Threads :
       (call[t] # NoCall /\ call[t].op \notin Samplers) =>
         \/ UNCHANGED <<call[t], pc[t], tries[t]>>
         \/ call'[t] = NoCall
         \/ tries[t] < tries'[t]
         \/ tries[t] = tries'[t] /\ pc[t] < pc'[t]]_vars

(* "Ensure the map entry is reset after cleanup": when nobody is inside    *)
(* countersMutex, an entry of the map is a live task or nothing.           *)
EntryReset ==
  owner["counters"] = {} =>
    \A k \in known : entry[k] # NoHandle => Live(entry[k])

(* The readings by hand take a mutex to "ensure thread safety": with a     *)
(* driver that never fails by itself, none of them ends the process.       *)
GatewaySurvives == alive

============================================================================
