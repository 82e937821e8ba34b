--------------------------- MODULE DaqTasksProofs ---------------------------
(***************************************************************************)
(* What the mutexes and the clean-up of the wrapper keep, for any threads, *)
(* calls, resources and keys: one task per entry of counterTasksMap,       *)
(* nothing held by a task that no thread and no entry remembers, no task   *)
(* cleared under another thread, no method that goes on for ever, and what *)
(* ends the gateway.                                                       *)
(***************************************************************************)
EXTENDS DaqTasks, WellFoundedInduction, TLAPS

Ops == DOMAIN Scripts
Onsets == {"clean", "throw", "reset", "retry", "again", "ignore"}

(* What the scripts have in common, whatever they are for.                 *)
Shape(op) ==
  LET s == Scripts[op] IN
  /\ Len(s) \in 2 .. 8 /\ DOMAIN s = 1 .. Len(s)
  /\ s[1].call = "create" /\ s[1].onError \in {"clean", "throw", "reset"}
  /\ \A i \in 2 .. Len(s) : s[i].call # "create" /\ s[i].onError # "throw"
  /\ \A i \in 1 .. Len(s) : s[i].onError \in Onsets
  /\ \A i \in 1 .. Len(s) : s[i].call = "clear" =>
       i = Len(s) /\ s[i].onError = "ignore" /\ op \notin Keeping \cup Samplers
  /\ op \notin Keeping \cup Samplers => s[Len(s)].call = "clear"
  /\ \A i \in 1 .. Len(s) : s[i].onError = "retry" =>
       /\ i = 3 /\ op \notin Keeping \cup Samplers /\ s[2].call = "event"
       /\ s[3].call = "chan"
  /\ \A i \in 1 .. Len(s) : s[i].onError \in {"again", "reset"} => op \in Keeping
  /\ op \in Keeping => Position(s, "read") \in 2 .. Len(s)
  /\ op \in Samplers => Position(s, "start") \in 2 .. Len(s)

----------------------------------------------------------------------------
(* The inductive invariant.                                                *)

Busy(t) == call[t] # NoCall
Keeps(t) == Busy(t) /\ call[t].op \in Keeping

(* A thread is at a position of its script; before the creation it has no  *)
(* task.                                                                   *)
PlacedAt(t) ==
  /\ ~Busy(t) => handle[t] = NoHandle
  /\ Busy(t) => pc[t] \in 1 .. Len(Script(t))
  /\ pc[t] = 1 => handle[t] = NoHandle
  /\ Busy(t) /\ pc[t] > 1 => handle[t] # NoHandle

Placed == \A t \in Threads : PlacedAt(t)

(* Who works on a counter is alone inside countersMutex.                   *)
CountersLocked ==
  \A t \in Threads : Keeps(t) => owner["counters"] = {t}

(* The map and the thread inside the mutex agree on the entry's task.      *)
MapAgrees ==
  /\ \A t \in Threads : Keeps(t) =>
       /\ call[t].key \in known
       /\ entry[call[t].key] = handle[t]
  /\ \A k \in Keys : entry[k] # NoHandle => k \in known
  /\ \A t \in Threads, k \in Keys :
       (entry[k] = handle[t] /\ handle[t] # NoHandle) =>
         Keeps(t) /\ call[t].key = k
  /\ \A j, k \in Keys : (entry[j] = entry[k] /\ entry[j] # NoHandle) => j = k

(* No two threads hold the same task.                                      *)
Apart ==
  \A t, u \in Threads :
    (handle[t] = handle[u] /\ handle[t] # NoHandle) => t = u

(* A task is keyed by the entry that holds it.                             *)
KeyedIsEntry ==
  \A h \in Handles :
    tasks[h].key # NoKey => tasks[h].key \in Keys /\ entry[tasks[h].key] = h

ClearedIsNone ==
  \A h \in Handles : tasks[h].state = "none" => tasks[h] = NoTask

(* A method that may give up on its channel has not got it yet.            *)
NoChannelYet ==
  \A t \in Threads :
    (Busy(t) /\ Len(Script(t)) >= 3 /\ Script(t)[3].onError = "retry" /\ pc[t] \in {2, 3})
      => tasks[handle[t]].state \in {"none", "created"}

NothingForgotten ==
  \A h \in Handles :
    tasks[h].state \in {"ready", "started"} => h \in Remembered

Task ==
  [state : {"none", "created", "ready", "started"},
   key : Keys \cup {NoKey}, res : Resources \cup {"none"}]

Types ==
  /\ alive \in BOOLEAN
  /\ tasks \in [Handles -> Task]
  /\ known \subseteq Keys
  /\ entry \in [Keys -> Handles \cup {NoHandle}]
  /\ owner \in [Mutexes -> SUBSET Threads]
  /\ call \in [Threads -> Call \cup {NoCall}]
  /\ pc \in [Threads -> Nat]
  /\ handle \in [Threads -> Handles \cup {NoHandle}]
  /\ tries \in [Threads -> Nat]

TasksInv ==
  /\ Types /\ Placed /\ CountersLocked /\ MapAgrees /\ Apart
  /\ KeyedIsEntry /\ ClearedIsNone /\ NoChannelYet /\ NothingForgotten


(* Every script has that shape. *)
LEMMA ScriptShapes == ASSUME NEW op \in Ops PROVE Shape(op)
<1>0. op \in {"readCurrentByName", "readCurrentByIndex", "readVoltageByName", "readVoltageByIndex", "readCounterByName", "readCounterByIndex", "setRelayByName", "setRelayByIndex", "testSetRelay", "getDevicesList", "readMod1", "readMod2", "readMod3", "readMod4"}
  BY DEF Ops, Scripts
<1>1. CASE op = "readCurrentByName"
  <2>1. Scripts[op] = ReadCurrentByName
    BY <1>1 DEF Scripts
  <2>. QED
    BY <1>1, <2>1 DEF Shape, Onsets, Keeping, Samplers, Position, DoCall, ReadCurrentByName
<1>2. CASE op = "readCurrentByIndex"
  <2>1. Scripts[op] = ReadCurrentByIndex
    BY <1>2 DEF Scripts
  <2>. QED
    BY <1>2, <2>1 DEF Shape, Onsets, Keeping, Samplers, Position, DoCall, ReadCurrentByIndex
<1>3. CASE op = "readVoltageByName"
  <2>1. Scripts[op] = ReadVoltageByName
    BY <1>3 DEF Scripts
  <2>. QED
    BY <1>3, <2>1 DEF Shape, Onsets, Keeping, Samplers, Position, DoCall, ReadVoltageByName
<1>4. CASE op = "readVoltageByIndex"
  <2>1. Scripts[op] = ReadVoltageByIndex
    BY <1>4 DEF Scripts
  <2>. QED
    BY <1>4, <2>1 DEF Shape, Onsets, Keeping, Samplers, Position, DoCall, ReadVoltageByIndex
<1>5. CASE op = "readCounterByName"
  <2>1. Scripts[op] = ReadCounterByName
    BY <1>5 DEF Scripts
  <2>. QED
    BY <1>5, <2>1 DEF Shape, Onsets, Keeping, Samplers, Position, DoCall, ReadCounterByName
<1>6. CASE op = "readCounterByIndex"
  <2>1. Scripts[op] = ReadCounterByIndex
    BY <1>6 DEF Scripts
  <2>. QED
    BY <1>6, <2>1 DEF Shape, Onsets, Keeping, Samplers, Position, DoCall, ReadCounterByIndex
<1>8. CASE op = "setRelayByName"
  <2>1. Scripts[op] = SetRelayByName
    BY <1>8 DEF Scripts
  <2>. QED
    BY <1>8, <2>1 DEF Shape, Onsets, Keeping, Samplers, Position, DoCall, SetRelayByName
<1>9. CASE op = "setRelayByIndex"
  <2>1. Scripts[op] = SetRelayByIndex
    BY <1>9 DEF Scripts
  <2>. QED
    BY <1>9, <2>1 DEF Shape, Onsets, Keeping, Samplers, Position, DoCall, SetRelayByIndex
<1>10. CASE op = "testSetRelay"
  <2>1. Scripts[op] = TestSetRelay
    BY <1>10 DEF Scripts
  <2>. QED
    BY <1>10, <2>1 DEF Shape, Onsets, Keeping, Samplers, Position, DoCall, TestSetRelay
<1>11. CASE op = "getDevicesList"
  <2>1. Scripts[op] = GetDevicesList
    BY <1>11 DEF Scripts
  <2>. QED
    BY <1>11, <2>1 DEF Shape, Onsets, Keeping, Samplers, Position, DoCall, GetDevicesList
<1>12. CASE op = "readMod1"
  <2>1. Scripts[op] = ReadMod1
    BY <1>12 DEF Scripts
  <2>. QED
    BY <1>12, <2>1 DEF Shape, Onsets, Keeping, Samplers, Position, DoCall, ReadMod1
<1>13. CASE op = "readMod2"
  <2>1. Scripts[op] = ReadMod2
    BY <1>13 DEF Scripts
  <2>. QED
    BY <1>13, <2>1 DEF Shape, Onsets, Keeping, Samplers, Position, DoCall, ReadMod2
<1>14. CASE op = "readMod3"
  <2>1. Scripts[op] = ReadMod3
    BY <1>14 DEF Scripts
  <2>. QED
    BY <1>14, <2>1 DEF Shape, Onsets, Keeping, Samplers, Position, DoCall, ReadMod3
<1>15. CASE op = "readMod4"
  <2>1. Scripts[op] = ReadMod4
    BY <1>15 DEF Scripts
  <2>. QED
    BY <1>15, <2>1 DEF Shape, Onsets, Keeping, Samplers, Position, DoCall, ReadMod4
<1>. QED
  BY <1>0, <1>1, <1>2, <1>3, <1>4, <1>5, <1>6, <1>8, <1>9, <1>10, <1>11, <1>12, <1>13, <1>14, <1>15

----------------------------------------------------------------------------
(* The steps.                                                              *)

LEMMA Called ==
  ASSUME Types, NEW t \in Threads, Busy(t)
  PROVE  call[t] \in Call /\ call[t].op \in Ops /\ Shape(call[t].op)
<1>1. call[t] \in Call /\ call[t].op \in Ops
  BY DEF Types, Busy, Call, Ops
<1>. QED
  BY <1>1, ScriptShapes

LEMMA CallsAreCalls ==
  ASSUME NEW t \in Threads, NEW c \in Calls[t]
  PROVE  /\ c \in Call /\ c.op \in Ops /\ Shape(c.op) /\ c # NoCall
         /\ c.op \in Keeping => c.key \in Keys
<1>1. c \in Call
  BY DaqAssumption
<1>2. c.op \in Ops
  BY <1>1 DEF Call, Ops
<1>3. c.op # "none"
  BY <1>2 DEF Ops, Scripts
<1>4. c # NoCall
  BY <1>3 DEF NoCall
<1>. QED
  BY <1>1, <1>2, <1>4, DaqAssumption, ScriptShapes

LEMMA EnterKeeps ==
  ASSUME TasksInv, NEW t \in Threads, NEW c \in Calls[t], Enter(t, c)
  PROVE  TasksInv'
<1>. DEFINE found == c.op \in Keeping /\ entry[c.key] # NoHandle
<1>1. /\ c \in Call /\ c.op \in Ops /\ Shape(c.op) /\ c # NoCall
      /\ c.op \in Keeping => c.key \in Keys
  BY CallsAreCalls
<1>2. /\ ~Busy(t) /\ handle[t] = NoHandle
      /\ call' = [call EXCEPT ![t] = c]
      /\ known' = IF c.op \in Keeping THEN known \cup {c.key} ELSE known
      /\ handle' = [handle EXCEPT ![t] = IF found THEN entry[c.key] ELSE NoHandle]
      /\ pc' = [pc EXCEPT ![t] =
                  IF found THEN Position(Scripts[c.op], "read") ELSE 1]
      /\ UNCHANGED <<alive, tasks, entry, tries>>
  BY DEF Enter, TasksInv, Placed, PlacedAt, Busy
<1>3. /\ Busy(t)' /\ call'[t] = c /\ Script(t)' = Scripts[c.op]
      /\ \A u \in Threads \ {t} :
           /\ call'[u] = call[u] /\ pc'[u] = pc[u] /\ handle'[u] = handle[u]
           /\ Script(u)' = Script(u) /\ (Busy(u)' <=> Busy(u))
           /\ (Keeps(u)' <=> Keeps(u))
  BY <1>1, <1>2 DEF TasksInv, Types, Busy, Script, Keeps
<1>4. pc'[t] \in 1 .. Len(Scripts[c.op]) /\ (pc'[t] = 1 <=> ~found)
  BY <1>1, <1>2 DEF TasksInv, Types, Shape
<1>5. handle'[t] = IF found THEN entry[c.key] ELSE NoHandle
  BY <1>2 DEF TasksInv, Types
<1>6. c.op \in Keeping => owner["counters"] = {} /\ owner'["counters"] = {t}
  BY <1>2 DEF Enter, Free, MutexOf, Keeping, Mutexes
<1>7. owner["counters"] # {} => owner'["counters"] = owner["counters"]
  BY <1>2 DEF Enter, Free, MutexOf, Mutexes, TasksInv, Types
<1>8. Types'
  <2>1. owner' \in [Mutexes -> SUBSET Threads]
    BY DEF Enter, TasksInv, Types
  <2>. QED
    BY <1>1, <1>2, <1>4, <2>1 DEF TasksInv, Types, Shape
<1>9. Placed'
  BY <1>3, <1>4, <1>5 DEF TasksInv, Placed, PlacedAt
<1>10. CountersLocked'
  BY <1>3, <1>6, <1>7 DEF TasksInv, CountersLocked, Keeps
<1>11. MapAgrees'
  BY <1>1, <1>2, <1>3, <1>5, <1>6 DEF TasksInv, Types, MapAgrees, Keeps, CountersLocked
<1>12. Apart'
  BY <1>1, <1>2, <1>3, <1>5, <1>6 DEF TasksInv, Apart, MapAgrees, CountersLocked, Keeps
<1>13. KeyedIsEntry' /\ ClearedIsNone'
  BY <1>2 DEF TasksInv, KeyedIsEntry, ClearedIsNone
<1>14. NoChannelYet'
  BY <1>1, <1>2, <1>3, <1>4 DEF TasksInv, NoChannelYet, Shape
<1>15. NothingForgotten'
  <2>1. Remembered \ {NoHandle} \subseteq Remembered'
    BY <1>2, <1>3 DEF TasksInv, Types, Remembered
  <2>. QED
    BY <1>2, <2>1 DEF TasksInv, NothingForgotten, Handles, NoHandle
<1>. QED
  BY <1>8, <1>9, <1>10, <1>11, <1>12, <1>13, <1>14, <1>15 DEF TasksInv

(* What a step of t may do to the task it holds: clear it, or change its   *)
(* state.                                                                  *)
Touches(t) ==
  /\ tasks' \in [Handles -> Task]
  /\ \A g \in Handles \ {handle[t]} : tasks'[g] = tasks[g]
  /\ handle[t] # NoHandle =>
       \/ tasks'[handle[t]] = NoTask
       \/ /\ tasks'[handle[t]].key = tasks[handle[t]].key
          /\ tasks'[handle[t]].state = "none" => tasks'[handle[t]] = tasks[handle[t]]

(* Leaving a method is safe for a task that is cleared, has no channel, or *)
(* stays in its entry.                                                     *)
LEMMA LeaveKeeps ==
  ASSUME TasksInv, NEW t \in Threads, Busy(t), Leave(t), Touches(t),
         alive' \in BOOLEAN, known' = known,
         \/ entry' = entry
         \/ /\ Keeps(t)
            /\ entry' = [entry EXCEPT ![call[t].key] = NoHandle]
            /\ handle[t] # NoHandle => tasks'[handle[t]] = NoTask,
         handle[t] # NoHandle =>
           \/ tasks'[handle[t]].state \notin {"ready", "started"}
           \/ Keeps(t)
  PROVE  TasksInv'
<1>1. /\ ~Busy(t)' /\ ~Keeps(t)' /\ handle'[t] = NoHandle /\ pc'[t] = 0
      /\ \A u \in Threads \ {t} :
           /\ call'[u] = call[u] /\ pc'[u] = pc[u] /\ handle'[u] = handle[u]
           /\ Script(u)' = Script(u) /\ (Busy(u)' <=> Busy(u))
           /\ (Keeps(u)' <=> Keeps(u))
  BY DEF TasksInv, Types, Leave, Busy, Script, Keeps
<1>2. Keeps(t) => call[t].key \in known /\ call[t].key \in Keys
                  /\ entry[call[t].key] = handle[t]
  BY DEF TasksInv, Types, MapAgrees
<1>3. \A u \in Threads \ {t} : handle[u] # NoHandle => handle[u] # handle[t]
  BY DEF TasksInv, Apart
<1>4. \A u \in Threads \ {t} : Keeps(u) => ~Keeps(t)
  BY DEF TasksInv, CountersLocked
<1>5. Types'
  BY <1>2 DEF TasksInv, Types, Leave, Touches
<1>6. Placed'
  BY <1>1 DEF TasksInv, Placed, PlacedAt
<1>7. CountersLocked'
  <2>1. \A u \in Threads \ {t} : Keeps(u)' => owner["counters"] = {u}
    BY <1>1 DEF TasksInv, CountersLocked
  <2>2. owner'["counters"] = owner["counters"] \ {t}
    BY DEF Leave, Mutexes
  <2>. QED
    BY <1>1, <2>1, <2>2 DEF CountersLocked
<1>8. MapAgrees'
  BY <1>1, <1>2, <1>4 DEF TasksInv, Types, MapAgrees, Keeps
<1>9. Apart'
  BY <1>1 DEF TasksInv, Apart
<1>10. KeyedIsEntry'
  BY <1>2, <1>3 DEF TasksInv, Types, KeyedIsEntry, Touches, NoTask, Handles, NoHandle
<1>11. ClearedIsNone'
  BY DEF TasksInv, Types, ClearedIsNone, Touches, Handles, NoHandle
<1>12. NoChannelYet'
  <2>1. ASSUME NEW u \in Threads \ {t}, Busy(u), pc[u] \in {2, 3}
        PROVE  tasks'[handle[u]] = tasks[handle[u]]
    BY <1>3, <2>1 DEF TasksInv, Types, Placed, PlacedAt, Touches
  <2>. QED
    BY <1>1, <2>1 DEF TasksInv, NoChannelYet
<1>13. NothingForgotten'
  <2>1. ASSUME NEW h \in Handles, tasks'[h].state \in {"ready", "started"}
        PROVE  h \in Remembered'
    <3>1. CASE h # handle[t]
      <4>1. h \in Remembered
        BY <2>1, <3>1 DEF TasksInv, NothingForgotten, Touches
      <4>. QED
        BY <1>1, <1>2, <3>1, <4>1 DEF TasksInv, Types, Remembered
    <3>2. CASE h = handle[t]
      BY <1>2, <2>1, <3>2 DEF Remembered, Handles, NoHandle, NoTask
    <3>. QED
      BY <3>1, <3>2
  <2>. QED
    BY <2>1 DEF NothingForgotten
<1>. QED
  BY <1>5, <1>6, <1>7, <1>8, <1>9, <1>10, <1>11, <1>12, <1>13 DEF TasksInv

(* Going on in a script is safe before the channel while the task has none.*)
LEMMA MoveKeeps ==
  ASSUME TasksInv, NEW t \in Threads, Busy(t), Touches(t),
         NEW i \in 1 .. Len(Script(t)), GoTo(t, i), UNCHANGED <<handle, mapVars>>,
         tries' \in [Threads -> Nat], handle[t] # NoHandle, i > 1,
         (Len(Script(t)) >= 3 /\ Script(t)[3].onError = "retry" /\ i \in {2, 3})
           => tasks'[handle[t]].state \in {"none", "created"}
  PROVE  TasksInv'
<1>. USE DEF mapVars
<1>1. /\ pc'[t] = i
      /\ \A u \in Threads \ {t} : pc'[u] = pc[u]
      /\ \A u \in Threads : call'[u] = call[u] /\ Script(u)' = Script(u)
                            /\ (Busy(u)' <=> Busy(u)) /\ (Keeps(u)' <=> Keeps(u))
  BY DEF TasksInv, Types, GoTo, Busy, Script, Keeps
<1>2. \A u \in Threads \ {t} : handle[u] # handle[t]
  BY DEF TasksInv, Apart
<1>3. Types'
  <2>1. i \in Nat
    BY Called DEF TasksInv, Script, Shape
  <2>. QED
    BY <2>1 DEF TasksInv, Types, GoTo, Touches
<1>4. Placed'
  BY <1>1 DEF TasksInv, Placed, PlacedAt
<1>5. CountersLocked' /\ MapAgrees' /\ Apart'
  BY <1>1 DEF TasksInv, CountersLocked, MapAgrees, Apart, GoTo
<1>6. KeyedIsEntry' /\ ClearedIsNone'
  <2>1. \A g \in Handles : tasks'[g].key \in {tasks[g].key, NoKey}
    BY DEF Touches, NoTask
  <2>2. \A g \in Handles : tasks'[g].state = "none" => tasks'[g] \in {tasks[g], NoTask}
    BY DEF Touches, NoTask
  <2>. QED
    BY <2>1, <2>2 DEF TasksInv, KeyedIsEntry, ClearedIsNone
<1>7. NoChannelYet'
  <2>1. ASSUME NEW u \in Threads \ {t}, Busy(u), pc[u] \in {2, 3}
        PROVE  tasks'[handle[u]] = tasks[handle[u]]
    BY <1>2, <2>1 DEF TasksInv, Types, Placed, PlacedAt, Touches
  <2>. QED
    BY <1>1, <2>1 DEF TasksInv, NoChannelYet, GoTo
<1>8. NothingForgotten'
  <2>1. Remembered' = Remembered /\ handle[t] \in Remembered
    BY DEF Remembered
  <2>. QED
    BY <2>1 DEF TasksInv, NothingForgotten, Touches
<1>. QED
  BY <1>3, <1>4, <1>5, <1>6, <1>7, <1>8 DEF TasksInv

LEMMA NextHandleIsNew ==
  ASSUME Unused # {}
  PROVE  /\ NextHandle \in Handles /\ ~Live(NextHandle)
         /\ NextHandle \notin Remembered
<1>1. Unused \subseteq Nat
  BY DaqAssumption DEF Unused, Handles
<1>2. PICK h \in Unused : \A g \in Unused : <<g, h>> \notin OpToRel(<, Nat)
  BY <1>1, WFMin, NatLessThanWellFounded
<1>3. \A g \in Unused : <<g, h>> \notin {ss \in Nat \X Nat : ss[1] < ss[2]}
  BY <1>2, Zenon DEF OpToRel
<1>4. NextHandle \in Unused
  <2>1. ASSUME NEW g \in Unused PROVE ~(g < h)
    <3>1. <<g, h>> \in Nat \X Nat /\ <<g, h>>[1] = g /\ <<g, h>>[2] = h
      BY <1>1
    <3>. QED
      BY <1>3, <3>1
  <2>2. \A g \in Unused : h <= g
    BY <1>1, <2>1
  <2>. QED
    BY <2>2 DEF NextHandle
<1>. QED
  BY <1>4 DEF Unused

(* Only a thread at the start of its script creates a task.                *)
LEMMA CreatesFirst ==
  ASSUME TasksInv, NEW t \in Threads, Busy(t)
  PROVE  /\ Now(t).call = "create" <=> pc[t] = 1
         /\ Now(t).onError = "throw" => pc[t] = 1
         /\ pc[t] \in 1 .. Len(Script(t)) /\ Len(Script(t)) \in 2 .. 8
         /\ Shape(call[t].op) /\ call[t].op \in Ops
         /\ Script(t) = Scripts[call[t].op]
         /\ pc[t] = 1 <=> handle[t] = NoHandle
<1>1. Shape(call[t].op) /\ call[t].op \in Ops
  BY Called DEF TasksInv
<1>2. pc[t] \in 1 .. Len(Script(t)) /\ (pc[t] = 1 <=> handle[t] = NoHandle)
  BY DEF TasksInv, Placed, PlacedAt
<1>. QED
  BY <1>1, <1>2 DEF Shape, Now, Script

LEMMA CreateKeeps ==
  ASSUME TasksInv, NEW t \in Threads, CreateTask(t)
  PROVE  TasksInv'
<1>. DEFINE h == NextHandle
            k == call[t].key
<1>. Busy(t)
  BY DEF CreateTask, Busy
<1>1. /\ pc[t] = 1 /\ handle[t] = NoHandle
      /\ Len(Script(t)) \in 2 .. 8 /\ Shape(call[t].op)
      /\ Script(t) = Scripts[call[t].op] /\ call[t] \in Call
  BY CreatesFirst, Called DEF CreateTask, TasksInv
<1>2. /\ h \in Handles /\ ~Live(h) /\ h \notin Remembered /\ h # NoHandle
      /\ tasks[h].state = "none"
  <2>1. Unused # {}
    BY DEF CreateTask, Accepts
  <2>2. h \in Handles /\ ~Live(h) /\ h \notin Remembered
    BY <2>1, NextHandleIsNew
  <2>3. h # NoHandle
    BY <2>2, DaqAssumption DEF Handles, NoHandle
  <2>. QED
    BY <2>2, <2>3 DEF Live
<1>3. /\ \A u \in Threads : handle[u] # h
      /\ \A j \in Keys : entry[j] # h
  <2>1. \A u \in Threads : handle[u] # h
    BY <1>2 DEF Remembered
  <2>2. \A j \in Keys : entry[j] # h
    BY <1>2 DEF Remembered, TasksInv, MapAgrees
  <2>. QED
    BY <2>1, <2>2
<1>4. Keeps(t) => k \in known /\ k \in Keys /\ entry[k] = NoHandle
  BY <1>1 DEF TasksInv, Types, MapAgrees
<1>5. /\ Keeps(t) <=> call[t].op \in Keeping
      /\ tasks' = [tasks EXCEPT ![h] =
           [state |-> "created", res |-> call[t].res,
            key |-> IF call[t].op \in Keeping THEN k ELSE NoKey]]
      /\ entry' = IF call[t].op \in Keeping THEN [entry EXCEPT ![k] = h] ELSE entry
      /\ handle' = [handle EXCEPT ![t] = h]
      /\ pc' = [pc EXCEPT ![t] = 2]
      /\ UNCHANGED <<alive, owner, call, known, tries>>
  BY <1>1 DEF CreateTask, GoTo, Keeps
<1>6. /\ handle'[t] = h /\ pc'[t] = 2
      /\ \A u \in Threads \ {t} : handle'[u] = handle[u] /\ pc'[u] = pc[u]
      /\ \A u \in Threads : call'[u] = call[u] /\ Script(u)' = Script(u)
                            /\ (Busy(u)' <=> Busy(u)) /\ (Keeps(u)' <=> Keeps(u))
  BY <1>5 DEF TasksInv, Types, Busy, Script, Keeps
<1>7. \A u \in Threads \ {t} : Keeps(u) => ~Keeps(t)
  BY DEF TasksInv, CountersLocked
<1>8. Types'
  <2>1. [state |-> "created", res |-> call[t].res,
         key |-> IF call[t].op \in Keeping THEN k ELSE NoKey] \in Task
    BY <1>1, <1>4 DEF Task, Call, Keeps
  <2>. QED
    BY <1>2, <1>4, <1>5, <2>1 DEF TasksInv, Types
<1>9. Placed'
  <2>1. PlacedAt(t)'
    <3>1. Busy(t)' /\ Script(t)' = Script(t) /\ handle'[t] = h /\ pc'[t] = 2
      BY <1>6
    <3>2. 2 \in 1 .. Len(Script(t))
      <4>1. Len(Script(t)) \in 2 .. 8
        BY <1>1
      <4>. QED
        BY <4>1
    <3>. QED
      BY <1>2, <3>1, <3>2 DEF PlacedAt
  <2>2. \A u \in Threads \ {t} : PlacedAt(u)'
    BY <1>6 DEF TasksInv, Placed, PlacedAt
  <2>. QED
    BY <2>1, <2>2 DEF Placed
<1>10. CountersLocked'
  BY <1>5, <1>6 DEF TasksInv, CountersLocked
<1>11. MapAgrees'
  BY <1>2, <1>3, <1>4, <1>5, <1>6, <1>7 DEF TasksInv, Types, MapAgrees
<1>12. Apart'
  BY <1>3, <1>6 DEF TasksInv, Apart
<1>13. KeyedIsEntry' /\ ClearedIsNone'
  <2>1. \A g \in Handles : g # h =>
          /\ tasks'[g] = tasks[g]
          /\ call[t].op \in Keeping => tasks[g].key # k
    BY <1>4, <1>5, DaqAssumption DEF TasksInv, Types, KeyedIsEntry, Handles, NoHandle
  <2>2. tasks'[h].state = "created"
        /\ tasks'[h].key = IF call[t].op \in Keeping THEN k ELSE NoKey
    BY <1>2, <1>5 DEF TasksInv, Types
  <2>. QED
    BY <1>2, <1>3, <1>4, <1>5, <2>1, <2>2
    DEF TasksInv, Types, KeyedIsEntry, ClearedIsNone
<1>14. NoChannelYet'
  <2>1. \A u \in Threads \ {t} : tasks'[handle[u]] = tasks[handle[u]]
    BY <1>3, <1>5 DEF TasksInv, Types
  <2>. QED
    BY <1>2, <1>5, <1>6, <2>1 DEF TasksInv, Types, NoChannelYet
<1>15. NothingForgotten'
  <2>1. Remembered \ {NoHandle} \subseteq Remembered'
    BY <1>1, <1>4, <1>5, <1>6 DEF TasksInv, Types, Remembered
  <2>. QED
    BY <1>5, <2>1, DaqAssumption
    DEF TasksInv, Types, NothingForgotten, Handles, NoHandle
<1>. QED
  BY <1>8, <1>9, <1>10, <1>11, <1>12, <1>13, <1>14, <1>15 DEF TasksInv

LEMMA CleanedTouches ==
  ASSUME TasksInv, NEW t \in Threads, tasks' = Cleaned(handle[t])
  PROVE  /\ Touches(t)
         /\ handle[t] # NoHandle => tasks'[handle[t]] = NoTask
<1>1. handle[t] \in Handles \cup {NoHandle}
  BY DEF TasksInv, Types
<1>2. NoTask \in Task
  BY DEF NoTask, Task
<1>3. CASE Live(handle[t])
  BY <1>1, <1>2, <1>3 DEF TasksInv, Types, Cleaned, Touches, Live
<1>4. CASE ~Live(handle[t])
  BY <1>1, <1>4 DEF TasksInv, Types, Cleaned, Touches, Live, ClearedIsNone
<1>. QED
  BY <1>3, <1>4

LEMMA SameTouches ==
  ASSUME TasksInv, NEW t \in Threads, tasks' = tasks
  PROVE  Touches(t)
BY DEF TasksInv, Types, Touches

LEMMA CallTouches ==
  ASSUME TasksInv, NEW t \in Threads, CallDriver(t)
  PROVE  /\ Touches(t) /\ Live(handle[t]) /\ handle[t] \in Handles
         /\ tasks'[handle[t]] = TaskAfter(handle[t], Now(t).call)
<1>. DEFINE h == handle[t]
            c == Now(t).call
<1>1. /\ Live(h) /\ h \in Handles /\ h # NoHandle
      /\ tasks[h].state # "none" /\ tasks[h] \in Task
  BY DEF TasksInv, Types, CallDriver, Accepts, Live
<1>2. TaskAfter(h, c) \in Task
  BY <1>1 DEF TaskAfter, NoTask, Task
<1>3. \/ TaskAfter(h, c) = NoTask
      \/ TaskAfter(h, c).key = tasks[h].key /\ TaskAfter(h, c).state # "none"
  BY <1>1 DEF TaskAfter, Task
<1>4. tasks' = [tasks EXCEPT ![h] = TaskAfter(h, c)]
  BY DEF CallDriver
<1>. QED
  BY <1>1, <1>2, <1>3, <1>4 DEF TasksInv, Types, Touches

(* Advance() after a step that touched nothing but the thread's own task.  *)
LEMMA AdvanceKeeps ==
  ASSUME TasksInv, NEW t \in Threads, Busy(t), Touches(t), Advance(t),
         UNCHANGED mapVars, pc[t] > 1,
         Now(t).call = "clear" => tasks'[handle[t]].state = "none",
         (Len(Script(t)) >= 3 /\ Script(t)[3].onError = "retry" /\ pc[t] = 2)
           => tasks'[handle[t]] = tasks[handle[t]]
  PROVE  TasksInv'
<1>1. /\ pc[t] \in 1 .. Len(Script(t)) /\ Len(Script(t)) \in 2 .. 8
      /\ Shape(call[t].op) /\ call[t].op \in Ops
      /\ Script(t) = Scripts[call[t].op]
      /\ handle[t] # NoHandle
  BY CreatesFirst
<1>2. CASE pc[t] < Len(Script(t)) /\ GoTo(t, pc[t] + 1) /\ UNCHANGED <<handle, tries>>
  <2>1. (Len(Script(t)) >= 3 /\ Script(t)[3].onError = "retry" /\ pc[t] + 1 \in {2, 3})
          => tasks'[handle[t]].state \in {"none", "created"}
    <3>1. SUFFICES ASSUME Len(Script(t)) >= 3, Script(t)[3].onError = "retry", pc[t] = 2
                   PROVE  tasks'[handle[t]].state \in {"none", "created"}
      BY <1>1
    <3>2. tasks[handle[t]].state \in {"none", "created"}
      BY <3>1 DEF TasksInv, NoChannelYet
    <3>. QED
      BY <3>1, <3>2
  <2>2. pc[t] + 1 \in 1 .. Len(Script(t)) /\ pc[t] + 1 > 1
    BY <1>1, <1>2
  <2>3. tries' \in [Threads -> Nat]
    BY <1>2 DEF TasksInv, Types
  <2>. QED
    BY <1>1, <1>2, <2>1, <2>2, <2>3, MoveKeeps
<1>3. CASE /\ pc[t] = Len(Script(t)) /\ call[t].op \in Samplers
           /\ GoTo(t, Position(Script(t), "start")) /\ UNCHANGED <<handle, tries>>
  <2>1. Position(Script(t), "start") \in 2 .. Len(Script(t))
    BY <1>1, <1>3 DEF Shape
  <2>2. ~(Len(Script(t)) >= 3 /\ Script(t)[3].onError = "retry")
    BY <1>1, <1>3 DEF Shape
  <2>3. tries' \in [Threads -> Nat]
    BY <1>3 DEF TasksInv, Types
  <2>4. Position(Script(t), "start") \in 1 .. Len(Script(t))
        /\ Position(Script(t), "start") > 1
    BY <1>1, <2>1
  <2>. QED
    BY <1>1, <1>3, <2>2, <2>3, <2>4, MoveKeeps
<1>4. CASE /\ pc[t] = Len(Script(t)) /\ call[t].op \notin Samplers
           /\ Leave(t) /\ UNCHANGED alive
  <2>1. Keeps(t) \/ tasks'[handle[t]].state \notin {"ready", "started"}
    BY <1>1, <1>4 DEF Shape, Keeps, Now
  <2>. QED
    BY <1>4, <2>1, LeaveKeeps DEF mapVars, TasksInv, Types
<1>. QED
  BY <1>2, <1>3, <1>4 DEF Advance

LEMMA CallKeeps ==
  ASSUME TasksInv, NEW t \in Threads, CallDriver(t)
  PROVE  TasksInv'
<1>. Busy(t)
  BY DEF CallDriver, Busy
<1>1. /\ pc[t] \in 1 .. Len(Script(t)) /\ pc[t] # 1
      /\ Shape(call[t].op) /\ Script(t) = Scripts[call[t].op]
  BY CreatesFirst DEF CallDriver
<1>2. pc[t] > 1
  BY <1>1
<1>3. Touches(t) /\ tasks'[handle[t]] = TaskAfter(handle[t], Now(t).call)
  BY CallTouches
<1>4. Now(t).call = "clear" => tasks'[handle[t]].state = "none"
  BY <1>3 DEF TaskAfter, NoTask
<1>5. (Len(Script(t)) >= 3 /\ Script(t)[3].onError = "retry" /\ pc[t] = 2)
        => tasks'[handle[t]] = tasks[handle[t]]
  <2>1. SUFFICES ASSUME Len(Script(t)) >= 3, Script(t)[3].onError = "retry", pc[t] = 2
                 PROVE  Now(t).call = "event"
    BY <1>3 DEF TaskAfter
  <2>2. 3 \in 1 .. Len(Script(t))
    BY <1>1, <2>1
  <2>. QED
    BY <1>1, <2>1, <2>2 DEF Shape, Now
<1>. QED
  BY <1>2, <1>3, <1>4, <1>5, AdvanceKeeps DEF CallDriver

LEMMA ThrowKeeps ==
  ASSUME TasksInv, NEW t \in Threads, ErrorThrows(t)
  PROVE  TasksInv'
<1>. Busy(t)
  BY DEF ErrorThrows, Errs, Busy
<1>1. /\ pc[t] \in 1 .. Len(Script(t)) /\ Shape(call[t].op)
      /\ Script(t) = Scripts[call[t].op]
      /\ Now(t).onError = "throw" => handle[t] = NoHandle
  BY CreatesFirst
<1>2. Leave(t) /\ alive' \in BOOLEAN /\ known' = known
  BY DEF ErrorThrows, Throw
<1>3. /\ Touches(t)
      /\ handle[t] # NoHandle => tasks'[handle[t]] = NoTask
  BY <1>1, CleanedTouches, SameTouches DEF ErrorThrows
<1>4. Now(t).onError = "reset" => Keeps(t)
  BY <1>1 DEF Shape, Keeps, Now
<1>5. \/ entry' = entry
      \/ Keeps(t) /\ entry' = [entry EXCEPT ![call[t].key] = NoHandle]
  BY <1>4 DEF ErrorThrows
<1>. QED
  BY <1>2, <1>3, <1>5, LeaveKeeps DEF NoTask

LEMMA GiveUpKeeps ==
  ASSUME TasksInv, NEW t \in Threads, GivesUp(t)
  PROVE  TasksInv'
<1>. Busy(t)
  BY DEF GivesUp, Errs, Busy
<1>1. /\ pc[t] \in 1 .. Len(Script(t)) /\ Shape(call[t].op)
      /\ Script(t) = Scripts[call[t].op]
  BY CreatesFirst
<1>2. Leave(t) /\ alive' \in BOOLEAN /\ tasks' = tasks /\ UNCHANGED mapVars
  BY DEF GivesUp, Throw
<1>3. Now(t).onError = "again" => Keeps(t)
  BY <1>1 DEF Shape, Keeps, Now
<1>4. Now(t).onError = "retry" => tasks[handle[t]].state \notin {"ready", "started"}
  <2>1. SUFFICES ASSUME Now(t).onError = "retry"
                 PROVE  tasks[handle[t]].state \in {"none", "created"}
    OBVIOUS
  <2>2. pc[t] = 3
    BY <1>1, <2>1 DEF Shape, Now
  <2>3. Len(Script(t)) >= 3 /\ Script(t)[3].onError = "retry"
    BY <1>1, <2>1, <2>2 DEF Now, Shape
  <2>. QED
    BY <2>2, <2>3 DEF TasksInv, NoChannelYet
<1>5. Touches(t)
  BY <1>2, SameTouches
<1>. QED
  BY <1>2, <1>3, <1>4, <1>5, LeaveKeeps DEF GivesUp, mapVars

LEMMA IgnoreKeeps ==
  ASSUME TasksInv, NEW t \in Threads, ErrorIgnored(t)
  PROVE  TasksInv'
<1>. Busy(t)
  BY DEF ErrorIgnored, Errs, Busy
<1>1. /\ pc[t] \in 1 .. Len(Script(t)) /\ Shape(call[t].op)
      /\ Script(t) = Scripts[call[t].op]
  BY CreatesFirst
<1>2. pc[t] > 1
  BY <1>1 DEF ErrorIgnored, Shape, Now
<1>3. handle[t] # NoHandle
  BY <1>2, CreatesFirst
<1>4. Touches(t)
  BY SameTouches DEF ErrorIgnored
<1>5. Now(t).call = "clear" => tasks[handle[t]].state = "none"
  BY <1>3 DEF ErrorIgnored, Errs, Accepts, Live
<1>. QED
  BY <1>2, <1>4, <1>5, AdvanceKeeps DEF ErrorIgnored

LEMMA RetryKeeps ==
  ASSUME TasksInv, NEW t \in Threads, ErrorRetries(t)
  PROVE  TasksInv'
<1>. Busy(t)
  BY DEF ErrorRetries, Errs, Busy
<1>1. /\ pc[t] \in 1 .. Len(Script(t)) /\ Shape(call[t].op)
      /\ Script(t) = Scripts[call[t].op] /\ Len(Script(t)) \in 2 .. 8
  BY CreatesFirst
<1>2. tries' \in [Threads -> Nat] /\ UNCHANGED mapVars
  BY DEF ErrorRetries, TasksInv, Types
<1>3. CASE Now(t).onError = "again"
  <2>1. pc[t] > 1
    BY <1>1, <1>3 DEF Shape, Now
  <2>2. handle[t] # NoHandle
    BY <2>1, CreatesFirst
  <2>3. tasks' = tasks /\ handle' = handle /\ GoTo(t, pc[t])
    BY <1>3 DEF ErrorRetries
  <2>4. (Len(Script(t)) >= 3 /\ Script(t)[3].onError = "retry" /\ pc[t] \in {2, 3})
          => tasks'[handle[t]].state \in {"none", "created"}
    BY <2>3 DEF TasksInv, NoChannelYet
  <2>. QED
    BY <1>1, <1>2, <2>1, <2>2, <2>3, <2>4, MoveKeeps, SameTouches
<1>4. CASE Now(t).onError = "retry"
  <2>1. ~Keeps(t)
    BY <1>1, <1>4 DEF Shape, Now, Keeps
  <2>2. Touches(t) /\ (handle[t] # NoHandle => tasks'[handle[t]] = NoTask)
    BY <1>4, CleanedTouches DEF ErrorRetries
  <2>3. /\ handle' = [handle EXCEPT ![t] = NoHandle]
        /\ pc' = [pc EXCEPT ![t] = 1]
        /\ UNCHANGED <<alive, owner, call, known, entry>>
    BY <1>4 DEF ErrorRetries, GoTo, mapVars
  <2>4. /\ handle'[t] = NoHandle /\ pc'[t] = 1
        /\ \A u \in Threads \ {t} : handle'[u] = handle[u] /\ pc'[u] = pc[u]
        /\ \A u \in Threads : call'[u] = call[u] /\ Script(u)' = Script(u)
                              /\ (Busy(u)' <=> Busy(u)) /\ (Keeps(u)' <=> Keeps(u))
    BY <2>3 DEF TasksInv, Types, Busy, Script, Keeps
  <2>5. \A k \in Keys : entry[k] # NoHandle => entry[k] # handle[t]
    BY <2>1 DEF TasksInv, MapAgrees
  <2>6. Types'
    BY <1>2, <2>2, <2>3 DEF TasksInv, Types, Touches
  <2>7. Placed'
    <3>1. PlacedAt(t)'
      <4>1. Script(t)' = Script(t) /\ (Busy(t)' <=> Busy(t))
        BY <2>4
      <4>2. 1 \in 1 .. Len(Script(t))
        BY <1>1
      <4>. QED
        BY <2>4, <4>1, <4>2 DEF PlacedAt
    <3>2. \A u \in Threads \ {t} : PlacedAt(u)'
      BY <2>4 DEF TasksInv, Placed, PlacedAt
    <3>. QED
      BY <3>1, <3>2 DEF Placed
  <2>8. CountersLocked' /\ MapAgrees' /\ Apart'
    BY <2>1, <2>3, <2>4 DEF TasksInv, CountersLocked, MapAgrees, Apart
  <2>9. KeyedIsEntry' /\ ClearedIsNone'
    <3>1. \A g \in Handles : tasks'[g] \in {tasks[g], NoTask}
      BY <2>2 DEF Touches, Handles, NoHandle
    <3>. QED
      BY <2>3, <3>1 DEF TasksInv, KeyedIsEntry, ClearedIsNone, NoTask
  <2>10. NoChannelYet'
    <3>1. ASSUME NEW u \in Threads \ {t}, Busy(u), pc[u] \in {2, 3}
          PROVE  tasks'[handle[u]] = tasks[handle[u]]
      BY <2>2, <3>1 DEF TasksInv, Types, Placed, PlacedAt, Touches, Apart
    <3>. QED
      BY <2>4, <3>1 DEF TasksInv, NoChannelYet
  <2>11. NothingForgotten'
    <3>1. ASSUME NEW g \in Handles, tasks'[g].state \in {"ready", "started"}
          PROVE  g \in Remembered'
      <4>1. g # handle[t] /\ tasks'[g] = tasks[g]
        BY <2>2, <3>1 DEF Touches, NoTask, Handles, NoHandle
      <4>2. g \in Remembered
        BY <3>1, <4>1 DEF TasksInv, NothingForgotten
      <4>. QED
        BY <2>3, <2>4, <4>1, <4>2 DEF Remembered
    <3>. QED
      BY <3>1 DEF NothingForgotten
  <2>. QED
    BY <2>6, <2>7, <2>8, <2>9, <2>10, <2>11 DEF TasksInv
<1>. QED
  BY <1>3, <1>4 DEF ErrorRetries

----------------------------------------------------------------------------
(* The theorems.                                                           *)

LEMMA InvStarts ==
  ASSUME Init
  PROVE  TasksInv
<1>1. \A t \in Threads : ~Busy(t) /\ ~Keeps(t)
  BY DEF Init, Busy, Keeps
<1>2. Types
  BY DEF Init, Types, Task, NoTask
<1>. QED
  BY <1>1, <1>2
  DEF Init, TasksInv, Placed, PlacedAt, CountersLocked, MapAgrees, Apart,
      KeyedIsEntry, ClearedIsNone, NoChannelYet, NothingForgotten, NoTask

LEMMA InvStays ==
  ASSUME TasksInv, [Next]_vars
  PROVE  TasksInv'
<1>1. CASE UNCHANGED vars
  BY <1>1
  DEF vars, mapVars, localVars, TasksInv, Types, Placed, PlacedAt, CountersLocked,
      MapAgrees, Apart, KeyedIsEntry, ClearedIsNone, NoChannelYet,
      NothingForgotten, Remembered, Busy, Keeps, Script
<1>2. ASSUME NEW t \in Threads, NEW c \in Calls[t], Enter(t, c)
      PROVE  TasksInv'
  BY <1>2, EnterKeeps
<1>3. ASSUME NEW t \in Threads, Work(t)
      PROVE  TasksInv'
  BY <1>3, CreateKeeps, CallKeeps, ThrowKeeps, RetryKeeps, GiveUpKeeps, IgnoreKeeps
  DEF Work
<1>. QED
  BY <1>1, <1>2, <1>3 DEF Next

(* The state of the wrapper keeps the invariant: for any threads, calls,   *)
(* resources, keys and bounds, whether or not the driver fails.            *)
THEOREM TasksInductive == Spec => []TasksInv
<1>1. Init => TasksInv
  BY InvStarts
<1>2. TasksInv /\ [Next]_vars => TasksInv'
  BY InvStays
<1>. QED
  BY <1>1, <1>2, PTL DEF Spec

(* readCounter() of the wrapper: at most one task is alive for an entry of *)
(* counterTasksMap.                                                        *)
THEOREM OneTask == Spec => []OneTaskPerKey
<1>1. TasksInv => OneTaskPerKey
  BY DEF TasksInv, KeyedIsEntry, OneTaskPerKey
<1>. QED
  BY <1>1, TasksInductive, PTL

(* The clean-up of the wrapper's methods: a task that its method gave up   *)
(* on keeps no module, counter or line.                                    *)
THEOREM NothingHeld == Spec => []ForgottenHoldNothing
<1>1. TasksInv => ForgottenHoldNothing
  BY DEF TasksInv, NothingForgotten, ForgottenHoldNothing
<1>. QED
  BY <1>1, TasksInductive, PTL

LEMMA ClearTakesHandle ==
  ASSUME TasksInv, [Next]_vars,
         NEW h \in Handles, tasks[h] # NoTask, tasks'[h] = NoTask,
         NEW u \in Threads
  PROVE  handle'[u] # h
<1>0. h # NoHandle
  BY DaqAssumption DEF Handles, NoHandle
<1>1. ASSUME tasks' = tasks PROVE FALSE
  BY <1>1
<1>2. ASSUME NEW t \in Threads, handle[t] = h, handle'[t] = NoHandle,
             u # t => handle'[u] = handle[u]
      PROVE  handle'[u] # h
  BY <1>0, <1>2 DEF TasksInv, Apart
<1>3. ASSUME NEW t \in Threads, NEW c \in Calls[t], Enter(t, c)
      PROVE  handle'[u] # h
  BY <1>1, <1>3 DEF Enter
<1>4. ASSUME NEW t \in Threads, Leave(t), handle[t] = h
      PROVE  handle'[u] # h
  BY <1>2, <1>4 DEF Leave, TasksInv, Types
<1>5. ASSUME NEW t \in Threads, CreateTask(t) PROVE handle'[u] # h
  BY <1>5 DEF CreateTask, NoTask, TasksInv, Types
<1>6. ASSUME NEW t \in Threads, CallDriver(t) PROVE handle'[u] # h
  <2>. Busy(t)
    BY <1>6 DEF CallDriver, Busy
  <2>1. /\ Touches(t) /\ Live(handle[t])
        /\ tasks'[handle[t]] = TaskAfter(handle[t], Now(t).call)
    BY <1>6, CallTouches
  <2>2. handle[t] = h
    BY <2>1 DEF Touches
  <2>3. Now(t).call = "clear"
    BY <2>1, <2>2 DEF TaskAfter, Live, NoTask, TasksInv, Types, Task
  <2>4. /\ pc[t] \in 1 .. Len(Script(t)) /\ Shape(call[t].op)
        /\ Script(t) = Scripts[call[t].op]
    BY CreatesFirst
  <2>5. pc[t] = Len(Script(t)) /\ call[t].op \notin Samplers
    BY <2>3, <2>4 DEF Shape, Now
  <2>6. ~(pc[t] < Len(Script(t)))
    BY <2>5, CreatesFirst
  <2>7. Leave(t)
    BY <1>6, <2>5, <2>6 DEF CallDriver, Advance
  <2>. QED
    BY <1>4, <2>2, <2>7
<1>7. ASSUME NEW t \in Threads, ErrorThrows(t) PROVE handle'[u] # h
  BY <1>4, <1>7 DEF ErrorThrows, Throw, Cleaned, TasksInv, Types
<1>8. ASSUME NEW t \in Threads, ErrorRetries(t) PROVE handle'[u] # h
  BY <1>2, <1>8 DEF ErrorRetries, Cleaned, TasksInv, Types
<1>9. ASSUME NEW t \in Threads, GivesUp(t) \/ ErrorIgnored(t) PROVE handle'[u] # h
  BY <1>1, <1>9 DEF GivesUp, ErrorIgnored
<1>. QED
  BY <1>1, <1>3, <1>5, <1>6, <1>7, <1>8, <1>9 DEF Next, Work, vars

(* DAQmxClearTask() in every method of the wrapper: a task is cleared by   *)
(* the only thread that works on it.                                       *)
THEOREM HandlesStay == Spec => NoHandlePulled
<1>1. TasksInv /\ [Next]_vars =>
        [\A h \in Handles : (tasks[h] # NoTask /\ tasks'[h] = NoTask) =>
           \A t \in Threads : handle'[t] # h]_vars
  BY ClearTakesHandle
<1>. QED
  BY <1>1, TasksInductive, PTL DEF Spec, NoHandlePulled

(* The two scripts that keep their task clear it after an error of the     *)
(* start alone, unless they reset the entry.                               *)
LEMMA KeepersClean ==
  ASSUME NEW op \in Keeping, NEW i \in 1 .. Len(Scripts[op])
  PROVE  /\ Scripts[op][i].onError = "clean" => Scripts[op][i].call = "start"
         /\ Scripts[op][i].onError # "retry" /\ Scripts[op][i].call # "clear"
<1>1. CASE op = "readCounterByName"
  <2>1. Scripts[op] = ReadCounterByName
    BY <1>1 DEF Scripts
  <2>. QED
    BY <2>1 DEF ReadCounterByName, DoCall
<1>2. CASE op = "readCounterByIndex"
  <2>1. Scripts[op] = ReadCounterByIndex
    BY <1>2 DEF Scripts
  <2>. QED
    BY <2>1 DEF ReadCounterByIndex, DoCall
<1>. QED
  BY <1>1, <1>2 DEF Keeping

LEMMA OnlyStartLoses ==
  ASSUME TasksInv, [Next]_vars, NEW k \in Keys, TaskLost(k)
  PROVE  \E t \in Threads : /\ call[t].op \in Keeping /\ call[t].key = k
                           /\ Now(t).call = "start"
<1>. DEFINE h == entry[k]
<1>1. /\ h \in Handles /\ h # NoHandle /\ tasks[h].state # "none"
      /\ tasks[h] # NoTask /\ tasks'[h] = NoTask /\ entry'[k] = h
  BY DaqAssumption DEF TaskLost, Live, NoTask, TasksInv, Types, Handles, NoHandle
<1>2. ASSUME tasks' = tasks PROVE FALSE
  BY <1>1, <1>2
<1>3. ASSUME NEW t \in Threads, Busy(t), handle[t] = h
      PROVE  /\ call[t].op \in Keeping /\ call[t].key = k
             /\ pc[t] \in 1 .. Len(Scripts[call[t].op])
             /\ Now(t) = Scripts[call[t].op][pc[t]]
  <2>1. Keeps(t) /\ call[t].key = k
    BY <1>1, <1>3 DEF TasksInv, MapAgrees
  <2>. QED
    BY <1>3, <2>1, CreatesFirst DEF Keeps, Now
<1>4. ASSUME NEW t \in Threads, CreateTask(t) PROVE FALSE
  BY <1>1, <1>4 DEF CreateTask, NoTask, TasksInv, Types
<1>5. ASSUME NEW t \in Threads, CallDriver(t) PROVE FALSE
  <2>1. Busy(t)
    BY <1>5 DEF CallDriver, Busy
  <2>2. /\ Touches(t) /\ Live(handle[t])
        /\ tasks'[handle[t]] = TaskAfter(handle[t], Now(t).call)
    BY <1>5, CallTouches
  <2>3. handle[t] = h
    BY <1>1, <2>2 DEF Touches
  <2>4. Now(t).call = "clear"
    BY <1>1, <2>2, <2>3 DEF TaskAfter, Live, NoTask, TasksInv, Types, Task
  <2>. QED
    BY <1>3, <2>1, <2>3, <2>4, KeepersClean
<1>6. ASSUME NEW t \in Threads, ErrorThrows(t)
      PROVE  /\ call[t].op \in Keeping /\ call[t].key = k
             /\ Now(t).call = "start"
  <2>1. Busy(t)
    BY <1>6 DEF ErrorThrows, Errs, Busy
  <2>2. handle[t] = h /\ Now(t).onError # "throw"
    BY <1>1, <1>2, <1>6 DEF ErrorThrows, Cleaned, TasksInv, Types
  <2>3. call[t].op \in Keeping /\ call[t].key = k
    BY <1>3, <2>1, <2>2
  <2>4. Now(t).onError # "reset"
    BY <1>1, <1>6, <2>3 DEF ErrorThrows, TasksInv, Types
  <2>5. Now(t).onError = "clean"
    BY <1>6, <2>2, <2>4 DEF ErrorThrows
  <2>. QED
    BY <1>3, <2>1, <2>2, <2>3, <2>5, KeepersClean
<1>7. ASSUME NEW t \in Threads, ErrorRetries(t) PROVE FALSE
  <2>1. Busy(t)
    BY <1>7 DEF ErrorRetries, Errs, Busy
  <2>2. handle[t] = h /\ Now(t).onError = "retry"
    BY <1>1, <1>2, <1>7 DEF ErrorRetries, Cleaned, TasksInv, Types
  <2>. QED
    BY <1>3, <2>1, <2>2, KeepersClean
<1>8. ASSUME NEW t \in Threads, GivesUp(t) \/ ErrorIgnored(t) PROVE FALSE
  BY <1>2, <1>8 DEF GivesUp, ErrorIgnored
<1>9. ASSUME NEW t \in Threads, NEW c \in Calls[t], Enter(t, c) PROVE FALSE
  BY <1>2, <1>9 DEF Enter
<1>. QED
  BY <1>2, <1>4, <1>5, <1>6, <1>7, <1>8, <1>9 DEF Next, Work, vars

(* readCounter() of the wrapper: an entry of counterTasksMap loses its     *)
(* task under the handle it goes on holding only when the start of that    *)
(* task has failed, whoever calls and whatever else fails.                 *)
THEOREM LostOnlyAtStart == Spec => LostAtStart
<1>1. TasksInv /\ [Next]_vars =>
        [\A k \in Keys : TaskLost(k) =>
           \E t \in Threads : /\ call[t].op \in Keeping /\ call[t].key = k
                              /\ Now(t).call = "start"]_vars
  BY OnlyStartLoses
<1>. QED
  BY <1>1, TasksInductive, PTL DEF Spec, LostAtStart

LEMMA StepCounts ==
  ASSUME TasksInv, [Next]_vars, NEW u \in Threads, Busy(u),
         call[u].op \notin Samplers
  PROVE  \/ UNCHANGED <<call[u], pc[u], tries[u]>>
         \/ call'[u] = NoCall
         \/ tries[u] < tries'[u]
         \/ tries[u] = tries'[u] /\ pc[u] < pc'[u]
<1>. DEFINE Goal == \/ UNCHANGED <<call[u], pc[u], tries[u]>>
                    \/ call'[u] = NoCall
                    \/ tries[u] < tries'[u]
                    \/ tries[u] = tries'[u] /\ pc[u] < pc'[u]
<1>1. ASSUME UNCHANGED <<call, pc, tries>> PROVE Goal
  BY <1>1
<1>2. ASSUME NEW t \in Threads, Leave(t) PROVE Goal
  BY <1>2 DEF Leave, TasksInv, Types
<1>3. ASSUME NEW t \in Threads, GoTo(t, pc[t] + 1), tries' = tries PROVE Goal
  BY <1>3 DEF GoTo, TasksInv, Types
<1>4. ASSUME NEW t \in Threads, Advance(t) PROVE Goal
  <2>1. CASE GoTo(t, pc[t] + 1) /\ tries' = tries
    BY <1>3, <2>1
  <2>2. CASE call[t].op \in Samplers /\ GoTo(t, Position(Script(t), "start"))
             /\ tries' = tries
    BY <2>2 DEF GoTo, TasksInv, Types
  <2>3. CASE Leave(t)
    BY <1>2, <2>3
  <2>. QED
    BY <1>4, <2>1, <2>2, <2>3 DEF Advance
<1>5. ASSUME NEW t \in Threads, NEW c \in Calls[t], Enter(t, c)
      PROVE  Goal
  BY <1>5 DEF Enter, Busy, TasksInv, Types
<1>6. ASSUME NEW t \in Threads, ErrorRetries(t) PROVE Goal
  BY <1>6 DEF ErrorRetries, GoTo, TasksInv, Types
<1>7. ASSUME NEW t \in Threads, Work(t) PROVE Goal
  BY <1>2, <1>3, <1>4, <1>6, <1>7
  DEF Work, CreateTask, CallDriver, ErrorThrows, GivesUp, ErrorIgnored, Throw
<1>. QED
  BY <1>1, <1>5, <1>7 DEF Next, vars, localVars

(* The methods of the wrapper but the sampling threads': every step ends   *)
(* the method, counts an attempt or moves on in the script, also when the  *)
(* driver fails at every call.                                             *)
THEOREM CallsEnd == Spec => CallsProgress
<1>1. TasksInv /\ [Next]_vars =>
        [\A t \in Threads :
           (call[t] # NoCall /\ call[t].op \notin Samplers) =>
             \/ UNCHANGED <<call[t], pc[t], tries[t]>>
             \/ call'[t] = NoCall
             \/ tries[t] < tries'[t]
             \/ tries[t] = tries'[t] /\ pc[t] < pc'[t]]_vars
  BY StepCounts DEF Busy
<1>. QED
  BY <1>1, TasksInductive, PTL DEF Spec, CallsProgress
----------------------------------------------------------------------------
(* What ends the gateway.                                                  *)

(* A driver that never fails by itself: then a sampling thread has at each *)
(* position of its script the task that the call there needs.              *)
AtPosition(t) ==
  /\ pc[t] = 2 => tasks[handle[t]].state = "created"
  /\ pc[t] \in {3, 4} => tasks[handle[t]].state = "ready"
  /\ pc[t] \in {5, 6} => tasks[handle[t]].state = "started"
  /\ pc[t] > 1 => tasks[handle[t]].res = call[t].res

SamplersReady == \A t \in Threads : call[t].op \in Samplers => AtPosition(t)

(* A module, a counter or a line is in the hands of one started task.      *)
StartedApart ==
  \A g, h \in Handles :
    (tasks[g].state = "started" /\ tasks[h].state = "started"
       /\ tasks[g].res = tasks[h].res) => g = h

(* The driver has no task left to give, or refuses to start one since      *)
(* another started task, of a method under way or of counterTasksMap, has  *)
(* the module.                                                             *)
Blocked(t) ==
  \/ Now(t).call = "create" /\ Unused = {}
  \/ /\ Now(t).call = "start"
     /\ \E h \in Remembered \ {NoHandle, handle[t]} :
          tasks[h].state = "started" /\ tasks[h].res = call[t].res

EndsBlocked ==
  [][alive /\ ~alive' =>
       \E t \in Threads : call[t].op \in Samplers /\ Blocked(t)]_vars

(* The scripts of the sampling threads are alike.                          *)
LEMMA SamplerScripts ==
  ASSUME NEW op \in Samplers
  PROVE  LET s == Scripts[op] IN
         /\ Len(s) = 6 /\ op \in Ops /\ op \notin Keeping
         /\ s[1].call = "create" /\ s[1].onError = "throw"
         /\ s[2].call = "chan" /\ s[2].onError = "clean"
         /\ s[3].call = "clock" /\ s[3].onError = "clean"
         /\ s[4].call = "start" /\ s[4].onError = "clean"
         /\ s[5].call = "read" /\ s[5].onError = "clean"
         /\ s[6].call = "stop" /\ s[6].onError = "ignore"
         /\ Position(s, "start") = 4
<1>1. op \in Ops /\ op \notin Keeping
  BY DEF Samplers, Ops, Scripts, Keeping
<1>2. Scripts[op] = ReadMod1
  BY DEF Samplers, Scripts, ReadMod1, ReadMod2, ReadMod3, ReadMod4
<1>. QED
  BY <1>1, <1>2 DEF ReadMod1, DoCall, Position

(* A thread that works leaves the others and their tasks alone.            *)
LEMMA OthersKept ==
  ASSUME TasksInv, NEW t \in Threads, Work(t), NEW u \in Threads \ {t}
  PROVE  /\ call'[u] = call[u] /\ pc'[u] = pc[u] /\ handle'[u] = handle[u]
         /\ handle[u] # NoHandle => tasks'[handle[u]] = tasks[handle[u]]
<1>1. /\ handle[u] \in Handles \cup {NoHandle}
      /\ handle[u] # NoHandle => handle[u] # handle[t]
  BY DEF TasksInv, Types, Apart
<1>2. Touches(t) => (handle[u] # NoHandle => tasks'[handle[u]] = tasks[handle[u]])
  BY <1>1 DEF Touches
<1>3. Leave(t) => call'[u] = call[u] /\ pc'[u] = pc[u] /\ handle'[u] = handle[u]
  BY DEF Leave, TasksInv, Types
<1>4. ASSUME NEW i, GoTo(t, i)
      PROVE  call'[u] = call[u] /\ pc'[u] = pc[u]
  BY <1>4 DEF GoTo, TasksInv, Types
<1>5. Advance(t) => call'[u] = call[u] /\ pc'[u] = pc[u] /\ handle'[u] = handle[u]
  BY <1>3, <1>4 DEF Advance
<1>6. CASE CreateTask(t)
  <2>1. Unused # {}
    BY <1>6 DEF CreateTask, Accepts
  <2>2. NextHandle \in Handles /\ NextHandle # handle[u]
    BY <2>1, NextHandleIsNew DEF Remembered
  <2>. QED
    BY <1>4, <1>6, <2>2 DEF CreateTask, TasksInv, Types
<1>7. CASE CallDriver(t)
  BY <1>2, <1>5, <1>7, CallTouches DEF CallDriver
<1>8. CASE ErrorThrows(t)
  BY <1>2, <1>3, <1>8, CleanedTouches, SameTouches DEF ErrorThrows, Throw
<1>9. CASE ErrorRetries(t)
  <2>1. handle'[u] = handle[u]
    BY <1>9 DEF ErrorRetries, TasksInv, Types
  <2>. QED
    BY <1>2, <1>4, <1>9, <2>1, CleanedTouches, SameTouches DEF ErrorRetries
<1>10. CASE GivesUp(t)
  BY <1>3, <1>10 DEF GivesUp, Throw
<1>11. CASE ErrorIgnored(t)
  BY <1>5, <1>11 DEF ErrorIgnored
<1>. QED
  BY <1>6, <1>7, <1>8, <1>9, <1>10, <1>11 DEF Work

(* A task is started by a call of the driver, which wants its resource to  *)
(* be free, and by nothing else.                                           *)
LEMMA StartNeeds ==
  ASSUME TasksInv, [Next]_vars, NEW g \in Handles, tasks'[g].state = "started"
  PROVE  \/ tasks'[g] = tasks[g]
         \/ /\ Available(g) /\ tasks'[g].res = tasks[g].res
            /\ \A f \in Handles \ {g} : tasks'[f] = tasks[f]
<1>1. ASSUME NEW h, tasks' = Cleaned(h) PROVE tasks'[g] = tasks[g]
  BY <1>1 DEF Cleaned, Live, NoTask, TasksInv, Types
<1>2. ASSUME NEW t \in Threads, CallDriver(t) PROVE
        \/ tasks'[g] = tasks[g]
        \/ /\ Available(g) /\ tasks'[g].res = tasks[g].res
           /\ \A f \in Handles \ {g} : tasks'[f] = tasks[f]
  <2>1. /\ Touches(t) /\ handle[t] \in Handles
        /\ tasks'[handle[t]] = TaskAfter(handle[t], Now(t).call)
    BY <1>2, CallTouches
  <2>2. CASE g # handle[t]
    BY <2>1, <2>2 DEF Touches
  <2>3. CASE g = handle[t] /\ Now(t).call = "start"
    <3>1. Available(g)
      BY <1>2, <2>3 DEF CallDriver, Accepts
    <3>2. tasks'[g].res = tasks[g].res
      BY <2>1, <2>3 DEF TaskAfter, TasksInv, Types, Task
    <3>. QED
      BY <2>1, <2>3, <3>1, <3>2 DEF Touches
  <2>4. CASE g = handle[t] /\ Now(t).call # "start"
    BY <2>1, <2>4 DEF TaskAfter, NoTask, TasksInv, Types, Task
  <2>. QED
    BY <2>2, <2>3, <2>4
<1>3. ASSUME NEW t \in Threads, CreateTask(t) PROVE tasks'[g] = tasks[g]
  BY <1>3 DEF CreateTask, TasksInv, Types
<1>4. ASSUME NEW t \in Threads, NEW c \in Calls[t], Enter(t, c)
      PROVE  tasks'[g] = tasks[g]
  BY <1>4 DEF Enter
<1>5. ASSUME NEW t \in Threads,
             ErrorThrows(t) \/ ErrorRetries(t) \/ GivesUp(t) \/ ErrorIgnored(t)
      PROVE  tasks'[g] = tasks[g]
  BY <1>1, <1>5 DEF ErrorThrows, ErrorRetries, GivesUp, ErrorIgnored
<1>. QED
  BY <1>2, <1>3, <1>4, <1>5 DEF Next, Work, vars

LEMMA StartedStays ==
  ASSUME TasksInv, StartedApart, [Next]_vars
  PROVE  StartedApart'
<1>. SUFFICES ASSUME NEW g \in Handles, NEW h \in Handles,
                     tasks'[g].state = "started", tasks'[h].state = "started",
                     tasks'[g].res = tasks'[h].res, g # h
              PROVE  FALSE
  BY DEF StartedApart
<1>1. CASE tasks'[g] = tasks[g] /\ tasks'[h] = tasks[h]
  BY <1>1 DEF StartedApart
<1>2. CASE tasks'[g] # tasks[g]
  <2>1. /\ Available(g) /\ tasks'[g].res = tasks[g].res
        /\ tasks'[h] = tasks[h]
    BY <1>2, StartNeeds
  <2>. QED
    BY <2>1 DEF Available
<1>3. CASE tasks'[h] # tasks[h]
  <2>1. /\ Available(h) /\ tasks'[h].res = tasks[h].res
        /\ tasks'[g] = tasks[g]
    BY <1>3, StartNeeds
  <2>. QED
    BY <2>1 DEF Available
<1>. QED
  BY <1>1, <1>2, <1>3

(* What a sampling thread that is at a position has there.                 *)
LEMMA SamplerAt ==
  ASSUME TasksInv, SamplersReady, NEW t \in Threads, call[t].op \in Samplers
  PROVE  /\ Busy(t) /\ ~Keeps(t) /\ pc[t] \in 1 .. 6
         /\ Script(t) = Scripts[call[t].op] /\ Now(t) = Scripts[call[t].op][pc[t]]
         /\ Len(Script(t)) = 6 /\ Position(Script(t), "start") = 4
         /\ pc[t] > 1 => Live(handle[t]) /\ handle[t] \in Handles
         /\ call[t].res \in Resources /\ AtPosition(t)
<1>1. Busy(t)
  BY DEF Busy, NoCall, Samplers
<1>2. Len(Scripts[call[t].op]) = 6 /\ call[t].op \notin Keeping
      /\ Position(Scripts[call[t].op], "start") = 4
  BY SamplerScripts
<1>3. pc[t] \in 1 .. 6 /\ (pc[t] > 1 => handle[t] \in Handles /\ handle[t] # NoHandle)
  BY <1>1, <1>2 DEF TasksInv, Types, Placed, PlacedAt, Script
<1>4. AtPosition(t)
  BY DEF SamplersReady
<1>5. pc[t] > 1 => tasks[handle[t]].state # "none"
  BY <1>3, <1>4 DEF AtPosition
<1>6. call[t].res \in Resources
  BY <1>1, Called DEF TasksInv, Call
<1>. QED
  BY <1>1, <1>2, <1>3, <1>4, <1>5, <1>6 DEF Keeps, Script, Now, Live

LEMMA ReadyStays ==
  ASSUME TasksInv, SamplersReady, ~DriverFails, [Next]_vars
  PROVE  SamplersReady'
<1>. SUFFICES ASSUME NEW u \in Threads, call'[u].op \in Samplers
              PROVE  AtPosition(u)'
  BY DEF SamplersReady
<1>1. ASSUME call'[u] = call[u], pc'[u] = pc[u], handle'[u] = handle[u],
             handle[u] # NoHandle => tasks'[handle[u]] = tasks[handle[u]]
      PROVE  AtPosition(u)'
  <2>1. AtPosition(u) /\ pc[u] \in 1 .. 6 /\ (pc[u] > 1 => handle[u] # NoHandle)
    BY <1>1, SamplerAt DEF Live
  <2>. QED
    BY <1>1, <2>1 DEF AtPosition
<1>2. ASSUME Leave(u) PROVE FALSE
  BY <1>2 DEF Leave, TasksInv, Types, NoCall, Samplers
<1>3. CASE UNCHANGED vars
  BY <1>1, <1>3 DEF vars, localVars
<1>4. ASSUME NEW t \in Threads, NEW c \in Calls[t], Enter(t, c) PROVE AtPosition(u)'
  <2>1. CASE t # u
    BY <1>1, <1>4, <2>1 DEF Enter, TasksInv, Types
  <2>2. CASE t = u
    <3>1. call'[u] = c
      BY <1>4, <2>2 DEF Enter, TasksInv, Types
    <3>2. c.op \notin Keeping
      BY <3>1, SamplerScripts
    <3>3. pc'[u] = 1
      BY <1>4, <2>2, <3>2 DEF Enter, TasksInv, Types
    <3>. QED
      BY <3>3 DEF AtPosition
  <2>. QED
    BY <2>1, <2>2
<1>6. ASSUME NEW t \in Threads \ {u}, Work(t) PROVE AtPosition(u)'
  <2>1. /\ call'[u] = call[u] /\ pc'[u] = pc[u] /\ handle'[u] = handle[u]
        /\ handle[u] # NoHandle => tasks'[handle[u]] = tasks[handle[u]]
    BY <1>6, OthersKept
  <2>. QED
    BY <1>1, <2>1
<1>7. ASSUME Work(u) PROVE AtPosition(u)'
  <2>1. call'[u] = call[u]
    BY <1>2, <1>7 DEF Work, CreateTask, CallDriver, ErrorThrows, ErrorRetries,
       GivesUp, ErrorIgnored, Throw, Advance, GoTo
  <2>2. call[u].op \in Samplers
    BY <2>1
  <2>3. /\ pc[u] \in 1 .. 6 /\ Now(u) = Scripts[call[u].op][pc[u]]
        /\ Len(Script(u)) = 6 /\ Position(Script(u), "start") = 4
        /\ pc[u] > 1 => Live(handle[u]) /\ handle[u] \in Handles
        /\ AtPosition(u) /\ Script(u) = Scripts[call[u].op]
    BY <2>2, SamplerAt
  <2>4. /\ Now(u).onError \notin {"retry", "again"}
        /\ Now(u).onError = "ignore" => pc[u] = 6 /\ Now(u).call = "stop"
        /\ Now(u).call # "create" => pc[u] > 1
    BY <2>2, <2>3, SamplerScripts
  <2>5. CASE CreateTask(u)
    <3>1. NextHandle \in Handles
      BY <2>5, NextHandleIsNew DEF CreateTask, Accepts
    <3>2. pc[u] = 1
      BY <2>2, <2>3, <2>5, SamplerScripts DEF CreateTask
    <3>3. /\ pc'[u] = 2 /\ handle'[u] = NextHandle
          /\ tasks'[NextHandle].state = "created"
          /\ tasks'[NextHandle].res = call[u].res
      BY <2>5, <3>1, <3>2 DEF CreateTask, GoTo, TasksInv, Types
    <3>. QED
      BY <2>1, <3>3 DEF AtPosition
  <2>6. CASE CallDriver(u)
    <3>1. /\ handle[u] \in Handles
          /\ tasks'[handle[u]] = TaskAfter(handle[u], Now(u).call)
      BY <2>6, CallTouches
    <3>2. Now(u).call # "create" /\ pc[u] \in 2 .. 6
      BY <2>3, <2>4, <2>6 DEF CallDriver
    <3>3. /\ handle'[u] = handle[u]
          /\ pc'[u] = IF pc[u] < 6 THEN pc[u] + 1 ELSE 4
      <4>1. \/ pc[u] < 6 /\ GoTo(u, pc[u] + 1) /\ handle' = handle
            \/ pc[u] = 6 /\ GoTo(u, 4) /\ handle' = handle
        BY <1>2, <2>2, <2>3, <2>6 DEF CallDriver, Advance
      <4>2. pc \in [Threads -> Nat]
        BY DEF TasksInv, Types
      <4>3. ASSUME NEW i, GoTo(u, i) PROVE pc'[u] = i
        BY <4>2, <4>3 DEF GoTo
      <4>4. CASE pc[u] < 6
        BY <4>1, <4>3, <4>4
      <4>5. CASE pc[u] = 6
        BY <4>1, <4>3, <4>5
      <4>. QED
        BY <3>2, <4>4, <4>5
    <3>4. tasks[handle[u]] \in Task
      BY <3>1 DEF TasksInv, Types
    <3>5. CASE pc[u] = 2
      <4>1. Now(u).call = "chan" /\ pc'[u] = 3
        BY <2>2, <2>3, <3>3, <3>5, SamplerScripts
      <4>. QED
        BY <2>1, <2>3, <3>1, <3>3, <3>4, <3>5, <4>1 DEF TaskAfter, AtPosition, Task
    <3>6. CASE pc[u] = 3
      <4>1. Now(u).call = "clock" /\ pc'[u] = 4
        BY <2>2, <2>3, <3>3, <3>6, SamplerScripts
      <4>. QED
        BY <2>1, <2>3, <3>1, <3>3, <3>4, <3>6, <4>1 DEF TaskAfter, AtPosition, Task
    <3>7. CASE pc[u] = 4
      <4>1. Now(u).call = "start" /\ pc'[u] = 5
        BY <2>2, <2>3, <3>3, <3>7, SamplerScripts
      <4>. QED
        BY <2>1, <2>3, <3>1, <3>3, <3>4, <3>7, <4>1 DEF TaskAfter, AtPosition, Task
    <3>8. CASE pc[u] = 5
      <4>1. Now(u).call = "read" /\ pc'[u] = 6
        BY <2>2, <2>3, <3>3, <3>8, SamplerScripts
      <4>. QED
        BY <2>1, <2>3, <3>1, <3>3, <3>4, <3>8, <4>1 DEF TaskAfter, AtPosition, Task
    <3>9. CASE pc[u] = 6
      <4>1. Now(u).call = "stop" /\ pc'[u] = 4
        BY <2>2, <2>3, <3>3, <3>9, SamplerScripts
      <4>. QED
        BY <2>1, <2>3, <3>1, <3>3, <3>4, <3>9, <4>1 DEF TaskAfter, AtPosition, Task
    <3>. QED
      BY <3>2, <3>5, <3>6, <3>7, <3>8, <3>9
  <2>7. CASE ErrorThrows(u) \/ GivesUp(u)
    BY <1>2, <2>7 DEF ErrorThrows, GivesUp, Throw
  <2>8. ~ErrorRetries(u)
    BY <2>4 DEF ErrorRetries
  <2>9. ~ErrorIgnored(u)
    <3>1. SUFFICES ASSUME ErrorIgnored(u) PROVE FALSE
      OBVIOUS
    <3>2. Now(u).call = "stop" /\ pc[u] > 1
      BY <2>4, <3>1 DEF ErrorIgnored
    <3>3. ~Accepts(handle[u], "stop")
      BY <3>1, <3>2 DEF ErrorIgnored, Errs
    <3>. QED
      BY <2>3, <3>2, <3>3 DEF Accepts
  <2>. QED
    BY <1>7, <2>5, <2>6, <2>7, <2>8, <2>9 DEF Work
<1>. QED
  BY <1>3, <1>4, <1>6, <1>7 DEF Next

LEMMA OnlyBlockedEnds ==
  ASSUME TasksInv, SamplersReady, StartedApart, ~DriverFails, [Next]_vars,
         alive, ~alive'
  PROVE  \E t \in Threads : call[t].op \in Samplers /\ Blocked(t)
<1>1. PICK t \in Threads : Throw(t) /\ (ErrorThrows(t) \/ GivesUp(t))
  <2>1. alive' # alive
    OBVIOUS
  <2>2. ASSUME NEW t \in Threads, Advance(t) PROVE alive' = alive
    BY <2>2 DEF Advance, GoTo
  <2>. QED
    BY <2>1, <2>2 DEF Next, Work, Enter, CreateTask, CallDriver,
       ErrorThrows, ErrorRetries, GivesUp, ErrorIgnored, GoTo, vars
<1>2. call[t].op \in Samplers
  BY <1>1 DEF Throw
<1>3. /\ pc[t] \in 1 .. 6 /\ Now(t) = Scripts[call[t].op][pc[t]]
      /\ pc[t] > 1 => Live(handle[t]) /\ handle[t] \in Handles
      /\ AtPosition(t)
  BY <1>2, SamplerAt
<1>4. ~Accepts(handle[t], Now(t).call)
  BY <1>1 DEF ErrorThrows, GivesUp, Errs
<1>5. CASE pc[t] = 1
  <2>1. Now(t).call = "create"
    BY <1>2, <1>3, <1>5, SamplerScripts
  <2>. QED
    BY <1>2, <1>4, <2>1 DEF Accepts, Blocked
<1>6. CASE pc[t] = 2
  <2>1. Now(t).call = "chan"
    BY <1>2, <1>3, <1>6, SamplerScripts
  <2>. QED
    BY <1>3, <1>4, <1>6, <2>1 DEF Accepts
<1>7. CASE pc[t] = 3
  <2>1. Now(t).call = "clock"
    BY <1>2, <1>3, <1>7, SamplerScripts
  <2>. QED
    BY <1>3, <1>4, <1>7, <2>1 DEF Accepts, AtPosition
<1>8. CASE pc[t] = 4
  <2>1. Now(t).call = "start"
    BY <1>2, <1>3, <1>8, SamplerScripts
  <2>2. ~Available(handle[t])
    BY <1>3, <1>4, <1>8, <2>1 DEF Accepts, AtPosition
  <2>3. PICK g \in Handles \ {handle[t]} :
          tasks[g].state = "started" /\ tasks[g].res = tasks[handle[t]].res
    BY <2>2 DEF Available
  <2>4. g \in Remembered /\ g # NoHandle
    BY <2>3, DaqAssumption DEF TasksInv, NothingForgotten, Handles, NoHandle
  <2>5. tasks[handle[t]].res = call[t].res
    BY <1>3, <1>8 DEF AtPosition
  <2>. QED
    BY <1>2, <2>1, <2>3, <2>4, <2>5 DEF Blocked
<1>9. CASE pc[t] = 5
  <2>1. Now(t).call = "read"
    BY <1>2, <1>3, <1>9, SamplerScripts
  <2>2. tasks[handle[t]].state = "started" /\ handle[t] \in Handles /\ Live(handle[t])
    BY <1>3, <1>9 DEF AtPosition
  <2>3. Available(handle[t])
    BY <2>2 DEF StartedApart, Available
  <2>. QED
    BY <1>4, <2>1, <2>2, <2>3 DEF Accepts
<1>10. CASE pc[t] = 6
  <2>1. Now(t).call = "stop"
    BY <1>2, <1>3, <1>10, SamplerScripts
  <2>. QED
    BY <1>3, <1>4, <1>10, <2>1 DEF Accepts
<1>. QED
  BY <1>3, <1>5, <1>6, <1>7, <1>8, <1>9, <1>10

(* The readings by hand take mutexes to "ensure thread safety", but the    *)
(* sampling threads readMod1() to readMod4() take none. With a driver that *)
(* never fails by itself the gateway ends in two ways only: a sampling     *)
(* thread begins when the driver has no task left, or starts its task      *)
(* while a method under way, or an entry of counterTasksMap, has the       *)
(* module started. A sampling thread never fails between a start and the   *)
(* stop that follows.                                                      *)
THEOREM EndsOnlyBlocked ==
  ASSUME ~DriverFails
  PROVE  Spec => EndsBlocked
<1>1. Init => SamplersReady /\ StartedApart
  BY DEF Init, SamplersReady, StartedApart, NoCall, NoTask, Samplers
<1>2. TasksInv /\ SamplersReady /\ StartedApart /\ [Next]_vars
        => SamplersReady' /\ StartedApart'
  BY ReadyStays, StartedStays
<1>3. TasksInv /\ SamplersReady /\ StartedApart /\ [Next]_vars =>
        [alive /\ ~alive' =>
           \E t \in Threads : call[t].op \in Samplers /\ Blocked(t)]_vars
  BY OnlyBlockedEnds
<1>. QED
  BY <1>1, <1>2, <1>3, TasksInductive, PTL DEF Spec, EndsBlocked

=============================================================================
