---------------------------- MODULE ModuleConfig ----------------------------
(***************************************************************************)
(* The settings of a plugged module and their ini file, over any number of *)
(* starts of the gateway.                                                  *)
(*                                                                         *)
(* At every start EnumerateCRIOPluggedModules() makes the module object    *)
(* with its built-in settings, gives it the alias that the chassis reports,*)
(* loads the ini file key by key (a key that is missing is written with    *)
(* the default of the moment) and saves everything again: the file is      *)
(* truncated first, then every key is a read-modify-write of the file.     *)
(* Between two starts the user edits the file; at any moment the power may *)
(* fail.                                                                   *)
(*                                                                         *)
(* A list of names is known by its length, and a range by numbers that the *)
(* six decimals of the file keep. The alias stands for the keys of         *)
(* [modules] that are both loaded and saved. Left out are three keys that  *)
(* nothing else depends on as long as they are the module's own: type,     *)
(* which nobody edits here, edgecountingmode and countingdirection; a      *)
(* missing one is read as what the object has, like the alias.             *)
(***************************************************************************)
EXTENDS Integers, Sequences

CONSTANTS
  Types,        \* the module types of the factory
  Kind,         \* Kind[t]: its ModuleType
  Made,         \* Made[t]: what initModule() sets
  Aliases,      \* the aliases a module may have
  Missing,      \* no value in the file
  Limits,       \* the analog limits a user writes into a file
  CounterLimits,\* the limits of counters a user writes
  Counts,       \* the numbers of channels, counters, outputs a user writes
  CounterTop,   \* 4294967295
  MaxChanges    \* bound: changes made between two starts

(* The keys of the file in the order in which loadFromFile() reads and     *)
(* saveToFile() writes them; a list of names is one key.                   *)
Order == <<"alias",
           "numberofchannels", "max", "min", "channels",
           "numberofcounters", "counters", "countingmax", "countingmin",
           "numberofdigitaloutputs", "outputs">>
Keys == {Order[i] : i \in 1 .. Len(Order)}
Numbers == Keys \ {"alias"}
Lists == {"channels", "counters", "outputs"}

(* The number and the list of names that a module of this kind is for.     *)
NumberOf(kind) ==
  CASE kind = "analog" -> "numberofchannels"
    [] kind \in {"counter", "coder"} -> "numberofcounters"
    [] kind = "output" -> "numberofdigitaloutputs"

NamesOf(kind) ==
  CASE kind = "analog" -> "channels"
    [] kind \in {"counter", "coder"} -> "counters"
    [] kind = "output" -> "outputs"

ASSUME ConfigAssumption ==
  /\ Kind \in [Types -> {"analog", "counter", "coder", "output"}]
  /\ Made \in [Types -> [Numbers -> Int]]
  /\ \A t \in Types : Made[t]["min"] < Made[t]["max"]
  /\ \A t \in Types : Made[t]["countingmin"] < Made[t]["countingmax"]
  /\ \A t \in Types :
       Kind[t] = "counter" => Made[t]["counters"] = Made[t]["numberofcounters"]
  /\ \A t \in Types : Made[t][NumberOf(Kind[t])] # 0
  /\ Limits \subseteq Int
  /\ Counts \subseteq Nat
  /\ CounterTop \in Nat
  /\ CounterLimits \subseteq 0 .. CounterTop
  /\ Missing \notin Int \cup Aliases
  /\ MaxChanges \in Nat

VARIABLES
  type,      \* the module that is plugged into the slot
  chassis,   \* the alias the chassis reports for it
  exists,    \* the ini file is there
  file,      \* file[k]: what it holds
  mem,       \* the settings of the module object
  phase,     \* "off", "load", "truncate", "save", "running"
  pos,       \* the key that load or save is at
  changes,   \* bound: changes made so far
  last,      \* the settings of the last complete start
  asked,     \* the file as this start found it
  calm       \* nothing has failed, calm.power, or been changed,
             \* calm.user, since the last complete start, nor,
             \* calm.before, between that one and the one before it

vars == <<type, chassis, exists, file, mem, phase, pos, changes, last, asked, calm>>

Blank == [k \in Keys |-> IF k \in Lists THEN 0 ELSE Missing]
Settings == {f \in [Keys -> Int \cup Aliases] :
               f["alias"] \in Aliases /\ \A k \in Numbers : f[k] \in Int}

(* A new object after setAlias(). *)
Fresh == [k \in Keys |-> IF k = "alias" THEN chassis ELSE Made[type][k]]

(* The settings that a module of this kind has and saves.                  *)
Matters ==
  {"alias"} \cup
  CASE Kind[type] = "analog" -> {"numberofchannels", "max", "min", "channels"}
    [] Kind[type] = "counter" ->
         {"numberofcounters", "counters", "countingmax", "countingmin"}
    [] Kind[type] = "coder" -> {"numberofcounters", "counters"}
    [] Kind[type] = "output" -> {"numberofdigitaloutputs", "outputs"}

TypeOK ==
  /\ type \in Types
  /\ chassis \in Aliases
  /\ exists \in BOOLEAN
  /\ file \in [Keys -> Int \cup Aliases \cup {Missing}]
  /\ \A k \in Lists : file[k] \in Int
  /\ \A k \in Numbers : file[k] \in Int \cup {Missing}
  /\ file["alias"] \in Aliases \cup {Missing}
  /\ mem \in [Keys -> Int \cup Aliases]
  /\ mem["alias"] \in Aliases
  /\ \A k \in Numbers : mem[k] \in Int
  /\ phase \in {"off", "load", "truncate", "save", "running"}
  /\ pos \in 1 .. Len(Order) + 1
  /\ changes \in 0 .. MaxChanges

Init ==
  /\ type \in Types
  /\ chassis \in Aliases
  /\ exists = FALSE
  /\ file = Blank
  /\ mem = Fresh
  /\ phase = "off"
  /\ pos = 1
  /\ changes = 0
  /\ last = mem
  /\ asked = Blank
  /\ calm = [power |-> TRUE, user |-> FALSE, before |-> FALSE]

----------------------------------------------------------------------------
(* Between two starts.                                                     *)

Change ==
  /\ phase = "off"
  /\ changes < MaxChanges
  /\ changes' = changes + 1
  /\ calm' = [calm EXCEPT !.user = FALSE]
  /\ UNCHANGED <<type, mem, phase, pos, last, asked>>

(* The settings of a module that a user may write, and their values.       *)
Editable ==
  {e \in {<<"alias", a>> : a \in Aliases}
           \cup ({"max", "min"} \X Limits)
           \cup ({"countingmax", "countingmin"} \X CounterLimits)
           \cup ({"numberofchannels", "numberofcounters", "numberofdigitaloutputs"}
                    \X Counts) : e[1] \in Matters}

Edit(k, v) ==
  /\ Change
  /\ exists
  /\ file' = [file EXCEPT ![k] = v]
  /\ UNCHANGED <<chassis, exists>>

Delete ==
  /\ Change
  /\ exists
  /\ exists' = FALSE
  /\ file' = Blank
  /\ UNCHANGED chassis

Rename(a) ==
  /\ Change
  /\ chassis' = a
  /\ UNCHANGED <<exists, file>>

----------------------------------------------------------------------------
(* A start: EnumerateCRIOPluggedModules().                                 *)

(* Without a file loadConfig() gives up: fopen(..., "r") fails.            *)
Start ==
  /\ phase = "off"
  /\ mem' = Fresh
  /\ phase' = IF exists THEN "load" ELSE "truncate"
  /\ pos' = 1
  /\ asked' = file
  /\ UNCHANGED <<type, chassis, exists, file, changes, last, calm>>

(* What readValue() returns for a key that is missing.                     *)
Default(k) ==
  CASE k = "min" -> mem["max"]            \* m_analogChanMax, for both limits
    [] k = "countingmax" -> CounterTop
    [] k = "countingmin" -> 0
    [] OTHER -> mem[k]

Value_Empty(k) == file[k]   \* mutant: a missing key is read as it is

Value(k) == IF file[k] = Missing THEN Default(k) ELSE file[k]

(* setChanMax(), setChanMin(), setCounterMax() and setCounterMin() refuse  *)
(* a limit that does not leave a range.                                    *)
SetHigh(m, high, low, v) == IF v > m[low] THEN [m EXCEPT ![high] = v] ELSE m

SetLow_Unguarded(m, high, low, v) ==   \* mutant: the low limit is set whatever the high one is
  [m EXCEPT ![low] = v]

SetLow(m, high, low, v) == IF v < m[high] THEN [m EXCEPT ![low] = v] ELSE m

SetLimits_LowFirst(m, high, low, newHigh, newLow) ==   \* mutant: the low limit is set before the high one
  SetHigh(SetLow(m, high, low, newLow), high, low, newHigh)

SetLimits(m, high, low, newHigh, newLow) ==
  SetLow(SetHigh(m, high, low, newHigh), high, low, newLow)

(* The number of names that readStringVector() is asked for.               *)
CountOf(k) ==
  CASE k = "channels" -> mem["numberofchannels"]
    [] k = "counters" -> file["numberofcounters"]
    [] k = "outputs" -> file["numberofdigitaloutputs"]

(* What has been read goes into the object. The numbers of counters and    *)
(* outputs stay local to loadCounters() and loadOutputs(), except that a   *)
(* counter module without counters gets eight; max waits for min.          *)
Taken(k) ==
  CASE k \in {"alias", "numberofchannels"} -> [mem EXCEPT ![k] = Value(k)]
    [] k = "min" -> SetLimits(mem, "max", "min", Value("max"), Value("min"))
    [] k = "countingmin" ->
         SetLimits(mem, "countingmax", "countingmin", Value("countingmax"),
                   IF Value("countingmin") > Value("countingmax")
                   THEN CounterTop ELSE Value("countingmin"))
    [] k \in Lists -> [mem EXCEPT ![k] = CountOf(k)]
    [] k = "numberofcounters" /\ Kind[type] = "counter" /\ Value(k) = 0 ->
         [mem EXCEPT ![k] = 8]
    [] OTHER -> mem

(* loadCounters() and loadOutputs() return at once when there is nothing   *)
(* to load in a module made for it.                                        *)
After(k) ==
  CASE k = "numberofcounters" /\ Kind[type] = "counter" /\ Value(k) = 0 -> pos + 4
    [] k = "numberofdigitaloutputs" /\ Kind[type] = "output" /\ Value(k) = 0 -> pos + 2
    [] OTHER -> pos + 1

Key == Order[pos]

(* readStringVector() indexes a copy of the old names with the new count;  *)
(* beyond its end the names are whatever memory holds, or the program dies *)
(* (PowerFails).                                                           *)
Load ==
  /\ phase = "load"
  /\ pos <= Len(Order)
  /\ mem' = Taken(Key)
  /\ file' = [file EXCEPT ![Key] =
                IF Key \in Lists
                THEN IF CountOf(Key) > @ THEN CountOf(Key) ELSE @
                ELSE Value(Key)]
  /\ pos' = After(Key)
  /\ UNCHANGED <<type, chassis, exists, phase, changes, last, asked, calm>>

Loaded ==
  /\ phase = "load"
  /\ pos > Len(Order)
  /\ phase' = "truncate"
  /\ UNCHANGED <<type, chassis, exists, file, mem, pos, changes, last, asked, calm>>

(* saveConfig(): fopen(..., "w"). *)
Truncate ==
  /\ phase = "truncate"
  /\ exists' = TRUE
  /\ file' = Blank
  /\ phase' = "save"
  /\ pos' = 1
  /\ UNCHANGED <<type, chassis, mem, changes, last, asked, calm>>

(* The keys that saveModules(), saveChannels(), saveCounters() and         *)
(* saveOutputs() write: a list goes with its number, and a number that     *)
(* does not fit its list keeps the section out of the file.                *)
Fits(number, names) == mem[number] # 0 /\ mem[names] = mem[number]

Saved_NoMin ==   \* mutant: saveChannels() forgets the low limit
  {"alias"}
    \cup (IF Kind[type] = "analog" /\ Fits("numberofchannels", "channels")
          THEN {"numberofchannels", "max", "channels"} ELSE {})
    \cup (IF Kind[type] # "counter" THEN {"numberofcounters", "counters"}
          ELSE IF Fits("numberofcounters", "counters")
          THEN {"numberofcounters", "counters", "countingmax", "countingmin"} ELSE {})
    \cup (IF Fits("numberofdigitaloutputs", "outputs")
          THEN {"numberofdigitaloutputs", "outputs"} ELSE {})

Saved ==
  {"alias"}
    \cup (IF Kind[type] = "analog" /\ Fits("numberofchannels", "channels")
          THEN {"numberofchannels", "max", "min", "channels"} ELSE {})
    \cup (IF Kind[type] # "counter" THEN {"numberofcounters", "counters"}
          ELSE IF Fits("numberofcounters", "counters")
          THEN {"numberofcounters", "counters", "countingmax", "countingmin"} ELSE {})
    \cup (IF Fits("numberofdigitaloutputs", "outputs")
          THEN {"numberofdigitaloutputs", "outputs"} ELSE {})

(* As many names are written as the number says. *)
Written(k) == IF k = "counters" THEN mem["numberofcounters"] ELSE mem[k]

Save ==
  /\ phase = "save"
  /\ pos <= Len(Order)
  /\ file' = IF Key \in Saved THEN [file EXCEPT ![Key] = Written(Key)] ELSE file
  /\ pos' = pos + 1
  /\ UNCHANGED <<type, chassis, exists, mem, phase, changes, last, asked, calm>>

SaveDone ==
  /\ phase = "save"
  /\ pos > Len(Order)
  /\ phase' = "running"
  /\ last' = mem
  /\ calm' = [power |-> TRUE, user |-> TRUE, before |-> calm.power /\ calm.user]
  /\ UNCHANGED <<type, chassis, exists, file, mem, pos, changes, asked>>

Stop ==
  /\ phase = "running"
  /\ phase' = "off"
  /\ UNCHANGED <<type, chassis, exists, file, mem, pos, changes, last, asked, calm>>

(* The power fails, or the program dies, during a start: between two keys, *)
(* or in the write of one, which has truncated the file. The next start    *)
(* makes a new object.                                                     *)
Writing ==
  /\ phase \in {"load", "save"}
  /\ pos <= Len(Order)
  /\ IF phase = "load" THEN file[Key] = Missing ELSE Key \in Saved

PowerFails ==
  /\ phase \in {"load", "truncate", "save"}
  /\ phase' = "off"
  /\ file' \in {file} \cup (IF Writing THEN {Blank} ELSE {})
  /\ mem' = Fresh
  /\ pos' = 1
  /\ calm' = [calm EXCEPT !.power = FALSE]
  /\ UNCHANGED <<type, chassis, exists, changes, last, asked>>

Next ==
  \/ \E e \in Editable : Edit(e[1], e[2])
  \/ Delete
  \/ \E a \in Aliases : Rename(a)
  \/ Start \/ Load \/ Loaded \/ Truncate \/ Save \/ SaveDone
  \/ Stop \/ PowerFails

Spec == Init /\ [][Next]_vars

----------------------------------------------------------------------------
(* Properties.                                                             *)

(* Whatever the file holds, whoever edited it and whenever the power       *)
(* failed, the limits of the object are ranges: the guards of the setters  *)
(* against the order and the defaults of loadChannels(), loadCounters().   *)
RangeOrdered ==
  /\ mem["min"] < mem["max"]
  /\ mem["countingmin"] < mem["countingmax"]

(* There are as many names as the number says, and some.                   *)
Whole(m) ==
  /\ m[NumberOf(Kind[type])] # 0
  /\ m[NamesOf(Kind[type])] = m[NumberOf(Kind[type])]

Same(m, n) == \A k \in Matters : m[k] = n[k]

(* A start that follows a complete one, with nothing changed and no power  *)
(* failure in between, leaves as many names as the number says, and        *)
(* changes nothing when there were as many already: loadFromFile() undoes  *)
(* saveToFile(), defaults and setters included. When there were not, which *)
(* is so for a new NI9481 and after an edit of a number, saveToFile()      *)
(* keeps the section out of the file and this start changes the settings;  *)
(* the next one does not change them again.                                *)
StableStart ==
  [][phase = "save" /\ phase' = "running" /\ calm.user /\ calm.power
       => /\ Whole(mem')
          /\ Whole(last) \/ calm.before => Same(mem', last)]_vars

Sound(f) ==
  /\ \A k \in Matters : f[k] # Missing
  /\ Whole(f)
  /\ CASE Kind[type] = "analog" -> f["min"] < f["max"] /\ f["max"] > Made[type]["min"]
       [] Kind[type] = "counter" ->
            /\ f["countingmin"] < f["countingmax"]
            /\ f["countingmax"] > Made[type]["countingmin"]
            /\ f["numberofcounters"] = Made[type]["numberofcounters"]
       [] Kind[type] = "coder" -> f["numberofcounters"] = Made[type]["numberofcounters"]
       [] Kind[type] = "output" ->
            f["numberofdigitaloutputs"] = Made[type]["numberofdigitaloutputs"]

(* A complete file with proper limits, whose high one lies above the       *)
(* built-in low one, is taken as it is and is on the disk again when the   *)
(* gateway runs: loadConfig() and saveConfig() of one start.               *)
FileTaken ==
  phase = "running" /\ Sound(asked) => Same(mem, asked) /\ Same(file, asked)

(* "load previous config if it exists (otherwise this will be default      *)
(* values of the module)" in EnumerateCRIOPluggedModules(): when nobody    *)
(* has changed anything, a start ends with the settings of the last one or *)
(* with the built-in ones.                                                 *)
PreviousOrDefault ==
  [][phase = "save" /\ phase' = "running" /\ calm.user /\ Whole(last)
       => Same(mem', last) \/ Same(mem', Fresh)]_vars

(* "let's ensure our config files stay synchronized" with "the properties  *)
(* we could retrieve from NISysConfig" in EnumerateCRIOPluggedModules():   *)
(* the file has the alias that the chassis reports.                        *)
AliasSynchronized == phase = "running" => file["alias"] = chassis

=============================================================================
