---------------------------- MODULE AcquireData ----------------------------
(***************************************************************************)
(* The way of a measurement from a module to the registers.                *)
(*                                                                         *)
(* The sampling threads (readMod1, readMod2, readMod3) measure a window,   *)
(* average it with an old one when the rolling window is switched on, and  *)
(* restore() the result into the buffer of their module. The timer thread  *)
(* runs acquireData(): row by row of the mapping it copies a buffer or     *)
(* reads the counters, writes the line, and publishes it at the end.       *)
(*                                                                         *)
(* A window is known by its number and by the numbers of the windows that  *)
(* were averaged into it; a buffer's copy() and restore() hold its mutex   *)
(* and are one step each. Counters are words of WordBase values. Time is   *)
(* counted in periods of the acquisition timer.                            *)
(***************************************************************************)
EXTENDS Naturals, Sequences, FiniteSets

CONSTANTS
  Rows,        \* the mapping, in the order of the file
  Chassis,     \* what EnumerateCRIOPluggedModules() may find: sets of modules
  Sampled,     \* the modules with a sampling thread
  OldFirst,    \* those that keep the old window before they restore the new
  LineSize,    \* getSRUMappingSizeWithoutAlarms()
  WordBase,    \* 2^16: values of a register
  Second,      \* timer periods in a second
  MaxTick,     \* bound: ticks
  MaxWindow,   \* bound: windows of a module
  MaxTime,     \* bound: time
  MaxCount     \* bound: edges a counter sees

RowIds == 1 .. Len(Rows)
AnalogRows == {i \in RowIds : Rows[i].kind = "analog"}
CounterRows == {i \in RowIds : Rows[i].kind = "counter"}
Wrap == WordBase * WordBase   \* values of a uInt32

Kinds == {"analog", "counter", "other"}   \* other: nothing is read for the row

(* The registers that row i writes.                                        *)
Registers(i) ==
  CASE Rows[i].kind = "analog" -> {Rows[i].reg}
    [] Rows[i].kind = "counter" -> Rows[i].reg .. Rows[i].reg + 2
    [] Rows[i].kind = "other" -> {}

ASSUME MappingAssumption ==
  /\ Rows \in Seq([kind : Kinds, module : STRING, reg : Nat])
  /\ LineSize \in Nat
  /\ \A found \in Chassis : Sampled \subseteq found
  /\ OldFirst \subseteq Sampled
  /\ \A i \in RowIds : Registers(i) \subseteq 0 .. LineSize - 1
  /\ \A i, j \in RowIds : i # j => Registers(i) \cap Registers(j) = {}
  /\ {WordBase, Second} \subseteq Nat \ {0}
  /\ {MaxTick, MaxWindow, MaxTime, MaxCount} \subseteq Nat

VARIABLES
  plugged,     \* the modules found at start
  filtering,   \* m_rollingWindowFilterActiv
  spot,        \* spot[m]: where the sampling thread of m is
  fresh,       \* fresh[m]: its local averages
  old,         \* old[m]: Mod<m>OldValuesBuffer
  buffer,      \* buffer[m]: Mod<m>Buffer
  row,         \* the row acquireData() is at; 0 between two ticks
  crow,        \* the row acquireCounters() is at; 0 outside of it
  tick,        \* number of the current tick, or of the last one
  line,        \* m_realDataBufferLine
  image,       \* the line published last
  published,   \* the tick that published it
  atStart,     \* atStart[m]: number of the window in buffer[m] at the tick's start
  edges,       \* edges[i]: what the counter of row i has seen, without wrapping
  now,         \* the clock
  lastEnd,     \* when the last tick ended
  kept         \* kept[i]: previousTime, previousCounterValue of row i, and
               \* whether that reading was a good one

samplerVars == <<filtering, spot, fresh, old, buffer>>
tickVars == <<plugged, row, crow, tick, line, image, published, atStart, lastEnd, kept>>
worldVars == <<edges, now>>
vars == <<samplerVars, tickVars, worldVars>>

NoWindow == [n |-> 0, parts |-> {}]
Window == [n : 0 .. MaxWindow, parts : SUBSET (1 .. MaxWindow)]

(* A register: the tick that wrote it, the window or the word it holds.    *)
Cell == [tick : 0 .. MaxTick, n : 0 .. MaxWindow, word : 0 .. WordBase - 1]
ZeroCell == [tick |-> 0, n |-> 0, word |-> 0]

Reading == [time : 0 .. MaxTime, count : 0 .. Wrap - 1, edges : 0 .. MaxCount,
            good : BOOLEAN]

TypeOK ==
  /\ plugged \in Chassis
  /\ filtering \in BOOLEAN
  /\ spot \in [Sampled -> {"sample", "average", "first", "second"}]
  /\ fresh \in [Sampled -> Window]
  /\ old \in [Sampled -> Window]
  /\ buffer \in [Sampled -> Window]
  /\ row \in 0 .. Len(Rows) + 1
  /\ crow \in 0 .. Len(Rows)
  /\ tick \in 0 .. MaxTick
  /\ published \in 0 .. MaxTick
  /\ line \in [0 .. LineSize - 1 -> Cell]
  /\ image \in [0 .. LineSize - 1 -> Cell]
  /\ atStart \in [Sampled -> 0 .. MaxWindow]
  /\ edges \in [CounterRows -> 0 .. MaxCount]
  /\ now \in 0 .. MaxTime
  /\ lastEnd \in 0 .. MaxTime
  /\ kept \in [CounterRows -> Reading]

(* The mapping has just been loaded: MappingConfig() sets previousTime to  *)
(* that moment and the count to 0. No counter has been read yet.           *)
Init ==
  /\ plugged \in Chassis
  /\ filtering = FALSE
  /\ spot = [m \in Sampled |-> "sample"]
  /\ fresh = [m \in Sampled |-> NoWindow]
  /\ old = [m \in Sampled |-> NoWindow]
  /\ buffer = [m \in Sampled |-> NoWindow]
  /\ row = 0
  /\ crow = 0
  /\ tick = 0
  /\ line = [r \in 0 .. LineSize - 1 |-> ZeroCell]
  /\ image = [r \in 0 .. LineSize - 1 |-> ZeroCell]
  /\ published = 0
  /\ atStart = [m \in Sampled |-> 0]
  /\ edges = [i \in CounterRows |-> 0]
  /\ now = 0
  /\ lastEnd = 0
  /\ kept = [i \in CounterRows |->
               [time |-> 0, count |-> 0, edges |-> 0, good |-> FALSE]]

----------------------------------------------------------------------------
(* The world: edges arrive, time passes.                                   *)

Edge(i) ==
  /\ edges[i] < MaxCount
  /\ edges' = [edges EXCEPT ![i] = @ + 1]
  /\ UNCHANGED <<samplerVars, tickVars, now>>

TimePasses ==
  /\ now < MaxTime
  /\ now' = now + 1
  /\ UNCHANGED <<samplerVars, tickVars, edges>>

----------------------------------------------------------------------------
(* A sampling thread.                                                      *)

(* main() switches the rolling window on after it has started the threads  *)
(* of the first modules.                                                   *)
SwitchFilterOn ==
  /\ ~filtering
  /\ filtering' = TRUE
  /\ UNCHANGED <<spot, fresh, old, buffer, tickVars, worldVars>>

Go(m, from, to) == spot[m] = from /\ spot' = [spot EXCEPT ![m] = to]

Sample(m) ==
  /\ Go(m, "sample", "average")
  /\ fresh[m].n < MaxWindow
  /\ fresh' = [fresh EXCEPT ![m] = [n |-> @.n + 1, parts |-> {@.n + 1}]]
  /\ UNCHANGED <<filtering, old, buffer, tickVars, worldVars>>

(* The two have the same number of values when both are filled.            *)
Averages(m) == filtering /\ old[m] # NoWindow /\ buffer[m] # NoWindow

Average(m) ==
  /\ Go(m, "average", "first")
  /\ fresh' = IF Averages(m)
              THEN [fresh EXCEPT ![m].parts = @ \cup old[m].parts] ELSE fresh
  /\ UNCHANGED <<filtering, old, buffer, tickVars, worldVars>>

(* Modules 1 and 2 restore the buffer, then copy it; module 3 copies the   *)
(* buffer, that is the window before, and then restores.                   *)
Restores(m) == IF m \in OldFirst THEN "second" ELSE "first"
Keeps(m) == IF m \in OldFirst THEN "first" ELSE "second"
After(s) == IF s = "first" THEN "second" ELSE "sample"

Restore(m) ==
  /\ Go(m, Restores(m), After(Restores(m)))
  /\ buffer' = [buffer EXCEPT ![m] = fresh[m]]
  /\ UNCHANGED <<filtering, fresh, old, tickVars, worldVars>>

KeepOld(m) ==
  /\ Go(m, Keeps(m), After(Keeps(m)))
  /\ old' = IF filtering THEN [old EXCEPT ![m] = buffer[m]] ELSE old
  /\ UNCHANGED <<filtering, fresh, buffer, tickVars, worldVars>>

----------------------------------------------------------------------------
(* acquireData() in the timer thread, a period after the last tick.        *)

TickBegins ==
  /\ row = 0
  /\ tick < MaxTick
  /\ now > lastEnd
  /\ tick' = tick + 1
  /\ row' = 1
  /\ atStart' = [m \in Sampled |-> buffer[m].n]
  /\ UNCHANGED <<plugged, samplerVars, crow, line, image, published, lastEnd, kept, worldVars>>

AtRow(kind) ==
  /\ row \in RowIds
  /\ crow = 0
  /\ Rows[row].kind = kind

(* manualReadOneShot(): the last element restored, or 0 from a buffer that *)
(* is still empty and from a module without a sampling thread.             *)
ReadAnalog_Old ==   \* mutant: the buffer of the old window is copied
  LET m == Rows[row].module
      w == IF m \in Sampled THEN old[m] ELSE NoWindow
  IN
  /\ AtRow("analog")
  /\ m \in plugged
  /\ line' = [line EXCEPT ![Rows[row].reg] =
                [tick |-> tick, n |-> w.n, word |-> 0]]
  /\ row' = row + 1
  /\ UNCHANGED <<plugged, samplerVars, crow, tick, image, published, atStart, lastEnd,
                 kept, worldVars>>

ReadAnalog ==
  LET m == Rows[row].module
      w == IF m \in Sampled THEN buffer[m] ELSE NoWindow
  IN
  /\ AtRow("analog")
  /\ m \in plugged
  /\ line' = [line EXCEPT ![Rows[row].reg] =
                [tick |-> tick, n |-> w.n, word |-> 0]]
  /\ row' = row + 1
  /\ UNCHANGED <<plugged, samplerVars, crow, tick, image, published, atStart, lastEnd,
                 kept, worldVars>>

EndTick == row' = 0 /\ lastEnd' = now

(* getModuleByAlias() throws for a module that is not there: the exception *)
(* leaves the loop over the rows.                                          *)
RowThrows_Publishes ==   \* mutant: what was read so far is published
  /\ AtRow("analog")
  /\ Rows[row].module \notin plugged
  /\ EndTick
  /\ image' = line
  /\ published' = tick
  /\ UNCHANGED <<plugged, samplerVars, crow, tick, line, atStart, kept, worldVars>>

RowThrows ==
  /\ AtRow("analog")
  /\ Rows[row].module \notin plugged
  /\ EndTick
  /\ UNCHANGED <<plugged, samplerVars, crow, tick, line, image, published, atStart,
                 kept, worldVars>>

(* A coder, a digital input and an output have a case without a reading.   *)
PassRow ==
  /\ AtRow("other")
  /\ row' = row + 1
  /\ UNCHANGED <<plugged, samplerVars, crow, tick, line, image, published, atStart,
                 lastEnd, kept, worldVars>>

(* Every counter row calls acquireCounters(), which walks over all rows.   *)
CountersBegin ==
  /\ AtRow("counter")
  /\ crow' = 1
  /\ UNCHANGED <<plugged, samplerVars, row, tick, line, image, published, atStart,
                 lastEnd, kept, worldVars>>

NextCounterRow ==
  IF crow < Len(Rows) THEN crow' = crow + 1 /\ row' = row
  ELSE crow' = 0 /\ row' = row + 1

SkipRow ==
  /\ crow \in RowIds \ CounterRows
  /\ NextCounterRow
  /\ UNCHANGED <<plugged, samplerVars, tick, line, image, published, atStart,
                 lastEnd, kept, worldVars>>

(* What linearInterpolation16Bits() makes of a frequency, for the range of *)
(* the mapping file, 0 .. 65535 to 0 .. 65535.                             *)
Clamped_Not(f) == f   \* mutant: the value is not held to the destination's bounds

Clamped(f) == IF f < WordBase THEN f ELSE WordBase - 1

(* Whole seconds, and a difference of unsigned ints.                       *)
Elapsed(i) == (now - kept[i].time) \div Second
Delta_NoWrap(i, count) ==   \* mutant: a difference that does not wrap
  IF count >= kept[i].count THEN count - kept[i].count ELSE kept[i].count - count
Delta(i, count) == (count + Wrap - kept[i].count) % Wrap

Frequency(i, count) ==
  IF Elapsed(i) > 0 THEN Clamped(Delta(i, count) \div Elapsed(i)) ELSE 0

(* DigitalReader::manualReadOneShot(): a reading that fails gives the      *)
(* least positive double, which counts as 0; so does the counter of a      *)
(* module that is not a counter module, or not there.                      *)
Count(i, good) == IF good THEN edges[i] % Wrap ELSE 0

(* One counter is read, split into words and written.                      *)
ReadCounter_LowFirst(good) ==   \* mutant: the low word goes first
  LET i == crow
      count == Count(i, good)
      Word(w) == [tick |-> tick, n |-> 0, word |-> w]
      r == Rows[i].reg
  IN
  /\ crow \in CounterRows
  /\ good => Rows[i].module \in plugged
  /\ line' = [line EXCEPT ![r] = Word(Frequency(i, count)),
                          ![r + 1] = Word(count % WordBase),
                          ![r + 2] = Word(count \div WordBase)]
  /\ kept' = [kept EXCEPT ![i] = [time |-> now, count |-> count,
                                  edges |-> edges[i], good |-> good]]
  /\ NextCounterRow
  /\ UNCHANGED <<plugged, samplerVars, tick, image, published, atStart, lastEnd, worldVars>>

ReadCounter(good) ==
  LET i == crow
      count == Count(i, good)
      Word(w) == [tick |-> tick, n |-> 0, word |-> w]
      r == Rows[i].reg
  IN
  /\ crow \in CounterRows
  /\ good => Rows[i].module \in plugged
  /\ line' = [line EXCEPT ![r] = Word(Frequency(i, count)),
                          ![r + 1] = Word(count \div WordBase),
                          ![r + 2] = Word(count % WordBase)]
  /\ kept' = [kept EXCEPT ![i] = [time |-> now, count |-> count,
                                  edges |-> edges[i], good |-> good]]
  /\ NextCounterRow
  /\ UNCHANGED <<plugged, samplerVars, tick, image, published, atStart, lastEnd, worldVars>>

Publish ==
  /\ row = Len(Rows) + 1
  /\ EndTick
  /\ image' = line
  /\ published' = tick
  /\ UNCHANGED <<plugged, samplerVars, crow, tick, line, atStart, kept, worldVars>>

----------------------------------------------------------------------------

Next ==
  \/ \E i \in CounterRows : Edge(i)
  \/ TimePasses
  \/ SwitchFilterOn
  \/ \E m \in Sampled : Sample(m) \/ Average(m) \/ Restore(m) \/ KeepOld(m)
  \/ TickBegins \/ ReadAnalog \/ RowThrows \/ PassRow \/ CountersBegin \/ SkipRow
  \/ \E good \in BOOLEAN : ReadCounter(good)
  \/ Publish

Spec == Init /\ [][Next]_vars

----------------------------------------------------------------------------
(* Properties.                                                             *)

(* What a tick publishes of a module is at least as recent as what its     *)
(* sampling thread had restored when the tick began: acquireData() of the  *)
(* bridge and the restore() of the sampling threads.                       *)
Fresh ==
  [][published' # published =>
       \A i \in AnalogRows : Rows[i].module \in Sampled =>
         image'[Rows[i].reg].n >= atStart[Rows[i].module]]_vars

(* Every mapped register of the published line was written by the tick     *)
(* that published it, so a line never mixes two ticks: acquireData() ends  *)
(* without publishing when a row throws.                                   *)
WholeTick ==
  published > 0 =>
    \A i \in RowIds : \A r \in Registers(i) : image[r].tick = published

(* The two registers of a counter, high word first, are the words of one   *)
(* reading, the last: acquireCounters() of the bridge, whatever the number *)
(* of times a tick runs it.                                                *)
WordsWhole ==
  published > 0 /\ published = tick /\ row = 0 =>
    \A i \in CounterRows :
      /\ image[Rows[i].reg + 1].word * WordBase + image[Rows[i].reg + 2].word
           = kept[i].count
      /\ kept[i].good => kept[i].count = kept[i].edges % Wrap

Between(i) == edges[i] - kept[i].edges
Reads(i) == crow = i /\ crow' # i /\ kept'[i].good /\ kept[i].good

(* Over the whole seconds between two good readings a counter's frequency  *)
(* never claims more edges than there were, across the wrap of the count:  *)
(* the unsigned difference in acquireCounters().                           *)
FrequencySound ==
  [][\A i \in CounterRows :
       Reads(i) => line'[Rows[i].reg].word * Elapsed(i) <= Between(i)]_vars

(* "Calculate frequency (counts per second)" of acquireCounters(): a       *)
(* counter that saw edges enough for one count per second between two good *)
(* readings has a frequency that is not 0.                                 *)
FrequencySeen ==
  [][\A i \in CounterRows :
       /\ Reads(i)
       /\ Between(i) > 0
       /\ now > kept[i].time
       /\ Between(i) * Second >= now - kept[i].time
       => line'[Rows[i].reg].word > 0]_vars

(* "this is a 2 point floating window average" of readMod3(): what is      *)
(* restored is made of a window and the one before it.                     *)
TwoPoint ==
  \A m \in Sampled : buffer[m].parts \subseteq {buffer[m].n - 1, buffer[m].n}

=============================================================================
