------------------------- MODULE AcquireDataProofs -------------------------
(***************************************************************************)
(* Theorems of AcquireData, for every mapping, every set of modules, every *)
(* word size and every bound: the buffers, the line and the counters keep  *)
(* their types, a published line is of one tick (WholeTick), no older than *)
(* the windows that were in the buffers when that tick began (Fresh), and  *)
(* made of the words of whole values (WordsWhole), and a frequency is      *)
(* computed over the time and the pulses between two readings              *)
(* (FrequencySound). The last section is about the rolling window of       *)
(* module 3.                                                               *)
(***************************************************************************)
EXTENDS AcquireData, Integers, TLAPS

(* Row i of the line was written by the current tick.                      *)
Stamped(i) == \A r \in Registers(i) : line[r].tick = tick

(* acquireData() has stamped the rows it has passed, and acquireCounters() *)
(* the counters that it has passed.                                        *)
TickInv ==
  /\ DOMAIN line = 0 .. LineSize - 1
  /\ row \in 0 .. Len(Rows) + 1
  /\ crow \in 0 .. Len(Rows)
  /\ \A i \in RowIds : i < row => Stamped(i)
  /\ crow # 0 =>
       /\ row \in CounterRows
       /\ \A i \in CounterRows : i < crow => Stamped(i)
  /\ WholeTick

LEMMA RowFacts ==
  /\ Len(Rows) \in Nat
  /\ RowIds \subseteq Nat \ {0}
  /\ \A i \in RowIds : /\ i <= Len(Rows)
                       /\ Rows[i].reg \in Nat
                       /\ Registers(i) \subseteq 0 .. LineSize - 1
  /\ AnalogRows \subseteq RowIds /\ CounterRows \subseteq RowIds
<1> DEFINE Entries == [kind : Kinds, module : STRING, reg : Nat]
<1>1. Rows \in Seq(Entries)
  BY MappingAssumption
<1> HIDE DEF Entries
<1>2. Len(Rows) \in Nat /\ \A i \in 1 .. Len(Rows) : Rows[i] \in Entries
  BY <1>1
<1>3. \A i \in RowIds : Registers(i) \subseteq 0 .. LineSize - 1
  BY MappingAssumption
<1>4. \A i \in RowIds : Rows[i].reg \in Nat
  BY <1>2 DEF Entries, RowIds
<1> QED BY <1>2, <1>3, <1>4 DEF RowIds, AnalogRows, CounterRows

LEMMA RegisterFacts ==
  /\ \A i \in AnalogRows : Registers(i) = {Rows[i].reg}
  /\ \A i \in CounterRows : Registers(i) = {Rows[i].reg, Rows[i].reg + 1, Rows[i].reg + 2}
<1>1. \A i \in AnalogRows : Registers(i) = {Rows[i].reg}
  BY DEF AnalogRows, Registers
<1>2. ASSUME NEW i \in CounterRows
      PROVE  Registers(i) = {Rows[i].reg, Rows[i].reg + 1, Rows[i].reg + 2}
  <2>1. Rows[i].reg \in Nat
    BY RowFacts DEF CounterRows
  <2>2. Registers(i) = Rows[i].reg .. Rows[i].reg + 2
    BY DEF CounterRows, Registers
  <2> QED BY <2>1, <2>2
<1> QED BY <1>1, <1>2

(* Past the last row acquireCounters() returns with all counters stamped.  *)
LEMMA CounterRowDone ==
  ASSUME TickInv, crow # 0, NextCounterRow,
         DOMAIN line' = DOMAIN line,
         UNCHANGED <<tick, image, published>>,
         \A i \in CounterRows : i <= crow => Stamped(i)',
         \A i \in RowIds : i < row => Stamped(i)'
  PROVE  TickInv'
<1> USE RowFacts DEF TickInv
<1>1. WholeTick'
  BY DEF WholeTick
<1>2. CASE crow < Len(Rows)
  BY <1>1, <1>2 DEF NextCounterRow
<1>3. CASE crow = Len(Rows)
  BY <1>1, <1>3 DEF NextCounterRow
<1> QED BY <1>2, <1>3

LEMMA TickInit == Init => TickInv
BY RowFacts DEF Init, TickInv, WholeTick, RowIds

LEMMA TickNext ==
  ASSUME TickInv, [Next]_vars
  PROVE  TickInv'
<1> USE RowFacts, RegisterFacts DEF TickInv, WholeTick, samplerVars, worldVars, tickVars
<1>1. ASSUME UNCHANGED tickVars
      PROVE  TickInv'
  BY <1>1 DEF Stamped
<1>2. CASE TickBegins
  BY <1>2 DEF TickBegins
<1>3. CASE ReadAnalog
  <2>1. row \in AnalogRows /\ crow = 0
    BY <1>3 DEF ReadAnalog, AtRow, AnalogRows
  <2> DEFINE r == Rows[row].reg
  <2>2. Registers(row) = {r} /\ r \in DOMAIN line
    BY <2>1
  <2>3. /\ DOMAIN line' = DOMAIN line
        /\ line'[r].tick = tick
        /\ \A q \in DOMAIN line : q # r => line'[q] = line[q]
        /\ row' = row + 1
        /\ UNCHANGED <<crow, tick, image, published>>
    BY <1>3, <2>1, <2>2 DEF ReadAnalog
  <2> HIDE DEF r
  <2>4. \A i \in RowIds : i < row \/ i = row => Stamped(i)'
    BY <2>2, <2>3 DEF Stamped
  <2>5. ASSUME NEW i \in RowIds, i < row' PROVE Stamped(i)'
    <3>1. i \in Nat /\ row \in Nat
      BY <2>1
    <3>2. i < row \/ i = row
      BY <2>3, <2>5, <3>1
    <3> QED BY <2>4, <3>2
  <2>6. row' \in 0 .. Len(Rows) + 1
    BY <2>1, <2>3
  <2> QED BY <2>1, <2>3, <2>5, <2>6
<1>4. CASE RowThrows
  BY <1>4 DEF RowThrows, EndTick, AtRow
<1>5. CASE CountersBegin
  BY <1>5 DEF CountersBegin, AtRow, CounterRows, RowIds, Stamped
<1>9. CASE PassRow
  <2>1. row \in RowIds /\ Rows[row].kind = "other" /\ crow = 0 /\ row' = row + 1
        /\ UNCHANGED <<crow, tick, line, image, published>>
    BY <1>9 DEF PassRow, AtRow
  <2>2. Registers(row) = {}
    BY <2>1 DEF Registers
  <2>3. \A i \in RowIds : i < row \/ i = row => Stamped(i)'
    BY <2>1, <2>2 DEF Stamped
  <2>4. row' \in 0 .. Len(Rows) + 1 /\ \A i \in RowIds : i < row' => Stamped(i)'
    BY <2>1, <2>3
  <2> QED BY <2>1, <2>4
<1>6. CASE SkipRow
  <2>1. crow \in RowIds \ CounterRows /\ crow # 0 /\ row \in CounterRows
    BY <1>6 DEF SkipRow
  <2>2. UNCHANGED <<line, tick, image, published>>
    BY <1>6 DEF SkipRow
  <2> HIDE RegisterFacts
  <2>3. ASSUME NEW i \in CounterRows, i <= crow
        PROVE  Stamped(i)'
    <3>1. i # crow /\ i \in Nat /\ crow \in Nat
      BY <2>1, <2>3 DEF CounterRows
    <3>2. i < crow
      BY <2>3, <3>1
    <3> QED BY <2>1, <2>2, <2>3, <3>2 DEF Stamped
  <2>4. \A i \in RowIds : i < row => Stamped(i)'
    BY <2>2 DEF Stamped
  <2>5. NextCounterRow
    BY <1>6 DEF SkipRow
  <2> QED BY CounterRowDone, <2>1, <2>2, <2>3, <2>4, <2>5
<1>7. ASSUME NEW good \in BOOLEAN, ReadCounter(good)
      PROVE  TickInv'
  <2> DEFINE r == Rows[crow].reg
  <2>1. crow \in CounterRows /\ crow # 0 /\ row \in CounterRows
    BY <1>7 DEF ReadCounter
  <2>2. Registers(crow) = {r, r + 1, r + 2} /\ Registers(crow) \subseteq DOMAIN line /\ r \in Nat
    BY <2>1
  <2>3. /\ DOMAIN line' = DOMAIN line
        /\ line'[r].tick = tick /\ line'[r + 1].tick = tick /\ line'[r + 2].tick = tick
        /\ \A q \in DOMAIN line : q \notin {r, r + 1, r + 2} => line'[q] = line[q]
        /\ NextCounterRow
        /\ UNCHANGED <<tick, image, published>>
    BY <1>7, <2>2 DEF ReadCounter
  <2> HIDE DEF r
  <2>4. \A i \in RowIds : Stamped(i) => Stamped(i)'
    BY <2>2, <2>3 DEF Stamped
  <2>5. ASSUME NEW i \in CounterRows, i = crow
        PROVE  Stamped(i)'
    BY <2>2, <2>3, <2>5 DEF Stamped
  <2> HIDE RegisterFacts
  <2>6. ASSUME NEW i \in CounterRows, i <= crow
        PROVE  Stamped(i)'
    <3>1. CASE i = crow
      BY <2>5, <3>1
    <3>2. CASE i # crow
      <4>1. i \in Nat /\ crow \in Nat /\ i \in RowIds
        BY <2>1 DEF CounterRows
      <4>2. i < crow
        BY <2>6, <3>2, <4>1
      <4> QED BY <2>1, <2>4, <4>1, <4>2
    <3> QED BY <3>1, <3>2
  <2>7. \A i \in RowIds : i < row => Stamped(i)'
    BY <2>4
  <2> QED BY CounterRowDone, <2>1, <2>3, <2>6, <2>7
<1>8. CASE Publish
  <2>1. /\ row = Len(Rows) + 1 /\ row' = 0 /\ crow = 0
        /\ image' = line /\ published' = tick /\ UNCHANGED <<crow, tick, line>>
    BY <1>8 DEF Publish, EndTick
  <2>2. \A i \in RowIds : i < row
    BY <2>1
  <2>3. WholeTick'
    BY <2>1, <2>2 DEF Stamped
  <2>4. \A i \in RowIds : ~ (i < row')
    BY <2>1
  <2> QED BY <2>1, <2>3, <2>4
<1>10. ASSUME \/ \E i \in CounterRows : Edge(i)
              \/ TimePasses \/ SwitchFilterOn
              \/ \E m \in Sampled : Sample(m) \/ Average(m) \/ Restore(m) \/ KeepOld(m)
              \/ UNCHANGED vars
       PROVE  UNCHANGED tickVars
  BY <1>10 DEF vars, Edge, TimePasses, SwitchFilterOn, Sample, Average, Restore, KeepOld
<1> HIDE RowFacts, RegisterFacts DEF TickInv, WholeTick, samplerVars, worldVars, tickVars
<1> QED
  BY <1>1, <1>2, <1>3, <1>4, <1>5, <1>6, <1>7, <1>8, <1>9, <1>10 DEF Next

(* A line that has been published was written in one tick, whatever the    *)
(* mapping and whichever rows throw (acquireData of the bridge).           *)
THEOREM PublishedWhole == Spec => []WholeTick
<1>1. Init => TickInv
  BY TickInit
<1>2. TickInv /\ [Next]_vars => TickInv'
  BY TickNext
<1>3. TickInv => WholeTick
  BY DEF TickInv
<1> QED BY <1>1, <1>2, <1>3, PTL DEF Spec

----------------------------------------------------------------------------
(* Freshness.                                                              *)

AnyWindow == [n : Nat, parts : SUBSET Nat]

(* The sampled analog rows that acquireData() has passed hold windows at   *)
(* least as recent as the buffers at the tick's start; a buffer only goes  *)
(* forward because a thread restores what it measured last.                *)
FreshInv ==
  /\ fresh \in [Sampled -> AnyWindow]
  /\ old \in [Sampled -> AnyWindow]
  /\ buffer \in [Sampled -> AnyWindow]
  /\ atStart \in [Sampled -> Nat]
  /\ \A m \in Sampled : atStart[m] <= buffer[m].n /\ buffer[m].n <= fresh[m].n
  /\ DOMAIN line = 0 .. LineSize - 1
  /\ row \in Nat
  /\ crow \in Nat
  /\ crow # 0 => row \in CounterRows
  /\ \A i \in AnalogRows : i < row /\ Rows[i].module \in Sampled =>
       line[Rows[i].reg].n >= atStart[Rows[i].module]

LEMMA Apart ==
  \A i \in AnalogRows : \A j \in RowIds :
    i # j => Rows[i].reg \notin Registers(j)
<1>1. \A i, j \in RowIds : i # j => Registers(i) \cap Registers(j) = {}
  BY MappingAssumption
<1> QED BY <1>1, RegisterFacts DEF AnalogRows

LEMMA FreshInit == Init => FreshInv
<1> SUFFICES ASSUME Init PROVE FreshInv
  OBVIOUS
<1>1. \A i \in AnalogRows : ~ (i < row)
  BY RowFacts DEF Init
<1>2. NoWindow \in AnyWindow /\ NoWindow.n = 0
  BY DEF NoWindow, AnyWindow
<1> QED BY <1>1, <1>2 DEF Init, FreshInv

LEMMA SamplerNext ==
  ASSUME FreshInv, NEW m \in Sampled,
         Sample(m) \/ Average(m) \/ Restore(m) \/ KeepOld(m)
  PROVE  FreshInv'
<1> USE DEF FreshInv, tickVars, worldVars
<1>1. CASE Sample(m)
  <2>1. fresh' \in [Sampled -> AnyWindow]
    BY <1>1 DEF Sample, AnyWindow
  <2>2. \A k \in Sampled : fresh[k].n <= fresh'[k].n
    BY <1>1 DEF Sample, AnyWindow
  <2>3. \A k \in Sampled : buffer[k].n <= fresh'[k].n
    BY <2>1, <2>2 DEF AnyWindow
  <2> QED BY <1>1, <2>1, <2>3 DEF Sample
<1>2. CASE Average(m)
  <2>1. fresh' \in [Sampled -> AnyWindow]
    BY <1>2 DEF Average, AnyWindow
  <2>2. \A k \in Sampled : fresh[k].n = fresh'[k].n
    BY <1>2 DEF Average, AnyWindow
  <2> QED BY <1>2, <2>1, <2>2 DEF Average
<1>3. CASE Restore(m)
  <2>1. buffer' = [buffer EXCEPT ![m] = fresh[m]] /\ UNCHANGED fresh
    BY <1>3 DEF Restore
  <2>2. \A k \in Sampled : atStart[k] <= buffer'[k].n /\ buffer'[k].n <= fresh[k].n
    BY <2>1 DEF AnyWindow
  <2> QED BY <1>3, <2>1, <2>2 DEF Restore
<1>4. CASE KeepOld(m)
  BY <1>4 DEF KeepOld
<1> QED BY <1>1, <1>2, <1>3, <1>4

LEMMA TickFresh ==
  ASSUME FreshInv, [Next]_vars
  PROVE  FreshInv'
<1> USE RowFacts DEF FreshInv, samplerVars, worldVars, tickVars
<1>1. ASSUME UNCHANGED <<tickVars, samplerVars>>
      PROVE  FreshInv'
  BY <1>1
<1>2. CASE SwitchFilterOn
  BY <1>2 DEF SwitchFilterOn
<1>3. CASE TickBegins
  <2>1. atStart' = [k \in Sampled |-> buffer[k].n] /\ row' = 1
        /\ UNCHANGED <<samplerVars, crow, line>>
    BY <1>3 DEF TickBegins
  <2>2. atStart' \in [Sampled -> Nat]
    BY <2>1 DEF AnyWindow
  <2>3. \A k \in Sampled : atStart'[k] <= buffer[k].n
    BY <2>1 DEF AnyWindow
  <2>4. crow = 0
    BY <1>3 DEF TickBegins, CounterRows
  <2> QED BY <2>1, <2>2, <2>3, <2>4 DEF AnalogRows
<1>4. CASE ReadAnalog
  <2> DEFINE m == Rows[row].module
             r == Rows[row].reg
  <2>1. row \in AnalogRows /\ crow = 0 /\ r \in DOMAIN line
    BY <1>4, RegisterFacts DEF ReadAnalog, AtRow, AnalogRows
  <2>2. /\ DOMAIN line' = DOMAIN line
        /\ m \in Sampled => line'[r].n = buffer[m].n
        /\ \A q \in DOMAIN line : q # r => line'[q] = line[q]
        /\ row' = row + 1
        /\ UNCHANGED <<samplerVars, crow, atStart>>
    BY <1>4, <2>1 DEF ReadAnalog
  <2>3. ASSUME NEW i \in AnalogRows, i < row', Rows[i].module \in Sampled
        PROVE  line'[Rows[i].reg].n >= atStart[Rows[i].module]
    <3>1. CASE i = row
      BY <2>2, <2>3, <3>1 DEF AnyWindow
    <3>2. CASE i # row
      <4>1. Rows[i].reg # r /\ Rows[i].reg \in DOMAIN line
        <5>1. i \in RowIds /\ row \in RowIds /\ row \in AnalogRows
          BY <2>1 DEF AnalogRows
        <5>2. Rows[i].reg \notin Registers(row)
          BY <3>2, <5>1, Apart
        <5>3. Registers(row) = {r} /\ Registers(i) = {Rows[i].reg}
          BY <5>1, RegisterFacts
        <5> QED BY <5>1, <5>2, <5>3
      <4>2. i < row
        <5>1. i \in Nat
          BY DEF AnalogRows
        <5> QED BY <2>2, <2>3, <3>2, <5>1
      <4> QED BY <2>2, <2>3, <4>1, <4>2
    <3> QED BY <3>1, <3>2
  <2> QED BY <2>1, <2>2, <2>3
<1>5. CASE RowThrows
  <2>1. row' = 0 /\ crow = 0 /\ UNCHANGED <<samplerVars, crow, line, atStart>>
    BY <1>5 DEF RowThrows, EndTick, AtRow
  <2> QED BY <2>1 DEF AnalogRows
<1>6. CASE CountersBegin
  BY <1>6 DEF CountersBegin, AtRow, CounterRows
<1>7. ASSUME NextCounterRow, crow # 0, UNCHANGED <<samplerVars, atStart>>,
             DOMAIN line' = DOMAIN line,
             \A i \in AnalogRows : line'[Rows[i].reg] = line[Rows[i].reg]
      PROVE  FreshInv'
  <2>1. row \in CounterRows /\ row \notin AnalogRows
    BY <1>7 DEF CounterRows, AnalogRows
  <2>2. row' \in {row, row + 1} /\ row' \in Nat /\ crow' \in Nat /\ (crow' # 0 => row' = row)
    BY <1>7, <2>1 DEF NextCounterRow, CounterRows
  <2>3. ASSUME NEW i \in AnalogRows, i < row' PROVE i < row
    <3>1. i # row /\ i \in Nat
      BY <2>1 DEF AnalogRows
    <3> QED BY <2>2, <2>3, <3>1
  <2> QED BY <1>7, <2>1, <2>2, <2>3
<1>8. CASE SkipRow
  <2>1. crow # 0
    BY <1>8 DEF SkipRow
  <2> QED BY <1>7, <1>8, <2>1 DEF SkipRow
<1>11. CASE PassRow
  <2>1. /\ row \notin AnalogRows /\ row \in Nat /\ row' = row + 1 /\ crow = 0
        /\ UNCHANGED <<samplerVars, crow, line, atStart>>
    BY <1>11 DEF PassRow, AtRow, AnalogRows
  <2>2. ASSUME NEW i \in AnalogRows, i < row' PROVE i < row
    <3>1. i # row /\ i \in Nat
      BY <2>1 DEF AnalogRows
    <3> QED BY <2>1, <2>2, <3>1
  <2> QED BY <2>1, <2>2
<1>9. ASSUME NEW good \in BOOLEAN, ReadCounter(good)
      PROVE  FreshInv'
  <2> DEFINE r == Rows[crow].reg
  <2>1. crow \in CounterRows /\ crow # 0
    BY <1>9 DEF ReadCounter, CounterRows
  <2>2. /\ DOMAIN line' = DOMAIN line
        /\ \A q \in DOMAIN line : q \notin {r, r + 1, r + 2} => line'[q] = line[q]
        /\ NextCounterRow
        /\ UNCHANGED <<samplerVars, atStart>>
    BY <1>9 DEF ReadCounter
  <2>3. ASSUME NEW i \in AnalogRows
        PROVE  Rows[i].reg \in DOMAIN line /\ Rows[i].reg \notin Registers(crow)
    <3>1. i # crow /\ crow \in RowIds /\ i \in RowIds
      BY <2>1 DEF AnalogRows, CounterRows
    <3> QED BY <3>1, Apart, RegisterFacts
  <2>4. Registers(crow) = {r, r + 1, r + 2}
    BY <2>1, RegisterFacts
  <2>5. \A i \in AnalogRows : line'[Rows[i].reg] = line[Rows[i].reg]
    BY <2>2, <2>3, <2>4
  <2> QED BY <1>7, <2>1, <2>2, <2>5
<1>10. CASE Publish
  <2>1. row' = 0 /\ UNCHANGED <<samplerVars, crow, line, atStart>> /\ row \notin CounterRows
    BY <1>10 DEF Publish, EndTick, CounterRows
  <2> QED BY <2>1 DEF AnalogRows
<1> QED
  BY <1>1, <1>2, <1>3, <1>4, <1>5, <1>6, <1>8, <1>9, <1>10, <1>11, SamplerNext
  DEF Next, vars, Edge, TimePasses

(* What a tick publishes of a sampled module is no older than its buffer   *)
(* was when the tick began, for every interleaving of acquireData() with   *)
(* the restore() of the sampling threads.                                  *)
THEOREM PublishedFresh == Spec => Fresh
<1> DEFINE Step == published' # published =>
                     \A i \in AnalogRows : Rows[i].module \in Sampled =>
                       image'[Rows[i].reg].n >= atStart[Rows[i].module]
<1>1. Init => FreshInv
  BY FreshInit
<1>2. FreshInv /\ [Next]_vars => FreshInv'
  BY TickFresh
<1>3. ASSUME FreshInv, [Next]_vars
      PROVE  [Step]_vars
  <2>1. ASSUME Publish PROVE Step
    <3>1. image' = line /\ row = Len(Rows) + 1
      BY <2>1 DEF Publish
    <3>2. \A i \in AnalogRows : i < row
      BY <3>1, RowFacts DEF AnalogRows
    <3> QED BY <1>3, <3>1, <3>2 DEF FreshInv
  <2>2. ASSUME ~ Publish PROVE UNCHANGED published
    BY <1>3, <2>2
    DEF Next, vars, tickVars, Edge, TimePasses, SwitchFilterOn, Sample, Average,
        Restore, KeepOld, TickBegins, ReadAnalog, RowThrows, PassRow,
        CountersBegin, SkipRow, ReadCounter
  <2> QED BY <2>1, <2>2
<1> QED BY <1>1, <1>2, <1>3, PTL DEF Spec, Fresh

----------------------------------------------------------------------------
(* Arithmetic of counts and words.                                         *)

LEMMA DivMod ==
  ASSUME NEW c \in Nat, NEW w \in Nat \ {0}
  PROVE  /\ c \div w \in Nat /\ c % w \in 0 .. w - 1
         /\ c = (c \div w) * w + (c % w)
OBVIOUS

LEMMA TimesGrows ==
  ASSUME NEW a \in Nat, NEW b \in Nat, NEW w \in Nat, a <= b
  PROVE  a * w <= b * w
OBVIOUS

LEMMA ModSmall ==
  ASSUME NEW c \in Nat, NEW w \in Nat \ {0}
  PROVE  /\ c < w => c % w = c
         /\ w <= c /\ c < w + w => c % w = c - w
OBVIOUS

LEMMA DivSmall ==
  ASSUME NEW c \in Nat, NEW w \in Nat \ {0}, c < w * w
  PROVE  c \div w \in 0 .. w - 1
OBVIOUS

(* A difference of unsigned ints never exceeds that of the counts they     *)
(* stand for.                                                              *)
LEMMA DeltaSound ==
  ASSUME NEW a \in Nat, NEW b \in Nat, b <= a, NEW w \in Nat \ {0}
  PROVE  ((a % w) + w - (b % w)) % w \in 0 .. a - b
<1> DEFINE p == a \div w
           q == b \div w
           r == a % w
           s == b % w
           x == r + w - s
<1>1. /\ p \in Nat /\ q \in Nat /\ r \in 0 .. w - 1 /\ s \in 0 .. w - 1
      /\ a = p * w + r /\ b = q * w + s
  BY DivMod
<1> HIDE DEF p, q, r, s
<1>2. p * w \in Nat /\ q * w \in Nat /\ x \in Nat
  BY <1>1
<1>3. q <= p
  <2>1. SUFFICES ASSUME p < q PROVE FALSE
    BY <1>1
  <2>2. (p + 1) * w <= q * w
    BY <1>1, <2>1, TimesGrows
  <2>3. (p + 1) * w = p * w + w
    BY <1>1
  <2> QED BY <1>1, <1>2, <2>2, <2>3
<1>4. q * w <= p * w
  BY <1>1, <1>3, TimesGrows
<1>5. CASE s <= r
  <2>1. w <= x /\ x < w + w /\ x - w = r - s
    BY <1>1, <1>5
  <2> HIDE DEF x
  <2>2. x % w = r - s
    BY <1>2, <2>1, ModSmall
  <2>3. x % w \in 0 .. a - b
    BY <1>1, <1>2, <1>4, <1>5, <2>2
  <2> QED BY <2>3 DEF x, r, s
<1>6. CASE r < s
  <2>1. x < w /\ x = r + w - s
    BY <1>1, <1>6
  <2> HIDE DEF x
  <2>2. x % w = x
    BY <1>2, <2>1, ModSmall
  <2>3. q < p
    <3>1. p # q
      BY <1>1, <1>2, <1>6
    <3> QED BY <1>1, <1>3, <3>1
  <2>4. (q + 1) * w <= p * w
    BY <1>1, <2>3, TimesGrows
  <2>5. (q + 1) * w = q * w + w
    BY <1>1
  <2>6. x % w \in 0 .. a - b
    BY <1>1, <1>2, <2>1, <2>2, <2>4, <2>5
  <2> QED BY <2>6 DEF x, r, s
<1> QED BY <1>1, <1>5, <1>6

LEMMA BaseFacts ==
  /\ WordBase \in Nat \ {0} /\ Second \in Nat \ {0} /\ Wrap \in Nat \ {0}
  /\ MaxTick \in Nat /\ MaxWindow \in Nat /\ MaxTime \in Nat /\ MaxCount \in Nat
<1>1. WordBase \in Nat \ {0} /\ Second \in Nat \ {0}
      /\ MaxTick \in Nat /\ MaxWindow \in Nat /\ MaxTime \in Nat /\ MaxCount \in Nat
  BY MappingAssumption
<1> QED BY <1>1 DEF Wrap

----------------------------------------------------------------------------
(* Types.                                                                  *)

AcquireTyped == TypeOK /\ (crow # 0 => row \in CounterRows)

(* What is read of a counter, and what is made of it.                      *)
LEMMA CounterTyped ==
  ASSUME AcquireTyped, NEW i \in CounterRows, NEW good \in BOOLEAN
  PROVE  /\ Count(i, good) \in 0 .. Wrap - 1
         /\ Frequency(i, Count(i, good)) \in 0 .. WordBase - 1
         /\ Count(i, good) % WordBase \in 0 .. WordBase - 1
         /\ Count(i, good) \div WordBase \in 0 .. WordBase - 1
<1> DEFINE c == Count(i, good)
<1>1. edges[i] \in Nat /\ kept[i] \in Reading
  BY BaseFacts DEF AcquireTyped, TypeOK
<1>2. c \in 0 .. Wrap - 1 /\ c \in Nat /\ c < WordBase * WordBase
  <2>1. edges[i] % Wrap \in 0 .. Wrap - 1
    BY <1>1, BaseFacts, DivMod
  <2>2. c \in 0 .. Wrap - 1
    BY <2>1, BaseFacts DEF Count
  <2> QED BY <2>2, BaseFacts DEF Wrap
<1> HIDE DEF c
<1>3. c % WordBase \in 0 .. WordBase - 1 /\ c \div WordBase \in 0 .. WordBase - 1
  BY <1>2, BaseFacts, DivMod, DivSmall
<1>4. Frequency(i, c) \in 0 .. WordBase - 1
  <2>1. Delta(i, c) \in Nat
    <3>1. kept[i].count \in 0 .. Wrap - 1
      BY <1>1 DEF Reading
    <3>2. c + Wrap - kept[i].count \in Nat
      BY <1>2, <3>1, BaseFacts
    <3> QED BY <3>2, BaseFacts, DivMod DEF Delta
  <2>2. Elapsed(i) \in Int
    <3>1. now \in Int /\ kept[i].time \in Int
      BY <1>1, BaseFacts DEF Reading, AcquireTyped, TypeOK
    <3>2. now - kept[i].time \in Int
      BY <3>1
    <3> QED BY <3>2, BaseFacts DEF Elapsed
  <2>3. ASSUME Elapsed(i) > 0 PROVE Clamped(Delta(i, c) \div Elapsed(i)) \in 0 .. WordBase - 1
    <3>1. Delta(i, c) \div Elapsed(i) \in Nat
      BY <2>1, <2>2, <2>3, DivMod
    <3> QED BY <3>1, BaseFacts DEF Clamped
  <2> QED BY <2>3, BaseFacts DEF Frequency
<1> QED BY <1>2, <1>3, <1>4 DEF c

LEMMA AcquireTypedInit == Init => AcquireTyped
<1> SUFFICES ASSUME Init PROVE AcquireTyped
  OBVIOUS
<1> USE BaseFacts, RowFacts DEF Init
<1>1. NoWindow \in Window /\ ZeroCell \in Cell
  BY DEF NoWindow, Window, ZeroCell, Cell
<1>2. [time |-> 0, count |-> 0, edges |-> 0, good |-> FALSE] \in Reading
  BY DEF Reading
<1>3. line \in [0 .. LineSize - 1 -> Cell] /\ image \in [0 .. LineSize - 1 -> Cell]
  BY <1>1
<1>4. kept \in [CounterRows -> Reading]
  BY <1>2
<1>5. fresh \in [Sampled -> Window] /\ old \in [Sampled -> Window] /\ buffer \in [Sampled -> Window]
  BY <1>1
<1>6. row \in 0 .. Len(Rows) + 1 /\ crow \in 0 .. Len(Rows) /\ tick \in 0 .. MaxTick
      /\ published \in 0 .. MaxTick /\ now \in 0 .. MaxTime /\ lastEnd \in 0 .. MaxTime
  OBVIOUS
<1>7. /\ atStart \in [Sampled -> 0 .. MaxWindow] /\ edges \in [CounterRows -> 0 .. MaxCount]
  OBVIOUS
<1>8. /\ spot \in [Sampled -> {"sample", "average", "first", "second"}]
      /\ plugged \in Chassis /\ filtering \in BOOLEAN
  OBVIOUS
<1> QED BY <1>3, <1>4, <1>5, <1>6, <1>7, <1>8 DEF AcquireTyped, TypeOK

LEMMA SamplerTyped ==
  ASSUME AcquireTyped, NEW m \in Sampled,
         Sample(m) \/ Average(m) \/ Restore(m) \/ KeepOld(m)
  PROVE  AcquireTyped'
<1> USE BaseFacts DEF AcquireTyped, TypeOK, tickVars, worldVars
<1>1. /\ spot' \in [Sampled -> {"sample", "average", "first", "second"}]
      /\ UNCHANGED <<filtering, tickVars, worldVars>>
  BY DEF Sample, Average, Restore, KeepOld, Go, Restores, Keeps, After
<1>2. fresh' \in [Sampled -> Window]
  <2>1. CASE Sample(m)
    <3>1. fresh[m].n \in 0 .. MaxWindow /\ fresh[m].n < MaxWindow
      BY <2>1 DEF Sample, Window
    <3>2. [n |-> fresh[m].n + 1, parts |-> {fresh[m].n + 1}] \in Window
      BY <3>1 DEF Window
    <3> QED BY <2>1, <3>2 DEF Sample
  <2>2. CASE Average(m)
    <3>1. fresh[m].parts \cup old[m].parts \in SUBSET (1 .. MaxWindow)
      BY DEF Window
    <3>2. [fresh[m] EXCEPT !.parts = @ \cup old[m].parts] \in Window
      BY <3>1 DEF Window
    <3>3. fresh' = fresh
          \/ fresh' = [fresh EXCEPT ![m] = [fresh[m] EXCEPT !.parts = @ \cup old[m].parts]]
      BY <2>2 DEF Average
    <3> QED BY <3>2, <3>3
  <2>3. CASE Restore(m) \/ KeepOld(m)
    BY <2>3 DEF Restore, KeepOld
  <2> QED BY <2>1, <2>2, <2>3
<1>3. old' \in [Sampled -> Window] /\ buffer' \in [Sampled -> Window]
  BY DEF Sample, Average, Restore, KeepOld
<1> QED BY <1>1, <1>2, <1>3

(* A counter row is left, and the next one of the mapping is begun.        *)
LEMMA NextRowTyped ==
  ASSUME AcquireTyped, crow \in RowIds, NextCounterRow
  PROVE  /\ row' \in 0 .. Len(Rows) + 1 /\ crow' \in 0 .. Len(Rows)
         /\ crow' # 0 => row' \in CounterRows
         /\ row' \in {row, row + 1} /\ row # 0
<1>1. /\ crow \in Nat \ {0} /\ row \in CounterRows /\ row \in Nat \ {0}
      /\ row <= Len(Rows) /\ crow <= Len(Rows) /\ Len(Rows) \in Nat
  BY RowFacts DEF AcquireTyped
<1>2. CASE crow < Len(Rows)
  BY <1>1, <1>2 DEF NextCounterRow
<1>3. CASE ~ (crow < Len(Rows))
  BY <1>1, <1>3 DEF NextCounterRow
<1> QED BY <1>2, <1>3

LEMMA ReadTyped ==
  ASSUME AcquireTyped, NEW good \in BOOLEAN, ReadCounter(good)
  PROVE  AcquireTyped'
<1> DEFINE i == crow
           count == Count(i, good)
           r == Rows[i].reg
<1>1. i \in CounterRows /\ i \in RowIds /\ NextCounterRow
      /\ UNCHANGED <<plugged, samplerVars, tick, image, published, atStart, lastEnd, worldVars>>
  BY RowFacts DEF ReadCounter
<1>2. /\ row' \in 0 .. Len(Rows) + 1 /\ crow' \in 0 .. Len(Rows)
      /\ crow' # 0 => row' \in CounterRows
  BY <1>1, NextRowTyped
<1>3. /\ count \in 0 .. Wrap - 1
      /\ Frequency(i, count) \in 0 .. WordBase - 1
      /\ count % WordBase \in 0 .. WordBase - 1
      /\ count \div WordBase \in 0 .. WordBase - 1
  BY <1>1, CounterTyped
<1>4. ASSUME NEW w \in 0 .. WordBase - 1
      PROVE  [tick |-> tick, n |-> 0, word |-> w] \in Cell
  BY BaseFacts DEF Cell, AcquireTyped, TypeOK
<1>5. line' \in [0 .. LineSize - 1 -> Cell]
  <2> DEFINE f == [tick |-> tick, n |-> 0, word |-> Frequency(i, count)]
             h == [tick |-> tick, n |-> 0, word |-> count \div WordBase]
             l == [tick |-> tick, n |-> 0, word |-> count % WordBase]
  <2>1. f \in Cell /\ h \in Cell /\ l \in Cell
    BY <1>3, <1>4
  <2>2. line' = [line EXCEPT ![r] = f, ![r + 1] = h, ![r + 2] = l]
    BY DEF ReadCounter
  <2>3. line \in [0 .. LineSize - 1 -> Cell]
    BY DEF AcquireTyped, TypeOK
  <2> HIDE DEF f, h, l, r
  <2> QED BY <2>1, <2>2, <2>3
<1>6. kept' \in [CounterRows -> Reading]
  <2> DEFINE k == [time |-> now, count |-> count, edges |-> edges[i], good |-> good]
  <2>1. edges[i] \in 0 .. MaxCount /\ now \in 0 .. MaxTime
        /\ kept \in [CounterRows -> Reading]
    BY <1>1 DEF AcquireTyped, TypeOK
  <2>2. k \in Reading
    BY <1>3, <2>1 DEF Reading
  <2>3. kept' = [kept EXCEPT ![i] = k]
    BY DEF ReadCounter
  <2> HIDE DEF k, i
  <2> QED BY <2>1, <2>2, <2>3
<1> HIDE DEF i, count, r
<1> QED BY <1>1, <1>2, <1>5, <1>6 DEF AcquireTyped, TypeOK, samplerVars, worldVars

LEMMA AcquireTypedNext ==
  ASSUME AcquireTyped, [Next]_vars
  PROVE  AcquireTyped'
<1> USE BaseFacts, RowFacts DEF AcquireTyped, TypeOK, samplerVars, tickVars, worldVars
<1>1. CASE UNCHANGED vars
  BY <1>1 DEF vars
<1>2. ASSUME NEW i \in CounterRows, Edge(i) PROVE AcquireTyped'
  <2>1. edges' \in [CounterRows -> 0 .. MaxCount]
    BY <1>2 DEF Edge
  <2> QED BY <1>2, <2>1 DEF Edge
<1>3. CASE TimePasses
  <2>1. now' \in 0 .. MaxTime
    BY <1>3 DEF TimePasses
  <2> QED BY <1>3, <2>1 DEF TimePasses
<1>4. CASE SwitchFilterOn
  BY <1>4 DEF SwitchFilterOn
<1>5. ASSUME NEW m \in Sampled, Sample(m) \/ Average(m) \/ Restore(m) \/ KeepOld(m)
      PROVE  AcquireTyped'
  BY <1>5, SamplerTyped
<1>6. CASE TickBegins
  <2>1. /\ tick' \in 0 .. MaxTick /\ row' \in 0 .. Len(Rows) + 1
        /\ crow = 0 /\ UNCHANGED <<plugged, samplerVars, crow, line, image, published,
                                   lastEnd, kept, worldVars>>
    BY <1>6 DEF TickBegins
  <2>2. atStart' \in [Sampled -> 0 .. MaxWindow]
    BY <1>6 DEF TickBegins, Window
  <2> QED BY <2>1, <2>2
<1>7. CASE ReadAnalog
  <2> DEFINE m == Rows[row].module
             w == IF m \in Sampled THEN buffer[m] ELSE NoWindow
             c == [tick |-> tick, n |-> w.n, word |-> 0]
  <2>1. /\ row \in RowIds /\ crow = 0 /\ row' = row + 1
        /\ line' = [line EXCEPT ![Rows[row].reg] = c]
        /\ UNCHANGED <<plugged, samplerVars, crow, tick, image, published, atStart,
                       lastEnd, kept, worldVars>>
    BY <1>7 DEF ReadAnalog, AtRow
  <2>2. w \in Window
    BY DEF NoWindow, Window
  <2> HIDE DEF w
  <2>3. c \in Cell
    BY <2>2 DEF Cell, Window
  <2> HIDE DEF c
  <2>4. line' \in [0 .. LineSize - 1 -> Cell]
    BY <2>1, <2>3
  <2>5. row' \in 0 .. Len(Rows) + 1
    BY <2>1
  <2> QED BY <2>1, <2>4, <2>5
<1>8. CASE RowThrows
  BY <1>8 DEF RowThrows, EndTick, AtRow
<1>9. CASE PassRow
  <2>1. row' \in 0 .. Len(Rows) + 1
    BY <1>9 DEF PassRow, AtRow
  <2> QED BY <1>9, <2>1 DEF PassRow, AtRow
<1>10. CASE CountersBegin
  BY <1>10 DEF CountersBegin, AtRow, CounterRows
<1>11. CASE SkipRow
  <2>1. /\ row' \in 0 .. Len(Rows) + 1 /\ crow' \in 0 .. Len(Rows)
        /\ crow' # 0 => row' \in CounterRows
    BY <1>11, NextRowTyped DEF SkipRow
  <2> QED BY <1>11, <2>1 DEF SkipRow
<1>12. ASSUME NEW good \in BOOLEAN, ReadCounter(good) PROVE AcquireTyped'
  BY <1>12, ReadTyped
<1>13. CASE Publish
  <2>1. row = Len(Rows) + 1 /\ crow = 0
    BY <1>13 DEF Publish
  <2> QED BY <1>13, <2>1 DEF Publish, EndTick
<1> HIDE BaseFacts, RowFacts DEF AcquireTyped, TypeOK, samplerVars, tickVars, worldVars
<1> QED
  BY <1>1, <1>2, <1>3, <1>4, <1>5, <1>6, <1>7, <1>8, <1>9, <1>10, <1>11, <1>12, <1>13
  DEF Next

THEOREM AcquireInductive == Spec => []AcquireTyped
BY AcquireTypedInit, AcquireTypedNext, PTL DEF Spec

(* The registers hold words, the buffers windows, and the kept counts      *)
(* unsigned ints, for every mapping, chassis and word size.                *)
THEOREM AcquisitionTyped == Spec => []TypeOK
<1>1. AcquireTyped => TypeOK
  BY DEF AcquireTyped
<1> QED BY <1>1, AcquireInductive, PTL

----------------------------------------------------------------------------
(* Counters.                                                               *)

(* The words of counter i in a line, put together again.                   *)
WordsIn(l, i) == l[Rows[i].reg + 1].word * WordBase + l[Rows[i].reg + 2].word

(* The line always has the words of the last reading, good or not; what is *)
(* published is the line of the last tick that came to its end.            *)
CountInv ==
  /\ AcquireTyped
  /\ published <= tick /\ (row # 0 => published < tick)
  /\ published = tick /\ row = 0 => image = line
  /\ \A i \in CounterRows :
       /\ WordsIn(line, i) = kept[i].count
       /\ kept[i].good => kept[i].count = kept[i].edges % Wrap
       /\ kept[i].edges <= edges[i] /\ kept[i].time <= now

LEMMA CountInit == Init => CountInv
<1> SUFFICES ASSUME Init PROVE CountInv
  OBVIOUS
<1>1. AcquireTyped
  BY AcquireTypedInit
<1>2. ASSUME NEW i \in CounterRows
      PROVE  /\ WordsIn(line, i) = kept[i].count
             /\ kept[i].good => kept[i].count = kept[i].edges % Wrap
             /\ kept[i].edges <= edges[i] /\ kept[i].time <= now
  <2>1. Rows[i].reg + 1 \in 0 .. LineSize - 1 /\ Rows[i].reg + 2 \in 0 .. LineSize - 1
    BY RowFacts, RegisterFacts
  <2>2. line[Rows[i].reg + 1].word = 0 /\ line[Rows[i].reg + 2].word = 0
    BY <2>1 DEF Init, ZeroCell
  <2>3. WordsIn(line, i) = 0
    BY <2>2, BaseFacts DEF WordsIn
  <2> QED BY <2>3 DEF Init
<1>3. published <= tick /\ row = 0 /\ image = line
  BY DEF Init
<1> QED BY <1>1, <1>2, <1>3 DEF CountInv

(* The registers of a counter are its own.                                 *)
LEMMA CountersApart ==
  ASSUME NEW i \in CounterRows
  PROVE  /\ Rows[i].reg \in Nat
         /\ {Rows[i].reg, Rows[i].reg + 1, Rows[i].reg + 2} \subseteq 0 .. LineSize - 1
         /\ \A j \in CounterRows \ {i} :
              Rows[i].reg + 1 \notin Registers(j) /\ Rows[i].reg + 2 \notin Registers(j)
         /\ \A j \in AnalogRows :
              Rows[i].reg + 1 # Rows[j].reg /\ Rows[i].reg + 2 # Rows[j].reg
<1>1. Registers(i) = {Rows[i].reg, Rows[i].reg + 1, Rows[i].reg + 2}
  BY RegisterFacts
<1>2. \A j \in RowIds : i # j => Registers(i) \cap Registers(j) = {}
  BY MappingAssumption DEF CounterRows
<1>3. \A j \in AnalogRows : i # j /\ j \in RowIds /\ Registers(j) = {Rows[j].reg}
  BY RegisterFacts DEF AnalogRows, CounterRows
<1>4. Rows[i].reg \in Nat /\ Registers(i) \subseteq 0 .. LineSize - 1
  BY RowFacts
<1> QED BY <1>1, <1>2, <1>3, <1>4, RowFacts

LEMMA CountedTyped ==
  ASSUME AcquireTyped, NEW i \in CounterRows
  PROVE  /\ kept[i].edges \in Nat /\ kept[i].time \in Nat /\ kept[i].count \in 0 .. Wrap - 1
         /\ edges[i] \in Nat /\ now \in Nat
<1>1. kept[i] \in Reading /\ edges[i] \in 0 .. MaxCount /\ now \in 0 .. MaxTime
  BY DEF AcquireTyped, TypeOK
<1> QED BY <1>1, BaseFacts DEF Reading

LEMMA ReadCounts ==
  ASSUME CountInv, NEW good \in BOOLEAN, ReadCounter(good)
  PROVE  CountInv'
<1> DEFINE c == crow
           count == Count(c, good)
           r == Rows[c].reg
<1>1. c \in CounterRows /\ c \in RowIds /\ NextCounterRow /\ AcquireTyped
      /\ UNCHANGED <<tick, image, published, edges, now>>
  BY RowFacts DEF ReadCounter, CountInv, worldVars
<1>2. AcquireTyped'
  BY <1>1, ReadTyped
<1>3. row # 0 /\ row' # 0
  BY <1>1, NextRowTyped, RowFacts DEF AcquireTyped, TypeOK
<1>4. line \in [0 .. LineSize - 1 -> Cell] /\ kept \in [CounterRows -> Reading]
      /\ edges[c] \in 0 .. MaxCount /\ now \in 0 .. MaxTime
  BY <1>1 DEF AcquireTyped, TypeOK
<1>5. r \in Nat /\ {r, r + 1, r + 2} \subseteq 0 .. LineSize - 1 /\ Registers(c) = {r, r + 1, r + 2}
  BY <1>1, CountersApart, RegisterFacts
<1>6. /\ line'[r + 1].word = count \div WordBase
      /\ line'[r + 2].word = count % WordBase
      /\ \A q \in 0 .. LineSize - 1 : q \notin {r, r + 1, r + 2} => line'[q] = line[q]
  BY <1>4, <1>5 DEF ReadCounter
<1>7. /\ kept'[c] = [time |-> now, count |-> count, edges |-> edges[c], good |-> good]
      /\ \A i \in CounterRows \ {c} : kept'[i] = kept[i]
  BY <1>1, <1>4 DEF ReadCounter
<1>8. count \in Nat /\ (good => count = edges[c] % Wrap)
  <2>1. count \in 0 .. Wrap - 1
    BY <1>1, CounterTyped
  <2> QED BY <2>1, BaseFacts DEF Count
<1> HIDE DEF c, count, r
<1>9. ASSUME NEW i \in CounterRows
      PROVE  /\ WordsIn(line', i) = kept'[i].count
             /\ kept'[i].good => kept'[i].count = kept'[i].edges % Wrap
             /\ kept'[i].edges <= edges[i] /\ kept'[i].time <= now
  <2>1. CASE i = c
    <3>1. WordsIn(line', i) = (count \div WordBase) * WordBase + (count % WordBase)
      BY <1>6, <2>1 DEF WordsIn, r
    <3>2. WordsIn(line', i) = count
      BY <1>8, <3>1, BaseFacts, DivMod
    <3>3. edges[c] <= edges[c] /\ now <= now
      BY <1>4
    <3> QED BY <1>7, <1>8, <2>1, <3>2, <3>3
  <2>2. CASE i # c
    <3>1. /\ Rows[i].reg + 1 \notin {r, r + 1, r + 2}
          /\ Rows[i].reg + 2 \notin {r, r + 1, r + 2}
          /\ {Rows[i].reg + 1, Rows[i].reg + 2} \subseteq 0 .. LineSize - 1
      BY <1>1, <1>5, <2>2, CountersApart
    <3>2. WordsIn(line', i) = WordsIn(line, i) /\ kept'[i] = kept[i]
      BY <1>6, <1>7, <2>2, <3>1 DEF WordsIn
    <3> QED BY <3>2 DEF CountInv
  <2> QED BY <2>1, <2>2
<1>10. \A i \in CounterRows : WordsIn(line, i)' = WordsIn(line', i)
  BY DEF WordsIn
<1>11. published' <= tick' /\ published' < tick'
  BY <1>1, <1>3 DEF CountInv
<1> QED BY <1>1, <1>2, <1>3, <1>9, <1>10, <1>11 DEF CountInv

LEMMA CountNext ==
  ASSUME CountInv, [Next]_vars
  PROVE  CountInv'
<1> USE DEF samplerVars, tickVars, worldVars
<1>1. AcquireTyped /\ AcquireTyped'
  BY AcquireTypedNext DEF CountInv
<1>2. /\ tick \in Nat /\ published \in Nat /\ row \in Nat /\ now \in Nat
      /\ row' \in Nat /\ tick' \in Nat
      /\ \A i \in CounterRows : /\ kept[i].edges \in Nat /\ kept[i].time \in Nat
                                /\ edges[i] \in Nat
  <2>1. tick \in Nat /\ published \in Nat /\ row \in Nat /\ now \in Nat
    BY <1>1, BaseFacts, RowFacts DEF AcquireTyped, TypeOK
  <2>2. row' \in Nat /\ tick' \in Nat
    BY <1>1, BaseFacts, RowFacts DEF AcquireTyped, TypeOK
  <2>3. ASSUME NEW i \in CounterRows
        PROVE  kept[i].edges \in Nat /\ kept[i].time \in Nat /\ edges[i] \in Nat
    BY <1>1, CountedTyped
  <2> QED BY <2>1, <2>2, <2>3
<1>3. ASSUME UNCHANGED kept,
             \A i \in CounterRows : WordsIn(line', i) = WordsIn(line, i),
             \A i \in CounterRows : edges[i] <= edges'[i], now <= now',
             now' \in Nat, \A i \in CounterRows : edges'[i] \in Nat,
             published' <= tick', row' # 0 => published' < tick',
             published' = tick' /\ row' = 0 => image' = line'
      PROVE  CountInv'
  <2>1. \A i \in CounterRows : WordsIn(line, i)' = WordsIn(line', i)
    BY DEF WordsIn
  <2>2. ASSUME NEW i \in CounterRows
        PROVE  kept[i].edges <= edges'[i] /\ kept[i].time <= now'
    BY <1>2, <1>3 DEF CountInv
  <2> QED BY <1>1, <1>3, <2>1, <2>2 DEF CountInv
<1>4. \A i \in CounterRows : edges[i] <= edges[i] /\ now <= now
  BY <1>2
<1>5. CASE UNCHANGED vars
  <2>1. \A i \in CounterRows : WordsIn(line', i) = WordsIn(line, i)
    BY <1>5 DEF vars
  <2> QED BY <1>2, <1>3, <1>4, <1>5, <2>1 DEF vars, CountInv
<1>6. ASSUME NEW i \in CounterRows, Edge(i) PROVE CountInv'
  <2>1. /\ \A j \in CounterRows : edges[j] <= edges'[j] /\ edges'[j] \in Nat
        /\ UNCHANGED <<tickVars, now>>
    BY <1>1, <1>2, <1>6 DEF Edge, AcquireTyped, TypeOK
  <2> QED BY <1>2, <1>3, <1>4, <2>1 DEF CountInv
<1>7. CASE TimePasses
  BY <1>2, <1>3, <1>4, <1>7 DEF TimePasses, CountInv
<1>8. ASSUME \/ SwitchFilterOn
             \/ \E m \in Sampled : Sample(m) \/ Average(m) \/ Restore(m) \/ KeepOld(m)
      PROVE  CountInv'
  <2>1. UNCHANGED <<tickVars, worldVars>>
    BY <1>8 DEF SwitchFilterOn, Sample, Average, Restore, KeepOld
  <2> QED BY <1>2, <1>3, <1>4, <2>1 DEF CountInv
<1>9. CASE TickBegins
  <2>1. tick' = tick + 1 /\ UNCHANGED <<line, published, kept, worldVars>>
    BY <1>9 DEF TickBegins
  <2>2. published' < tick' /\ published' # tick' /\ published' <= tick'
    BY <1>2, <2>1 DEF CountInv
  <2> QED BY <1>2, <1>3, <1>4, <2>1, <2>2
<1>10. CASE ReadAnalog
  <2> DEFINE r == Rows[row].reg
  <2>1. /\ row \in AnalogRows /\ row' # 0 /\ row # 0
        /\ UNCHANGED <<tick, image, published, kept, worldVars>>
    BY <1>2, <1>10, RowFacts DEF ReadAnalog, AtRow, AnalogRows
  <2>2. \A q \in 0 .. LineSize - 1 : q # r => line'[q] = line[q]
    BY <1>1, <1>10 DEF ReadAnalog, AcquireTyped, TypeOK
  <2> HIDE DEF r
  <2>3. ASSUME NEW i \in CounterRows PROVE WordsIn(line', i) = WordsIn(line, i)
    <3>1. /\ Rows[i].reg + 1 # r /\ Rows[i].reg + 2 # r
          /\ {Rows[i].reg + 1, Rows[i].reg + 2} \subseteq 0 .. LineSize - 1
      BY <2>1, CountersApart DEF r
    <3> QED BY <2>2, <3>1 DEF WordsIn
  <2> QED BY <1>2, <1>3, <1>4, <2>1, <2>3 DEF CountInv
<1>11. CASE RowThrows
  <2>1. /\ row # 0 /\ UNCHANGED <<tick, line, image, published, kept, worldVars>>
    BY <1>2, <1>11, RowFacts DEF RowThrows, AtRow
  <2>2. published' < tick' /\ published' # tick' /\ published' <= tick'
    BY <1>2, <2>1 DEF CountInv
  <2> QED BY <1>2, <1>3, <1>4, <2>1, <2>2
<1>12. CASE PassRow \/ CountersBegin \/ SkipRow
  <2>1. /\ row # 0 /\ row' # 0 /\ UNCHANGED <<tick, line, image, published, kept, worldVars>>
    <3>1. CASE PassRow
      BY <1>2, <3>1, RowFacts DEF PassRow, AtRow
    <3>2. CASE CountersBegin
      BY <1>2, <3>2, RowFacts DEF CountersBegin, AtRow
    <3>3. CASE SkipRow
      <4>1. row' \in {row, row + 1} /\ row # 0
        BY <1>1, <3>3, NextRowTyped DEF SkipRow
      <4> QED BY <1>2, <3>3, <4>1 DEF SkipRow
    <3> QED BY <1>12, <3>1, <3>2, <3>3
  <2> QED BY <1>2, <1>3, <1>4, <2>1 DEF CountInv
<1>13. ASSUME NEW good \in BOOLEAN, ReadCounter(good) PROVE CountInv'
  BY <1>13, ReadCounts
<1>14. CASE Publish
  BY <1>2, <1>3, <1>4, <1>14 DEF Publish, EndTick
<1> HIDE DEF samplerVars, tickVars, worldVars
<1> QED
  BY <1>5, <1>6, <1>7, <1>8, <1>9, <1>10, <1>11, <1>12, <1>13, <1>14 DEF Next

THEOREM CountInductive == Spec => []CountInv
BY CountInit, CountNext, PTL DEF Spec

(* The two registers of a counter in a line that has just been published   *)
(* are the words of one reading, whatever the other rows and whichever     *)
(* reads fail (acquireCounters() of the bridge).                           *)
THEOREM PublishedWords == Spec => []WordsWhole
<1>1. CountInv => WordsWhole
  BY DEF CountInv, WordsWhole, WordsIn
<1> QED BY <1>1, CountInductive, PTL

(* A counter's frequency never claims more edges than there were, for      *)
(* every word size, across any number of wraps between two readings, and   *)
(* however late they are.                                                  *)
THEOREM FrequenciesSound == Spec => FrequencySound
<1> DEFINE Step == \A i \in CounterRows :
                     Reads(i) => line'[Rows[i].reg].word * Elapsed(i) <= Between(i)
<1>1. ASSUME CountInv, Next, NEW i \in CounterRows, Reads(i)
      PROVE  line'[Rows[i].reg].word * Elapsed(i) <= Between(i)
  <2> DEFINE E == Elapsed(i)
             D == Delta(i, edges[i] % Wrap)
  <2>1. ReadCounter(TRUE) /\ crow = i
    <3>1. crow = i /\ crow' # i /\ kept'[i].good /\ i # 0 /\ i \in RowIds
      BY <1>1, RowFacts DEF Reads
    <3>2. crow # 0 /\ crow \in CounterRows
      BY <1>1, <3>1
    <3>3. PICK good \in BOOLEAN : ReadCounter(good)
      BY <1>1, <3>1, <3>2
      DEF Next, samplerVars, tickVars, worldVars, Edge, TimePasses, SwitchFilterOn, Sample,
          Average, Restore, KeepOld, TickBegins, ReadAnalog, RowThrows, PassRow,
          CountersBegin, SkipRow, Publish, AtRow
    <3>4. kept'[i].good = good
      BY <1>1, <3>1, <3>3 DEF ReadCounter, CountInv, AcquireTyped, TypeOK
    <3> QED BY <3>1, <3>3, <3>4
  <2>2. line'[Rows[i].reg].word = Frequency(i, edges[i] % Wrap)
    <3> DEFINE r == Rows[i].reg
    <3>1. r \in Nat /\ {r, r + 1, r + 2} \subseteq 0 .. LineSize - 1
      BY CountersApart
    <3>2. line \in [0 .. LineSize - 1 -> Cell] /\ Count(i, TRUE) = edges[i] % Wrap
      BY <1>1 DEF CountInv, AcquireTyped, TypeOK, Count
    <3> DEFINE f == [tick |-> tick, n |-> 0, word |-> Frequency(i, Count(i, TRUE))]
               h == [tick |-> tick, n |-> 0, word |-> Count(i, TRUE) \div WordBase]
               l == [tick |-> tick, n |-> 0, word |-> Count(i, TRUE) % WordBase]
    <3>3. line' = [line EXCEPT ![r] = f, ![r + 1] = h, ![r + 2] = l]
      BY <2>1 DEF ReadCounter
    <3>4. f.word = Frequency(i, Count(i, TRUE))
      OBVIOUS
    <3> HIDE DEF f, h, l, r
    <3>5. line'[r] = f
      BY <3>1, <3>2, <3>3
    <3> QED BY <3>2, <3>4, <3>5 DEF r
  <2>3. /\ edges[i] \in Nat /\ kept[i].edges \in Nat /\ kept[i].edges <= edges[i]
        /\ kept[i].count = kept[i].edges % Wrap
        /\ now \in Nat /\ kept[i].time \in Nat /\ kept[i].time <= now
    BY <1>1, CountedTyped DEF CountInv, Reads
  <2>4. E \in Nat
    <3>1. now - kept[i].time \in Nat
      BY <2>3
    <3> QED BY <3>1, BaseFacts, DivMod DEF Elapsed
  <2>5. D \in 0 .. Between(i) /\ Between(i) \in Nat
    BY <2>3, BaseFacts, DeltaSound DEF Delta, Between
  <2> HIDE DEF D, E
  <2>6. CASE E > 0
    <3> DEFINE f == D \div E
    <3>1. E \in Nat \ {0} /\ D \in Nat
      BY <2>4, <2>5, <2>6
    <3>2. f \in Nat /\ D % E \in Nat /\ D = f * E + (D % E)
      BY <3>1, DivMod
    <3>3. Frequency(i, edges[i] % Wrap) = Clamped(f)
      BY <2>6 DEF Frequency, D, E
    <3> HIDE DEF f
    <3>4. Clamped(f) \in Nat /\ Clamped(f) <= f
      BY <3>2, BaseFacts DEF Clamped
    <3>5. Clamped(f) * E <= f * E /\ f * E \in Nat /\ Clamped(f) * E \in Nat
      BY <3>1, <3>2, <3>4, TimesGrows
    <3>6. Clamped(f) * E <= Between(i)
      BY <2>5, <3>1, <3>2, <3>5
    <3> QED BY <2>2, <3>3, <3>6 DEF E
  <2>7. CASE ~ (E > 0)
    <3>1. Frequency(i, edges[i] % Wrap) = 0
      BY <2>7 DEF Frequency, E
    <3>2. 0 * E <= Between(i)
      BY <2>4, <2>5
    <3> QED BY <2>2, <3>1, <3>2 DEF E
  <2> QED BY <2>6, <2>7
<1>2. CountInv /\ [Next]_vars => [Step]_vars
  BY <1>1
<1> QED BY <1>2, CountInductive, PTL DEF Spec, FrequencySound
----------------------------------------------------------------------------
(* The rolling window of module 3.                                         *)

(* All the windows averaged into w are an even number of windows apart.    *)
Alternate(w) == w.n \in Nat /\ w.parts \subseteq Nat /\ \A p \in w.parts : p % 2 = w.n % 2

(* Where the windows of a module that keeps the old one first are, at each *)
(* position of its sampling thread.                                        *)
Rolls(m) ==
  /\ Alternate(fresh[m]) /\ Alternate(old[m]) /\ Alternate(buffer[m])
  /\ spot[m] = "sample" => fresh[m].n = buffer[m].n
  /\ spot[m] # "sample" => fresh[m].n = buffer[m].n + 1
  /\ spot[m] # "second" => old[m] = NoWindow \/ old[m].n + 1 = buffer[m].n
  /\ spot[m] = "second" => old[m] = NoWindow \/ old[m].n = buffer[m].n
  /\ ~filtering => old[m] = NoWindow

RollInv ==
  /\ OldFirst \subseteq Sampled
  /\ spot \in [Sampled -> {"sample", "average", "first", "second"}]
  /\ DOMAIN fresh = Sampled /\ DOMAIN old = Sampled /\ DOMAIN buffer = Sampled
  /\ filtering \in BOOLEAN
  /\ \A m \in OldFirst : Rolls(m)

(* No two neighbouring windows are averaged.                               *)
SkipsNeighbours ==
  \A m \in OldFirst : \A p \in buffer[m].parts : p % 2 = buffer[m].n % 2

LEMMA AlternateCases ==
  /\ Alternate(NoWindow)
  /\ \A n \in Nat : Alternate([n |-> n, parts |-> {n}])
  /\ \A v, w : (Alternate(v) /\ Alternate(w) /\ v.n % 2 = w.n % 2) =>
       \A P : P = v.parts \cup w.parts => P \subseteq Nat /\ \A p \in P : p % 2 = v.n % 2
<1>1. NoWindow.n = 0 /\ NoWindow.parts = {}
  BY DEF NoWindow
<1> QED BY <1>1 DEF Alternate

(* A step of the sampling thread of k leaves the other threads' windows    *)
(* where they are.                                                         *)
LEMMA RollsNext ==
  ASSUME RollInv, [Next]_vars
  PROVE  RollInv'
<1> USE DEF samplerVars, tickVars, worldVars
<1>0. OldFirst \subseteq Sampled
  BY DEF RollInv
<1>1. CASE UNCHANGED samplerVars
  BY <1>1 DEF RollInv, Rolls, Alternate
<1>2. CASE SwitchFilterOn
  BY <1>2 DEF SwitchFilterOn, RollInv, Rolls, Alternate
<1>3. ASSUME NEW k \in Sampled, Sample(k) PROVE RollInv'
  <2>1. /\ spot' = [spot EXCEPT ![k] = "average"] /\ spot[k] = "sample"
        /\ fresh' = [fresh EXCEPT ![k] = [n |-> @.n + 1, parts |-> {@.n + 1}]]
        /\ UNCHANGED <<filtering, old, buffer>>
    BY <1>3 DEF Sample, Go
  <2>2. ASSUME NEW m \in OldFirst PROVE Rolls(m)'
    <3>1. Rolls(m) /\ m \in Sampled
      BY <1>0 DEF RollInv
    <3>2. CASE m # k
      <4>1. fresh'[m] = fresh[m] /\ spot'[m] = spot[m]
        BY <2>1, <3>1, <3>2 DEF RollInv
      <4> QED BY <2>1, <3>1, <4>1 DEF Rolls, Alternate
    <3>3. CASE m = k
      <4>1. PICK n \in Nat : n = fresh[m].n + 1
        BY <3>1 DEF Rolls, Alternate
      <4>2. fresh'[m] = [n |-> n, parts |-> {n}] /\ spot'[m] = "average"
        BY <2>1, <3>1, <3>3, <4>1 DEF RollInv
      <4>3. Alternate(fresh'[m]) /\ fresh'[m].n = n
        BY <4>2, AlternateCases
      <4>4. fresh[m].n = buffer[m].n
        BY <2>1, <3>1, <3>3 DEF Rolls
      <4> QED BY <2>1, <3>1, <3>3, <4>1, <4>2, <4>3, <4>4 DEF Rolls, Alternate
    <3> QED BY <3>2, <3>3
  <2> QED BY <2>1, <2>2 DEF RollInv
<1>4. ASSUME NEW k \in Sampled, Average(k) PROVE RollInv'
  <2>1. /\ spot' = [spot EXCEPT ![k] = "first"] /\ spot[k] = "average"
        /\ fresh' = IF Averages(k)
                    THEN [fresh EXCEPT ![k].parts = @ \cup old[k].parts] ELSE fresh
        /\ UNCHANGED <<filtering, old, buffer>>
    BY <1>4 DEF Average, Go
  <2>2. DOMAIN fresh' = Sampled
    BY <2>1 DEF RollInv
  <2>3. ASSUME NEW m \in OldFirst PROVE Rolls(m)'
    <3>1. Rolls(m) /\ m \in Sampled
      BY <1>0 DEF RollInv
    <3>2. CASE m # k
      <4>1. fresh'[m] = fresh[m] /\ spot'[m] = spot[m]
        BY <2>1, <3>1, <3>2 DEF RollInv
      <4> QED BY <2>1, <3>1, <4>1 DEF Rolls, Alternate
    <3>3. CASE m = k /\ ~Averages(k)
      <4>1. fresh'[m] = fresh[m] /\ spot'[m] = "first"
        BY <2>1, <3>1, <3>3 DEF RollInv
      <4> QED BY <2>1, <3>1, <3>3, <4>1 DEF Rolls, Alternate
    <3>4. CASE m = k /\ Averages(k)
      <4>1. /\ fresh'[m] = [fresh[m] EXCEPT !.parts = @ \cup old[m].parts]
            /\ spot'[m] = "first"
        BY <2>1, <3>1, <3>4 DEF RollInv
      <4>2. old[m].n + 1 = buffer[m].n /\ fresh[m].n = buffer[m].n + 1
        BY <2>1, <3>1, <3>4 DEF Rolls, Averages
      <4>3. fresh[m].n % 2 = old[m].n % 2
        <5>1. old[m].n \in Nat /\ fresh[m].n = old[m].n + 2
          BY <3>1, <4>2 DEF Rolls, Alternate
        <5> QED BY <5>1
      <4>4. fresh'[m].n = fresh[m].n /\ fresh'[m].parts = fresh[m].parts \cup old[m].parts
        BY <4>1, <3>1 DEF Rolls, Alternate
      <4>5. Alternate(fresh'[m])
        BY <3>1, <4>3, <4>4, AlternateCases DEF Rolls, Alternate
      <4> QED BY <2>1, <3>1, <3>4, <4>1, <4>2, <4>4, <4>5 DEF Rolls, Alternate
    <3> QED BY <3>2, <3>3, <3>4
  <2> QED BY <2>1, <2>2, <2>3 DEF RollInv
<1>5. ASSUME NEW k \in Sampled, Restore(k) PROVE RollInv'
  <2>1. /\ spot[k] = Restores(k)
        /\ spot' = [spot EXCEPT ![k] = After(Restores(k))]
        /\ buffer' = [buffer EXCEPT ![k] = fresh[k]]
        /\ UNCHANGED <<filtering, fresh, old>>
    BY <1>5 DEF Restore, Go
  <2>2. After(Restores(k)) \in {"second", "sample"}
    BY DEF After, Restores
  <2>3. ASSUME NEW m \in OldFirst PROVE Rolls(m)'
    <3>1. Rolls(m) /\ m \in Sampled
      BY <1>0 DEF RollInv
    <3>2. CASE m # k
      <4>1. buffer'[m] = buffer[m] /\ spot'[m] = spot[m]
        BY <2>1, <3>1, <3>2 DEF RollInv
      <4> QED BY <2>1, <3>1, <4>1 DEF Rolls, Alternate
    <3>3. CASE m = k
      <4>1. spot[m] = "second" /\ spot'[m] = "sample" /\ buffer'[m] = fresh[m]
        BY <2>1, <3>1, <3>3 DEF RollInv, Restores, After
      <4> QED BY <2>1, <3>1, <4>1 DEF Rolls, Alternate
    <3> QED BY <3>2, <3>3
  <2> QED BY <2>1, <2>2, <2>3 DEF RollInv
<1>6. ASSUME NEW k \in Sampled, KeepOld(k) PROVE RollInv'
  <2>1. /\ spot[k] = Keeps(k)
        /\ spot' = [spot EXCEPT ![k] = After(Keeps(k))]
        /\ old' = IF filtering THEN [old EXCEPT ![k] = buffer[k]] ELSE old
        /\ UNCHANGED <<filtering, fresh, buffer>>
    BY <1>6 DEF KeepOld, Go
  <2>2. After(Keeps(k)) \in {"second", "sample"} /\ DOMAIN old' = Sampled
    BY <2>1 DEF After, Keeps, RollInv
  <2>3. ASSUME NEW m \in OldFirst PROVE Rolls(m)'
    <3>1. Rolls(m) /\ m \in Sampled
      BY <1>0 DEF RollInv
    <3>2. CASE m # k
      <4>1. old'[m] = old[m] /\ spot'[m] = spot[m]
        BY <2>1, <3>1, <3>2 DEF RollInv
      <4> QED BY <2>1, <3>1, <4>1 DEF Rolls, Alternate
    <3>3. CASE m = k
      <4>1. spot[m] = "first" /\ spot'[m] = "second"
        BY <2>1, <3>1, <3>3 DEF RollInv, Keeps, After
      <4>2. old'[m] = IF filtering THEN buffer[m] ELSE old[m]
        BY <2>1, <3>1, <3>3 DEF RollInv
      <4> QED BY <2>1, <3>1, <4>1, <4>2 DEF Rolls, Alternate, RollInv
    <3> QED BY <3>2, <3>3
  <2> QED BY <2>1, <2>2, <2>3 DEF RollInv
<1> QED
  BY <1>1, <1>2, <1>3, <1>4, <1>5, <1>6
  DEF Next, vars, Edge, TimePasses, TickBegins, ReadAnalog, RowThrows, PassRow,
      CountersBegin, SkipRow, ReadCounter, Publish

(* "this is a 2 point floating window average" of readMod3(), which keeps  *)
(* the buffer as the old window just before it restores the new one: what  *)
(* it averages next is not the window before but the one before that, so   *)
(* that no value of the module ever holds two neighbouring windows.        *)
THEOREM NeighboursSkipped == Spec => []SkipsNeighbours
<1>1. Init => RollInv
  <2> SUFFICES ASSUME Init PROVE RollInv
    OBVIOUS
  <2>1. OldFirst \subseteq Sampled
    BY MappingAssumption
  <2>2. NoWindow.n = 0
    BY DEF NoWindow
  <2>3. ASSUME NEW m \in OldFirst PROVE Rolls(m)
    <3>1. /\ spot[m] = "sample" /\ fresh[m] = NoWindow /\ old[m] = NoWindow
          /\ buffer[m] = NoWindow
      BY <2>1 DEF Init
    <3> QED BY <3>1, AlternateCases DEF Rolls
  <2> QED BY <2>1, <2>3 DEF RollInv, Init
<1>2. RollInv /\ [Next]_vars => RollInv'
  BY RollsNext
<1>3. RollInv => SkipsNeighbours
  BY DEF RollInv, Rolls, Alternate, SkipsNeighbours
<1> QED BY <1>1, <1>2, <1>3, PTL DEF Spec

=============================================================================
