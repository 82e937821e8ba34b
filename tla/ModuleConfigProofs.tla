------------------------- MODULE ModuleConfigProofs -------------------------
(***************************************************************************)
(* Theorems of ModuleConfig, for every set of module types, aliases and    *)
(* values a user may write: the settings keep their types and the limits   *)
(* are ranges, whatever the file holds and whenever the power fails; a     *)
(* sound file is taken as it is, and loading undoes saving.                *)
(***************************************************************************)
EXTENDS ModuleConfig, TLAPS

(* A list is asked for after its number has been read and written back.    *)
NumbersRead ==
  phase = "load" =>
    /\ pos >= 7 => file["numberofcounters"] \in Int
    /\ pos >= 11 => file["numberofdigitaloutputs"] \in Int

ConfigInv == TypeOK /\ RangeOrdered /\ NumbersRead

LEMMA OrderFacts ==
  /\ Len(Order) = 11
  /\ Order[1] = "alias" /\ Order[2] = "numberofchannels" /\ Order[3] = "max"
  /\ Order[4] = "min" /\ Order[5] = "channels" /\ Order[6] = "numberofcounters"
  /\ Order[7] = "counters" /\ Order[8] = "countingmax" /\ Order[9] = "countingmin"
  /\ Order[10] = "numberofdigitaloutputs" /\ Order[11] = "outputs"
BY DEF Order

(* Where the keys stand that a list or the end of a section depends on.    *)
LEMMA PlaceFacts ==
  ASSUME NEW i \in 1 .. Len(Order)
  PROVE  /\ Order[i] = "min" <=> i = 4
         /\ Order[i] = "channels" <=> i = 5
         /\ Order[i] = "numberofcounters" <=> i = 6
         /\ Order[i] = "counters" <=> i = 7
         /\ Order[i] = "countingmin" <=> i = 9
         /\ Order[i] = "numberofdigitaloutputs" <=> i = 10
         /\ Order[i] = "outputs" <=> i = 11
<1>1. i \in {1, 2, 3, 4, 5, 6, 7, 8, 9, 10, 11}
  BY OrderFacts
<1> QED BY <1>1 DEF Order

LEMMA KeyFacts ==
  Keys = {"alias", "numberofchannels", "max", "min", "channels", "numberofcounters",
          "counters", "countingmax", "countingmin", "numberofdigitaloutputs", "outputs"}
<1>1. \A i \in 1 .. Len(Order) : i \in {1, 2, 3, 4, 5, 6, 7, 8, 9, 10, 11}
  BY OrderFacts
<1>2. \A i \in {1, 2, 3, 4, 5, 6, 7, 8, 9, 10, 11} : i \in 1 .. Len(Order)
  BY OrderFacts
<1> QED BY <1>1, <1>2, OrderFacts DEF Keys

(* The setters leave a range, whatever they are asked to set.              *)
LEMMA SettersKeepRange ==
  ASSUME NEW m \in [Keys -> Int \cup Aliases],
         NEW high \in Keys, NEW low \in Keys, high # low,
         m[high] \in Int, m[low] \in Int, m[low] < m[high],
         NEW h \in Int, NEW l \in Int
  PROVE  LET n == SetLimits(m, high, low, h, l)
         IN  /\ n \in [Keys -> Int \cup Aliases]
             /\ n[high] \in Int /\ n[low] \in Int /\ n[low] < n[high]
             /\ \A k \in Keys \ {high, low} : n[k] = m[k]
<1> DEFINE s == SetHigh(m, high, low, h)
<1>1. /\ s \in [Keys -> Int \cup Aliases]
      /\ s[high] \in Int /\ s[low] \in Int /\ s[low] < s[high]
      /\ \A k \in Keys \ {high, low} : s[k] = m[k]
  BY DEF SetHigh
<1> HIDE DEF s
<1>2. LET n == SetLow(s, high, low, l)
      IN  /\ n \in [Keys -> Int \cup Aliases]
          /\ n[high] \in Int /\ n[low] \in Int /\ n[low] < n[high]
          /\ \A k \in Keys \ {high, low} : n[k] = m[k]
  BY <1>1 DEF SetLow
<1> QED BY <1>2 DEF SetLimits, s

(* A new object has the limits of its type.                                *)
LEMMA FreshTyped ==
  ASSUME type \in Types, chassis \in Aliases
  PROVE  /\ Fresh \in [Keys -> Int \cup Aliases]
         /\ Fresh["alias"] \in Aliases
         /\ \A k \in Numbers : Fresh[k] \in Int
         /\ Fresh["min"] < Fresh["max"]
         /\ Fresh["countingmin"] < Fresh["countingmax"]
<1>1. Made[type] \in [Numbers -> Int]
  BY ConfigAssumption
<1>2. /\ Made[type]["min"] < Made[type]["max"]
      /\ Made[type]["countingmin"] < Made[type]["countingmax"]
  BY ConfigAssumption
<1>3. \A k \in Numbers : k \in Keys /\ k # "alias" /\ Fresh[k] = Made[type][k]
  BY DEF Fresh, Numbers
<1>4. {"min", "max", "countingmin", "countingmax"} \subseteq Numbers
  BY KeyFacts DEF Numbers
<1>5. Fresh["alias"] = chassis
  BY KeyFacts DEF Fresh
<1>6. Fresh \in [Keys -> Int \cup Aliases]
  BY <1>1 DEF Fresh, Numbers
<1> QED BY <1>1, <1>2, <1>3, <1>4, <1>5, <1>6

LEMMA BlankTyped ==
  /\ Blank \in [Keys -> Int \cup Aliases \cup {Missing}]
  /\ \A k \in Lists : Blank[k] \in Int
  /\ \A k \in Numbers : Blank[k] \in Int \cup {Missing}
  /\ Blank["alias"] \in Aliases \cup {Missing}
BY KeyFacts DEF Blank, Lists, Numbers

LEMMA ConfigInit == Init => ConfigInv
<1> SUFFICES ASSUME Init PROVE ConfigInv
  OBVIOUS
<1>1. /\ type \in Types /\ chassis \in Aliases /\ exists = FALSE
      /\ file = Blank /\ mem = Fresh /\ phase = "off" /\ pos = 1 /\ changes = 0
  BY DEF Init
<1>2. pos \in 1 .. Len(Order) + 1 /\ changes \in 0 .. MaxChanges
  BY <1>1, OrderFacts, ConfigAssumption
<1>3. /\ mem \in [Keys -> Int \cup Aliases]
      /\ mem["alias"] \in Aliases
      /\ \A k \in Numbers : mem[k] \in Int
      /\ RangeOrdered
  BY <1>1, FreshTyped DEF RangeOrdered
<1>4. /\ file \in [Keys -> Int \cup Aliases \cup {Missing}]
      /\ \A k \in Lists : file[k] \in Int
      /\ \A k \in Numbers : file[k] \in Int \cup {Missing}
      /\ file["alias"] \in Aliases \cup {Missing}
  BY <1>1, BlankTyped
<1>5. NumbersRead
  BY <1>1 DEF NumbersRead
<1> QED BY <1>1, <1>2, <1>3, <1>4, <1>5 DEF ConfigInv, TypeOK

(* What readValue() returns has the type of its key.                       *)
LEMMA ValueTyped ==
  ASSUME ConfigInv, NEW k \in Keys
  PROVE  /\ k = "alias" => Value(k) \in Aliases
         /\ k # "alias" => Value(k) \in Int
<1>1. CounterTop \in Int
  BY ConfigAssumption
<1>2. /\ mem["alias"] \in Aliases
      /\ \A j \in Numbers : mem[j] \in Int
      /\ file["alias"] \in Aliases \cup {Missing}
      /\ \A j \in Numbers : file[j] \in Int \cup {Missing}
  BY DEF ConfigInv, TypeOK
<1>3. CASE k = "alias"
  <2>1. Default(k) = mem[k]
    BY <1>3 DEF Default
  <2> QED BY <1>2, <1>3, <2>1 DEF Value
<1>4. CASE k # "alias"
  <2>1. k \in Numbers /\ "max" \in Numbers
    BY <1>4, KeyFacts DEF Numbers
  <2>2. mem[k] \in Int /\ mem["max"] \in Int
    BY <1>2, <2>1
  <2>3. Default(k) \in Int
    BY <1>1, <2>2 DEF Default
  <2> QED BY <1>2, <1>4, <2>1, <2>3 DEF Value
<1> QED BY <1>3, <1>4

(* The settings of an object and the contents of a file, with their types. *)
MemTyped(m) ==
  /\ m \in [Keys -> Int \cup Aliases]
  /\ m["alias"] \in Aliases
  /\ \A k \in Numbers : m[k] \in Int
  /\ m["min"] < m["max"]
  /\ m["countingmin"] < m["countingmax"]

FileTyped(f) ==
  /\ f \in [Keys -> Int \cup Aliases \cup {Missing}]
  /\ \A k \in Lists : f[k] \in Int
  /\ \A k \in Numbers : f[k] \in Int \cup {Missing}
  /\ f["alias"] \in Aliases \cup {Missing}

LEMMA InvTyped ==
  ConfigInv <=> /\ MemTyped(mem) /\ FileTyped(file) /\ NumbersRead
                /\ type \in Types /\ chassis \in Aliases /\ exists \in BOOLEAN
                /\ phase \in {"off", "load", "truncate", "save", "running"}
                /\ pos \in 1 .. Len(Order) + 1
                /\ changes \in 0 .. MaxChanges
BY DEF ConfigInv, TypeOK, RangeOrdered, MemTyped, FileTyped

(* One key of a file that gets a value of its type.                        *)
LEMMA PutTyped ==
  ASSUME NEW f, FileTyped(f), NEW k \in Keys, NEW v,
         k = "alias" => v \in Aliases, k # "alias" => v \in Int
  PROVE  FileTyped([f EXCEPT ![k] = v])
<1> DEFINE g == [f EXCEPT ![k] = v]
<1>1. "alias" \in Keys /\ Numbers \subseteq Keys /\ Lists \subseteq Numbers
  BY KeyFacts DEF Numbers, Lists
<1>2. "alias" \notin Numbers
  BY DEF Numbers
<1>3. \A j \in Keys : g[j] = IF j = k THEN v ELSE f[j]
  BY DEF FileTyped
<1>4. g \in [Keys -> Int \cup Aliases \cup {Missing}]
  BY DEF FileTyped
<1> HIDE DEF g
<1>5. \A j \in Numbers : g[j] \in Int \cup {Missing}
  BY <1>1, <1>2, <1>3 DEF FileTyped
<1>6. \A j \in Lists : g[j] \in Int
  BY <1>1, <1>2, <1>3 DEF FileTyped
<1>7. g["alias"] \in Aliases \cup {Missing}
  BY <1>1, <1>3 DEF FileTyped
<1>8. FileTyped(g)
  BY <1>4, <1>5, <1>6, <1>7 DEF FileTyped
<1> QED BY <1>8 DEF g

(* One setting that is no limit gets a value of its type.                  *)
LEMMA SetTyped ==
  ASSUME NEW m, MemTyped(m), NEW v,
         NEW k \in Keys \ {"min", "max", "countingmin", "countingmax"},
         k = "alias" => v \in Aliases, k # "alias" => v \in Int
  PROVE  MemTyped([m EXCEPT ![k] = v])
<1> DEFINE g == [m EXCEPT ![k] = v]
<1>1. {"alias", "min", "max", "countingmin", "countingmax"} \subseteq Keys
      /\ Numbers \subseteq Keys /\ "alias" \notin Numbers
  BY KeyFacts DEF Numbers
<1>2. \A j \in Keys : g[j] = IF j = k THEN v ELSE m[j]
  BY DEF MemTyped
<1>3. g \in [Keys -> Int \cup Aliases]
  BY DEF MemTyped
<1> HIDE DEF g
<1>4. \A j \in Numbers : g[j] \in Int
  BY <1>1, <1>2 DEF MemTyped
<1>5. g["alias"] \in Aliases
  BY <1>1, <1>2 DEF MemTyped
<1>6. g["min"] < g["max"] /\ g["countingmin"] < g["countingmax"]
  BY <1>1, <1>2 DEF MemTyped
<1>7. MemTyped(g)
  BY <1>3, <1>4, <1>5, <1>6 DEF MemTyped
<1> QED BY <1>7 DEF g

LEMMA LimitsTyped ==
  ASSUME NEW m, MemTyped(m), NEW h \in Int, NEW l \in Int
  PROVE  /\ MemTyped(SetLimits(m, "max", "min", h, l))
         /\ MemTyped(SetLimits(m, "countingmax", "countingmin", h, l))
<1> DEFINE a == SetLimits(m, "max", "min", h, l)
           b == SetLimits(m, "countingmax", "countingmin", h, l)
<1>1. /\ {"alias", "min", "max", "countingmin", "countingmax"} \subseteq Keys
      /\ {"min", "max", "countingmin", "countingmax"} \subseteq Numbers
      /\ Numbers \subseteq Keys /\ "alias" \notin Numbers
  BY KeyFacts DEF Numbers
<1>2. /\ m \in [Keys -> Int \cup Aliases]
      /\ \A k \in Numbers : m[k] \in Int
      /\ m["alias"] \in Aliases
      /\ m["min"] < m["max"] /\ m["countingmin"] < m["countingmax"]
  BY DEF MemTyped
<1>3. /\ m["min"] \in Int /\ m["max"] \in Int
      /\ m["countingmin"] \in Int /\ m["countingmax"] \in Int
  BY <1>1, <1>2
<1>4. /\ a \in [Keys -> Int \cup Aliases]
      /\ a["max"] \in Int /\ a["min"] \in Int /\ a["min"] < a["max"]
      /\ \A k \in Keys \ {"max", "min"} : a[k] = m[k]
  BY <1>1, <1>2, <1>3, SettersKeepRange
<1>5. /\ b \in [Keys -> Int \cup Aliases]
      /\ b["countingmax"] \in Int /\ b["countingmin"] \in Int
      /\ b["countingmin"] < b["countingmax"]
      /\ \A k \in Keys \ {"countingmax", "countingmin"} : b[k] = m[k]
  BY <1>1, <1>2, <1>3, SettersKeepRange
<1> HIDE DEF a, b
<1>6. MemTyped(a)
  <2>1. \A k \in Numbers : a[k] \in Int
    BY <1>1, <1>2, <1>4
  <2>2. a["alias"] \in Aliases /\ a["countingmin"] < a["countingmax"]
    BY <1>1, <1>2, <1>4
  <2> QED BY <1>4, <2>1, <2>2 DEF MemTyped
<1>7. MemTyped(b)
  <2>1. \A k \in Numbers : b[k] \in Int
    BY <1>1, <1>2, <1>5
  <2>2. b["alias"] \in Aliases /\ b["min"] < b["max"]
    BY <1>1, <1>2, <1>5
  <2> QED BY <1>5, <2>1, <2>2 DEF MemTyped
<1> QED BY <1>6, <1>7 DEF a, b

(* A list is as long as an integer says.                                   *)
LEMMA CountTyped ==
  ASSUME ConfigInv, phase = "load", pos \in 1 .. Len(Order), Key \in Lists
  PROVE  CountOf(Key) \in Int
<1>1. Key = Order[pos]
  BY DEF Key
<1>2. CASE Key = "channels"
  <2>1. mem["numberofchannels"] \in Int
    BY KeyFacts DEF ConfigInv, TypeOK, Numbers
  <2> QED BY <1>2, <2>1 DEF CountOf
<1>3. CASE Key = "counters"
  <2>1. pos = 7
    BY <1>1, <1>3, PlaceFacts
  <2>2. file["numberofcounters"] \in Int
    BY <2>1 DEF ConfigInv, NumbersRead
  <2> QED BY <1>3, <2>2 DEF CountOf
<1>4. CASE Key = "outputs"
  <2>1. pos = 11
    BY <1>1, <1>4, PlaceFacts
  <2>2. file["numberofdigitaloutputs"] \in Int
    BY <2>1 DEF ConfigInv, NumbersRead
  <2> QED BY <1>4, <2>2 DEF CountOf
<1> QED BY <1>2, <1>3, <1>4 DEF Lists

(* Whatever is read, the object keeps its types and its ranges.            *)
LEMMA TakenTyped ==
  ASSUME ConfigInv, phase = "load", pos \in 1 .. Len(Order)
  PROVE  MemTyped(Taken(Key))
<1>1. Key \in Keys
  BY DEF Keys, Key
<1>2. MemTyped(mem)
  BY InvTyped
<1>3. CounterTop \in Int
  BY ConfigAssumption
<1>4. {"min", "max", "countingmin", "countingmax"} \subseteq Keys \ {"alias"}
  BY KeyFacts
<1>5. CASE Key \in {"alias", "numberofchannels"}
  <2>1. Taken(Key) = [mem EXCEPT ![Key] = Value(Key)]
    BY <1>5 DEF Taken, Lists
  <2>2. /\ Key = "alias" => Value(Key) \in Aliases
        /\ Key # "alias" => Value(Key) \in Int
    BY <1>1, ValueTyped
  <2>3. Key \in Keys \ {"min", "max", "countingmin", "countingmax"}
    BY <1>1, <1>5
  <2>4. MemTyped([mem EXCEPT ![Key] = Value(Key)])
    BY <1>2, <2>2, <2>3, SetTyped
  <2> QED BY <2>1, <2>4
<1>6. CASE Key = "min"
  <2>1. Taken(Key) = SetLimits(mem, "max", "min", Value("max"), Value("min"))
    BY <1>6 DEF Taken, Lists
  <2>2. Value("max") \in Int /\ Value("min") \in Int
    BY <1>4, ValueTyped
  <2> QED BY <1>2, <2>1, <2>2, LimitsTyped
<1>7. CASE Key = "countingmin"
  <2> DEFINE low == IF Value("countingmin") > Value("countingmax")
                    THEN CounterTop ELSE Value("countingmin")
  <2>1. Taken(Key)
          = SetLimits(mem, "countingmax", "countingmin", Value("countingmax"), low)
    BY <1>7 DEF Taken, Lists
  <2>2. Value("countingmax") \in Int /\ Value("countingmin") \in Int
    BY <1>4, ValueTyped
  <2>3. low \in Int
    BY <1>3, <2>2
  <2> HIDE DEF low
  <2> QED BY <1>2, <2>1, <2>2, <2>3, LimitsTyped
<1>8. CASE Key \in Lists
  <2>1. Taken(Key) = [mem EXCEPT ![Key] = CountOf(Key)]
    BY <1>8 DEF Taken, Lists
  <2>2. CountOf(Key) \in Int
    BY <1>8, CountTyped
  <2>3. Key \in Keys \ {"min", "max", "countingmin", "countingmax"} /\ Key # "alias"
    BY <1>1, <1>8 DEF Lists
  <2>4. MemTyped([mem EXCEPT ![Key] = CountOf(Key)])
    BY <1>2, <2>2, <2>3, SetTyped
  <2> QED BY <2>1, <2>4
<1>9. CASE Key \notin {"alias", "numberofchannels", "min", "countingmin"} \cup Lists
  <2>1. Taken(Key) = mem \/ (Key = "numberofcounters" /\ Taken(Key) = [mem EXCEPT ![Key] = 8])
    <3>1. /\ Key \notin {"alias", "numberofchannels"} /\ Key # "min"
          /\ Key # "countingmin" /\ Key \notin Lists
      BY <1>9
    <3> QED BY <3>1 DEF Taken, Lists
  <2>2. Key = "numberofcounters" => MemTyped([mem EXCEPT ![Key] = 8])
    <3>1. SUFFICES ASSUME Key = "numberofcounters" PROVE MemTyped([mem EXCEPT ![Key] = 8])
      OBVIOUS
    <3>2. Key \in Keys \ {"min", "max", "countingmin", "countingmax"} /\ Key # "alias"
      BY <1>1, <3>1
    <3>3. 8 \in Int
      OBVIOUS
    <3> QED BY <1>2, <3>2, <3>3, SetTyped
  <2> QED BY <1>2, <2>1, <2>2
<1> QED BY <1>5, <1>6, <1>7, <1>8, <1>9

(* Loading skips no number that a list of the file needs.                  *)
LEMMA AfterPlace ==
  ASSUME pos \in 1 .. Len(Order)
  PROVE  /\ After(Key) \in 1 .. Len(Order) + 1
         /\ After(Key) >= 7 => pos >= 6
         /\ After(Key) >= 11 => pos >= 10
<1>1. pos \in 1 .. 11 /\ Len(Order) = 11
  BY OrderFacts
<1>2. /\ Key = "numberofcounters" <=> pos = 6
      /\ Key = "numberofdigitaloutputs" <=> pos = 10
  BY PlaceFacts DEF Key
<1>3. \/ After(Key) = pos + 1
      \/ Key = "numberofcounters" /\ After(Key) = pos + 4
      \/ Key = "numberofdigitaloutputs" /\ After(Key) = pos + 2
  <2>1. CASE Key = "numberofcounters"
    BY <2>1 DEF After
  <2>2. CASE Key = "numberofdigitaloutputs"
    BY <2>2 DEF After
  <2>3. CASE Key # "numberofcounters" /\ Key # "numberofdigitaloutputs"
    BY <2>3 DEF After
  <2> QED BY <2>1, <2>2, <2>3
<1> QED BY <1>1, <1>2, <1>3

LEMMA LoadKeeps == ConfigInv /\ Load => ConfigInv'
<1> SUFFICES ASSUME ConfigInv, Load PROVE ConfigInv'
  OBVIOUS
<1> DEFINE v == IF Key \in Lists
                THEN IF CountOf(Key) > file[Key] THEN CountOf(Key) ELSE file[Key]
                ELSE Value(Key)
<1>1. /\ phase = "load" /\ pos \in 1 .. Len(Order)
      /\ mem' = Taken(Key) /\ pos' = After(Key)
      /\ UNCHANGED <<type, chassis, exists, phase, changes>>
  <2>1. pos \in 1 .. 12 /\ pos <= 11 /\ Len(Order) = 11
    BY OrderFacts DEF Load, ConfigInv, TypeOK
  <2> QED BY <2>1 DEF Load
<1>2. Key \in Keys
  BY <1>1 DEF Keys, Key
<1>3. MemTyped(mem) /\ FileTyped(file)
  BY InvTyped
<1>4. file' = [file EXCEPT ![Key] = v]
  BY <1>2, <1>3 DEF Load, FileTyped
<1>5. MemTyped(mem')
  BY <1>1, TakenTyped
<1>6. /\ Key = "alias" => v \in Aliases
      /\ Key # "alias" => v \in Int
  <2>1. CASE Key \in Lists
    <3>1. CountOf(Key) \in Int
      BY <1>1, <2>1, CountTyped
    <3>2. file[Key] \in Int /\ Key # "alias"
      BY <1>3, <2>1 DEF FileTyped, Lists
    <3> QED BY <2>1, <3>1, <3>2
  <2>2. CASE Key \notin Lists
    <3>1. v = Value(Key)
      BY <2>2
    <3> QED BY <1>2, <3>1, ValueTyped
  <2> QED BY <2>1, <2>2
<1>7. \A j \in Keys : file'[j] = IF j = Key THEN v ELSE file[j]
  BY <1>3, <1>4 DEF FileTyped
<1> HIDE DEF v
<1>8. FileTyped(file')
  BY <1>2, <1>3, <1>4, <1>6, PutTyped
<1>9. NumbersRead'
  <2>1. /\ pos >= 7 => file["numberofcounters"] \in Int
        /\ pos >= 11 => file["numberofdigitaloutputs"] \in Int
    BY <1>1 DEF ConfigInv, NumbersRead
  <2>2. /\ Key = "numberofcounters" <=> pos = 6
        /\ Key = "numberofdigitaloutputs" <=> pos = 10
    BY <1>1, PlaceFacts DEF Key
  <2>3. /\ pos' >= 7 => pos >= 6
        /\ pos' >= 11 => pos >= 10
    BY <1>1, AfterPlace
  <2>4. "numberofcounters" \in Keys /\ "numberofdigitaloutputs" \in Keys
    BY KeyFacts
  <2>5. pos \in Int
    BY <1>1, OrderFacts
  <2>6. pos' >= 7 => file'["numberofcounters"] \in Int
    BY <1>6, <1>7, <2>1, <2>2, <2>3, <2>4, <2>5
  <2>7. pos' >= 11 => file'["numberofdigitaloutputs"] \in Int
    BY <1>6, <1>7, <2>1, <2>2, <2>3, <2>4, <2>5
  <2> QED BY <2>6, <2>7 DEF NumbersRead
<1>10. pos' \in 1 .. Len(Order) + 1
  BY <1>1, AfterPlace
<1>11. /\ type' \in Types /\ chassis' \in Aliases /\ exists' \in BOOLEAN
       /\ phase' \in {"off", "load", "truncate", "save", "running"}
       /\ changes' \in 0 .. MaxChanges
  BY <1>1 DEF ConfigInv, TypeOK
<1>12. RangeOrdered'
  BY <1>5 DEF MemTyped, RangeOrdered
<1>13. TypeOK'
  BY <1>5, <1>8, <1>10, <1>11 DEF MemTyped, FileTyped, TypeOK
<1> QED BY <1>9, <1>12, <1>13 DEF ConfigInv

(* The bookkeeping of a step that is not a load.                           *)
LEMMA Rest ==
  ASSUME ConfigInv, MemTyped(mem'), FileTyped(file'),
         type' = type, chassis' \in Aliases, exists' \in BOOLEAN,
         phase' \in {"off", "load", "truncate", "save", "running"},
         pos' \in 1 .. Len(Order) + 1, changes' \in 0 .. MaxChanges,
         phase' = "load" => pos' = 1
  PROVE  ConfigInv'
<1>1. type' \in Types
  BY DEF ConfigInv, TypeOK
<1>2. TypeOK'
  BY <1>1 DEF MemTyped, FileTyped, TypeOK
<1>3. RangeOrdered'
  BY DEF MemTyped, RangeOrdered
<1>4. NumbersRead'
  BY DEF NumbersRead
<1> QED BY <1>2, <1>3, <1>4 DEF ConfigInv

LEMMA SaveKeeps == ConfigInv /\ Save => ConfigInv'
<1> SUFFICES ASSUME ConfigInv, Save PROVE ConfigInv'
  OBVIOUS
<1>1. /\ phase = "save" /\ pos \in 1 .. Len(Order) /\ pos' = pos + 1
      /\ pos' \in 1 .. Len(Order) + 1
      /\ UNCHANGED <<type, chassis, exists, mem, phase, changes>>
  <2>1. pos \in 1 .. 12 /\ pos <= 11 /\ Len(Order) = 11
    BY OrderFacts DEF Save, ConfigInv, TypeOK
  <2> QED BY <2>1 DEF Save
<1>2. MemTyped(mem) /\ FileTyped(file)
  BY InvTyped
<1>3. Key \in Keys
  BY <1>1 DEF Keys, Key
<1>4. /\ Key = "alias" => Written(Key) \in Aliases
      /\ Key # "alias" => Written(Key) \in Int
  <2>1. Numbers = Keys \ {"alias"} /\ "numberofcounters" \in Numbers
    BY KeyFacts DEF Numbers
  <2> QED BY <1>2, <1>3, <2>1 DEF Written, MemTyped
<1>5. FileTyped(file')
  <2>1. FileTyped([file EXCEPT ![Key] = Written(Key)])
    BY <1>2, <1>3, <1>4, PutTyped
  <2> QED BY <1>2, <2>1 DEF Save
<1>6. /\ chassis' \in Aliases /\ exists' \in BOOLEAN
      /\ phase' \in {"off", "load", "truncate", "save", "running"}
      /\ changes' \in 0 .. MaxChanges /\ phase' # "load"
  BY <1>1 DEF ConfigInv, TypeOK
<1> QED BY <1>1, <1>2, <1>5, <1>6, Rest

LEMMA ChangeKeeps ==
  ASSUME ConfigInv,
         \/ \E e \in Editable : Edit(e[1], e[2])
         \/ Delete
         \/ \E a \in Aliases : Rename(a)
  PROVE  ConfigInv'
<1>1. Change /\ phase = "off"
  BY DEF Edit, Delete, Rename, Change
<1>2. MemTyped(mem) /\ FileTyped(file)
  BY InvTyped
<1>3. /\ UNCHANGED <<type, mem, phase, pos>>
      /\ pos' \in 1 .. Len(Order) + 1
      /\ changes' \in 0 .. MaxChanges
  BY <1>1, ConfigAssumption DEF Change, ConfigInv, TypeOK
<1>4. chassis' \in Aliases /\ exists' \in BOOLEAN
  BY DEF Edit, Delete, Rename, ConfigInv, TypeOK
<1>5. FileTyped(file')
  <2>1. CASE \E e \in Editable : Edit(e[1], e[2])
    <3>1. PICK e \in Editable : Edit(e[1], e[2])
      BY <2>1
    <3>2. /\ e[1] \in Keys
          /\ e[1] = "alias" => e[2] \in Aliases
          /\ e[1] # "alias" => e[2] \in Int
      <4>1. /\ Limits \subseteq Int /\ Counts \subseteq Int
            /\ CounterLimits \subseteq Int
            /\ Editable \subseteq
                 {<<"alias", a>> : a \in Aliases}
                   \cup ({"max", "min"} \X Limits)
                   \cup ({"countingmax", "countingmin"} \X CounterLimits)
                   \cup ({"numberofchannels", "numberofcounters",
                          "numberofdigitaloutputs"} \X Counts)
        BY ConfigAssumption DEF Editable
      <4>2. \/ \E a \in Aliases : e = <<"alias", a>>
            \/ e \in {"max", "min", "countingmax", "countingmin"} \X Int
            \/ e \in {"numberofchannels", "numberofcounters",
                      "numberofdigitaloutputs"} \X Int
        BY <4>1
      <4> QED BY <4>2, KeyFacts
    <3>3. FileTyped([file EXCEPT ![e[1]] = e[2]])
      BY <1>2, <3>2, PutTyped
    <3> QED BY <3>1, <3>3 DEF Edit
  <2>2. CASE Delete
    BY <2>2, BlankTyped DEF Delete, FileTyped
  <2>3. CASE \E a \in Aliases : Rename(a)
    BY <1>2, <2>3 DEF Rename
  <2> QED BY <2>1, <2>2, <2>3
<1>6. MemTyped(mem')
  BY <1>2, <1>3
<1>7. phase' \in {"off", "load", "truncate", "save", "running"} /\ phase' # "load"
  BY <1>1, <1>3
<1> QED BY <1>3, <1>4, <1>5, <1>6, <1>7, Rest

(* The induction step: what no start, no change and no failure breaks.     *)
LEMMA ConfigNext == ConfigInv /\ [Next]_vars => ConfigInv'
<1> SUFFICES ASSUME ConfigInv, [Next]_vars PROVE ConfigInv'
  OBVIOUS
<1>1. MemTyped(mem) /\ FileTyped(file) /\ type \in Types /\ chassis \in Aliases
  BY InvTyped
<1>2. /\ exists \in BOOLEAN /\ pos \in 1 .. Len(Order) + 1
      /\ changes \in 0 .. MaxChanges
      /\ 1 \in 1 .. Len(Order) + 1
  BY OrderFacts DEF ConfigInv, TypeOK
<1>3. FileTyped(Blank) /\ MemTyped(Fresh)
  BY <1>1, BlankTyped, FreshTyped DEF FileTyped, MemTyped
<1>4. CASE \/ \E e \in Editable : Edit(e[1], e[2])
           \/ Delete
           \/ \E a \in Aliases : Rename(a)
  BY <1>4, ChangeKeeps
<1>5. CASE Start
  <2>1. /\ MemTyped(mem') /\ FileTyped(file') /\ type' = type
        /\ chassis' \in Aliases /\ exists' \in BOOLEAN
        /\ pos' \in 1 .. Len(Order) + 1 /\ pos' = 1
        /\ changes' \in 0 .. MaxChanges
    BY <1>1, <1>2, <1>3, <1>5 DEF Start
  <2>2. phase' \in {"off", "load", "truncate", "save", "running"}
    BY <1>5 DEF Start
  <2> QED BY <2>1, <2>2, Rest
<1>6. CASE Load
  BY <1>6, LoadKeeps
<1>7. CASE Loaded
  <2>1. /\ MemTyped(mem') /\ FileTyped(file') /\ type' = type
        /\ chassis' \in Aliases /\ exists' \in BOOLEAN
        /\ pos' \in 1 .. Len(Order) + 1 /\ changes' \in 0 .. MaxChanges
        /\ phase' = "truncate"
    BY <1>1, <1>2, <1>7 DEF Loaded
  <2> QED BY <2>1, Rest
<1>8. CASE Truncate
  <2>1. /\ MemTyped(mem') /\ FileTyped(file') /\ type' = type
        /\ chassis' \in Aliases /\ exists' \in BOOLEAN
        /\ pos' \in 1 .. Len(Order) + 1 /\ changes' \in 0 .. MaxChanges
        /\ phase' = "save"
    BY <1>1, <1>2, <1>3, <1>8 DEF Truncate
  <2> QED BY <2>1, Rest
<1>9. CASE Save
  BY <1>9, SaveKeeps
<1>10. CASE SaveDone \/ Stop
  <2>1. /\ MemTyped(mem') /\ FileTyped(file') /\ type' = type
        /\ chassis' \in Aliases /\ exists' \in BOOLEAN
        /\ pos' \in 1 .. Len(Order) + 1 /\ changes' \in 0 .. MaxChanges
        /\ phase' \in {"off", "running"}
    BY <1>1, <1>2, <1>10 DEF SaveDone, Stop
  <2> QED BY <2>1, Rest
<1>11. CASE PowerFails
  <2>1. file' = file \/ file' = Blank
    BY <1>11 DEF PowerFails
  <2>2. /\ MemTyped(mem') /\ FileTyped(file') /\ type' = type
        /\ chassis' \in Aliases /\ exists' \in BOOLEAN
        /\ pos' \in 1 .. Len(Order) + 1 /\ changes' \in 0 .. MaxChanges
        /\ phase' = "off"
    BY <1>1, <1>2, <1>3, <1>11, <2>1 DEF PowerFails
  <2> QED BY <2>2, Rest
<1>12. CASE UNCHANGED vars
  BY <1>12 DEF vars, ConfigInv, TypeOK, RangeOrdered, NumbersRead, Numbers, Keys, Lists
<1> QED BY <1>4, <1>5, <1>6, <1>7, <1>8, <1>9, <1>10, <1>11, <1>12 DEF Next

THEOREM ConfigInductive == Spec => []ConfigInv
BY ConfigInit, ConfigNext, PTL DEF Spec

(* The settings of the object and the contents of the file keep their      *)
(* types, with every file a user writes and every start that a power       *)
(* failure cuts short.                                                     *)
THEOREM ConfigTyped == Spec => []TypeOK
<1>1. ConfigInv => TypeOK
  BY DEF ConfigInv
<1> QED BY <1>1, ConfigInductive, PTL

(* Whatever the file holds, for every type of module and wherever the      *)
(* power fails, getChanMin() and getChanMax(), which give the channels of  *)
(* DAQmx their limits, return a range, and so do the counters' limits.     *)
THEOREM ConfigRanges == Spec => []RangeOrdered
<1>1. ConfigInv => RangeOrdered
  BY DEF ConfigInv
<1> QED BY <1>1, ConfigInductive, PTL

----------------------------------------------------------------------------
(* What a start does to the settings.                                      *)

(* The settings that are taken at a key, and the place of the start from   *)
(* which a setting is as the file has it: the numbers of counters and of   *)
(* outputs have to be the built-in ones, and a high limit waits for the    *)
(* low one.                                                                *)
Sets(k) ==
  CASE k = "min" -> {"max", "min"}
    [] k = "countingmin" -> {"countingmax", "countingmin"}
    [] k \in {"alias", "numberofchannels", "channels", "counters", "outputs"} -> {k}
    [] OTHER -> {}

Due == [k \in Keys |->
  CASE k = "alias" -> 1
    [] k = "numberofchannels" -> 2
    [] k \in {"max", "min"} -> 4
    [] k = "channels" -> 5
    [] k \in {"numberofcounters", "numberofdigitaloutputs"} -> 0
    [] k = "counters" -> 7
    [] k \in {"countingmax", "countingmin"} -> 9
    [] k = "outputs" -> 11]

(* What no load changes in an object, and what it has not changed yet.     *)
Settled(m) ==
  /\ m["max"] > Made[type]["min"] /\ m["countingmax"] > Made[type]["countingmin"]
  /\ m["numberofdigitaloutputs"] = Made[type]["numberofdigitaloutputs"]
  /\ \/ m["numberofcounters"] = Made[type]["numberofcounters"]
     \/ /\ Kind[type] = "counter" /\ m["numberofcounters"] = 8
        /\ m["counters"] = Made[type]["counters"]

Untouched ==
  phase = "load" =>
    /\ pos <= 4 => mem["max"] = Made[type]["max"] /\ mem["min"] = Made[type]["min"]
    /\ pos <= 6 => mem["counters"] = Made[type]["counters"]
    /\ pos <= 9 => /\ mem["countingmax"] = Made[type]["countingmax"]
                   /\ mem["countingmin"] = Made[type]["countingmin"]
                   /\ mem["numberofcounters"] = Made[type]["numberofcounters"]

(* The file while it is saved, and afterwards.                             *)
SavedSoFar ==
  Whole(mem) =>
    /\ phase = "save" =>
         \A i \in 1 .. Len(Order) :
           i < pos /\ Order[i] \in Matters => file[Order[i]] = mem[Order[i]]
    /\ phase = "running" => Same(file, mem)

OnDisk ==
  /\ phase \in {"load", "save", "running"} => exists
  /\ ~exists => file = Blank
  /\ calm.user => exists

(* A start that takes its settings from a file that holds s.               *)
LoadedSoFar(s) == Same(file, s) /\ \A k \in Matters : pos > Due[k] => mem[k] = s[k]
Reads(s) ==
  /\ phase = "load" => LoadedSoFar(s)
  /\ phase \in {"truncate", "save", "running"} => Same(mem, s)

FileRead == Sound(asked) => Reads(asked)
LastRead ==
  calm.user /\ calm.power /\ Whole(last) =>
    Reads(last) /\ (phase = "off" => Same(file, last))

SettingsInv ==
  /\ ConfigInv /\ MemTyped(last) /\ calm \in [power : BOOLEAN, user : BOOLEAN, before : BOOLEAN]
  /\ Settled(mem) /\ Settled(last) /\ Untouched
  /\ SavedSoFar /\ OnDisk /\ FileRead /\ LastRead

LEMMA TypeFacts ==
  ASSUME type \in Types
  PROVE  /\ Kind[type] \in {"analog", "counter", "coder", "output"}
         /\ \A k \in Numbers : Made[type][k] \in Int
         /\ Made[type]["min"] < Made[type]["max"]
         /\ Made[type]["countingmin"] < Made[type]["countingmax"]
         /\ Kind[type] = "counter" =>
              Made[type]["counters"] = Made[type]["numberofcounters"]
BY ConfigAssumption

LEMMA MattersFacts ==
  ASSUME type \in Types
  PROVE  /\ Matters \subseteq Keys /\ "alias" \in Matters
         /\ Kind[type] = "analog" =>
              Matters = {"alias", "numberofchannels", "max", "min", "channels"}
         /\ Kind[type] = "counter" =>
              Matters = {"alias", "numberofcounters", "counters",
                         "countingmax", "countingmin"}
         /\ Kind[type] = "coder" => Matters = {"alias", "numberofcounters", "counters"}
         /\ Kind[type] = "output" =>
              Matters = {"alias", "numberofdigitaloutputs", "outputs"}
<1>1. Kind[type] \in {"analog", "counter", "coder", "output"}
  BY TypeFacts
<1>2. CASE Kind[type] = "analog"
  BY <1>2, KeyFacts DEF Matters
<1>3. CASE Kind[type] = "counter"
  BY <1>3, KeyFacts DEF Matters
<1>4. CASE Kind[type] = "coder"
  BY <1>4, KeyFacts DEF Matters
<1>5. CASE Kind[type] = "output"
  BY <1>5, KeyFacts DEF Matters
<1> QED BY <1>1, <1>2, <1>3, <1>4, <1>5

(* A setting is taken at its place.                                        *)
LEMMA DueFacts ==
  ASSUME NEW k \in Keys
  PROVE  /\ Due[k] \in 0 .. 11
         /\ \A i \in 1 .. Len(Order) : Due[k] = i => k \in Sets(Order[i])
         /\ k = "numberofchannels" => Due[k] = 2
<1>1. k \in {"alias", "numberofchannels", "max", "min", "channels", "numberofcounters",
          "counters", "countingmax", "countingmin", "numberofdigitaloutputs", "outputs"}
  BY KeyFacts
<1>2. /\ k = "alias" => Due[k] = 1
      /\ k = "numberofchannels" => Due[k] = 2
      /\ k = "max" => Due[k] = 4
      /\ k = "min" => Due[k] = 4
      /\ k = "channels" => Due[k] = 5
      /\ k = "numberofcounters" => Due[k] = 0
      /\ k = "counters" => Due[k] = 7
      /\ k = "countingmax" => Due[k] = 9
      /\ k = "countingmin" => Due[k] = 9
      /\ k = "numberofdigitaloutputs" => Due[k] = 0
      /\ k = "outputs" => Due[k] = 11
  BY DEF Due
<1>3. Due[k] \in 0 .. 11
  BY <1>1, <1>2
<1>4. /\ Sets("alias") = {"alias"} /\ Sets("numberofchannels") = {"numberofchannels"}
      /\ Sets("min") = {"max", "min"} /\ Sets("channels") = {"channels"}
      /\ Sets("counters") = {"counters"} /\ Sets("outputs") = {"outputs"}
      /\ Sets("countingmin") = {"countingmax", "countingmin"}
  BY DEF Sets
<1>5. \A i \in 1 .. Len(Order) : Due[k] = i => k \in Sets(Order[i])
  BY <1>1, <1>2, <1>4, OrderFacts
<1> QED BY <1>2, <1>3, <1>5

(* The setters take limits that are a range, when the high one is above    *)
(* the old low one.                                                        *)
LEMMA SettersTake ==
  ASSUME NEW m \in [Keys -> Int \cup Aliases],
         NEW high \in Keys, NEW low \in Keys, high # low,
         m[high] \in Int, m[low] \in Int,
         NEW h \in Int, NEW l \in Int, h > m[low], l < h
  PROVE  LET n == SetLimits(m, high, low, h, l) IN n[high] = h /\ n[low] = l
<1> DEFINE s == SetHigh(m, high, low, h)
<1>1. s = [m EXCEPT ![high] = h]
  BY DEF SetHigh
<1>2. s[high] = h /\ s \in [Keys -> Int \cup Aliases]
  BY <1>1
<1> HIDE DEF s
<1>3. SetLow(s, high, low, l) = [s EXCEPT ![low] = l]
  BY <1>2 DEF SetLow
<1> QED BY <1>2, <1>3 DEF SetLimits, s

(* The high limit stays above a bound that is below both.                  *)
LEMMA SettersBound ==
  ASSUME NEW m \in [Keys -> Int \cup Aliases],
         NEW high \in Keys, NEW low \in Keys, high # low,
         m[high] \in Int, m[low] \in Int, m[low] < m[high],
         NEW h \in Int, NEW l \in Int
  PROVE  SetLimits(m, high, low, h, l)[high] > m[low]
<1> DEFINE s == SetHigh(m, high, low, h)
<1>1. s \in [Keys -> Int \cup Aliases] /\ s[high] > m[low]
  BY DEF SetHigh
<1> HIDE DEF s
<1>2. SetLow(s, high, low, l)[high] = s[high]
  BY <1>1 DEF SetLow
<1> QED BY <1>1, <1>2 DEF SetLimits, s

(* The facts of a load that the lemmas below go by.                        *)
LEMMA LoadFacts ==
  ASSUME ConfigInv, Load
  PROVE  /\ phase = "load" /\ pos \in 1 .. 11 /\ pos \in 1 .. Len(Order)
         /\ Key = Order[pos] /\ Key \in Keys
         /\ mem' = Taken(Key) /\ pos' = After(Key)
         /\ type \in Types /\ MemTyped(mem) /\ FileTyped(file)
         /\ UNCHANGED <<type, chassis, exists, phase, changes, last, asked, calm>>
<1>1. phase = "load" /\ pos \in 1 .. 11 /\ Len(Order) = 11
  <2>1. pos \in 1 .. 12 /\ pos <= 11 /\ Len(Order) = 11
    BY OrderFacts DEF Load, ConfigInv, TypeOK
  <2> QED BY <2>1 DEF Load
<1>2. Key = Order[pos] /\ Key \in Keys
  BY <1>1 DEF Keys, Key
<1> QED BY <1>1, <1>2, InvTyped DEF Load

(* What is taken changes nothing else.                                     *)
LEMMA TakenOnly ==
  ASSUME ConfigInv, phase = "load", pos \in 1 .. Len(Order), NEW k \in Keys \ Sets(Key)
  PROVE  \/ Taken(Key)[k] = mem[k]
         \/ /\ Key = "numberofcounters" /\ k = Key /\ Taken(Key)[k] = 8
            /\ Kind[type] = "counter" /\ Value(Key) = 0
<1>1. /\ mem \in [Keys -> Int \cup Aliases] /\ MemTyped(mem)
      /\ mem["min"] \in Int /\ mem["max"] \in Int
      /\ mem["countingmin"] \in Int /\ mem["countingmax"] \in Int
  BY InvTyped, KeyFacts DEF MemTyped, Numbers
<1>2. {"min", "max", "countingmin", "countingmax"} \subseteq Keys \ {"alias"}
  BY KeyFacts
<1>3. /\ Value("max") \in Int /\ Value("min") \in Int /\ CounterTop \in Int
      /\ Value("countingmax") \in Int /\ Value("countingmin") \in Int
  BY <1>2, ValueTyped, ConfigAssumption
<1>4. CASE Key \in {"alias", "numberofchannels"}
  <2>1. Taken(Key) = [mem EXCEPT ![Key] = Value(Key)]
    BY <1>4 DEF Taken, Lists
  <2>2. Sets(Key) = {Key}
    BY <1>4 DEF Sets
  <2> QED BY <1>1, <2>1, <2>2
<1>5. CASE Key = "min"
  <2>1. Taken(Key) = SetLimits(mem, "max", "min", Value("max"), Value("min"))
    BY <1>5 DEF Taken, Lists
  <2>2. Sets(Key) = {"max", "min"}
    BY <1>5 DEF Sets
  <2>3. mem["min"] < mem["max"]
    BY <1>1 DEF MemTyped
  <2>4. \A j \in Keys \ {"max", "min"} : Taken(Key)[j] = mem[j]
    BY <1>1, <1>2, <1>3, <2>1, <2>3, SettersKeepRange
  <2> QED BY <2>2, <2>4
<1>6. CASE Key = "countingmin"
  <2> DEFINE low == IF Value("countingmin") > Value("countingmax")
                    THEN CounterTop ELSE Value("countingmin")
  <2>1. Taken(Key)
          = SetLimits(mem, "countingmax", "countingmin", Value("countingmax"), low)
    BY <1>6 DEF Taken, Lists
  <2>2. low \in Int
    BY <1>3
  <2> HIDE DEF low
  <2>3. Sets(Key) = {"countingmax", "countingmin"}
    BY <1>6 DEF Sets
  <2>4. mem["countingmin"] < mem["countingmax"]
    BY <1>1 DEF MemTyped
  <2>5. \A j \in Keys \ {"countingmax", "countingmin"} : Taken(Key)[j] = mem[j]
    BY <1>1, <1>2, <1>3, <2>1, <2>2, <2>4, SettersKeepRange
  <2> QED BY <2>3, <2>5
<1>7. CASE Key \in Lists
  <2>1. Taken(Key) = [mem EXCEPT ![Key] = CountOf(Key)]
    BY <1>7 DEF Taken, Lists
  <2>2. Sets(Key) = {Key}
    BY <1>7 DEF Sets, Lists
  <2> QED BY <1>1, <2>1, <2>2
<1>8. CASE Key \notin {"alias", "numberofchannels", "min", "countingmin"} \cup Lists
  <2>1. CASE Key = "numberofcounters" /\ Kind[type] = "counter" /\ Value(Key) = 0
    <3>1. Taken(Key) = [mem EXCEPT ![Key] = 8]
      BY <2>1 DEF Taken, Lists
    <3> QED BY <1>1, <2>1, <3>1
  <2>2. CASE ~(Key = "numberofcounters" /\ Kind[type] = "counter" /\ Value(Key) = 0)
    <3>1. Key \notin {"alias", "numberofchannels"} /\ Key # "min"
          /\ Key # "countingmin" /\ Key \notin Lists
      BY <1>8
    <3>2. Taken(Key) = mem
      BY <2>2, <3>1 DEF Taken
    <3> QED BY <3>2
  <2> QED BY <2>1, <2>2
<1> QED BY <1>4, <1>5, <1>6, <1>7, <1>8

(* The setters change no limit before its place, and leave the high one    *)
(* above the built-in low one.                                             *)
LEMMA LoadSettles ==
  ASSUME ConfigInv, Settled(mem), Untouched, Load
  PROVE  Settled(mem)' /\ Untouched'
<1>1. /\ phase = "load" /\ pos \in 1 .. 11 /\ pos \in 1 .. Len(Order)
      /\ Key = Order[pos] /\ mem' = Taken(Key) /\ pos' = After(Key)
      /\ type \in Types /\ MemTyped(mem) /\ type' = type /\ phase' = phase
  BY LoadFacts
<1>2. /\ Key = "min" <=> pos = 4
      /\ Key = "numberofcounters" <=> pos = 6
      /\ Key = "counters" <=> pos = 7
      /\ Key = "countingmin" <=> pos = 9
  BY <1>1, PlaceFacts
<1>3. /\ Sets("min") = {"max", "min"}
      /\ Sets("countingmin") = {"countingmax", "countingmin"}
      /\ "numberofdigitaloutputs" \notin Sets(Key)
      /\ "numberofcounters" \notin Sets(Key)
      /\ Key # "counters" => "counters" \notin Sets(Key)
      /\ Key # "min" => "max" \notin Sets(Key) /\ "min" \notin Sets(Key)
      /\ Key # "countingmin" =>
           "countingmax" \notin Sets(Key) /\ "countingmin" \notin Sets(Key)
  BY DEF Sets
<1>4. {"min", "max", "countingmin", "countingmax", "counters", "numberofcounters",
        "numberofdigitaloutputs"} \subseteq Keys
  BY KeyFacts
<1>5. /\ mem'["numberofdigitaloutputs"] = mem["numberofdigitaloutputs"]
      /\ Key # "counters" => mem'["counters"] = mem["counters"]
      /\ Key # "min" => mem'["max"] = mem["max"] /\ mem'["min"] = mem["min"]
      /\ Key # "countingmin" => /\ mem'["countingmax"] = mem["countingmax"]
                                /\ mem'["countingmin"] = mem["countingmin"]
  BY <1>1, <1>3, <1>4, TakenOnly
<1>6. \/ mem'["numberofcounters"] = mem["numberofcounters"]
      \/ /\ mem'["numberofcounters"] = 8 /\ Kind[type] = "counter"
         /\ pos = 6 /\ pos' = 10
  <2>1. Key = "numberofcounters" /\ Kind[type] = "counter" /\ Value(Key) = 0
          => pos' = pos + 4
    BY <1>1 DEF After
  <2> QED BY <1>1, <1>2, <1>3, <1>4, <2>1, TakenOnly
<1>7. pos' > pos /\ pos' \in Int
  <2>1. pos' = pos + 1 \/ pos' = pos + 4 \/ pos' = pos + 2
    BY <1>1 DEF After
  <2> QED BY <1>1, <2>1
<1>8. /\ pos <= 4 => mem["max"] = Made[type]["max"] /\ mem["min"] = Made[type]["min"]
      /\ pos <= 6 => mem["counters"] = Made[type]["counters"]
      /\ pos <= 9 => /\ mem["countingmax"] = Made[type]["countingmax"]
                     /\ mem["countingmin"] = Made[type]["countingmin"]
                     /\ mem["numberofcounters"] = Made[type]["numberofcounters"]
  BY <1>1 DEF Untouched
<1>9. Untouched'
  <2>1. pos' <= 4 => /\ mem'["max"] = Made[type]["max"]
                     /\ mem'["min"] = Made[type]["min"]
    BY <1>1, <1>2, <1>5, <1>7, <1>8
  <2>2. pos' <= 6 => mem'["counters"] = Made[type]["counters"]
    BY <1>1, <1>2, <1>5, <1>7, <1>8
  <2>3. pos' <= 9 => /\ mem'["countingmax"] = Made[type]["countingmax"]
                     /\ mem'["countingmin"] = Made[type]["countingmin"]
    BY <1>1, <1>2, <1>5, <1>7, <1>8
  <2>4. pos' <= 9 => mem'["numberofcounters"] = Made[type]["numberofcounters"]
    BY <1>1, <1>6, <1>7, <1>8
  <2> QED BY <1>1, <2>1, <2>2, <2>3, <2>4 DEF Untouched
<1>10. /\ mem \in [Keys -> Int \cup Aliases]
       /\ mem["min"] \in Int /\ mem["max"] \in Int
       /\ mem["countingmin"] \in Int /\ mem["countingmax"] \in Int
       /\ mem["min"] < mem["max"] /\ mem["countingmin"] < mem["countingmax"]
  BY <1>1, KeyFacts DEF MemTyped, Numbers
<1>11. /\ Value("max") \in Int /\ Value("min") \in Int /\ CounterTop \in Int
       /\ Value("countingmax") \in Int /\ Value("countingmin") \in Int
  BY <1>4, ValueTyped, ConfigAssumption
<1>12. mem'["max"] > Made[type]["min"]
  <2>1. CASE Key = "min"
    <3>1. mem' = SetLimits(mem, "max", "min", Value("max"), Value("min"))
      BY <1>1, <2>1 DEF Taken, Lists
    <3>2. mem'["max"] > mem["min"]
      BY <1>4, <1>10, <1>11, <3>1, SettersBound
    <3> QED BY <1>1, <1>2, <1>8, <2>1, <3>2
  <2> QED BY <1>5, <2>1 DEF Settled
<1>13. mem'["countingmax"] > Made[type]["countingmin"]
  <2>1. CASE Key = "countingmin"
    <3> DEFINE low == IF Value("countingmin") > Value("countingmax")
                      THEN CounterTop ELSE Value("countingmin")
    <3>1. low \in Int
      BY <1>11
    <3>2. mem' = SetLimits(mem, "countingmax", "countingmin", Value("countingmax"), low)
      BY <1>1, <2>1 DEF Taken, Lists
    <3> HIDE DEF low
    <3>3. mem'["countingmax"] > mem["countingmin"]
      BY <1>4, <1>10, <1>11, <3>1, <3>2, SettersBound
    <3> QED BY <1>1, <1>2, <1>8, <2>1, <3>3
  <2> QED BY <1>5, <2>1 DEF Settled
<1>14. \/ mem'["numberofcounters"] = Made[type]["numberofcounters"]
       \/ /\ Kind[type] = "counter" /\ mem'["numberofcounters"] = 8
          /\ mem'["counters"] = Made[type]["counters"]
  <2>1. CASE mem'["numberofcounters"] = 8 /\ Kind[type] = "counter" /\ pos = 6
    BY <1>2, <1>5, <1>8, <2>1
  <2>2. CASE mem'["numberofcounters"] = mem["numberofcounters"]
             /\ mem["numberofcounters"] = Made[type]["numberofcounters"]
    BY <2>2
  <2>3. CASE /\ mem'["numberofcounters"] = mem["numberofcounters"]
             /\ Kind[type] = "counter" /\ mem["numberofcounters"] = 8
             /\ mem["counters"] = Made[type]["counters"]
    <3>1. CASE pos <= 9
      BY <1>8, <2>3, <3>1
    <3>2. CASE pos > 9
      BY <1>1, <1>2, <1>5, <2>3, <3>2
    <3> QED BY <1>1, <3>1, <3>2
  <2> QED BY <1>6, <2>1, <2>2, <2>3 DEF Settled
<1> QED BY <1>1, <1>5, <1>9, <1>12, <1>13, <1>14 DEF Settled

(* A setting that is taken from a sound file is taken as it is there.      *)
LEMMA TakenFromFile ==
  ASSUME ConfigInv, Untouched, Load, NEW s, Sound(s), LoadedSoFar(s),
         NEW k \in Matters, k \in Sets(Key)
  PROVE  Taken(Key)[k] = s[k]
<1>1. /\ phase = "load" /\ pos \in 1 .. 11 /\ pos \in 1 .. Len(Order)
      /\ Key = Order[pos] /\ Key \in Keys
      /\ type \in Types /\ MemTyped(mem)
  BY LoadFacts
<1>2. /\ \A j \in Matters : file[j] = s[j] /\ s[j] # Missing /\ Value(j) = s[j]
      /\ \A j \in Matters : pos > Due[j] => mem[j] = s[j]
  BY DEF Sound, LoadedSoFar, Same, Value
<1>3. /\ Kind[type] \in {"analog", "counter", "coder", "output"}
      /\ mem \in [Keys -> Int \cup Aliases] /\ k \in Keys
      /\ "max" \in Keys /\ "min" \in Keys /\ "countingmax" \in Keys
      /\ "countingmin" \in Keys /\ Key \in Keys
  BY <1>1, TypeFacts, MattersFacts, KeyFacts DEF MemTyped
<1>4. CASE Key \in {"alias", "numberofchannels"}
  <2>1. Taken(Key) = [mem EXCEPT ![Key] = Value(Key)] /\ k = Key
    BY <1>4 DEF Taken, Lists, Sets
  <2> QED BY <1>2, <1>3, <2>1
<1>5. CASE Key \in Lists
  <2>1. Taken(Key) = [mem EXCEPT ![Key] = CountOf(Key)] /\ k = Key
    BY <1>5 DEF Taken, Lists, Sets
  <2>2. CountOf(k) = s[k]
    <3>1. CASE k = "channels"
      <4>1. Kind[type] = "analog" /\ "numberofchannels" \in Matters
        BY <1>1, <3>1, TypeFacts, MattersFacts
      <4>2. pos = 5 /\ Due["numberofchannels"] = 2
        BY <1>1, <2>1, <3>1, KeyFacts, PlaceFacts, DueFacts
      <4>3. mem["numberofchannels"] = s["numberofchannels"]
        BY <1>2, <4>1, <4>2
      <4>4. s["channels"] = s["numberofchannels"]
        BY <4>1 DEF Sound, Whole, NumberOf, NamesOf
      <4> QED BY <3>1, <4>3, <4>4 DEF CountOf
    <3>2. CASE k = "counters"
      <4>1. Kind[type] \in {"counter", "coder"} /\ "numberofcounters" \in Matters
        BY <1>1, <3>2, TypeFacts, MattersFacts
      <4>2. s["counters"] = s["numberofcounters"]
        BY <4>1 DEF Sound, Whole, NumberOf, NamesOf
      <4> QED BY <1>2, <3>2, <4>1, <4>2 DEF CountOf
    <3>3. CASE k = "outputs"
      <4>1. Kind[type] = "output" /\ "numberofdigitaloutputs" \in Matters
        BY <1>1, <3>3, TypeFacts, MattersFacts
      <4>2. s["outputs"] = s["numberofdigitaloutputs"]
        BY <4>1 DEF Sound, Whole, NumberOf, NamesOf
      <4> QED BY <1>2, <3>3, <4>1, <4>2 DEF CountOf
    <3> QED BY <1>5, <2>1, <3>1, <3>2, <3>3 DEF Lists
  <2> QED BY <1>3, <2>1, <2>2
<1>6. CASE Key = "min"
  <2>1. /\ Taken(Key) = SetLimits(mem, "max", "min", Value("max"), Value("min"))
        /\ k \in {"max", "min"}
    BY <1>6 DEF Taken, Lists, Sets
  <2>2. Kind[type] = "analog" /\ "max" \in Matters /\ "min" \in Matters
    BY <1>1, <2>1, TypeFacts, MattersFacts
  <2>3. s["min"] < s["max"] /\ s["max"] > Made[type]["min"]
    BY <2>2 DEF Sound
  <2>4. mem["min"] = Made[type]["min"]
    <3>1. pos = 4
      BY <1>1, <1>6, PlaceFacts
    <3> QED BY <1>1, <3>1 DEF Untouched
  <2>5. /\ Value("max") = s["max"] /\ Value("min") = s["min"]
        /\ Value("max") \in Int /\ Value("min") \in Int
    BY <1>2, <1>3, <2>2, ValueTyped
  <2>6. mem["max"] \in Int /\ mem["min"] \in Int
    BY <1>1, KeyFacts DEF MemTyped, Numbers
  <2>7. Taken(Key)["max"] = Value("max") /\ Taken(Key)["min"] = Value("min")
    BY <1>3, <2>1, <2>3, <2>4, <2>5, <2>6, SettersTake
  <2> QED BY <2>1, <2>5, <2>7
<1>7. CASE Key = "countingmin"
  <2> DEFINE low == IF Value("countingmin") > Value("countingmax")
                    THEN CounterTop ELSE Value("countingmin")
  <2>1. /\ Taken(Key)
             = SetLimits(mem, "countingmax", "countingmin", Value("countingmax"), low)
        /\ k \in {"countingmax", "countingmin"}
    BY <1>7 DEF Taken, Lists, Sets
  <2>2. Kind[type] = "counter" /\ "countingmax" \in Matters /\ "countingmin" \in Matters
    BY <1>1, <2>1, TypeFacts, MattersFacts
  <2>3. /\ s["countingmin"] < s["countingmax"]
        /\ s["countingmax"] > Made[type]["countingmin"]
    BY <2>2 DEF Sound
  <2>4. mem["countingmin"] = Made[type]["countingmin"]
    <3>1. pos = 9
      BY <1>1, <1>7, PlaceFacts
    <3> QED BY <1>1, <3>1 DEF Untouched
  <2>5. /\ Value("countingmax") = s["countingmax"] /\ Value("countingmin") = s["countingmin"]
        /\ Value("countingmax") \in Int /\ Value("countingmin") \in Int
    BY <1>2, <1>3, <2>2, ValueTyped
  <2>6. low = Value("countingmin")
    BY <2>3, <2>5
  <2> HIDE DEF low
  <2>7. mem["countingmax"] \in Int /\ mem["countingmin"] \in Int
    BY <1>1, KeyFacts DEF MemTyped, Numbers
  <2>8. /\ Taken(Key)["countingmax"] = Value("countingmax")
        /\ Taken(Key)["countingmin"] = low
    BY <1>3, <2>1, <2>3, <2>4, <2>5, <2>6, <2>7, SettersTake
  <2> QED BY <2>1, <2>5, <2>6, <2>8
<1> QED BY <1>4, <1>5, <1>6, <1>7 DEF Sets, Lists

(* A sound file is read to its end, and stays as it was.                   *)
LEMMA LoadReads ==
  ASSUME ConfigInv, Untouched, Load, NEW s, Sound(s), LoadedSoFar(s)
  PROVE  Same(file', s) /\ \A k \in Matters : pos' > Due[k] => mem'[k] = s[k]
<1>1. /\ phase = "load" /\ pos \in 1 .. 11 /\ pos \in 1 .. Len(Order)
      /\ Key = Order[pos] /\ Key \in Keys /\ mem' = Taken(Key) /\ pos' = After(Key)
      /\ type \in Types /\ MemTyped(mem) /\ FileTyped(file) /\ type' = type
  BY LoadFacts
<1>2. /\ \A k \in Matters : file[k] = s[k] /\ s[k] # Missing /\ Value(k) = s[k]
      /\ \A k \in Matters : pos > Due[k] => mem[k] = s[k]
  BY DEF Sound, LoadedSoFar, Same, Value
<1>3. /\ Matters \subseteq Keys
      /\ file \in [Keys -> Int \cup Aliases \cup {Missing}]
  BY <1>1, MattersFacts DEF FileTyped
<1>4. /\ Key = "numberofcounters" /\ Kind[type] = "counter" => Value(Key) # 0
      /\ Key = "numberofdigitaloutputs" /\ Kind[type] = "output" => Value(Key) # 0
  BY <1>1, <1>2, MattersFacts DEF Sound, Whole, NumberOf, NamesOf
<1>5. pos' = pos + 1
  BY <1>1, <1>4 DEF After
<1>6. ASSUME NEW k \in Matters PROVE file'[k] = s[k]
  <2>1. CASE Key # k
    BY <1>2, <1>3, <2>1 DEF Load
  <2>2. CASE Key = k /\ Key \notin Lists
    BY <1>2, <1>3, <2>2 DEF Load
  <2>3. CASE Key = k /\ Key \in Lists
    <3>1. k \in Sets(Key) /\ Taken(Key) = [mem EXCEPT ![Key] = CountOf(Key)]
      BY <2>3 DEF Sets, Taken, Lists
    <3>2. CountOf(Key) = s[k]
      BY <1>1, <2>3, <3>1, TakenFromFile DEF MemTyped
    <3> QED BY <1>2, <1>3, <2>3, <3>2 DEF Load
  <2> QED BY <2>1, <2>2, <2>3
<1>7. ASSUME NEW k \in Matters, pos' > Due[k] PROVE mem'[k] = s[k]
  <2>1. CASE k \in Sets(Key)
    BY <1>1, <2>1, TakenFromFile
  <2>2. CASE k \notin Sets(Key)
    <3>1. pos > Due[k]
      BY <1>1, <1>3, <1>5, <1>7, <2>2, DueFacts
    <3>2. mem'[k] = mem[k]
      BY <1>1, <1>3, <1>4, <2>2, TakenOnly
    <3> QED BY <1>2, <3>1, <3>2
  <2> QED BY <2>1, <2>2
<1>8. Same(file', s)
  BY <1>6 DEF Same
<1> QED BY <1>7, <1>8

(* The settings of a complete start are a sound file.                      *)
LEMMA LastIsSound ==
  ASSUME type \in Types, NEW m, MemTyped(m), Settled(m), Whole(m)
  PROVE  Sound(m)
<1>1. \A k \in Matters : m[k] # Missing
  <2>1. Matters \subseteq Keys
    BY MattersFacts
  <2>2. Missing \notin Int \cup Aliases
    BY ConfigAssumption
  <2> QED BY <2>1, <2>2 DEF MemTyped
<1>2. /\ Kind[type] \in {"analog", "counter", "coder", "output"}
      /\ Kind[type] = "counter" =>
           Made[type]["counters"] = Made[type]["numberofcounters"]
  BY TypeFacts
<1>3. CASE Kind[type] = "analog"
  BY <1>1, <1>3 DEF Sound, Settled, MemTyped
<1>4. CASE Kind[type] = "counter"
  <2>1. m["numberofcounters"] = Made[type]["numberofcounters"]
    BY <1>2, <1>4 DEF Settled, Whole, NumberOf, NamesOf
  <2> QED BY <1>1, <1>4, <2>1 DEF Sound, Settled, MemTyped
<1>5. CASE Kind[type] = "coder"
  BY <1>1, <1>5 DEF Sound, Settled
<1>6. CASE Kind[type] = "output"
  BY <1>1, <1>6 DEF Sound, Settled
<1> QED BY <1>2, <1>3, <1>4, <1>5, <1>6

(* A start from a sound file begins with the built-in numbers it asks for. *)
LEMMA StartReads ==
  ASSUME type \in Types, Start, NEW s, Sound(s), Same(file, s)
  PROVE  Same(file', s) /\ \A k \in Matters : pos' > Due[k] => mem'[k] = s[k]
<1>1. mem' = Fresh /\ pos' = 1 /\ file' = file
  BY DEF Start
<1>2. ASSUME NEW k \in Matters, 1 > Due[k] PROVE Fresh[k] = s[k]
  <2>1. k \in Keys /\ Due[k] = 0
    BY <1>2, MattersFacts, DueFacts
  <2>2. k \in {"numberofcounters", "numberofdigitaloutputs"}
    BY <2>1, KeyFacts DEF Due
  <2>3. Fresh[k] = Made[type][k]
    BY <2>1, <2>2 DEF Fresh
  <2>4. \/ Kind[type] \in {"counter", "coder"} /\ k = "numberofcounters"
        \/ Kind[type] = "output" /\ k = "numberofdigitaloutputs"
    BY <1>2, <2>2, TypeFacts, MattersFacts
  <2> QED BY <2>3, <2>4 DEF Sound
<1> QED BY <1>1, <1>2 DEF Same

LEMMA WholeSame ==
  ASSUME type \in Types, NEW m, NEW n, Same(m, n), Whole(n)
  PROVE  Whole(m)
<1>1. /\ Kind[type] \in {"analog", "counter", "coder", "output"}
      /\ \A k \in Matters : m[k] = n[k]
  BY TypeFacts DEF Same
<1>2. CASE Kind[type] = "analog"
  BY <1>1, <1>2, MattersFacts DEF Whole, NumberOf, NamesOf
<1>3. CASE Kind[type] \in {"counter", "coder"}
  BY <1>1, <1>3, MattersFacts DEF Whole, NumberOf, NamesOf
<1>4. CASE Kind[type] = "output"
  BY <1>1, <1>4, MattersFacts DEF Whole, NumberOf, NamesOf
<1> QED BY <1>1, <1>2, <1>3, <1>4

(* What matters is saved, when the settings are whole.                     *)
LEMMA MattersSaved ==
  ASSUME type \in Types, Whole(mem), NEW k \in Matters
  PROVE  k \in Saved /\ Written(k) = mem[k]
<1>1. Kind[type] \in {"analog", "counter", "coder", "output"}
  BY TypeFacts
<1>2. k \in Saved
  <2>1. CASE Kind[type] = "analog"
    BY <2>1, MattersFacts DEF Whole, NumberOf, NamesOf, Saved, Fits
  <2>2. CASE Kind[type] = "counter"
    BY <2>2, MattersFacts DEF Whole, NumberOf, NamesOf, Saved, Fits
  <2>3. CASE Kind[type] = "coder"
    BY <2>3, MattersFacts DEF Whole, NumberOf, NamesOf, Saved, Fits
  <2>4. CASE Kind[type] = "output"
    BY <2>4, MattersFacts DEF Whole, NumberOf, NamesOf, Saved, Fits
  <2> QED BY <1>1, <2>1, <2>2, <2>3, <2>4
<1>3. Written(k) = mem[k]
  <2>1. CASE k = "counters"
    <3>1. Kind[type] \in {"counter", "coder"}
      BY <1>1, <2>1, MattersFacts
    <3> QED BY <2>1, <3>1 DEF Whole, NumberOf, NamesOf, Written
  <2> QED BY <2>1 DEF Written
<1> QED BY <1>2, <1>3

(* What matters is the same before and after a step, and so is what is     *)
(* whole or sound.                                                         *)
LEMMA SameMeaning ==
  ASSUME type' = type
  PROVE  /\ Matters' = Matters
         /\ Whole(mem)' <=> Whole(mem')
         /\ Whole(last)' <=> Whole(last')
         /\ Sound(asked)' <=> Sound(asked')
         /\ Settled(mem)' <=> Settled(mem')
         /\ Settled(last)' <=> Settled(last')
<1>1. Matters' = Matters
  BY DEF Matters
<1>2. Whole(mem)' <=> Whole(mem')
  BY DEF Whole, NumberOf, NamesOf
<1>3. Whole(last)' <=> Whole(last')
  BY DEF Whole, NumberOf, NamesOf
<1>4. Sound(asked)' <=> Sound(asked')
  <2>1. Whole(asked)' <=> Whole(asked')
    BY DEF Whole, NumberOf, NamesOf
  <2> QED BY <1>1, <2>1 DEF Sound
<1>5. Settled(mem)' <=> Settled(mem')
  BY DEF Settled
<1>6. Settled(last)' <=> Settled(last')
  BY DEF Settled
<1> QED BY <1>1, <1>2, <1>3, <1>4, <1>5, <1>6

LEMMA FreshSettled ==
  ASSUME type \in Types
  PROVE  Settled(Fresh)
<1>1. {"min", "max", "countingmin", "countingmax", "numberofcounters",
        "numberofdigitaloutputs"} \subseteq Keys \ {"alias"}
  BY KeyFacts
<1>2. \A k \in Keys \ {"alias"} : Fresh[k] = Made[type][k]
  BY DEF Fresh
<1> QED BY <1>1, <1>2, TypeFacts DEF Settled

LEMMA SettingsInit == Init => SettingsInv
<1> SUFFICES ASSUME Init PROVE SettingsInv
  OBVIOUS
<1>1. /\ type \in Types /\ chassis \in Aliases /\ exists = FALSE /\ file = Blank
      /\ mem = Fresh /\ phase = "off" /\ last = mem
      /\ calm = [power |-> TRUE, user |-> FALSE, before |-> FALSE]
  BY DEF Init
<1>2. ConfigInv
  BY ConfigInit
<1>3. MemTyped(mem) /\ MemTyped(last)
  BY <1>1, <1>2, InvTyped
<1>4. Settled(mem) /\ Settled(last)
  BY <1>1, FreshSettled
<1>5. SavedSoFar /\ Untouched /\ FileRead
  BY <1>1 DEF SavedSoFar, Untouched, FileRead, Reads
<1>6. OnDisk /\ LastRead /\ calm \in [power : BOOLEAN, user : BOOLEAN, before : BOOLEAN]
  BY <1>1 DEF OnDisk, LastRead
<1> QED BY <1>2, <1>3, <1>4, <1>5, <1>6 DEF SettingsInv

(* Whatever a user changes, nothing is claimed of the next start.          *)
LEMMA ChangeSettings ==
  ASSUME SettingsInv,
         \/ \E e \in Editable : Edit(e[1], e[2])
         \/ Delete
         \/ \E a \in Aliases : Rename(a)
  PROVE  SettingsInv'
<1>1. ConfigInv'
  BY ChangeKeeps DEF SettingsInv
<1>2. /\ Change /\ phase = "off" /\ phase' = "off"
      /\ UNCHANGED <<type, mem, last, asked>>
      /\ calm' = [calm EXCEPT !.user = FALSE]
  BY DEF Edit, Delete, Rename, Change
<1>3. calm' \in [power : BOOLEAN, user : BOOLEAN, before : BOOLEAN] /\ ~calm'.user
  BY <1>2 DEF SettingsInv
<1>4. Settled(mem)' /\ Settled(last)' /\ MemTyped(last)'
  BY <1>2 DEF SettingsInv, Settled, MemTyped
<1>5. Untouched' /\ SavedSoFar' /\ FileRead'
  BY <1>2 DEF Untouched, SavedSoFar, FileRead, Reads
<1>6. OnDisk'
  BY <1>2, <1>3 DEF OnDisk, SettingsInv, Edit, Delete, Rename
<1>7. LastRead'
  BY <1>3 DEF LastRead
<1> QED BY <1>1, <1>3, <1>4, <1>5, <1>6, <1>7 DEF SettingsInv

LEMMA StartSettings ==
  ASSUME SettingsInv, Start
  PROVE  SettingsInv'
<1>1. ConfigInv'
  BY ConfigNext DEF SettingsInv, Next
<1>2. /\ phase = "off" /\ mem' = Fresh /\ asked' = file /\ file' = file
      /\ phase' = IF exists THEN "load" ELSE "truncate"
      /\ pos' = 1 /\ UNCHANGED <<type, exists, last, calm>>
      /\ type \in Types
  BY InvTyped DEF Start, SettingsInv
<1>3. Matters' = Matters /\ (Sound(asked)' <=> Sound(asked')) /\ (Whole(last)' <=> Whole(last'))
  BY <1>2, SameMeaning
<1>4. Settled(mem)' /\ Settled(last)' /\ MemTyped(last)'
  <2>1. Settled(mem')
    BY <1>2, FreshSettled
  <2> QED BY <1>2, <2>1, SameMeaning DEF SettingsInv, MemTyped
<1>5. Untouched'
  <2>1. \A k \in Keys \ {"alias"} : mem'[k] = Made[type][k]
    BY <1>2 DEF Fresh
  <2> QED BY <1>2, <2>1, KeyFacts DEF Untouched
<1>6. SavedSoFar' /\ OnDisk'
  BY <1>2 DEF SavedSoFar, OnDisk, SettingsInv
<1>7. ASSUME NEW s, Sound(s), Same(file, s)
      PROVE  /\ exists /\ phase' = "load"
             /\ Same(file', s) /\ \A k \in Matters : pos' > Due[k] => mem'[k] = s[k]
  <2>1. "alias" \in Matters /\ Blank["alias"] = Missing
    BY <1>2, MattersFacts, KeyFacts DEF Blank, Lists
  <2>2. exists
    BY <1>7, <2>1 DEF SettingsInv, OnDisk, Same, Sound
  <2> QED BY <1>2, <1>7, <2>2, StartReads
<1>8. FileRead'
  <2>1. SUFFICES ASSUME Sound(asked') PROVE Reads(asked)'
    BY <1>3 DEF FileRead
  <2>2. Sound(file) /\ Same(file, file)
    BY <1>2, <2>1 DEF Same
  <2>3. /\ phase' = "load" /\ Same(file', file)
        /\ \A k \in Matters : pos' > Due[k] => mem'[k] = file[k]
    BY <1>7, <2>2
  <2> QED BY <1>2, <1>3, <2>3 DEF Reads, LoadedSoFar, Same
<1>9. LastRead'
  <2>1. SUFFICES ASSUME calm.user, calm.power, Whole(last) PROVE Reads(last)'
    BY <1>2, <1>3 DEF LastRead
  <2>2. Sound(last) /\ Same(file, last)
    BY <1>2, <2>1, LastIsSound DEF SettingsInv, LastRead
  <2>3. /\ phase' = "load" /\ Same(file', last)
        /\ \A k \in Matters : pos' > Due[k] => mem'[k] = last[k]
    BY <1>7, <2>2
  <2> QED BY <1>2, <1>3, <2>3 DEF Reads, LoadedSoFar, Same
<1>10. calm' \in [power : BOOLEAN, user : BOOLEAN, before : BOOLEAN]
  BY <1>2 DEF SettingsInv
<1> QED BY <1>1, <1>4, <1>5, <1>6, <1>8, <1>9, <1>10 DEF SettingsInv

LEMMA LoadSettings ==
  ASSUME SettingsInv, Load
  PROVE  SettingsInv'
<1>1. ConfigInv' /\ ConfigInv
  BY LoadKeeps DEF SettingsInv
<1>2. /\ phase = "load" /\ phase' = "load" /\ type \in Types
      /\ UNCHANGED <<type, exists, last, asked, calm>>
  BY <1>1, LoadFacts
<1>3. Matters' = Matters /\ (Sound(asked)' <=> Sound(asked')) /\ (Whole(last)' <=> Whole(last'))
  BY <1>2, SameMeaning
<1>4. Settled(mem)' /\ Untouched' /\ Settled(last)' /\ MemTyped(last)'
  BY <1>1, <1>2, LoadSettles DEF SettingsInv, Settled, MemTyped
<1>5. SavedSoFar' /\ OnDisk'
  BY <1>2 DEF SavedSoFar, OnDisk, SettingsInv
<1>6. ASSUME NEW s, Sound(s), LoadedSoFar(s)
      PROVE  Same(file', s) /\ \A k \in Matters : pos' > Due[k] => mem'[k] = s[k]
  BY <1>1, <1>6, LoadReads DEF SettingsInv
<1>7. FileRead'
  <2>1. SUFFICES ASSUME Sound(asked) PROVE Reads(asked)'
    BY <1>2, <1>3 DEF FileRead
  <2>2. LoadedSoFar(asked)
    BY <1>2, <2>1 DEF SettingsInv, FileRead, Reads
  <2>3. /\ Same(file', asked)
        /\ \A k \in Matters : pos' > Due[k] => mem'[k] = asked[k]
    BY <1>6, <2>1, <2>2
  <2> QED BY <1>2, <1>3, <2>3 DEF Reads, LoadedSoFar, Same
<1>8. LastRead'
  <2>1. SUFFICES ASSUME calm.user, calm.power, Whole(last) PROVE Reads(last)'
    BY <1>2, <1>3 DEF LastRead
  <2>2. Sound(last) /\ LoadedSoFar(last)
    BY <1>2, <2>1, LastIsSound DEF SettingsInv, LastRead, Reads
  <2>3. /\ Same(file', last)
        /\ \A k \in Matters : pos' > Due[k] => mem'[k] = last[k]
    BY <1>6, <2>2
  <2> QED BY <1>2, <1>3, <2>3 DEF Reads, LoadedSoFar, Same
<1>9. calm' \in [power : BOOLEAN, user : BOOLEAN, before : BOOLEAN]
  BY <1>2 DEF SettingsInv
<1> QED BY <1>1, <1>4, <1>5, <1>7, <1>8, <1>9 DEF SettingsInv

(* A step after the load keeps the settings that were read.                *)
LEMMA SettingsKept ==
  ASSUME SettingsInv, ConfigInv', UNCHANGED <<type, mem, last, asked, calm>>,
         phase' \in {"truncate", "save", "running"}, OnDisk', SavedSoFar',
         \A s : Reads(s) => Same(mem, s)
  PROVE  SettingsInv'
<1>1. /\ Settled(mem)' /\ Settled(last)' /\ MemTyped(last)'
      /\ calm' \in [power : BOOLEAN, user : BOOLEAN, before : BOOLEAN]
  BY DEF SettingsInv, Settled, MemTyped
<1>2. Untouched'
  BY DEF Untouched
<1>3. Matters' = Matters /\ (Sound(asked)' <=> Sound(asked')) /\ (Whole(last)' <=> Whole(last'))
  BY SameMeaning
<1>4. FileRead'
  <2>1. SUFFICES ASSUME Sound(asked) PROVE Reads(asked)'
    BY <1>3 DEF FileRead
  <2>2. Same(mem, asked)
    BY <2>1 DEF SettingsInv, FileRead
  <2> QED BY <1>3, <2>2 DEF Reads, Same
<1>5. LastRead'
  <2>1. SUFFICES ASSUME calm.user, calm.power, Whole(last) PROVE Reads(last)'
    BY <1>3 DEF LastRead
  <2>2. Same(mem, last)
    BY <2>1 DEF SettingsInv, LastRead
  <2> QED BY <1>3, <2>2 DEF Reads, Same
<1> QED BY <1>1, <1>2, <1>4, <1>5 DEF SettingsInv

(* At the end of the load every setting has been read.                     *)
LEMMA LoadedSettings ==
  ASSUME SettingsInv, Loaded
  PROVE  SettingsInv'
<1>1. ConfigInv' /\ type \in Types
  BY ConfigNext, InvTyped DEF SettingsInv, Next
<1>2. /\ phase = "load" /\ phase' = "truncate"
      /\ UNCHANGED <<type, exists, file, mem, last, asked, calm>>
  BY DEF Loaded
<1>3. pos \in Int /\ pos > 11
  BY OrderFacts DEF Loaded, SettingsInv, ConfigInv, TypeOK
<1>4. \A k \in Matters : pos > Due[k]
  BY <1>1, <1>3, MattersFacts, DueFacts
<1>5. \A s : Reads(s) => Same(mem, s)
  BY <1>2, <1>4 DEF Reads, LoadedSoFar, Same
<1>6. OnDisk' /\ SavedSoFar'
  BY <1>2 DEF OnDisk, SavedSoFar, SettingsInv
<1> QED BY <1>1, <1>2, <1>5, <1>6, SettingsKept

LEMMA TruncateSettings ==
  ASSUME SettingsInv, Truncate
  PROVE  SettingsInv'
<1>1. ConfigInv'
  BY ConfigNext DEF SettingsInv, Next
<1>2. /\ phase = "truncate" /\ phase' = "save" /\ pos' = 1 /\ exists' = TRUE
      /\ UNCHANGED <<type, mem, last, asked, calm>>
  BY DEF Truncate
<1>3. \A s : Reads(s) => Same(mem, s)
  BY <1>2 DEF Reads
<1>4. OnDisk'
  BY <1>2 DEF OnDisk
<1>5. SavedSoFar'
  <2>1. Len(Order) = 11
    BY OrderFacts
  <2> QED BY <1>2, <2>1 DEF SavedSoFar
<1> QED BY <1>1, <1>2, <1>3, <1>4, <1>5, SettingsKept

LEMMA SaveSettings ==
  ASSUME SettingsInv, Save
  PROVE  SettingsInv'
<1>1. ConfigInv' /\ type \in Types /\ FileTyped(file)
  BY SaveKeeps, InvTyped DEF SettingsInv
<1>2. /\ phase = "save" /\ phase' = "save" /\ pos' = pos + 1
      /\ pos \in 1 .. 11 /\ Len(Order) = 11 /\ pos \in 1 .. Len(Order)
      /\ file' = IF Key \in Saved THEN [file EXCEPT ![Key] = Written(Key)] ELSE file
      /\ UNCHANGED <<type, exists, mem, last, asked, calm>>
  <2>1. pos \in 1 .. 12 /\ pos <= 11 /\ Len(Order) = 11
    BY OrderFacts DEF Save, SettingsInv, ConfigInv, TypeOK
  <2> QED BY <2>1 DEF Save
<1>3. \A s : Reads(s) => Same(mem, s)
  BY <1>2 DEF Reads
<1>4. OnDisk'
  BY <1>2 DEF OnDisk, SettingsInv
<1>5. SavedSoFar'
  <2>1. SUFFICES ASSUME Whole(mem), NEW i \in 1 .. Len(Order), i < pos',
                        Order[i] \in Matters
                 PROVE  file'[Order[i]] = mem[Order[i]]
    BY <1>2, SameMeaning DEF SavedSoFar
  <2>2. Key = Order[pos] /\ Order[i] \in Keys
    BY DEF Key, Keys
  <2>3. CASE Order[i] = Key
    <3>1. Key \in Saved /\ Written(Key) = mem[Key]
      BY <1>1, <2>1, <2>3, MattersSaved
    <3> QED BY <1>1, <1>2, <2>2, <2>3, <3>1 DEF FileTyped
  <2>4. CASE Order[i] # Key
    <3>1. i < pos
      BY <1>2, <2>1, <2>2, <2>4
    <3>2. file[Order[i]] = mem[Order[i]]
      BY <1>2, <2>1, <3>1 DEF SettingsInv, SavedSoFar
    <3> QED BY <1>1, <1>2, <2>2, <2>4, <3>2 DEF FileTyped
  <2> QED BY <2>3, <2>4
<1> QED BY <1>1, <1>2, <1>3, <1>4, <1>5, SettingsKept

LEMMA DoneSettings ==
  ASSUME SettingsInv, SaveDone
  PROVE  SettingsInv'
<1>1. ConfigInv' /\ type \in Types /\ MemTyped(mem)
  BY ConfigNext, InvTyped DEF SettingsInv, Next
<1>2. /\ phase = "save" /\ phase' = "running" /\ last' = mem
      /\ calm' = [power |-> TRUE, user |-> TRUE, before |-> calm.power /\ calm.user]
      /\ UNCHANGED <<type, exists, file, mem, asked>>
  BY DEF SaveDone
<1>3. pos \in Int /\ pos > 11 /\ Len(Order) = 11
  BY OrderFacts DEF SaveDone, SettingsInv, ConfigInv, TypeOK
<1>4. Matters' = Matters /\ (Sound(asked)' <=> Sound(asked')) /\ (Whole(mem)' <=> Whole(mem'))
  BY <1>2, SameMeaning
<1>5. SavedSoFar'
  <2>1. SUFFICES ASSUME Whole(mem), NEW k \in Matters PROVE file[k] = mem[k]
    BY <1>2, <1>4 DEF SavedSoFar, Same
  <2>2. PICK i \in 1 .. Len(Order) : k = Order[i]
    BY <1>1, MattersFacts DEF Keys
  <2>3. i < pos
    BY <1>3
  <2> QED BY <1>2, <2>1, <2>2, <2>3 DEF SettingsInv, SavedSoFar
<1>6. Settled(mem)' /\ Settled(last)' /\ MemTyped(last)'
  BY <1>1, <1>2 DEF SettingsInv, Settled, MemTyped
<1>7. Untouched' /\ OnDisk' /\ calm' \in [power : BOOLEAN, user : BOOLEAN, before : BOOLEAN]
  BY <1>2 DEF Untouched, OnDisk, SettingsInv
<1>8. FileRead'
  BY <1>2, <1>4 DEF FileRead, Reads, Same, SettingsInv
<1>9. LastRead'
  BY <1>2 DEF LastRead, Reads, Same
<1> QED BY <1>1, <1>5, <1>6, <1>7, <1>8, <1>9 DEF SettingsInv

(* The gateway stops: its file has the settings of the last start.         *)
LEMMA StopSettings ==
  ASSUME SettingsInv, Stop
  PROVE  SettingsInv'
<1>1. ConfigInv' /\ type \in Types
  BY ConfigNext, InvTyped DEF SettingsInv, Next
<1>2. /\ phase = "running" /\ phase' = "off"
      /\ UNCHANGED <<type, exists, file, mem, last, asked, calm>>
  BY DEF Stop
<1>3. Matters' = Matters /\ (Whole(last)' <=> Whole(last'))
  BY <1>2, SameMeaning
<1>4. /\ Settled(mem)' /\ Settled(last)' /\ MemTyped(last)'
      /\ calm' \in [power : BOOLEAN, user : BOOLEAN, before : BOOLEAN]
  BY <1>2 DEF SettingsInv, Settled, MemTyped
<1>5. Untouched' /\ SavedSoFar' /\ FileRead' /\ OnDisk'
  BY <1>2 DEF Untouched, SavedSoFar, FileRead, Reads, OnDisk, SettingsInv
<1>6. LastRead'
  <2>1. SUFFICES ASSUME calm.user, calm.power, Whole(last)
                 PROVE  Reads(last)' /\ Same(file, last)'
    BY <1>2, <1>3 DEF LastRead
  <2>2. Same(mem, last)
    BY <1>2, <2>1 DEF SettingsInv, LastRead, Reads
  <2>3. Same(file, mem)
    BY <1>1, <1>2, <2>1, <2>2, WholeSame DEF SettingsInv, SavedSoFar
  <2> QED BY <1>2, <1>3, <2>2, <2>3 DEF Reads, Same
<1> QED BY <1>1, <1>4, <1>5, <1>6 DEF SettingsInv

LEMMA PowerSettings ==
  ASSUME SettingsInv, PowerFails
  PROVE  SettingsInv'
<1>1. ConfigInv'
  BY ConfigNext DEF SettingsInv, Next
<1>2. /\ phase' = "off" /\ file' \in {file, Blank}
      /\ mem' = Fresh /\ type \in Types
      /\ UNCHANGED <<type, exists, last, asked>>
      /\ calm' = [calm EXCEPT !.power = FALSE]
  BY InvTyped DEF PowerFails, SettingsInv
<1>3. /\ calm' \in [power : BOOLEAN, user : BOOLEAN, before : BOOLEAN]
      /\ ~calm'.power /\ calm'.user = calm.user
  BY <1>2 DEF SettingsInv
<1>4. Settled(mem)' /\ Settled(last)' /\ MemTyped(last)'
  <2>1. Settled(mem')
    BY <1>2, FreshSettled
  <2> QED BY <1>2, <2>1, SameMeaning DEF SettingsInv, Settled, MemTyped
<1>5. Untouched' /\ SavedSoFar' /\ FileRead'
  BY <1>2 DEF Untouched, SavedSoFar, FileRead, Reads
<1>6. OnDisk' /\ LastRead'
  BY <1>2, <1>3 DEF OnDisk, LastRead, SettingsInv
<1> QED BY <1>1, <1>3, <1>4, <1>5, <1>6 DEF SettingsInv

LEMMA SettingsNext == SettingsInv /\ [Next]_vars => SettingsInv'
<1> SUFFICES ASSUME SettingsInv, [Next]_vars PROVE SettingsInv'
  OBVIOUS
<1>1. CASE UNCHANGED vars
  <2>1. UNCHANGED <<type, exists, file, mem, phase, pos, last, asked, calm>>
    BY <1>1 DEF vars
  <2>2. ConfigInv'
    BY ConfigNext DEF SettingsInv
  <2>3. Matters' = Matters /\ (Sound(asked)' <=> Sound(asked'))
        /\ (Whole(last)' <=> Whole(last')) /\ (Whole(mem)' <=> Whole(mem'))
    BY <2>1, SameMeaning
  <2>4. /\ Settled(mem)' /\ Settled(last)' /\ MemTyped(last)'
        /\ calm' \in [power : BOOLEAN, user : BOOLEAN, before : BOOLEAN]
    BY <2>1 DEF SettingsInv, Settled, MemTyped
  <2>5. Untouched' /\ OnDisk'
    BY <2>1 DEF SettingsInv, Untouched, OnDisk
  <2>6. SavedSoFar'
    BY <2>1, <2>3 DEF SettingsInv, SavedSoFar, Same
  <2>7. FileRead' /\ LastRead'
    BY <2>1, <2>3 DEF SettingsInv, FileRead, LastRead, Reads, LoadedSoFar, Same
  <2> QED BY <2>2, <2>4, <2>5, <2>6, <2>7 DEF SettingsInv
<1> QED
  BY <1>1, ChangeSettings, StartSettings, LoadSettings, LoadedSettings, TruncateSettings,
     SaveSettings, DoneSettings, StopSettings, PowerSettings DEF Next

THEOREM SettingsInductive == Spec => []SettingsInv
BY SettingsInit, SettingsNext, PTL DEF Spec

(* A complete file with proper limits is taken as it is, and is on the     *)
(* disk again when the gateway runs, for every type of module, file and    *)
(* history of edits and power failures.                                    *)
THEOREM FilesTaken == Spec => []FileTaken
<1>1. SettingsInv => FileTaken
  <2>1. SUFFICES ASSUME SettingsInv, phase = "running", Sound(asked)
                 PROVE  Same(mem, asked) /\ Same(file, asked)
    BY DEF FileTaken
  <2>2. Same(mem, asked) /\ Whole(asked) /\ type \in Types
    BY <2>1, InvTyped DEF SettingsInv, FileRead, Reads, Sound
  <2>3. Same(file, mem)
    BY <2>1, <2>2, WholeSame DEF SettingsInv, SavedSoFar
  <2> QED BY <2>2, <2>3 DEF Same
<1> QED BY <1>1, SettingsInductive, PTL

----------------------------------------------------------------------------
(* What an undisturbed start makes of settings that are not whole.         *)

Number == NumberOf(Kind[type])
Names == NamesOf(Kind[type])
NumberAt == CASE Kind[type] = "analog" -> 2
              [] Kind[type] \in {"counter", "coder"} -> 6
              [] Kind[type] = "output" -> 10

(* The section is not in the file, or has the built-in number.             *)
BuiltIn(f) == f[Number] \in {Missing, Made[type][Number]}

SavedBuiltIn == phase \in {"save", "running"} /\ ~Whole(mem) => BuiltIn(file)

(* Then a start takes the built-in number, and as many names.              *)
Completes ==
  calm.user /\ calm.power /\ ~Whole(last) =>
    /\ phase \in {"off", "load", "running"} => BuiltIn(file)
    /\ phase = "load" =>
         /\ mem[Number] = Made[type][Number]
         /\ pos > NumberAt => file[Number] = Made[type][Number]
         /\ pos > Due[Names] => mem[Names] = Made[type][Number]
    /\ phase \in {"truncate", "save"} => Whole(mem)

BeforeWhole == calm.before => Whole(last)

CompleteInv == SettingsInv /\ SavedBuiltIn /\ Completes /\ BeforeWhole

LEMMA NumberFacts ==
  ASSUME type \in Types
  PROVE  /\ Number \in Numbers \ Lists /\ Names \in Lists /\ Number # Names
         /\ Number \in Keys /\ Names \in Keys /\ NumberAt \in {2, 6, 10}
         /\ Made[type][Number] # 0 /\ Made[type][Number] \in Int
         /\ Kind[type] = "analog" =>
              Number = "numberofchannels" /\ Names = "channels" /\ NumberAt = 2
         /\ Kind[type] \in {"counter", "coder"} =>
              Number = "numberofcounters" /\ Names = "counters" /\ NumberAt = 6
         /\ Kind[type] = "output" =>
              Number = "numberofdigitaloutputs" /\ Names = "outputs" /\ NumberAt = 10
<1>1. Kind[type] \in {"analog", "counter", "coder", "output"}
  BY TypeFacts
<1>2. Made[type][Number] # 0
  BY ConfigAssumption DEF Number
<1>3. /\ Kind[type] = "analog" =>
              Number = "numberofchannels" /\ Names = "channels" /\ NumberAt = 2
      /\ Kind[type] \in {"counter", "coder"} =>
              Number = "numberofcounters" /\ Names = "counters" /\ NumberAt = 6
      /\ Kind[type] = "output" =>
              Number = "numberofdigitaloutputs" /\ Names = "outputs" /\ NumberAt = 10
  BY DEF Number, Names, NumberOf, NamesOf, NumberAt
<1>4. /\ {"numberofchannels", "numberofcounters", "numberofdigitaloutputs"}
           \subseteq Numbers \ Lists
      /\ Lists \subseteq Keys /\ Numbers \subseteq Keys
  BY KeyFacts DEF Numbers, Lists
<1>5. /\ Number \in Numbers \ Lists /\ Names \in Lists /\ Number # Names
      /\ NumberAt \in {2, 6, 10}
  BY <1>1, <1>3, <1>4 DEF Lists
<1> QED BY <1>2, <1>3, <1>4, <1>5, TypeFacts

LEMMA WholeFacts ==
  ASSUME NEW m
  PROVE  Whole(m) <=> m[Number] # 0 /\ m[Names] = m[Number]
BY DEF Whole, Number, Names

(* The number of the kind and its names do not change their meaning.       *)
LEMMA SameNumber ==
  ASSUME type' = type
  PROVE  Number' = Number /\ Names' = Names /\ NumberAt' = NumberAt /\ Due' = Due
BY DEF Number, Names, NumberAt, Due, NumberOf, NamesOf, Keys, Order

(* The built-in number is read, whether it is in the file or not, and then *)
(* as many names.                                                          *)
LEMMA LoadCompletes ==
  ASSUME ConfigInv, Load, BuiltIn(file), mem[Number] = Made[type][Number],
         pos > NumberAt => file[Number] = Made[type][Number],
         pos > Due[Names] => mem[Names] = Made[type][Number]
  PROVE  /\ BuiltIn(file')
         /\ mem'[Number] = Made[type][Number]
         /\ pos' > NumberAt => file'[Number] = Made[type][Number]
         /\ pos' > Due[Names] => mem'[Names] = Made[type][Number]
<1>1. /\ phase = "load" /\ pos \in 1 .. 11 /\ pos \in 1 .. Len(Order)
      /\ Key = Order[pos] /\ Key \in Keys /\ mem' = Taken(Key) /\ pos' = After(Key)
      /\ type \in Types /\ MemTyped(mem) /\ FileTyped(file)
  BY LoadFacts
<1>2. /\ Number \in Keys /\ Names \in Keys /\ Number \in Numbers \ Lists
      /\ Names \in Lists /\ Number # Names /\ Made[type][Number] # 0
      /\ Kind[type] = "analog" =>
           Number = "numberofchannels" /\ Names = "channels" /\ NumberAt = 2
      /\ Kind[type] \in {"counter", "coder"} =>
           Number = "numberofcounters" /\ Names = "counters" /\ NumberAt = 6
      /\ Kind[type] = "output" =>
           Number = "numberofdigitaloutputs" /\ Names = "outputs" /\ NumberAt = 10
      /\ Kind[type] \in {"analog", "counter", "coder", "output"}
  BY <1>1, NumberFacts, TypeFacts
<1>3. Value(Number) = Made[type][Number]
  <2>1. Default(Number) = mem[Number]
    BY <1>2 DEF Default
  <2> QED BY <2>1 DEF Value, BuiltIn
<1>4. pos' = pos + 1
  BY <1>1, <1>2, <1>3 DEF After
<1>5. Key = Number <=> pos = NumberAt
  BY <1>1, <1>2, OrderFacts, PlaceFacts
<1>6. Key = Names <=> pos = Due[Names]
  BY <1>1, <1>2, PlaceFacts, KeyFacts DEF Due
<1>7. Due[Names] > NumberAt /\ Due[Names] \in Int /\ NumberAt \in Int
  BY <1>2, KeyFacts DEF Due
<1>8. mem'[Number] = Made[type][Number]
  <2>1. CASE Number \in Sets(Key)
    <3>1. Key = "numberofchannels" /\ Key = Number
      BY <1>2, <2>1 DEF Sets
    <3>2. Taken(Key) = [mem EXCEPT ![Key] = Value(Key)]
      BY <3>1 DEF Taken, Lists
    <3> QED BY <1>1, <1>3, <3>1, <3>2 DEF MemTyped
  <2>2. CASE Number \notin Sets(Key)
    BY <1>1, <1>2, <1>3, <2>2, TakenOnly
  <2> QED BY <2>1, <2>2
<1>9. file'[Number] = IF Key = Number THEN Made[type][Number] ELSE file[Number]
  BY <1>1, <1>2, <1>3 DEF Load, FileTyped
<1>10. pos' > NumberAt => file'[Number] = Made[type][Number]
  BY <1>1, <1>4, <1>5, <1>7, <1>9
<1>11. BuiltIn(file')
  BY <1>9 DEF BuiltIn
<1>12. ASSUME pos' > Due[Names] PROVE mem'[Names] = Made[type][Number]
  <2>1. CASE Key = Names
    <3>1. Taken(Key) = [mem EXCEPT ![Key] = CountOf(Key)]
      BY <1>2, <2>1 DEF Taken, Lists
    <3>2. CountOf(Names) = Made[type][Number]
      <4>1. pos > NumberAt
        BY <1>6, <1>7, <2>1
      <4> QED BY <1>2, <4>1 DEF CountOf
    <3> QED BY <1>1, <1>2, <2>1, <3>1, <3>2 DEF MemTyped
  <2>2. CASE Key # Names
    <3>1. pos > Due[Names]
      BY <1>1, <1>4, <1>6, <1>7, <1>12, <2>2
    <3>2. Names \notin Sets(Key)
      BY <1>2, <2>2 DEF Sets, Lists
    <3>3. Names # "numberofcounters"
      BY <1>2 DEF Lists
    <3>4. mem'[Names] = mem[Names]
      BY <1>1, <1>2, <2>2, <3>2, <3>3, TakenOnly
    <3> QED BY <3>1, <3>4
  <2> QED BY <2>1, <2>2
<1> QED BY <1>8, <1>10, <1>11, <1>12

(* A section whose names do not fit its number is not saved.               *)
LEMMA SaveBuiltIn ==
  ASSUME ConfigInv, Settled(mem), Save, ~Whole(mem), BuiltIn(file)
  PROVE  BuiltIn(file')
<1>1. /\ type \in Types /\ FileTyped(file) /\ MemTyped(mem)
      /\ file' = IF Key \in Saved THEN [file EXCEPT ![Key] = Written(Key)] ELSE file
  BY InvTyped DEF Save
<1>2. /\ Kind[type] \in {"analog", "counter", "coder", "output"}
      /\ Number \in Keys
      /\ Kind[type] = "analog" => Number = "numberofchannels" /\ Names = "channels"
      /\ Kind[type] \in {"counter", "coder"} =>
           Number = "numberofcounters" /\ Names = "counters"
      /\ Kind[type] = "output" =>
           Number = "numberofdigitaloutputs" /\ Names = "outputs"
  BY <1>1, NumberFacts, TypeFacts
<1>3. ~Fits(Number, Names)
  BY WholeFacts DEF Fits
<1>4. Number \in Saved => Kind[type] = "coder"
  BY <1>2, <1>3 DEF Saved
<1>5. Kind[type] = "coder" => Written(Number) = Made[type][Number]
  BY <1>2 DEF Written, Settled
<1> QED BY <1>1, <1>2, <1>4, <1>5 DEF BuiltIn, FileTyped

LEMMA CompleteInit == Init => CompleteInv
<1> SUFFICES ASSUME Init PROVE CompleteInv
  OBVIOUS
<1>1. SettingsInv
  BY SettingsInit
<1>2. phase = "off" /\ ~calm.user /\ ~calm.before
  BY DEF Init
<1> QED BY <1>1, <1>2 DEF CompleteInv, SavedBuiltIn, Completes, BeforeWhole

LEMMA CompleteNext == CompleteInv /\ [Next]_vars => CompleteInv'
<1> SUFFICES ASSUME CompleteInv, [Next]_vars PROVE CompleteInv'
  OBVIOUS
<1>1. /\ SettingsInv /\ SettingsInv' /\ ConfigInv /\ type \in Types /\ type' = type
      /\ MemTyped(mem) /\ FileTyped(file) /\ Settled(mem)
      /\ calm \in [power : BOOLEAN, user : BOOLEAN, before : BOOLEAN]
  <2>1. SettingsInv /\ SettingsInv'
    BY SettingsNext DEF CompleteInv
  <2>2. type' = type
    BY DEF vars, Next, Edit, Delete, Rename, Change, Start, Load, Loaded, Truncate,
           Save, SaveDone, Stop, PowerFails
  <2> QED BY <2>1, <2>2, InvTyped DEF SettingsInv
<1>2. /\ Number' = Number /\ Names' = Names /\ NumberAt' = NumberAt /\ Due' = Due
      /\ (Whole(mem)' <=> Whole(mem')) /\ (Whole(last)' <=> Whole(last'))
      /\ (BuiltIn(file)' <=> BuiltIn(file'))
  <2>1. /\ Number' = Number /\ Names' = Names /\ NumberAt' = NumberAt /\ Due' = Due
    BY <1>1, SameNumber
  <2> QED BY <1>1, <2>1, SameMeaning DEF BuiltIn
<1>3. /\ Number \in Keys \ {"alias"} /\ Number \notin Lists
      /\ Made[type][Number] # 0 /\ Names \in Keys /\ NumberAt \in {2, 6, 10}
      /\ NumberAt \in Int
  BY <1>1, NumberFacts DEF Numbers
<1>4. BuiltIn(Blank)
  BY <1>3 DEF BuiltIn, Blank
<1>5. CASE \/ \E e \in Editable : Edit(e[1], e[2])
           \/ Delete
           \/ \E a \in Aliases : Rename(a)
  <2>1. phase' = "off" /\ last' = last /\ calm' = [calm EXCEPT !.user = FALSE]
    BY <1>5 DEF Edit, Delete, Rename, Change
  <2>2. ~calm'.user /\ calm'.before = calm.before
    BY <1>1, <2>1
  <2> QED BY <1>1, <1>2, <2>1, <2>2
          DEF CompleteInv, SavedBuiltIn, Completes, BeforeWhole
<1>6. CASE Start
  <2>1. /\ phase = "off" /\ mem' = Fresh /\ file' = file /\ pos' = 1
        /\ phase' = IF exists THEN "load" ELSE "truncate"
        /\ UNCHANGED <<last, calm>>
    BY <1>6 DEF Start
  <2>2. SavedBuiltIn' /\ BeforeWhole'
    BY <1>2, <2>1 DEF SavedBuiltIn, BeforeWhole, CompleteInv
  <2>3. Fresh[Number] = Made[type][Number]
    BY <1>3 DEF Fresh
  <2>4. Due[Names] >= 1
    BY <1>1, NumberFacts, KeyFacts DEF Due, Lists
  <2>5. Due[Names] \in Int
    BY <1>3, DueFacts
  <2>6. Completes'
    <3>1. SUFFICES ASSUME calm.user, calm.power, ~Whole(last)
                   PROVE  /\ phase' = "load" /\ BuiltIn(file')
                          /\ mem'[Number] = Made[type][Number]
                          /\ ~(pos' > NumberAt) /\ ~(pos' > Due[Names])
      BY <1>1, <1>2, <2>1 DEF Completes
    <3>2. exists
      BY <1>1, <3>1 DEF SettingsInv, OnDisk
    <3>3. BuiltIn(file)
      BY <2>1, <3>1 DEF CompleteInv, Completes
    <3> QED BY <1>3, <2>1, <2>3, <2>4, <2>5, <3>2, <3>3
  <2> QED BY <1>1, <2>2, <2>6 DEF CompleteInv
<1>7. CASE Load
  <2>1. phase = "load" /\ phase' = "load" /\ UNCHANGED <<last, calm>>
    BY <1>7 DEF Load
  <2>2. SavedBuiltIn' /\ BeforeWhole'
    BY <1>2, <2>1 DEF SavedBuiltIn, BeforeWhole, CompleteInv
  <2>3. Completes'
    <3>1. SUFFICES ASSUME calm.user, calm.power, ~Whole(last)
                   PROVE  /\ BuiltIn(file')
                          /\ mem'[Number] = Made[type][Number]
                          /\ pos' > NumberAt => file'[Number] = Made[type][Number]
                          /\ pos' > Due[Names] => mem'[Names] = Made[type][Number]
      BY <1>1, <1>2, <2>1 DEF Completes
    <3>2. /\ BuiltIn(file) /\ mem[Number] = Made[type][Number]
          /\ pos > NumberAt => file[Number] = Made[type][Number]
          /\ pos > Due[Names] => mem[Names] = Made[type][Number]
      BY <2>1, <3>1 DEF CompleteInv, Completes
    <3> QED BY <1>1, <1>7, <3>2, LoadCompletes
  <2> QED BY <1>1, <2>2, <2>3 DEF CompleteInv
<1>8. CASE Loaded
  <2>1. /\ phase = "load" /\ phase' = "truncate"
        /\ UNCHANGED <<file, mem, last, calm>> /\ pos > Len(Order)
    BY <1>8 DEF Loaded
  <2>2. SavedBuiltIn' /\ BeforeWhole'
    BY <1>2, <2>1 DEF SavedBuiltIn, BeforeWhole, CompleteInv
  <2>3. pos > Due[Names]
    <3>1. pos \in Int /\ pos > 11
      BY <1>1, <2>1, OrderFacts DEF ConfigInv, TypeOK
    <3> QED BY <1>3, <3>1, DueFacts
  <2>4. Completes'
    <3>1. SUFFICES ASSUME calm.user, calm.power, ~Whole(last) PROVE Whole(mem')
      BY <1>2, <2>1 DEF Completes
    <3>2. mem[Number] = Made[type][Number] /\ mem[Names] = Made[type][Number]
      BY <2>1, <2>3, <3>1 DEF CompleteInv, Completes
    <3>3. Whole(mem)
      BY <1>3, <3>2, WholeFacts
    <3> QED BY <2>1, <3>3
  <2> QED BY <1>1, <2>2, <2>4 DEF CompleteInv
<1>9. CASE Truncate
  <2>1. /\ phase = "truncate" /\ phase' = "save" /\ file' = Blank
        /\ UNCHANGED <<mem, last, calm>>
    BY <1>9 DEF Truncate
  <2>2. SavedBuiltIn' /\ BeforeWhole'
    BY <1>2, <1>4, <2>1 DEF SavedBuiltIn, BeforeWhole, CompleteInv
  <2>3. Completes'
    BY <1>2, <2>1 DEF Completes, CompleteInv
  <2> QED BY <1>1, <2>2, <2>3 DEF CompleteInv
<1>10. CASE Save
  <2>1. phase = "save" /\ phase' = "save" /\ UNCHANGED <<mem, last, calm>>
    BY <1>10 DEF Save
  <2>2. SavedBuiltIn'
    <3>1. SUFFICES ASSUME ~Whole(mem) PROVE BuiltIn(file')
      BY <1>2, <2>1 DEF SavedBuiltIn
    <3>2. BuiltIn(file)
      BY <2>1, <3>1 DEF CompleteInv, SavedBuiltIn
    <3> QED BY <1>1, <1>10, <3>1, <3>2, SaveBuiltIn
  <2>3. Completes' /\ BeforeWhole'
    BY <1>2, <2>1 DEF Completes, BeforeWhole, CompleteInv
  <2> QED BY <1>1, <2>2, <2>3 DEF CompleteInv
<1>11. CASE SaveDone
  <2>1. /\ phase = "save" /\ phase' = "running" /\ last' = mem
        /\ UNCHANGED <<file, mem>>
        /\ calm'.before = (calm.power /\ calm.user)
    BY <1>11 DEF SaveDone
  <2>2. SavedBuiltIn' /\ Completes'
    BY <1>2, <2>1 DEF SavedBuiltIn, Completes, CompleteInv
  <2>3. BeforeWhole'
    <3>1. SUFFICES ASSUME calm.power, calm.user PROVE Whole(mem)
      BY <1>2, <2>1 DEF BeforeWhole
    <3>2. CASE Whole(last)
      <4>1. Same(mem, last)
        BY <1>1, <2>1, <3>1, <3>2 DEF SettingsInv, LastRead, Reads
      <4> QED BY <1>1, <3>2, <4>1, WholeSame
    <3>3. CASE ~Whole(last)
      BY <2>1, <3>1, <3>3 DEF CompleteInv, Completes
    <3> QED BY <3>2, <3>3
  <2> QED BY <1>1, <2>2, <2>3 DEF CompleteInv
<1>12. CASE Stop
  <2>1. phase = "running" /\ phase' = "off" /\ UNCHANGED <<file, mem, last, calm>>
    BY <1>12 DEF Stop
  <2> QED BY <1>1, <1>2, <2>1
          DEF CompleteInv, SavedBuiltIn, Completes, BeforeWhole
<1>13. CASE PowerFails
  <2>1. phase' = "off" /\ last' = last /\ calm' = [calm EXCEPT !.power = FALSE]
    BY <1>13 DEF PowerFails
  <2>2. ~calm'.power /\ calm'.before = calm.before
    BY <1>1, <2>1
  <2> QED BY <1>1, <1>2, <2>1, <2>2
          DEF CompleteInv, SavedBuiltIn, Completes, BeforeWhole
<1>14. CASE UNCHANGED vars
  <2>1. UNCHANGED <<file, mem, phase, pos, last, calm>>
    BY <1>14 DEF vars
  <2> QED BY <1>1, <1>2, <2>1
          DEF CompleteInv, SavedBuiltIn, Completes, BeforeWhole
<1> QED BY <1>5, <1>6, <1>7, <1>8, <1>9, <1>10, <1>11, <1>12, <1>13, <1>14 DEF Next

(* A start that nothing precedes but a complete one leaves as many names   *)
(* as the number says, and changes nothing when there were as many, or     *)
(* when the start before it was such a start too.                          *)
THEOREM StartsStable == Spec => StableStart
<1>1. CompleteInv /\ [Next]_vars =>
        [phase = "save" /\ phase' = "running" /\ calm.user /\ calm.power
           => /\ Whole(mem')
              /\ Whole(last) \/ calm.before => Same(mem', last)]_vars
  <2>1. SUFFICES ASSUME CompleteInv, Next, phase = "save", phase' = "running",
                        calm.user, calm.power
                 PROVE  /\ Whole(mem')
                        /\ Whole(last) \/ calm.before => Same(mem', last)
    OBVIOUS
  <2>2. SaveDone /\ mem' = mem /\ type \in Types
    <3>1. SaveDone
      BY <2>1 DEF Next, Edit, Delete, Rename, Change, Start, Load, Loaded, Truncate,
                  Save, Stop, PowerFails
    <3> QED BY <2>1, <3>1, InvTyped DEF SaveDone, CompleteInv, SettingsInv
  <2>3. Whole(last) => Same(mem, last)
    BY <2>1 DEF CompleteInv, SettingsInv, LastRead, Reads
  <2>4. Whole(mem)
    BY <2>1, <2>2, <2>3, WholeSame DEF CompleteInv, Completes
  <2> QED BY <2>1, <2>2, <2>3, <2>4 DEF CompleteInv, BeforeWhole
<1>2. Spec => []CompleteInv
  BY CompleteInit, CompleteNext, PTL DEF Spec
<1> QED BY <1>1, <1>2, PTL DEF Spec, StableStart

=============================================================================
