------------------------ MODULE RegisterImageProofs ------------------------
(***************************************************************************)
(* Theorems of RegisterImage, for every number of registers and ticks and  *)
(* every width of the two sources, and of the widths that the settings of  *)
(* the rig give (SRUMapping).                                              *)
(***************************************************************************)
EXTENDS RegisterImage, SRUMapping, SequenceTheorems, TLAPS

(* A publication runs inside a tick that is not done yet.                  *)
TickOrder ==
  /\ done.n <= tick
  /\ \A s \in Sources : last[s].n <= done.n
  /\ ticking => mode \in Sources /\ done.n < tick
  /\ wpos < NRegs => ticking /\ wpos < Width[mode]

(* What FreshReply needs: also the registers still to be read are no older *)
(* than the last tick published before the read began.                     *)
NothingOlder ==
  /\ before.n <= done.n
  /\ \A r \in Regs : r < Width[before.src] => image[r].n >= before.n

(* NewestReaching for one register.                                        *)
NewestAt(r) ==
  \E s \in Sources \cup {"zeros"} :
    /\ Reaches(s, r)
    /\ image[r] = last[s]
    /\ \A u \in Sources : Reaches(u, r) => last[u].n <= last[s].n

ImageInv ==
  /\ TypeOK /\ TickOrder /\ PublishedPrefix /\ NothingOlder /\ FreshReply
  /\ NewestReaching

(* The constants' types, as the steps below use them.                      *)
LEMMA WidthType ==
  /\ NRegs \in Nat \ {0}
  /\ MaxTick \in Nat
  /\ Width["zeros"] = 0
  /\ \A s \in Sources \cup {"zeros"} : Width[s] \in 0 .. NRegs
BY ImageAssumption DEF Sources

(* What a stamp holds, and what makes one.                                 *)
LEMMA StampType ==
  /\ \A x \in Stamp : x.src \in Sources \cup {"zeros"} /\ x.n \in 0 .. MaxTick
  /\ \A s \in Sources \cup {"zeros"}, n \in 0 .. MaxTick :
       [src |-> s, n |-> n] \in Stamp
BY DEF Stamp

(* The registers start at zero.                                            *)
LEMMA ImageInit == Init => ImageInv
<1> SUFFICES ASSUME Init PROVE ImageInv
  OBVIOUS
<1> USE WidthType DEF Init, Control!Init
<1>1. Zeros \in Stamp /\ Zeros.src = "zeros" /\ Zeros.n = 0
  BY StampType DEF Zeros
<1>2. TypeOK
  <2>1. mode \in Sources \cup {"idle"} /\ ticking \in BOOLEAN
    OBVIOUS
  <2>2. tick \in 0 .. MaxTick /\ wpos \in 0 .. NRegs /\ rpos \in 0 .. NRegs
    OBVIOUS
  <2>3. image \in [Regs -> Stamp] /\ reply \in [Regs -> Stamp]
    BY <1>1
  <2>4. /\ done \in Stamp /\ before \in Stamp
        /\ last \in [Sources \cup {"zeros"} -> Stamp]
    BY <1>1
  <2>5. published \in Sources \cup {"zeros"}
    OBVIOUS
  <2> QED BY <2>1, <2>2, <2>3, <2>4, <2>5 DEF TypeOK
<1>3. TickOrder
  BY <1>1 DEF TickOrder
<1>4. PublishedPrefix
  BY <1>1 DEF PublishedPrefix, Regs
<1>5. NothingOlder /\ FreshReply
  BY <1>1 DEF NothingOlder, FreshReply, Regs
<1>6. NewestReaching
  BY <1>1 DEF NewestReaching, Reaches, Sources
<1> QED BY <1>2, <1>3, <1>4, <1>5, <1>6 DEF ImageInv

(* Every step of the timer thread and of a read preserves the invariant.   *)
LEMMA ImageNext ==
  ASSUME ImageInv, [Next]_vars
  PROVE  ImageInv'
<1> USE WidthType, StampType DEF ImageInv, tickVars, readVars, runVars
<1>0. /\ "idle" \notin Sources
      /\ wpos < NRegs => Width[mode] \in 0 .. NRegs /\ wpos \in Regs
  BY DEF Sources, TypeOK, TickOrder, Regs
<1>1. ASSUME NEW s \in Sources, EnterSource(s) PROVE ImageInv'
  <2> USE <1>0, <1>1 DEF EnterSource, Control!Enter, TypeOK, TickOrder
  <2>1. TypeOK'
    OBVIOUS
  <2>2. TickOrder'
    OBVIOUS
  <2>3. PublishedPrefix'
    BY DEF PublishedPrefix, Regs
  <2>4. NothingOlder'
    BY DEF NothingOlder, PublishedPrefix, Regs
  <2>5. FreshReply'
    BY DEF FreshReply, NothingOlder, Regs
  <2>6. NewestReaching'
    BY DEF NewestReaching, Reaches, Regs
  <2> QED BY <2>1, <2>2, <2>3, <2>4, <2>5, <2>6
<1>2. CASE LeaveSource
  <2> USE <1>0, <1>2 DEF LeaveSource, Control!Leave, TypeOK, TickOrder
  <2>1. TypeOK'
    OBVIOUS
  <2>2. TickOrder'
    OBVIOUS
  <2>3. PublishedPrefix'
    BY DEF PublishedPrefix, Regs
  <2>4. NothingOlder'
    BY DEF NothingOlder, PublishedPrefix, Regs
  <2>5. FreshReply'
    BY DEF FreshReply, NothingOlder, Regs
  <2>6. NewestReaching'
    BY DEF NewestReaching, Reaches, Regs
  <2> QED BY <2>1, <2>2, <2>3, <2>4, <2>5, <2>6
<1>3. CASE TickBegins
  <2> USE <1>0, <1>3 DEF TickBegins, Control!BeginTick, TypeOK, TickOrder
  <2>1. TypeOK'
    OBVIOUS
  <2>2. TickOrder'
    OBVIOUS
  <2>3. PublishedPrefix'
    BY DEF PublishedPrefix, Regs
  <2>4. NothingOlder'
    BY DEF NothingOlder, PublishedPrefix, Regs
  <2>5. FreshReply'
    BY DEF FreshReply, NothingOlder, Regs
  <2>6. NewestReaching'
    BY DEF NewestReaching, Reaches, Regs
  <2> QED BY <2>1, <2>2, <2>3, <2>4, <2>5, <2>6
<1>4. CASE PublishBegins
  <2> USE <1>0, <1>4 DEF PublishBegins, Publishing, TypeOK, TickOrder
  <2>1. TypeOK'
    OBVIOUS
  <2>2. TickOrder'
    OBVIOUS
  <2>3. PublishedPrefix'
    BY DEF PublishedPrefix, Regs
  <2>4. NothingOlder'
    BY DEF NothingOlder, PublishedPrefix, Regs
  <2>5. FreshReply'
    BY DEF FreshReply, NothingOlder, Regs
  <2>6. NewestReaching'
    <3>1. \A r \in Regs : NewestAt(r)
      BY DEF NewestReaching, NewestAt
    <3>2. \A r \in Regs : NewestAt(r)'
      BY <3>1 DEF NewestAt, Reaches
    <3> QED BY <3>2 DEF NewestReaching, NewestAt
  <2> QED BY <2>1, <2>2, <2>3, <2>4, <2>5, <2>6
<1>5. CASE WriteRegister
  <2> USE <1>0, <1>5 DEF WriteRegister, Publishing, TypeOK, TickOrder
  <2>0. /\ [src |-> mode, n |-> tick] \in Stamp
        /\ wpos \in Regs
        /\ mode \in Sources
        /\ image' = [image EXCEPT ![wpos] = [src |-> mode, n |-> tick]]
    BY DEF Regs
  <2>1. TypeOK'
    BY <2>0
  <2>2. TickOrder'
    BY <2>0
  <2>3. PublishedPrefix'
    BY <2>0 DEF PublishedPrefix, Regs
  <2>4. NothingOlder'
    BY <2>0 DEF NothingOlder, PublishedPrefix, Regs
  <2>5. FreshReply'
    BY <2>0 DEF FreshReply, NothingOlder, Regs
  <2>6. NewestReaching'
    <3> SUFFICES ASSUME NEW r \in Regs, r >= wpos + 1
                 PROVE  NewestAt(r)'
      <4>1. wpos' = wpos + 1 /\ wpos' # NRegs
        OBVIOUS
      <4> QED BY <4>1 DEF NewestReaching, NewestAt
    <3>1. NewestAt(r)
      <4>1. r >= wpos
        BY DEF Regs
      <4> QED BY <4>1 DEF NewestReaching, NewestAt
    <3>2. image'[r] = image[r] /\ last' = last
      BY <2>0 DEF Regs
    <3> QED BY <3>1, <3>2 DEF NewestAt, Reaches
  <2> QED BY <2>1, <2>2, <2>3, <2>4, <2>5, <2>6
<1>6. CASE PublishEnds
  <2> USE <1>0, <1>6 DEF PublishEnds, Publishing, Control!EndTick, TypeOK, TickOrder
  <2>0. /\ [src |-> mode, n |-> tick] \in Stamp
        /\ wpos \in Regs
        /\ mode \in Sources
        /\ image' = [image EXCEPT ![wpos] = [src |-> mode, n |-> tick]]
    BY DEF Regs
  <2>1. TypeOK'
    <3>1. image' \in [Regs -> Stamp]
      BY <2>0
    <3>2. ticking' \in BOOLEAN /\ mode' = mode /\ published' = mode
      OBVIOUS
    <3>3. done' \in Stamp /\ before' = before /\ reply' = reply
      BY <2>0
    <3>5. last' \in [Sources \cup {"zeros"} -> Stamp]
      BY <2>0
    <3>4. tick' = tick /\ wpos' = NRegs /\ rpos' = rpos
      OBVIOUS
    <3> QED BY <2>0, <3>1, <3>2, <3>3, <3>4, <3>5
  <2>2. TickOrder'
    BY <2>0
  <2>3. PublishedPrefix'
    BY <2>0 DEF PublishedPrefix, Regs
  <2>4. NothingOlder'
    BY <2>0 DEF NothingOlder, PublishedPrefix, Regs
  <2>5. FreshReply'
    BY <2>0 DEF FreshReply, NothingOlder, Regs
  <2>6. NewestReaching'
    <3> SUFFICES ASSUME NEW r \in Regs
                 PROVE  NewestAt(r)'
      BY DEF NewestReaching, NewestAt
    <3>0. last' = [last EXCEPT ![mode] = [src |-> mode, n |-> tick]]
      OBVIOUS
    <3>1. CASE r < Width[mode]
      <4>1. image'[r] = [src |-> mode, n |-> tick]
        BY <2>0, <3>1 DEF PublishedPrefix, Regs
      <4>2. \A u \in Sources : last'[u].n <= tick
        BY <2>0, <3>0
      <4>3. last'[mode] = [src |-> mode, n |-> tick]
        BY <2>0, <3>0
      <4> QED BY <2>0, <3>1, <4>1, <4>2, <4>3 DEF NewestAt, Reaches
    <3>2. CASE ~ (r < Width[mode])
      <4>1. NewestAt(r)
        <5>1. r >= wpos
          BY <3>2 DEF Regs
        <5> QED BY <5>1 DEF NewestReaching, NewestAt
      <4>2. image'[r] = image[r]
        BY <2>0, <3>2 DEF Regs
      <4>3. \A s \in Sources \cup {"zeros"} :
              Reaches(s, r) => last'[s] = last[s]
        BY <2>0, <3>0, <3>2 DEF Reaches, Sources
      <4> QED BY <4>1, <4>2, <4>3 DEF NewestAt, Reaches
    <3> QED BY <3>1, <3>2
  <2> QED BY <2>1, <2>2, <2>3, <2>4, <2>5, <2>6
<1>7. CASE TickFails
  <2> USE <1>0, <1>7 DEF TickFails, Control!EndTick, TypeOK, TickOrder
  <2>1. TypeOK'
    OBVIOUS
  <2>2. TickOrder'
    OBVIOUS
  <2>3. PublishedPrefix'
    BY DEF PublishedPrefix, Regs
  <2>4. NothingOlder'
    BY DEF NothingOlder, PublishedPrefix, Regs
  <2>5. FreshReply'
    BY DEF FreshReply, NothingOlder, Regs
  <2>6. NewestReaching'
    BY DEF NewestReaching, Reaches, Regs
  <2> QED BY <2>1, <2>2, <2>3, <2>4, <2>5, <2>6
<1>8. CASE ReadBegins
  <2> USE <1>0, <1>8 DEF ReadBegins, TypeOK, TickOrder
  <2>1. TypeOK'
    OBVIOUS
  <2>2. TickOrder'
    OBVIOUS
  <2>3. PublishedPrefix'
    BY DEF PublishedPrefix, Regs
  <2>4. NothingOlder'
    <3>1. ASSUME NEW r \in Regs, r < Width[done.src]
          PROVE  image[r].n >= done.n
      <4>1. CASE wpos < NRegs /\ r < wpos
        BY <3>1, <4>1 DEF PublishedPrefix, Regs
      <4>2. CASE ~ (wpos < NRegs /\ r < wpos)
        <5>1. image[r] = done
          BY <3>1, <4>2 DEF PublishedPrefix
        <5> QED BY <5>1
      <4> QED BY <4>1, <4>2
    <3>2. before' = done /\ done' = done /\ image' = image
      OBVIOUS
    <3> QED BY <3>1, <3>2 DEF NothingOlder
  <2>5. FreshReply'
    BY DEF FreshReply, NothingOlder, Regs
  <2>6. NewestReaching'
    BY DEF NewestReaching, Reaches, Regs
  <2> QED BY <2>1, <2>2, <2>3, <2>4, <2>5, <2>6
<1>9. CASE ReadRegister
  <2> USE <1>0, <1>9 DEF ReadRegister, TypeOK, TickOrder
  <2>0. rpos \in Regs
    BY DEF Regs
  <2>1. TypeOK'
    BY <2>0
  <2>2. TickOrder'
    BY <2>0
  <2>3. PublishedPrefix'
    BY <2>0 DEF PublishedPrefix, Regs
  <2>4. NothingOlder'
    BY <2>0 DEF NothingOlder, PublishedPrefix, Regs
  <2>5. FreshReply'
    BY <2>0 DEF FreshReply, NothingOlder, Regs
  <2>6. NewestReaching'
    BY DEF NewestReaching, Reaches, Regs
  <2> QED BY <2>1, <2>2, <2>3, <2>4, <2>5, <2>6
<1>10. CASE UNCHANGED vars
  <2> USE <1>0, <1>10 DEF vars, TypeOK, TickOrder
  <2>1. TypeOK'
    OBVIOUS
  <2>2. TickOrder'
    OBVIOUS
  <2>3. PublishedPrefix'
    BY DEF PublishedPrefix, Regs
  <2>4. NothingOlder'
    BY DEF NothingOlder, PublishedPrefix, Regs
  <2>5. FreshReply'
    BY DEF FreshReply, NothingOlder, Regs
  <2>6. NewestReaching'
    BY DEF NewestReaching, Reaches, Regs
  <2> QED BY <2>1, <2>2, <2>3, <2>4, <2>5, <2>6
<1> QED
  BY <1>1, <1>2, <1>3, <1>4, <1>5, <1>6, <1>7, <1>8, <1>9, <1>10 DEF Next

(* The inductive invariant of the register image.                          *)
LEMMA ImageInvariance == Spec => []ImageInv
BY ImageInit, ImageNext, PTL DEF Spec

(* The variables of the register image keep their types.                   *)
THEOREM ImageTypes == Spec => []TypeOK
BY ImageInvariance, PTL DEF ImageInv

(* reMapInputRegisterValuesForAnalogics() leaves no hole: between two      *)
(* publications every register that the last tick covers holds that tick,  *)
(* for any number of registers and widths.                                 *)
THEOREM PrefixHolds == Spec => []PublishedPrefix
BY ImageInvariance, PTL DEF ImageInv

(* A reply of modbus_reply() never goes back behind the last tick that was *)
(* published before it began, although it takes no mutex.                  *)
THEOREM Freshness == Spec => []FreshReply
BY ImageInvariance, PTL DEF ImageInv

(* What a register holds that the last tick does not reach is the newest   *)
(* value that did reach it, for any two widths.                            *)
THEOREM NewestStays == Spec => []NewestReaching
BY ImageInvariance, PTL DEF ImageInv

----------------------------------------------------------------------------
(* The clean slate.                                                        *)

(* A simulated tick leaves nothing above its own width.                    *)
SimulatedOnlyInWidth ==
  \A r \in Regs : image[r].src = "simulate" => r < Width["simulate"]

(* Only a simulated tick writes simulated values, below its width.         *)
LEMMA SlateNext ==
  ASSUME ImageInv, SimulatedOnlyInWidth, [Next]_vars
  PROVE  SimulatedOnlyInWidth'
<1> USE DEF tickVars, readVars, runVars, SimulatedOnlyInWidth
<1>1. CASE UNCHANGED image
  BY <1>1
<1>2. ASSUME wpos < NRegs,
             image' = [image EXCEPT ![wpos] = [src |-> mode, n |-> tick]]
      PROVE  SimulatedOnlyInWidth'
  <2>1. image \in [Regs -> Stamp] /\ wpos < Width[mode]
    BY <1>2 DEF ImageInv, TypeOK, TickOrder
  <2> SUFFICES ASSUME NEW r \in Regs, image'[r].src = "simulate"
               PROVE  r < Width["simulate"]
    OBVIOUS
  <2>2. CASE r = wpos
    BY <1>2, <2>1, <2>2
  <2>3. CASE r # wpos
    BY <1>2, <2>1, <2>3
  <2> QED BY <2>2, <2>3
<1>3. ASSUME wpos + 1 <= Width[mode], ticking
      PROVE  wpos < NRegs
  <2>1. mode \in Sources /\ wpos \in 0 .. NRegs
    BY <1>3 DEF ImageInv, TypeOK, TickOrder
  <2> QED BY <1>3, <2>1, WidthType
<1>4. CASE WriteRegister
  <2>1. wpos + 1 <= Width[mode] /\ ticking
    <3>1. mode \in Sources /\ wpos \in 0 .. NRegs
      BY <1>4 DEF WriteRegister, Publishing, ImageInv, TypeOK, TickOrder
    <3> QED BY <1>4, <3>1, WidthType DEF WriteRegister, Publishing
  <2> QED BY <1>2, <1>3, <1>4, <2>1 DEF WriteRegister
<1>5. CASE PublishEnds
  <2>1. wpos + 1 <= Width[mode] /\ ticking
    <3>1. mode \in Sources /\ wpos \in 0 .. NRegs
      BY <1>5 DEF PublishEnds, Publishing, ImageInv, TypeOK, TickOrder
    <3> QED BY <1>5, <3>1, WidthType DEF PublishEnds, Publishing
  <2> QED BY <1>2, <1>3, <1>5, <2>1 DEF PublishEnds
<1> QED
  BY <1>1, <1>4, <1>5 DEF Next, vars, EnterSource, LeaveSource, TickBegins,
     PublishBegins, TickFails, ReadBegins, ReadRegister

(* When a simulated tick is no wider than an acquired one, which           *)
(* WidthsCompare says of the rig's settings, a published acquisition       *)
(* leaves no simulated value in any register.                              *)
THEOREM SlateIsClean ==
  ASSUME Width["simulate"] <= Width["acquire"]
  PROVE  Spec => []CleanSlate
<1>1. Init => SimulatedOnlyInWidth
  BY DEF Init, Zeros, SimulatedOnlyInWidth
<1>2. ImageInv /\ SimulatedOnlyInWidth => CleanSlate
  <2> SUFFICES ASSUME ImageInv, SimulatedOnlyInWidth, wpos = NRegs,
                      done.src = "acquire", NEW r \in Regs
               PROVE  image[r].src # "simulate"
    BY DEF CleanSlate
  <2>1. CASE r < Width["acquire"]
    BY <2>1, WidthType DEF ImageInv, PublishedPrefix
  <2>2. CASE ~ (r < Width["acquire"])
    BY <2>2, WidthType DEF SimulatedOnlyInWidth, Regs, Sources
  <2> QED BY <2>1, <2>2
<1> QED
  BY <1>1, <1>2, SlateNext, ImageInvariance, PTL DEF Spec

----------------------------------------------------------------------------
(* The widths that the rig's settings give the two sources.                *)

(* SensorRigUpStruct with loadConfig()'s numbers: none of them is negative.*)
Rig == [modeSRU : BOOLEAN, analogsIn : Nat, analogsOut : Nat, counters : Nat, coders : Nat]

(* What the registers of a simulated tick stand for.                       *)
Words == {"shift", "analog", "frequency", "high", "low"}

(* Short sequences of them.                                                *)
LEMMA ShortSeq ==
  ASSUME NEW a \in Words, NEW b \in Words, NEW c \in Words
  PROVE  /\ <<>> \in Seq(Words) /\ Len(<<>>) = 0
         /\ <<a>> \in Seq(Words) /\ Len(<<a>>) = 1
         /\ <<a, b>> \in Seq(Words) /\ Len(<<a, b>>) = 2
         /\ <<a, b, c>> \in Seq(Words) /\ Len(<<a, b, c>>) = 3
OBVIOUS

(* A pattern of one, two or three words, repeated n times, is as long.     *)
LEMMA RepeatedLen ==
  ASSUME NEW n \in Nat, NEW words \in Seq(Words), Len(words) \in 1 .. 3
  PROVE  Repeated(n, words) \in Seq(Words) /\ Len(Repeated(n, words)) = n * Len(words)
<1> DEFINE k == n * Len(words)
<1>1. k \in Nat
  BY LenProperties
<1>2. ASSUME NEW i \in 1 .. k PROVE words[((i - 1) % Len(words)) + 1] \in Words
  <2>1. ((i - 1) % Len(words)) + 1 \in 1 .. Len(words)
    <3>1. i - 1 \in Nat
      BY <1>1
    <3>2. CASE Len(words) = 1
      BY <3>1, <3>2
    <3>3. CASE Len(words) = 2
      BY <3>1, <3>3
    <3>4. CASE Len(words) = 3
      BY <3>1, <3>4
    <3> QED BY <3>2, <3>3, <3>4
  <2> QED BY <2>1, ElementOfSeq
<1>3. Repeated(n, words) = [i \in 1 .. k |-> words[((i - 1) % Len(words)) + 1]]
  BY DEF Repeated
<1> HIDE DEF k
<1>4. Repeated(n, words) \in [1 .. k -> Words]
  BY <1>2, <1>3
<1>5. Repeated(n, words) \in Seq(Words) /\ Len(Repeated(n, words)) = k
  BY <1>1, <1>4
<1> QED BY <1>5 DEF k

(* How many registers onSimulationTimerTimeOut() puts together.            *)
LEMMA SimulatedLen ==
  ASSUME NEW sru \in Rig
  PROVE  Len(SimulatedTick(sru)) =
           (IF sru.modeSRU THEN 1 ELSE 0)
             + sru.analogsIn + 3 * sru.counters + 2 * sru.coders
<1> DEFINE head == IF sru.modeSRU THEN <<"shift">> ELSE <<>>
           analogs == Repeated(sru.analogsIn, <<"analog">>)
           counters == Repeated(sru.counters, <<"frequency", "high", "low">>)
           coders == Repeated(sru.coders, <<"high", "low">>)
<1>1. sru.analogsIn \in Nat /\ sru.counters \in Nat /\ sru.coders \in Nat
  BY DEF Rig
<1>2. head \in Seq(Words) /\ Len(head) = IF sru.modeSRU THEN 1 ELSE 0
  BY ShortSeq DEF Rig, Words
<1>3. analogs \in Seq(Words) /\ Len(analogs) = sru.analogsIn
  <2>1. <<"analog">> \in Seq(Words) /\ Len(<<"analog">>) = 1
    BY ShortSeq DEF Words
  <2>2. PICK w \in Seq(Words) : w = <<"analog">>
    BY <2>1
  <2>3. Len(w) = 1 /\ Len(w) \in 1 .. 3
    BY <2>1, <2>2
  <2>4. Repeated(sru.analogsIn, w) \in Seq(Words) /\ Len(Repeated(sru.analogsIn, w)) = sru.analogsIn * Len(w)
    BY <1>1, <2>3, RepeatedLen
  <2> HIDE DEF analogs
  <2>5. analogs = Repeated(sru.analogsIn, w)
    BY <2>2 DEF analogs
  <2> QED BY <1>1, <2>3, <2>4, <2>5
<1>4. counters \in Seq(Words) /\ Len(counters) = 3 * sru.counters
  <2>1. /\ <<"frequency", "high", "low">> \in Seq(Words)
        /\ Len(<<"frequency", "high", "low">>) = 3
    BY ShortSeq DEF Words
  <2>2. PICK w \in Seq(Words) : w = <<"frequency", "high", "low">>
    BY <2>1
  <2>3. Len(w) = 3 /\ Len(w) \in 1 .. 3
    BY <2>1, <2>2
  <2>4. Repeated(sru.counters, w) \in Seq(Words) /\ Len(Repeated(sru.counters, w)) = sru.counters * Len(w)
    BY <1>1, <2>3, RepeatedLen
  <2> HIDE DEF counters
  <2>5. counters = Repeated(sru.counters, w)
    BY <2>2 DEF counters
  <2> QED BY <1>1, <2>3, <2>4, <2>5
<1>5. coders \in Seq(Words) /\ Len(coders) = 2 * sru.coders
  <2>1. <<"high", "low">> \in Seq(Words) /\ Len(<<"high", "low">>) = 2
    BY ShortSeq DEF Words
  <2>2. PICK w \in Seq(Words) : w = <<"high", "low">>
    BY <2>1
  <2>3. Len(w) = 2 /\ Len(w) \in 1 .. 3
    BY <2>1, <2>2
  <2>4. Repeated(sru.coders, w) \in Seq(Words) /\ Len(Repeated(sru.coders, w)) = sru.coders * Len(w)
    BY <1>1, <2>3, RepeatedLen
  <2> HIDE DEF coders
  <2>5. coders = Repeated(sru.coders, w)
    BY <2>2 DEF coders
  <2> QED BY <1>1, <2>3, <2>4, <2>5
<1>6. SimulatedTick(sru) = ((head \o analogs) \o counters) \o coders
  BY DEF SimulatedTick, SimulateAnalogicInputs, SimulateCounters, SimulateCoders
<1> HIDE DEF head, analogs, counters, coders
<1>7. /\ head \o analogs \in Seq(Words)
      /\ Len(head \o analogs) = Len(head) + Len(analogs)
  BY <1>2, <1>3, ConcatProperties
<1>8. /\ (head \o analogs) \o counters \in Seq(Words)
      /\ Len((head \o analogs) \o counters) = Len(head \o analogs) + Len(counters)
  BY <1>4, <1>7, ConcatProperties
<1>9. Len(SimulatedTick(sru)) = Len((head \o analogs) \o counters) + Len(coders)
  BY <1>5, <1>6, <1>8, ConcatProperties
<1> QED BY <1>1, <1>2, <1>3, <1>4, <1>5, <1>7, <1>8, <1>9

(* onSimulationTimerTimeOut() and startAcquisition() count a tick's        *)
(* registers each in its own way. A simulated tick is no wider than an     *)
(* acquired one exactly if the register that the compatibility mode adds   *)
(* has its place among those of the analogue outputs, or is cut off with   *)
(* what goes beyond the 125 registers of a read.                           *)
THEOREM WidthsCompare ==
  ASSUME NEW sru \in Rig
  PROVE  WidthFor(sru).simulate <= WidthFor(sru).acquire <=>
           \/ ~ sru.modeSRU
           \/ sru.analogsOut >= 1
           \/ LineSize(sru) >= MODBUS_MAX_READ_REGISTERS
<1> DEFINE n == sru.analogsIn + 3 * sru.counters + 2 * sru.coders
           m == LineSize(sru)
           l == Len(SimulatedTick(sru))
<1>1. sru.analogsOut \in Nat /\ n \in Nat /\ sru.modeSRU \in BOOLEAN
  BY DEF Rig
<1>2. m = n + sru.analogsOut
  BY DEF LineSize, Rig
<1>3. l = IF sru.modeSRU THEN n + 1 ELSE n
  BY SimulatedLen, <1>1 DEF Rig
<1>4. /\ WidthFor(sru).simulate = IF l < 125 THEN l ELSE 125
      /\ WidthFor(sru).acquire = IF m < 125 THEN m ELSE 125
  BY DEF WidthFor, RegistersToWrite, MODBUS_MAX_READ_REGISTERS
<1> HIDE DEF n, m, l
<1>5. m \in Nat /\ l \in Nat
  BY <1>1, <1>2, <1>3
<1>6. CASE ~ sru.modeSRU
  BY <1>1, <1>2, <1>3, <1>4, <1>5, <1>6
<1>7. CASE sru.modeSRU
  <2>1. l = n + 1
    BY <1>3, <1>7
  <2>2. l <= m <=> sru.analogsOut >= 1
    BY <1>1, <1>2, <2>1
  <2>3. WidthFor(sru).simulate <= WidthFor(sru).acquire <=> l <= m \/ m >= 125
    BY <1>1, <1>4, <1>5, <2>1
  <2>4. m = LineSize(sru)
    BY DEF m
  <2> QED BY <1>7, <2>2, <2>3, <2>4 DEF MODBUS_MAX_READ_REGISTERS
<1> QED BY <1>6, <1>7

(* Hence the clean slate is a matter of the rig's settings alone.          *)
THEOREM SlateOfRig ==
  ASSUME NEW sru \in Rig,
         \A s \in Sources : Width[s] = WidthFor(sru)[s],
         ~ sru.modeSRU \/ sru.analogsOut >= 1
  PROVE  Spec => []CleanSlate
<1>1. Width["simulate"] <= Width["acquire"]
  BY WidthsCompare DEF Sources
<1> QED BY <1>1, SlateIsClean

============================================================================
