-------------------------- MODULE RelayPathProofs ---------------------------
(***************************************************************************)
(* Theorems of RelayPath, for any masters, requests, mapping and number of *)
(* relays: an acknowledged write has been driven, whatever the simulation  *)
(* does meanwhile, and a relay whose commander's requests are worked off   *)
(* is as it was asked for last.                                            *)
(***************************************************************************)
EXTENDS RelayPath, WellFoundedInduction, TLAPS

Typed ==
  /\ inbox \in [Masters -> Seq(Request)]
  /\ \A m \in Masters : \A i \in DOMAIN inbox[m] : inbox[m][i] \in Asks[m]
  /\ \A m \in Masters : latest[m] # <<>> => latest[m][1] \in Asks[m]
  /\ DOMAIN latest = Masters
  /\ inside = [t \in Threads |-> inside[t]]

(* alarmsMutex: one relay is driven at a time.                             *)
OneInside == inside["server"] = -1 \/ inside["simulation"] = -1

(* The thread is inside setRelayState() for a mapped coil of its request,  *)
(* and has no coils without a request.                                     *)
InsideForCoil ==
  /\ inside["server"] # -1 => coils # <<>> /\ Mapped(coils[1].coil)
  /\ serving = NoMaster => coils = <<>>

(* A single write, while it is served: not driven yet, or driven.          *)
Stage ==
  serving # NoMaster /\ request.kind = "one" =>
    /\ coils # <<>> => /\ coils \in Seq([coil : Addresses, state : BOOLEAN])
                       /\ Len(coils) = 1
                       /\ coils[1].coil = request.coil
    /\ coils = <<>> /\ Mapped(request.coil) => outcome \in {"done", "driver"}

RelayInv == Typed /\ OneInside /\ InsideForCoil /\ Stage

LEMMA AsksFact ==
  ASSUME NEW m \in Masters, NEW q \in Asks[m]
  PROVE  q \in Request /\ (q.kind = "one" => Len(q.values) = 1)
BY RelayAssumption

CoilType == [coil : Addresses, state : BOOLEAN]

(* The coils of a request are those of its bits, in their order.           *)
LEMMA CoilsFacts ==
  ASSUME NEW q \in Request
  PROVE  /\ CoilsOf(q) \in Seq(CoilType)
         /\ Len(CoilsOf(q)) = Len(q.values) /\ Len(q.values) \in Nat
         /\ DOMAIN CoilsOf(q) = DOMAIN q.values
         /\ \A i \in DOMAIN q.values : /\ CoilsOf(q)[i].coil = CoilAt(q, i)
                                       /\ CoilsOf(q)[i].state = q.values[i]
<1> DEFINE x == q.coil
<1>1. x \in Nat /\ q.values \in Seq(BOOLEAN)
  <2>1. x \in Addresses /\ q.values \in Seq(BOOLEAN)
    BY DEF Request
  <2> HIDE DEF x
  <2>2. x \in Nat
    BY <2>1 DEF Addresses
  <2> QED BY <2>1, <2>2
<1>2. Len(q.values) \in Nat /\ DOMAIN q.values = 1 .. Len(q.values)
  BY <1>1
<1>3. ASSUME NEW i \in 1 .. Len(q.values)
      PROVE  CoilAt(q, i) \in Addresses /\ q.values[i] \in BOOLEAN
  <2>1. CoilAt(q, i) = (x + i - 1) % 65536
    BY DEF CoilAt
  <2> HIDE DEF x
  <2>2. x + i - 1 \in Int
    BY <1>1, <1>2
  <2>3. ASSUME NEW y \in Int PROVE y % 65536 \in Addresses
    BY DEF Addresses
  <2>4. CoilAt(q, i) \in Addresses
    BY <2>1, <2>2, <2>3
  <2>5. q.values[i] \in BOOLEAN
    BY <1>1
  <2> QED BY <2>4, <2>5
<1> DEFINE c(i) == [coil |-> CoilAt(q, i), state |-> q.values[i]]
<1>4. \A i \in 1 .. Len(q.values) : c(i) \in CoilType
  BY <1>3 DEF CoilType
<1>5. CoilsOf(q) = [i \in 1 .. Len(q.values) |-> c(i)]
  BY DEF CoilsOf
<1>6. \A i \in 1 .. Len(q.values) : CoilsOf(q)[i] = c(i)
  BY <1>5
<1>7. CoilsOf(q) \in Seq(CoilType) /\ Len(CoilsOf(q)) = Len(q.values)
  <2> DEFINE n == Len(q.values)
  <2> HIDE DEF c, n
  <2>1. CoilsOf(q) = [i \in 1 .. n |-> c(i)] /\ n \in Nat /\ \A i \in 1 .. n : c(i) \in CoilType
    BY <1>2, <1>4, <1>5 DEF n
  <2>2. CoilsOf(q) \in Seq(CoilType) /\ Len(CoilsOf(q)) = n
    BY <2>1
  <2> QED BY <2>2 DEF n
<1> QED BY <1>2, <1>5, <1>6, <1>7

(* The coils of a single write.                                            *)
LEMMA OneCoil ==
  ASSUME NEW q \in Request, Len(q.values) = 1
  PROVE  /\ CoilsOf(q) \in Seq([coil : Addresses, state : BOOLEAN])
         /\ Len(CoilsOf(q)) = 1
         /\ CoilsOf(q)[1].coil = q.coil
<1> DEFINE x == q.coil
<1>1. x \in Addresses /\ q.values \in Seq(BOOLEAN)
  BY DEF Request
<1>2. CoilAt(q, 1) = (x + 1 - 1) % 65536
  BY DEF CoilAt
<1> HIDE DEF x
<1>3. (x + 1 - 1) % 65536 = x
  <2>1. x \in Int /\ 0 <= x /\ x <= 65535
    BY <1>1 DEF Addresses
  <2>2. x + 1 - 1 = x
    BY <2>1
  <2>3. x % 65536 = x
    BY <2>1
  <2> QED BY <2>2, <2>3
<1>4. 1 \in DOMAIN q.values
  BY <1>1
<1>5. CoilsOf(q)[1].coil = CoilAt(q, 1)
  BY <1>4, CoilsFacts
<1>6. CoilsOf(q) \in Seq(CoilType) /\ Len(CoilsOf(q)) = 1
  BY CoilsFacts
<1> QED BY <1>2, <1>3, <1>5, <1>6 DEF CoilType, x

LEMMA RelayInit == Init => RelayInv
BY DEF Init, RelayInv, Typed, OneInside, InsideForCoil, Stage, Threads

(* alarmsMutex is taken and given back by one thread at a time.            *)
LEMMA DriveKeeps ==
  ASSUME inside = [u \in Threads |-> inside[u]], OneInside,
         NEW t \in Threads, NEW r, Drive(t, r)
  PROVE  /\ inside' = [u \in Threads |-> inside'[u]]
         /\ OneInside'
         /\ \A u \in Threads \ {t} : inside'[u] = inside[u]
BY DEF Drive, OneInside, Threads

LEMMA EndsKeeps ==
  ASSUME inside = [u \in Threads |-> inside[u]], OneInside,
         NEW t \in Threads, NEW state, NEW how \in Endings, Ends(t, state, how)
  PROVE  /\ inside' = [u \in Threads |-> inside'[u]]
         /\ OneInside' /\ inside'[t] = -1
         /\ \A u \in Threads \ {t} : inside'[u] = inside[u]
         /\ how \in {"done", "driver"}
<1>1. /\ inside' = [inside EXCEPT ![t] = -1] /\ inside[t] # -1
      /\ how = "conflict" => \E u \in Threads \ {t} : inside[u] = inside[t]
  BY DEF Ends
<1>2. \A u \in Threads \ {t} : inside[u] = -1
  BY <1>1 DEF OneInside, Threads
<1>3. how # "conflict"
  BY <1>1, <1>2
<1> QED BY <1>1, <1>2, <1>3 DEF OneInside, Threads, Endings

LEMMA MastersKeep ==
  ASSUME RelayInv, NEW m \in Masters,
         (\E q \in Asks[m] : Ask(m, q)) \/ Repeat(m) \/ EndsBurst(m)
  PROVE  RelayInv'
<1>1. UNCHANGED <<serving, request, coils, outcome, inside>>
  BY DEF Ask, Repeat, EndsBurst, serverVars, outputs
<1>2. (OneInside /\ InsideForCoil /\ Stage)'
  BY <1>1 DEF RelayInv, OneInside, InsideForCoil, Stage
<1>3. Typed'
  <2>1. CASE \E q \in Asks[m] : Ask(m, q)
    <3>1. PICK q \in Asks[m] : Ask(m, q)
      BY <2>1
    <3>2. q \in Request
      BY AsksFact
    <3>3. /\ inbox' = [inbox EXCEPT ![m] = Append(@, q)]
          /\ latest' = [latest EXCEPT ![m] = <<q>>]
      BY <3>1 DEF Ask
    <3>4. inbox[m] \in Seq(Request) /\ \A i \in DOMAIN inbox[m] : inbox[m][i] \in Asks[m]
      BY DEF RelayInv, Typed
    <3>5. /\ Append(inbox[m], q) \in Seq(Request)
          /\ \A i \in DOMAIN Append(inbox[m], q) : Append(inbox[m], q)[i] \in Asks[m]
      BY <3>2, <3>4
    <3>6. /\ inbox' \in [Masters -> Seq(Request)]
          /\ \A n \in Masters : \A i \in DOMAIN inbox'[n] : inbox'[n][i] \in Asks[n]
      BY <3>3, <3>5 DEF RelayInv, Typed
    <3>7. /\ DOMAIN latest' = Masters
          /\ \A n \in Masters : latest'[n] # <<>> => latest'[n][1] \in Asks[n]
      BY <3>3 DEF RelayInv, Typed
    <3> QED BY <1>1, <3>6, <3>7 DEF RelayInv, Typed
  <2>2. CASE Repeat(m)
    <3> DEFINE q == latest[m][1]
    <3>1. /\ q \in Asks[m]
          /\ inbox' = [inbox EXCEPT ![m] = Append(@, q)]
          /\ latest' = latest
      BY <2>2 DEF Repeat, RelayInv, Typed
    <3>2. q \in Request
      BY <3>1, AsksFact
    <3> HIDE DEF q
    <3>3. inbox[m] \in Seq(Request) /\ \A i \in DOMAIN inbox[m] : inbox[m][i] \in Asks[m]
      BY DEF RelayInv, Typed
    <3>4. /\ Append(inbox[m], q) \in Seq(Request)
          /\ \A i \in DOMAIN Append(inbox[m], q) : Append(inbox[m], q)[i] \in Asks[m]
      BY <3>1, <3>2, <3>3
    <3>5. /\ inbox' \in [Masters -> Seq(Request)]
          /\ \A n \in Masters : \A i \in DOMAIN inbox'[n] : inbox'[n][i] \in Asks[n]
      BY <3>1, <3>4 DEF RelayInv, Typed
    <3> QED BY <1>1, <3>1, <3>5 DEF RelayInv, Typed
  <2>3. CASE EndsBurst(m)
    BY <1>1, <2>3 DEF EndsBurst, masterVars, RelayInv, Typed
  <2> QED BY <2>1, <2>2, <2>3
<1> QED BY <1>2, <1>3 DEF RelayInv

LEMMA ReceiveKeeps ==
  ASSUME RelayInv, NEW m \in Masters, Receive(m)
  PROVE  RelayInv'
<1> DEFINE q == Head(inbox[m])
<1>1. /\ inbox[m] \in Seq(Request) /\ inbox[m] # <<>>
      /\ \A i \in DOMAIN inbox[m] : inbox[m][i] \in Asks[m]
  BY DEF RelayInv, Typed, Receive
<1>2. q \in Asks[m]
  BY <1>1
<1>3. /\ Tail(inbox[m]) \in Seq(Request)
      /\ \A i \in DOMAIN Tail(inbox[m]) : Tail(inbox[m])[i] \in Asks[m]
  BY <1>1
<1>4. /\ request' = q /\ coils' = CoilsOf(q) /\ outcome' = "none"
      /\ inbox' = [inbox EXCEPT ![m] = Tail(@)]
      /\ UNCHANGED <<latest, inside>>
  BY DEF Receive, outputs
<1> HIDE DEF q
<1>5. Typed'
  BY <1>3, <1>4 DEF RelayInv, Typed
<1>6. q \in Request /\ (q.kind = "one" => Len(q.values) = 1)
  BY <1>2, AsksFact
<1>7. Stage'
  <2>1. SUFFICES ASSUME q.kind = "one"
                 PROVE  /\ CoilsOf(q) \in Seq([coil : Addresses, state : BOOLEAN])
                        /\ Len(CoilsOf(q)) = 1
                        /\ CoilsOf(q)[1].coil = q.coil
                        /\ CoilsOf(q) # <<>>
    BY <1>4 DEF Stage
  <2>2. q \in Request /\ Len(q.values) = 1
    BY <1>6, <2>1
  <2>3. /\ CoilsOf(q) \in Seq([coil : Addresses, state : BOOLEAN])
        /\ Len(CoilsOf(q)) = 1
        /\ CoilsOf(q)[1].coil = q.coil
    BY <2>2, OneCoil
  <2>4. \A c : Len(c) = 1 => c # <<>>
    <3>1. Len(<<>>) = 0
      OBVIOUS
    <3> QED BY <3>1
  <2>5. CoilsOf(q) # <<>>
    BY <2>3, <2>4
  <2> QED BY <2>3, <2>5
<1>8. serving = NoMaster /\ serving' = m /\ m # NoMaster
  BY RelayAssumption DEF Receive
<1>9. inside["server"] = -1
  BY <1>8 DEF RelayInv, InsideForCoil
<1>10. (OneInside /\ InsideForCoil)'
  BY <1>4, <1>8, <1>9 DEF RelayInv, OneInside, InsideForCoil
<1> QED BY <1>5, <1>7, <1>10 DEF RelayInv

(* A coil without relay, or one whose drive has ended, leaves a single     *)
(* write with nothing more to do.                                          *)
LEMMA LastCoil ==
  ASSUME RelayInv, coils # <<>>, request.kind = "one",
         coils' = Tail(coils)
  PROVE  coils' = <<>> /\ coils[1].coil = request.coil
<1>1. serving # NoMaster
  BY DEF RelayInv, InsideForCoil
<1>2. /\ coils \in Seq([coil : Addresses, state : BOOLEAN])
      /\ Len(coils) = 1
      /\ coils[1].coil = request.coil
  BY <1>1 DEF RelayInv, Stage
<1>3. Tail(coils) = <<>>
  BY <1>2
<1> QED BY <1>2, <1>3

LEMMA SkipKeeps ==
  ASSUME RelayInv, SkipCoil
  PROVE  RelayInv'
<1>1. /\ coils # <<>> /\ ~Mapped(coils[1].coil) /\ coils' = Tail(coils)
      /\ UNCHANGED <<inbox, latest, serving, request, outcome, inside>>
  BY DEF SkipCoil, masterVars, outputs
<1>2. inside["server"] = -1 /\ serving # NoMaster
  BY <1>1 DEF RelayInv, InsideForCoil
<1>3. (Typed /\ OneInside)'
  BY <1>1 DEF RelayInv, Typed, OneInside
<1>4. InsideForCoil'
  BY <1>1, <1>2 DEF InsideForCoil
<1>5. Stage'
  <2>1. SUFFICES ASSUME request.kind = "one"
                 PROVE  Stage'
    BY <1>1 DEF Stage
  <2>2. coils' = <<>> /\ coils[1].coil = request.coil
    BY <1>1, <2>1, LastCoil
  <2>3. ~Mapped(request.coil)
    BY <1>1, <2>2
  <2>4. ~Mapped(request.coil)'
    BY <1>1, <2>3 DEF Mapped, Matches
  <2> QED BY <2>2, <2>4 DEF Stage
<1> QED BY <1>3, <1>4, <1>5 DEF RelayInv

LEMMA DriveCoilKeeps ==
  ASSUME RelayInv, DriveCoil
  PROVE  RelayInv'
<1>1. /\ coils # <<>> /\ Mapped(coils[1].coil)
      /\ Drive("server", RelayOf(coils[1].coil))
      /\ UNCHANGED <<inbox, latest, serving, request, coils, outcome>>
  BY DEF DriveCoil, masterVars, serverVars
<1>2. inside' = [u \in Threads |-> inside'[u]] /\ OneInside'
  BY <1>1, DriveKeeps DEF RelayInv, Typed, Threads
<1>3. Typed'
  BY <1>1, <1>2 DEF RelayInv, Typed
<1>4. InsideForCoil'
  BY <1>1 DEF RelayInv, InsideForCoil, Mapped, Matches
<1>5. Stage'
  BY <1>1 DEF RelayInv, Stage, Mapped, Matches
<1> QED BY <1>2, <1>3, <1>4, <1>5 DEF RelayInv

LEMMA CoilWrittenKeeps ==
  ASSUME RelayInv, CoilWritten
  PROVE  RelayInv'
<1>1. PICK how \in Endings : Ends("server", coils[1].state, how) /\ outcome' = how
  BY DEF CoilWritten
<1>2. /\ coils' = Tail(coils)
      /\ UNCHANGED <<inbox, latest, serving, request>>
  BY DEF CoilWritten, masterVars
<1>3. /\ inside' = [u \in Threads |-> inside'[u]]
      /\ OneInside' /\ inside'["server"] = -1
      /\ how \in {"done", "driver"}
  BY <1>1, EndsKeeps DEF RelayInv, Typed, Threads
<1>4. coils # <<>> /\ serving # NoMaster
  BY <1>1 DEF Ends, RelayInv, InsideForCoil
<1>5. Typed'
  BY <1>2, <1>3 DEF RelayInv, Typed
<1>6. InsideForCoil'
  BY <1>2, <1>3, <1>4 DEF InsideForCoil
<1>7. Stage'
  <2>1. SUFFICES ASSUME request.kind = "one"
                 PROVE  Stage'
    BY <1>2 DEF Stage
  <2>2. coils' = <<>>
    BY <1>2, <1>4, <2>1, LastCoil
  <2> QED BY <1>1, <1>3, <2>2 DEF Stage
<1> QED BY <1>3, <1>5, <1>6, <1>7 DEF RelayInv

LEMMA AnswerKeeps ==
  ASSUME RelayInv, Answer
  PROVE  RelayInv'
<1>1. /\ serving' = NoMaster /\ coils' = <<>> /\ coils = <<>>
      /\ UNCHANGED <<inbox, latest, inside>>
  BY DEF Answer, Answered, masterVars, outputs
<1>2. inside["server"] = -1
  BY <1>1 DEF RelayInv, InsideForCoil
<1>3. (Typed /\ OneInside)'
  BY <1>1 DEF RelayInv, Typed, OneInside
<1>4. (InsideForCoil /\ Stage)'
  BY <1>1, <1>2 DEF InsideForCoil, Stage
<1> QED BY <1>3, <1>4 DEF RelayInv

(* The simulation takes and gives back alarmsMutex, and touches no request.*)
LEMMA SimulationKeeps ==
  ASSUME RelayInv,
         \/ DriveLine \/ LineWritten \/ TickEnds
         \/ SimulationStarts \/ SimulationStops \/ TickBegins
  PROVE  RelayInv'
<1>1. UNCHANGED <<inbox, latest, serving, request, coils, outcome>>
  BY DEF DriveLine, LineWritten, TickEnds, SimulationStarts, SimulationStops,
         TickBegins, masterVars, serverVars
<1>2. /\ inside' = [u \in Threads |-> inside'[u]]
      /\ OneInside'
      /\ inside'["server"] = inside["server"]
  <2>1. CASE DriveLine
    <3>1. Drive("simulation", line)
      BY <2>1 DEF DriveLine
    <3> QED BY <3>1, DriveKeeps DEF RelayInv, Typed, Threads
  <2>2. CASE LineWritten
    <3>1. PICK how \in Endings : Ends("simulation", Lit(line), how)
      BY <2>2 DEF LineWritten
    <3> QED BY <3>1, EndsKeeps DEF RelayInv, Typed, Threads
  <2>3. CASE TickEnds \/ SimulationStarts \/ SimulationStops \/ TickBegins
    <3>1. inside' = inside
      BY <2>3 DEF TickEnds, SimulationStarts, SimulationStops, TickBegins, outputs
    <3> QED BY <3>1 DEF RelayInv, Typed, OneInside
  <2> QED BY <2>1, <2>2, <2>3
<1>3. Typed'
  BY <1>1, <1>2 DEF RelayInv, Typed
<1>4. InsideForCoil'
  BY <1>1, <1>2 DEF RelayInv, InsideForCoil, Mapped, Matches
<1>5. Stage'
  BY <1>1 DEF RelayInv, Stage, Mapped, Matches
<1> QED BY <1>2, <1>3, <1>4, <1>5 DEF RelayInv

LEMMA RelayStep ==
  ASSUME RelayInv, [Next]_vars
  PROVE  RelayInv'
<1>1. CASE \E m \in Masters : (\E q \in Asks[m] : Ask(m, q)) \/ Repeat(m) \/ EndsBurst(m)
  <2>1. PICK m \in Masters : (\E q \in Asks[m] : Ask(m, q)) \/ Repeat(m) \/ EndsBurst(m)
    BY <1>1
  <2> QED BY <2>1, MastersKeep
<1>2. CASE \E m \in Masters : Receive(m)
  BY <1>2, ReceiveKeeps
<1>3. CASE SkipCoil
  BY <1>3, SkipKeeps
<1>4. CASE DriveCoil
  BY <1>4, DriveCoilKeeps
<1>5. CASE CoilWritten
  BY <1>5, CoilWrittenKeeps
<1>6. CASE Answer
  BY <1>6, AnswerKeeps
<1>7. CASE \/ DriveLine \/ LineWritten \/ TickEnds
           \/ SimulationStarts \/ SimulationStops \/ TickBegins
  BY <1>7, SimulationKeeps
<1>8. CASE UNCHANGED vars
  <2>1. UNCHANGED <<inbox, latest, serving, request, coils, outcome, inside>>
    BY <1>8 DEF vars, masterVars, serverVars, outputs
  <2>2. (Typed /\ OneInside)'
    BY <2>1 DEF RelayInv, Typed, OneInside
  <2>3. (InsideForCoil /\ Stage)'
    BY <2>1 DEF RelayInv, InsideForCoil, Stage, Mapped, Matches
  <2> QED BY <2>2, <2>3 DEF RelayInv
<1> QED
  BY <1>1, <1>2, <1>3, <1>4, <1>5, <1>6, <1>7, <1>8 DEF Next, Server, Simulation

(* Only Answer leaves a request; it has nothing more to drive then.        *)
LEMMA OnlyAnswerFrees ==
  ASSUME Next, RelayInv, serving # NoMaster, serving' = NoMaster
  PROVE  coils = <<>>
<1>1. CASE \E m \in Masters : (\E q \in Asks[m] : Ask(m, q)) \/ Repeat(m) \/ EndsBurst(m)
  BY <1>1 DEF Ask, Repeat, EndsBurst, serverVars
<1>2. CASE \E m \in Masters : Receive(m)
  BY <1>2 DEF Receive
<1>3. CASE SkipCoil \/ DriveCoil \/ CoilWritten
  BY <1>3 DEF SkipCoil, DriveCoil, CoilWritten, serverVars
<1>4. CASE Answer
  BY <1>4 DEF Answer
<1>5. CASE \/ DriveLine \/ LineWritten \/ TickEnds
           \/ SimulationStarts \/ SimulationStops \/ TickBegins
  BY <1>5 DEF DriveLine, LineWritten, TickEnds, SimulationStarts, SimulationStops,
              TickBegins, serverVars
<1> QED BY <1>1, <1>2, <1>3, <1>4, <1>5 DEF Next, Server, Simulation

(* A write of one coil that is acknowledged, and whose coil has a relay,   *)
(* has been given to the driver before, and no other thread had the line   *)
(* reserved: acknowledgeSingleCoilWriting() comes after setRelays(), which *)
(* holds alarmsMutex.                                                      *)
THEOREM AckHonest == Spec => AckIsDriven
<1>1. Init => RelayInv
  BY RelayInit
<1>2. RelayInv /\ [Next]_vars => RelayInv'
  BY RelayStep
<1>3. RelayInv /\ [Next]_vars =>
        [(serving # NoMaster /\ serving' = NoMaster /\ Acknowledged
            /\ Mapped(request.coil)) => outcome \in {"done", "driver"}]_vars
  <2>1. SUFFICES ASSUME RelayInv, Next, serving # NoMaster, serving' = NoMaster,
                        Acknowledged, Mapped(request.coil)
                 PROVE  outcome \in {"done", "driver"}
    OBVIOUS
  <2>2. coils = <<>>
    BY <2>1, OnlyAnswerFrees
  <2> QED BY <2>1, <2>2 DEF RelayInv, Stage, Acknowledged
<1> QED BY <1>1, <1>2, <1>3, PTL DEF Spec, AckIsDriven

----------------------------------------------------------------------------
(* The relays obey.                                                        *)

(* The coils that are still to be driven and drive relay r, and the        *)
(* requests that wait and drive it.                                        *)
Drives(cs, r) == {p \in DOMAIN cs : Mapped(cs[p].coil) /\ RelayOf(cs[p].coil) = r}
Asking(box, r) == {i \in DOMAIN box : Hits(box[i], r) # {}}
IsLast(S, x) == x \in S /\ \A y \in S : y <= x

(* What waits for relay r ends with the state that is wanted: the last of  *)
(* the waiting requests, or else the last of the coils.                    *)
Promised(box, cs, r, want) ==
  /\ \A i \in DOMAIN box : IsLast(Asking(box, r), i) => Meant(box[i], r, want) = want
  /\ Asking(box, r) = {} =>
       \A p \in DOMAIN cs : IsLast(Drives(cs, r), p) => cs[p].state = want

Quiet(box, cs, r) == Asking(box, r) = {} /\ Drives(cs, r) = {}

(* The state of relay r is still to come or has come, a repetition of the  *)
(* last write would not change it, and only the commander's requests have  *)
(* coils that drive it.                                                    *)
Heard(r) ==
  /\ Promised(inbox[Commander[r]], coils, r, wanted[r])
  /\ Quiet(inbox[Commander[r]], coils, r) /\ r \in sure => relay[r] = wanted[r]
  /\ latest[Commander[r]] # <<>> =>
       Meant(latest[Commander[r]][1], r, wanted[r]) = wanted[r]
  /\ serving # Commander[r] => Drives(coils, r) = {}

ObeyInv ==
  /\ RelayInv
  /\ coils \in Seq(CoilType)
  /\ DOMAIN relay = Relays /\ DOMAIN wanted = Relays /\ sure \subseteq Relays
  /\ inside["server"] # -1 => inside["server"] = RelayOf(coils[1].coil)
  /\ \A r \in Relays : Heard(r)

LEMMA MaxIs ==
  ASSUME NEW S \in SUBSET Int, NEW x \in S, \A y \in S : y <= x
  PROVE  Max(S) = x
<1>1. \A z \in S : (\A y \in S : z >= y) => z = x
  OBVIOUS
<1>2. x \in S /\ \A y \in S : x >= y
  OBVIOUS
<1> QED BY <1>1, <1>2 DEF Max

(* A request that joins the queue decides what its relays are to be.       *)
LEMMA AppendPromised ==
  ASSUME NEW box \in Seq(Request), NEW q \in Request, NEW cs, NEW r, NEW w,
         Promised(box, cs, r, w)
  PROVE  /\ Promised(Append(box, q), cs, r, Meant(q, r, w))
         /\ Quiet(Append(box, q), cs, r) => Quiet(box, cs, r) /\ Hits(q, r) = {}
<1> DEFINE n == Len(box) + 1
           more == Append(box, q)
<1>1. /\ n \in Nat \ {0} /\ DOMAIN box = 1 .. n - 1 /\ DOMAIN more = 1 .. n
      /\ more[n] = q /\ \A i \in 1 .. n - 1 : more[i] = box[i]
  OBVIOUS
<1> HIDE DEF n, more
<1>2. Asking(more, r) = Asking(box, r) \cup (IF Hits(q, r) # {} THEN {n} ELSE {})
  <2>1. \A i \in 1 .. n : i # n => i \in 1 .. n - 1 /\ more[i] = box[i]
    BY <1>1
  <2>2. ASSUME NEW i
        PROVE  i \in Asking(more, r) <=>
                 i \in Asking(box, r) \cup (IF Hits(q, r) # {} THEN {n} ELSE {})
    <3>1. CASE i = n
      <4>1. n \in 1 .. n /\ n \notin 1 .. n - 1
        BY <1>1
      <4> QED BY <1>1, <3>1, <4>1 DEF Asking
    <3>2. CASE i # n
      <4>1. 1 .. n - 1 \subseteq 1 .. n
        BY <1>1
      <4> QED BY <1>1, <2>1, <3>2, <4>1 DEF Asking
    <3> QED BY <3>1, <3>2
  <2> QED BY <2>2
<1>3. CASE Hits(q, r) = {}
  <2>1. Meant(q, r, w) = w /\ Asking(more, r) = Asking(box, r)
    BY <1>2, <1>3 DEF Meant
  <2>2. \A i \in Asking(box, r) : i \in DOMAIN box /\ more[i] = box[i]
    BY <1>1 DEF Asking
  <2>3. Promised(more, cs, r, w)
    BY <2>1, <2>2 DEF Promised, IsLast
  <2> QED BY <1>3, <2>1, <2>3 DEF Quiet, more
<1>4. CASE Hits(q, r) # {}
  <2>1. n \in Asking(more, r) /\ Asking(more, r) \subseteq 1 .. n
    BY <1>1, <1>2, <1>4 DEF Asking
  <2>2. \A i \in DOMAIN more : IsLast(Asking(more, r), i) => i = n
    BY <1>1, <2>1 DEF IsLast
  <2>3. Meant(q, r, Meant(q, r, w)) = Meant(q, r, w)
    BY <1>4 DEF Meant
  <2>4. Promised(more, cs, r, Meant(q, r, w))
    BY <1>1, <2>1, <2>2, <2>3 DEF Promised
  <2> QED BY <2>1, <2>4 DEF Quiet, more
<1> QED BY <1>3, <1>4

(* A request that is taken from the queue has its bits as coils.           *)
LEMMA HeadPromised ==
  ASSUME NEW box \in Seq(Request), box # <<>>, NEW r, NEW w,
         Promised(box, <<>>, r, w)
  PROVE  /\ Promised(Tail(box), CoilsOf(Head(box)), r, w)
         /\ Quiet(Tail(box), CoilsOf(Head(box)), r) => Quiet(box, <<>>, r)
<1> DEFINE n == Len(box)
           rest == Tail(box)
           q == Head(box)
<1>1. /\ n \in Nat \ {0} /\ DOMAIN box = 1 .. n /\ DOMAIN rest = 1 .. n - 1
      /\ q = box[1] /\ \A i \in 1 .. n - 1 : rest[i] = box[i + 1]
      /\ q \in Request
  OBVIOUS
<1> HIDE DEF n, rest, q
<1>2. Drives(CoilsOf(q), r) = Hits(q, r)
  BY <1>1, CoilsFacts DEF Drives, Hits
<1>3. \A i \in 1 .. n - 1 : i \in Asking(rest, r) <=> i + 1 \in Asking(box, r)
  BY <1>1 DEF Asking
<1>4. 1 \in Asking(box, r) <=> Hits(q, r) # {}
  BY <1>1 DEF Asking
<1>5. Asking(box, r) \subseteq 1 .. n /\ Asking(rest, r) \subseteq 1 .. n - 1
  BY <1>1 DEF Asking
<1>6. ASSUME NEW i \in DOMAIN rest, IsLast(Asking(rest, r), i)
      PROVE  Meant(rest[i], r, w) = w
  <2>1. i \in 1 .. n - 1 /\ i + 1 \in Asking(box, r)
    BY <1>1, <1>3, <1>6 DEF IsLast
  <2>2. ASSUME NEW j \in Asking(box, r) PROVE j <= i + 1
    <3>1. j \in 1 .. n
      BY <1>5
    <3>2. CASE j = 1
      BY <2>1, <3>2
    <3>3. CASE j # 1
      <4>1. j - 1 \in 1 .. n - 1 /\ (j - 1) + 1 = j
        BY <1>1, <3>1, <3>3
      <4>2. j - 1 \in Asking(rest, r)
        BY <1>3, <4>1
      <4>3. j - 1 <= i
        BY <1>6, <4>2 DEF IsLast
      <4> QED BY <2>1, <3>1, <4>3
    <3> QED BY <3>2, <3>3
  <2>3. IsLast(Asking(box, r), i + 1) /\ i + 1 \in DOMAIN box
    BY <2>1, <2>2 DEF IsLast, Asking
  <2>4. Meant(box[i + 1], r, w) = w
    BY <2>3 DEF Promised
  <2> QED BY <1>1, <2>1, <2>4
<1>7. Asking(rest, r) = {} => Asking(box, r) \subseteq {1}
  <2>1. SUFFICES ASSUME Asking(rest, r) = {}, NEW j \in Asking(box, r) PROVE j = 1
    OBVIOUS
  <2>2. j \in 1 .. n
    BY <1>5
  <2>3. j # 1 => j - 1 \in 1 .. n - 1 /\ (j - 1) + 1 = j
    BY <1>1, <2>2
  <2> QED BY <1>3, <2>1, <2>3
<1>8. ASSUME Asking(rest, r) = {},
             NEW p \in DOMAIN CoilsOf(q), IsLast(Drives(CoilsOf(q), r), p)
      PROVE  CoilsOf(q)[p].state = w
  <2>1. p \in Hits(q, r) /\ \A o \in Hits(q, r) : o <= p
    BY <1>2, <1>8 DEF IsLast
  <2>2. IsLast(Asking(box, r), 1) /\ 1 \in DOMAIN box
    BY <1>1, <1>4, <1>7, <1>8, <2>1 DEF IsLast
  <2>3. Meant(q, r, w) = w
    BY <1>1, <2>2 DEF Promised
  <2>4. Hits(q, r) \subseteq Int /\ p \in DOMAIN q.values
    <3>1. q.values \in Seq(BOOLEAN)
      BY <1>1 DEF Request
    <3>2. DOMAIN q.values \subseteq Int
      BY <3>1
    <3> QED BY <2>1, <3>2 DEF Hits
  <2>5. Max(Hits(q, r)) = p
    BY <2>1, <2>4, MaxIs
  <2>6. w = q.values[p]
    BY <2>1, <2>3, <2>5 DEF Meant
  <2> QED BY <1>1, <2>4, <2>6, CoilsFacts
<1>9. Promised(rest, CoilsOf(q), r, w)
  BY <1>6, <1>8 DEF Promised
<1>10. Quiet(rest, CoilsOf(q), r) => Quiet(box, <<>>, r)
  <2>1. Drives(<<>>, r) = {}
    BY DEF Drives
  <2> QED BY <1>2, <1>4, <1>7, <2>1 DEF Quiet
<1> QED BY <1>9, <1>10 DEF rest, q

(* The first coil is done with; if nothing else waits for its relay, it    *)
(* had the state that is wanted.                                           *)
LEMMA TailPromised ==
  ASSUME NEW box, NEW cs \in Seq(CoilType), cs # <<>>, NEW r, NEW w,
         Promised(box, cs, r, w)
  PROVE  /\ Promised(box, Tail(cs), r, w)
         /\ Quiet(box, Tail(cs), r) /\ 1 \in Drives(cs, r) => cs[1].state = w
         /\ Quiet(box, Tail(cs), r) /\ 1 \notin Drives(cs, r) => Quiet(box, cs, r)
<1> DEFINE n == Len(cs)
           rest == Tail(cs)
<1>1. /\ n \in Nat \ {0} /\ DOMAIN cs = 1 .. n /\ DOMAIN rest = 1 .. n - 1
      /\ \A i \in 1 .. n - 1 : rest[i] = cs[i + 1]
  OBVIOUS
<1> HIDE DEF n, rest
<1>2. \A i \in 1 .. n - 1 : i \in Drives(rest, r) <=> i + 1 \in Drives(cs, r)
  BY <1>1 DEF Drives
<1>3. Drives(cs, r) \subseteq 1 .. n /\ Drives(rest, r) \subseteq 1 .. n - 1
  BY <1>1 DEF Drives
<1>4. ASSUME NEW j \in Drives(cs, r), j # 1
      PROVE  j \in 1 .. n /\ j - 1 \in Drives(rest, r)
  <2>1. j \in 1 .. n
    BY <1>3
  <2>2. j - 1 \in 1 .. n - 1 /\ (j - 1) + 1 = j
    BY <1>1, <1>4, <2>1
  <2> QED BY <1>2, <2>1, <2>2
<1>5. ASSUME Asking(box, r) = {},
             NEW p \in DOMAIN rest, IsLast(Drives(rest, r), p)
      PROVE  rest[p].state = w
  <2>1. p \in 1 .. n - 1 /\ p + 1 \in Drives(cs, r)
    BY <1>1, <1>2, <1>5 DEF IsLast
  <2>2. ASSUME NEW j \in Drives(cs, r) PROVE j <= p + 1
    <3>1. CASE j = 1
      BY <2>1, <3>1
    <3>2. CASE j # 1
      <4>1. j \in 1 .. n /\ j - 1 <= p
        BY <1>4, <1>5, <3>2 DEF IsLast
      <4> QED BY <2>1, <4>1
    <3> QED BY <3>1, <3>2
  <2>3. IsLast(Drives(cs, r), p + 1) /\ p + 1 \in DOMAIN cs
    BY <2>1, <2>2 DEF IsLast, Drives
  <2>4. cs[p + 1].state = w
    BY <1>5, <2>3 DEF Promised
  <2> QED BY <1>1, <2>1, <2>4
<1>6. Promised(box, rest, r, w)
  BY <1>5 DEF Promised
<1>7. Drives(rest, r) = {} => Drives(cs, r) \subseteq {1}
  BY <1>4
<1>8. ASSUME Quiet(box, rest, r), 1 \in Drives(cs, r) PROVE cs[1].state = w
  <2>1. IsLast(Drives(cs, r), 1) /\ 1 \in DOMAIN cs
    BY <1>1, <1>7, <1>8 DEF IsLast, Quiet
  <2> QED BY <1>8, <2>1 DEF Promised, Quiet
<1>9. Quiet(box, rest, r) /\ 1 \notin Drives(cs, r) => Quiet(box, cs, r)
  BY <1>7 DEF Quiet
<1> QED BY <1>6, <1>8, <1>9 DEF rest

LEMMA TailDrives ==
  ASSUME NEW cs \in Seq(CoilType), cs # <<>>, NEW r, Drives(cs, r) = {}
  PROVE  Drives(Tail(cs), r) = {}
<1>1. \A i \in DOMAIN Tail(cs) : Tail(cs)[i] = cs[i + 1] /\ i + 1 \in DOMAIN cs
  OBVIOUS
<1> QED BY <1>1 DEF Drives

LEMMA ObeyInit == Init => ObeyInv
<1> SUFFICES ASSUME Init PROVE ObeyInv
  OBVIOUS
<1>1. RelayInv
  BY RelayInit
<1>2. /\ inbox = [m \in Masters |-> <<>>] /\ latest = [m \in Masters |-> <<>>]
      /\ coils = <<>> /\ inside = [t \in Threads |-> -1]
      /\ relay = [r \in Relays |-> FALSE] /\ wanted = [r \in Relays |-> FALSE]
  BY DEF Init
<1>3. sure = Relays
  BY DEF Init
<1>4. ASSUME NEW r \in Relays PROVE Heard(r)
  <2>1. Commander[r] \in Masters
    BY RelayAssumption
  <2>2. inbox[Commander[r]] = <<>> /\ latest[Commander[r]] = <<>> /\ relay[r] = wanted[r]
    BY <1>2, <2>1
  <2>3. Drives(<<>>, r) = {} /\ DOMAIN <<>> = {}
    BY DEF Drives
  <2>4. Promised(<<>>, <<>>, r, wanted[r])
    BY <2>3 DEF Promised
  <2> QED BY <1>2, <2>2, <2>3, <2>4 DEF Heard
<1>5. coils \in Seq(CoilType) /\ inside["server"] = -1
  BY <1>2 DEF Threads
<1>6. DOMAIN relay = Relays /\ DOMAIN wanted = Relays
  BY <1>2
<1> QED BY <1>1, <1>4, <1>3, <1>5, <1>6 DEF ObeyInv

(* The requests of a master drive the relays that it commands, no other.   *)
LEMMA OwnRelays ==
  ASSUME NEW m \in Masters, NEW q \in Asks[m], NEW r \in Relays, Commander[r] # m
  PROVE  Hits(q, r) = {}
<1>1. \A i \in DOMAIN q.values :
        Mapped(CoilAt(q, i)) => Commander[RelayOf(CoilAt(q, i))] = m
  BY RelayAssumption
<1> QED BY <1>1 DEF Hits

LEMMA AskObeys ==
  ASSUME ObeyInv, NEW m \in Masters, NEW q \in Asks[m], Ask(m, q)
  PROVE  ObeyInv'
<1>1. RelayInv'
  BY MastersKeep DEF ObeyInv
<1>2. /\ inbox' = [inbox EXCEPT ![m] = Append(@, q)]
      /\ latest' = [latest EXCEPT ![m] = <<q>>]
      /\ wanted' = [r \in Relays |-> Meant(q, r, wanted[r])]
      /\ UNCHANGED <<serving, coils, inside, relay, sure>>
  BY DEF Ask, serverVars, outputs
<1>3. inbox \in [Masters -> Seq(Request)] /\ DOMAIN latest = Masters
  BY DEF ObeyInv, RelayInv, Typed
<1>4. ASSUME NEW r \in Relays PROVE Heard(r)'
  <2> DEFINE c == Commander[r]
  <2>1. Heard(r) /\ c \in Masters /\ wanted'[r] = Meant(q, r, wanted[r])
    BY <1>2, RelayAssumption DEF ObeyInv
  <2>2. CASE c = m
    <3>1. inbox'[c] = Append(inbox[c], q) /\ latest'[c] = <<q>>
      BY <1>2, <1>3, <2>1, <2>2
    <3>2. q \in Request /\ inbox[c] \in Seq(Request)
      BY <1>3, <2>1, AsksFact
    <3>3. /\ Promised(Append(inbox[c], q), coils, r, Meant(q, r, wanted[r]))
          /\ Quiet(Append(inbox[c], q), coils, r) =>
               Quiet(inbox[c], coils, r) /\ Hits(q, r) = {}
      BY <2>1, <3>2, AppendPromised DEF Heard
    <3>4. Meant(q, r, wanted'[r]) = wanted'[r]
      BY <2>1 DEF Meant
    <3>5. Hits(q, r) = {} => wanted'[r] = wanted[r]
      BY <2>1 DEF Meant
    <3>6. latest'[c][1] = q
      BY <3>1
    <3> QED BY <1>2, <2>1, <3>1, <3>3, <3>4, <3>5, <3>6 DEF Heard
  <2>3. CASE c # m
    <3>1. inbox'[c] = inbox[c] /\ latest'[c] = latest[c]
      BY <1>2, <1>3, <2>1, <2>3
    <3>2. wanted'[r] = wanted[r]
      BY <2>1, <2>3, OwnRelays DEF Meant
    <3> QED BY <1>2, <2>1, <3>1, <3>2 DEF Heard
  <2> QED BY <2>2, <2>3
<1> QED BY <1>1, <1>2, <1>4 DEF ObeyInv

LEMMA RepeatObeys ==
  ASSUME ObeyInv, NEW m \in Masters, Repeat(m)
  PROVE  ObeyInv'
<1> DEFINE q == latest[m][1]
<1>1. RelayInv'
  BY MastersKeep DEF ObeyInv
<1>2. /\ inbox' = [inbox EXCEPT ![m] = Append(@, q)] /\ latest[m] # <<>>
      /\ UNCHANGED <<latest, wanted, serving, coils, inside, relay, sure>>
  BY DEF Repeat, serverVars, outputs
<1>3. inbox \in [Masters -> Seq(Request)] /\ q \in Asks[m]
  BY <1>2 DEF ObeyInv, RelayInv, Typed
<1>4. q \in Request
  BY <1>3, AsksFact
<1> HIDE DEF q
<1>5. ASSUME NEW r \in Relays PROVE Heard(r)'
  <2> DEFINE c == Commander[r]
  <2>1. Heard(r) /\ c \in Masters
    BY RelayAssumption DEF ObeyInv
  <2>2. CASE c = m
    <3>1. inbox'[c] = Append(inbox[c], q) /\ inbox[c] \in Seq(Request)
      BY <1>2, <1>3, <2>1, <2>2
    <3>2. Meant(q, r, wanted[r]) = wanted[r]
      BY <1>2, <2>1, <2>2 DEF Heard, q
    <3>3. /\ Promised(Append(inbox[c], q), coils, r, wanted[r])
          /\ Quiet(Append(inbox[c], q), coils, r) => Quiet(inbox[c], coils, r)
      <4>1. Promised(inbox[c], coils, r, wanted[r])
        BY <2>1 DEF Heard
      <4>2. /\ Promised(Append(inbox[c], q), coils, r, Meant(q, r, wanted[r]))
            /\ Quiet(Append(inbox[c], q), coils, r) =>
                 Quiet(inbox[c], coils, r) /\ Hits(q, r) = {}
        BY <1>4, <3>1, <4>1, AppendPromised
      <4> QED BY <3>2, <4>2
    <3> QED BY <1>2, <2>1, <3>1, <3>3 DEF Heard
  <2>3. CASE c # m
    <3>1. inbox'[c] = inbox[c]
      BY <1>2, <1>3, <2>1, <2>3
    <3> QED BY <1>2, <2>1, <3>1 DEF Heard
  <2> QED BY <2>2, <2>3
<1> QED BY <1>1, <1>2, <1>5 DEF ObeyInv

LEMMA ReceiveObeys ==
  ASSUME ObeyInv, NEW m \in Masters, Receive(m)
  PROVE  ObeyInv'
<1> DEFINE q == Head(inbox[m])
<1>1. RelayInv'
  BY ReceiveKeeps DEF ObeyInv
<1>2. /\ serving = NoMaster /\ inbox[m] # <<>> /\ serving' = m
      /\ inbox' = [inbox EXCEPT ![m] = Tail(@)] /\ coils' = CoilsOf(q)
      /\ UNCHANGED <<latest, wanted, inside, relay, sure>>
  BY DEF Receive, outputs
<1>3. /\ inbox \in [Masters -> Seq(Request)] /\ coils = <<>>
      /\ \A i \in DOMAIN inbox[m] : inbox[m][i] \in Asks[m]
      /\ inside["server"] = -1
  BY <1>2 DEF ObeyInv, RelayInv, Typed, InsideForCoil
<1>4. q \in Asks[m] /\ q \in Request
  <2>1. inbox[m] \in Seq(Request)
    BY <1>3
  <2>2. 1 \in DOMAIN inbox[m] /\ q = inbox[m][1]
    BY <1>2, <2>1
  <2> QED BY <1>3, <2>2, AsksFact
<1> HIDE DEF q
<1>5. coils' \in Seq(CoilType)
  BY <1>2, <1>4, CoilsFacts
<1>6. ASSUME NEW r \in Relays PROVE Heard(r)'
  <2> DEFINE c == Commander[r]
  <2>1. Heard(r) /\ c \in Masters
    BY RelayAssumption DEF ObeyInv
  <2>2. Promised(inbox[c], <<>>, r, wanted[r])
    BY <1>3, <2>1 DEF Heard
  <2>3. CASE c = m
    <3>1. inbox'[c] = Tail(inbox[c]) /\ inbox[c] \in Seq(Request) /\ inbox[c] # <<>>
      BY <1>2, <1>3, <2>1, <2>3
    <3>2. /\ Promised(Tail(inbox[c]), CoilsOf(q), r, wanted[r])
          /\ Quiet(Tail(inbox[c]), CoilsOf(q), r) => Quiet(inbox[c], <<>>, r)
      BY <2>2, <2>3, <3>1, HeadPromised DEF q
    <3> QED BY <1>2, <1>3, <2>1, <2>3, <3>1, <3>2 DEF Heard
  <2>4. CASE c # m
    <3>1. inbox'[c] = inbox[c]
      BY <1>2, <1>3, <2>1, <2>4
    <3>2. Drives(CoilsOf(q), r) = {}
      <4>1. Hits(q, r) = {}
        BY <1>4, <2>4, OwnRelays
      <4> QED BY <1>4, <4>1, CoilsFacts DEF Drives, Hits
    <3>3. Promised(inbox[c], CoilsOf(q), r, wanted[r])
      BY <2>2, <3>2 DEF Promised, IsLast
    <3>4. Quiet(inbox[c], CoilsOf(q), r) => Quiet(inbox[c], coils, r)
      BY <1>3 DEF Quiet, Drives
    <3> QED BY <1>2, <2>1, <3>1, <3>2, <3>3, <3>4 DEF Heard
  <2> QED BY <2>3, <2>4
<1> QED BY <1>1, <1>2, <1>3, <1>5, <1>6 DEF ObeyInv

LEMMA SkipObeys ==
  ASSUME ObeyInv, SkipCoil
  PROVE  ObeyInv'
<1>1. RelayInv'
  BY SkipKeeps DEF ObeyInv
<1>2. /\ coils # <<>> /\ ~Mapped(coils[1].coil) /\ coils' = Tail(coils)
      /\ UNCHANGED <<inbox, latest, wanted, serving, inside, relay, sure>>
  BY DEF SkipCoil, masterVars, outputs
<1>3. coils \in Seq(CoilType) /\ coils' \in Seq(CoilType)
  BY <1>2 DEF ObeyInv
<1>4. inside["server"] = -1
  BY <1>2 DEF ObeyInv, RelayInv, InsideForCoil
<1>5. ASSUME NEW r \in Relays PROVE Heard(r)'
  <2> DEFINE box == inbox[Commander[r]]
  <2>1. Heard(r) /\ 1 \notin Drives(coils, r)
    BY <1>2 DEF ObeyInv, Drives
  <2>2. /\ Promised(box, Tail(coils), r, wanted[r])
        /\ Quiet(box, Tail(coils), r) => Quiet(box, coils, r)
    BY <1>2, <1>3, <2>1, TailPromised DEF Heard
  <2>3. Drives(coils, r) = {} => Drives(Tail(coils), r) = {}
    BY <1>2, <1>3, TailDrives
  <2> QED BY <1>2, <2>1, <2>2, <2>3 DEF Heard
<1> QED BY <1>1, <1>2, <1>3, <1>4, <1>5 DEF ObeyInv

LEMMA DriveObeys ==
  ASSUME ObeyInv, DriveCoil
  PROVE  ObeyInv'
<1>1. RelayInv'
  BY DriveCoilKeeps DEF ObeyInv
<1>2. /\ Drive("server", RelayOf(coils[1].coil))
      /\ UNCHANGED <<inbox, latest, wanted, serving, coils, relay, sure>>
  BY DEF DriveCoil, Drive, masterVars, serverVars
<1>3. inside'["server"] = RelayOf(coils[1].coil)
  <2>1. inside = [t \in Threads |-> inside[t]]
    BY DEF ObeyInv, RelayInv, Typed
  <2> QED BY <1>2, <2>1 DEF Drive, Threads
<1>4. \A r \in Relays : Heard(r)'
  BY <1>2 DEF ObeyInv, Heard
<1> QED BY <1>1, <1>2, <1>3, <1>4 DEF ObeyInv

(* How a drive ends for the relays: one that is still sure and was not     *)
(* driven now is as it was, and a sure one that was driven was driven by   *)
(* the server, to the state it was told.                                   *)
LEMMA EndsRelays ==
  ASSUME DOMAIN relay = Relays, NEW t \in Threads, NEW state, NEW how,
         Ends(t, state, how), NEW r \in Relays, r \in sure'
  PROVE  /\ inside[t] # r => r \in sure /\ relay'[r] = relay[r]
         /\ inside[t] = r => t = "server" /\ relay'[r] = state
BY DEF Ends

(* A set of naturals has a least element.                                  *)
LEMMA LeastOf ==
  ASSUME NEW S, S \subseteq Nat, S # {}
  PROVE  \E x \in S : \A y \in S : x <= y
<1> DEFINE R == OpToRel(<, Nat)
<1>1. IsWellFoundedOn(R, Nat)
  BY NatLessThanWellFounded
<1>2. \A x, y \in Nat : <<y, x>> \in R <=> y < x
  BY DEF OpToRel
<1> HIDE DEF R
<1>3. PICK x \in S : \A y \in S : ~ (<<y, x>> \in R)
  BY <1>1, WFMin
<1>4. \A y \in S : ~ (y < x)
  BY <1>2, <1>3
<1>5. x \in Nat /\ \A y \in S : y \in Nat
  OBVIOUS
<1>6. \A y \in S : x <= y
  BY <1>4, <1>5
<1> QED BY <1>6

(* A coil that is mapped has a relay: its first row in the mapping.        *)
LEMMA RelayOfMapped ==
  ASSUME NEW c, Mapped(c)
  PROVE  RelayOf(c) \in Relays
<1> DEFINE Row == [coil : Nat, relay : Relays]
<1>1. Rows \in Seq(Row)
  BY RelayAssumption
<1> HIDE DEF Row
<1>2. DOMAIN Rows \subseteq Nat /\ \A i \in DOMAIN Rows : Rows[i] \in Row
  BY <1>1
<1>3. Matches(c) \subseteq DOMAIN Rows /\ Matches(c) # {}
  BY DEF Matches, Mapped
<1>4. \E i \in Matches(c) : \A j \in Matches(c) : i <= j
  BY <1>2, <1>3, LeastOf
<1>5. PICK i \in Matches(c) : RelayOf(c) = Rows[i].relay
  BY <1>4 DEF RelayOf
<1>6. Rows[i] \in Row
  BY <1>2, <1>3
<1> QED BY <1>5, <1>6 DEF Row

LEMMA CoilObeys ==
  ASSUME ObeyInv, CoilWritten
  PROVE  ObeyInv'
<1>1. RelayInv'
  BY CoilWrittenKeeps DEF ObeyInv
<1>2. PICK how \in Endings : Ends("server", coils[1].state, how)
  BY DEF CoilWritten
<1>3. /\ coils' = Tail(coils)
      /\ UNCHANGED <<inbox, latest, wanted, serving>>
  BY DEF CoilWritten, masterVars
<1>4. /\ inside["server"] # -1 /\ DOMAIN relay' = DOMAIN relay
      /\ inside' = [inside EXCEPT !["server"] = -1]
  BY <1>2 DEF Ends
<1>5. /\ coils # <<>> /\ Mapped(coils[1].coil) /\ inside["server"] = RelayOf(coils[1].coil)
      /\ coils \in Seq(CoilType) /\ coils' \in Seq(CoilType)
      /\ DOMAIN relay = Relays
  BY <1>3, <1>4 DEF ObeyInv, RelayInv, InsideForCoil
<1>6. inside'["server"] = -1
  <2>1. inside = [t \in Threads |-> inside[t]]
    BY DEF ObeyInv, RelayInv, Typed
  <2> QED BY <1>4, <2>1 DEF Threads
<1>7. sure' \subseteq Relays
  <2>1. inside["server"] \in Relays
    BY <1>5, RelayOfMapped
  <2> QED BY <1>2, <2>1 DEF Ends, ObeyInv
<1>8. ASSUME NEW r \in Relays PROVE Heard(r)'
  <2> DEFINE box == inbox[Commander[r]]
  <2>1. Heard(r)
    BY DEF ObeyInv
  <2>2. 1 \in Drives(coils, r) <=> inside["server"] = r
    <3>1. 1 \in DOMAIN coils
      BY <1>5
    <3> QED BY <1>5, <3>1 DEF Drives
  <2>3. /\ Promised(box, Tail(coils), r, wanted[r])
        /\ Quiet(box, Tail(coils), r) /\ 1 \in Drives(coils, r) => coils[1].state = wanted[r]
        /\ Quiet(box, Tail(coils), r) /\ 1 \notin Drives(coils, r) => Quiet(box, coils, r)
    BY <1>5, <2>1, TailPromised DEF Heard
  <2>4. Drives(coils, r) = {} => Drives(Tail(coils), r) = {}
    BY <1>5, TailDrives
  <2>5. Quiet(box, Tail(coils), r) /\ r \in sure' => relay'[r] = wanted[r]
    <3>1. SUFFICES ASSUME Quiet(box, Tail(coils), r), r \in sure'
                   PROVE  relay'[r] = wanted[r]
      OBVIOUS
    <3>2. /\ inside["server"] # r => r \in sure /\ relay'[r] = relay[r]
          /\ inside["server"] = r => relay'[r] = coils[1].state
      BY <1>2, <1>5, <3>1, EndsRelays DEF Threads
    <3>3. CASE inside["server"] = r
      BY <2>2, <2>3, <3>1, <3>2, <3>3
    <3>4. CASE inside["server"] # r
      BY <2>1, <2>2, <2>3, <3>1, <3>2, <3>4 DEF Heard
    <3> QED BY <3>3, <3>4
  <2> QED BY <1>3, <2>1, <2>3, <2>4, <2>5 DEF Heard
<1> QED BY <1>1, <1>3, <1>4, <1>5, <1>6, <1>8, <1>7 DEF ObeyInv

LEMMA AnswerObeys ==
  ASSUME ObeyInv, Answer
  PROVE  ObeyInv'
<1>1. RelayInv'
  BY AnswerKeeps DEF ObeyInv
<1>2. /\ serving # NoMaster /\ coils = <<>> /\ coils' = coils
      /\ UNCHANGED <<inbox, latest, wanted, inside, relay, sure>>
  BY DEF Answer, Answered, masterVars, outputs
<1>3. \A r \in Relays : Heard(r)'
  <2>1. \A r \in Relays : Drives(<<>>, r) = {}
    BY DEF Drives
  <2> QED BY <1>2, <2>1 DEF ObeyInv, Heard
<1> QED BY <1>1, <1>2, <1>3 DEF ObeyInv

(* The simulation makes a relay unsure, and changes no other.              *)
LEMMA SimulationObeys ==
  ASSUME ObeyInv,
         \/ DriveLine \/ LineWritten \/ TickEnds
         \/ SimulationStarts \/ SimulationStops \/ TickBegins
  PROVE  ObeyInv'
<1>1. RelayInv'
  BY SimulationKeeps DEF ObeyInv
<1>2. UNCHANGED <<inbox, latest, wanted, serving, coils>>
  BY DEF DriveLine, LineWritten, TickEnds, SimulationStarts, SimulationStops,
         TickBegins, masterVars, serverVars
<1>3. inside = [t \in Threads |-> inside[t]] /\ DOMAIN relay = Relays
  BY DEF ObeyInv, RelayInv, Typed
<1>4. /\ inside'["server"] = inside["server"] /\ DOMAIN relay' = Relays
      /\ sure' \subseteq sure
      /\ \A r \in Relays : r \in sure' => r \in sure /\ relay'[r] = relay[r]
  <2>1. CASE LineWritten
    <3>1. PICK how \in Endings : Ends("simulation", Lit(line), how)
      BY <2>1 DEF LineWritten
    <3>2. /\ inside' = [inside EXCEPT !["simulation"] = -1]
          /\ DOMAIN relay' = DOMAIN relay /\ sure' \subseteq sure
      BY <3>1 DEF Ends
    <3>3. \A r \in Relays : r \in sure' => r \in sure /\ relay'[r] = relay[r]
      BY <1>3, <3>1, EndsRelays DEF Threads
    <3> QED BY <1>3, <3>2, <3>3 DEF Threads
  <2>2. CASE DriveLine
    <3>1. inside' = [inside EXCEPT !["simulation"] = line] /\ UNCHANGED <<relay, sure>>
      BY <2>2 DEF DriveLine, Drive
    <3> QED BY <1>3, <3>1 DEF Threads
  <2>3. CASE TickEnds \/ SimulationStarts \/ SimulationStops \/ TickBegins
    BY <1>3, <2>3 DEF TickEnds, SimulationStarts, SimulationStops, TickBegins, outputs
  <2> QED BY <2>1, <2>2, <2>3
<1>5. \A r \in Relays : Heard(r)'
  BY <1>2, <1>4 DEF ObeyInv, Heard
<1> QED BY <1>1, <1>2, <1>4, <1>5 DEF ObeyInv

LEMMA ObeyStep ==
  ASSUME ObeyInv, [Next]_vars
  PROVE  ObeyInv'
<1>1. CASE \E m \in Masters : (\E q \in Asks[m] : Ask(m, q)) \/ Repeat(m)
  BY <1>1, AskObeys, RepeatObeys
<1>2. CASE \E m \in Masters : EndsBurst(m)
  <2>1. RelayInv'
    BY <1>2, MastersKeep DEF ObeyInv
  <2>2. UNCHANGED <<inbox, latest, wanted, serving, coils, inside, relay, sure>>
    BY <1>2 DEF EndsBurst, masterVars, outputs
  <2>3. \A r \in Relays : Heard(r)'
    BY <2>2 DEF ObeyInv, Heard
  <2> QED BY <2>1, <2>2, <2>3 DEF ObeyInv
<1>3. CASE Server
  BY <1>3, ReceiveObeys, SkipObeys, DriveObeys, CoilObeys, AnswerObeys DEF Server
<1>4. CASE Simulation \/ SimulationStarts \/ SimulationStops \/ TickBegins
  BY <1>4, SimulationObeys DEF Simulation
<1>5. CASE UNCHANGED vars
  <2>1. RelayInv'
    BY <1>5, RelayStep DEF ObeyInv
  <2>2. UNCHANGED <<inbox, latest, wanted, serving, coils, inside, relay, sure>>
    BY <1>5 DEF vars, masterVars, serverVars, outputs
  <2>3. \A r \in Relays : Heard(r)'
    BY <2>2 DEF ObeyInv, Heard
  <2> QED BY <2>1, <2>2, <2>3 DEF ObeyInv
<1> QED BY <1>1, <1>2, <1>3, <1>4, <1>5 DEF Next

(* Once the requests of its commander are worked off, a relay is as it was *)
(* asked for last, unless its last write failed or was the simulation's:   *)
(* for any masters, any mapping, any number of coils in a request, and any *)
(* repetition of late writes (handleClientRequest, setRelays).             *)
THEOREM RelaysObey == Spec => []Obeyed
<1>1. Init => ObeyInv
  BY ObeyInit
<1>2. ObeyInv /\ [Next]_vars => ObeyInv'
  BY ObeyStep
<1>3. ObeyInv => Obeyed
  <2>1. SUFFICES ASSUME ObeyInv, NEW r \in sure, r \in Relays,
                        inbox[Commander[r]] = <<>>, serving # Commander[r]
                 PROVE  relay[r] = wanted[r]
    BY DEF Obeyed, ObeyInv
  <2>2. Heard(r)
    BY <2>1 DEF ObeyInv
  <2>3. Asking(<<>>, r) = {}
    BY DEF Asking
  <2> QED BY <2>1, <2>2, <2>3 DEF Heard, Quiet
<1> QED BY <1>1, <1>2, <1>3, PTL DEF Spec

=============================================================================
