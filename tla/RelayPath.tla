----------------------------- MODULE RelayPath ------------------------------
(***************************************************************************)
(* The relays: from a Modbus master's write of a coil to the output of the *)
(* relay module. The server's thread looks each coil up in the alarms'     *)
(* mapping and has the DAQmx wrapper drive its relay; the simulation's     *)
(* thread drives the same relays, one after the other, at every tick. Both *)
(* pass alarmsMutex.                                                       *)
(*                                                                         *)
(* The masters are external: they ask for writes and reads, and repeat a   *)
(* write whose answer is late or, in the compatibility mode and for writes *)
(* of several coils, never comes. A write that fails is swallowed by       *)
(* DigitalWriter. Connections, and requests that write no coil, are the    *)
(* business of ModbusServer; here they only end a burst of writes.         *)
(***************************************************************************)
EXTENDS Integers, Sequences, SequencesExt

CONSTANTS
  Masters,        \* the Modbus masters
  NoMaster,       \* stands for "none of them"
  Commander,      \* Commander[r]: the only master that writes relay r
  Asks,           \* Asks[m]: the requests of master m
  Rows,           \* m_alarmsMappingData: coil and relay of each row
  NbRelays,       \* the lines of the relay module
  NbAlarms,       \* m_nbSRUAlarms
  NbBits,         \* nb_bits of mb_mapping
  ModeSRU,        \* m_modeSRU: the compatibility mode
  Simulates,      \* may a simulation run?
  MaxQueue        \* bound: requests waiting in one connection

Relays == 0 .. NbRelays - 1
Addresses == 0 .. 65535
Request == [kind : {"one", "many"}, coil : Addresses, values : Seq(BOOLEAN)]

(* What a request means.                                                   *)

(* handleClientRequest() reads the coils of a request in the order of      *)
(* their bits; an address has 16 bits. The index of the byte that holds a  *)
(* bit has 8, and the first byte is the 13th: a request of more coils than *)
(* MaxCoils, which the protocol allows for up to 1968, would be read from  *)
(* its header again.                                                       *)
MaxCoils == 8 * (256 - 13)

(* The coil of bit i: nothing refuses a request that passes the last       *)
(* address, it goes on with the first one.                                 *)
CoilAt(q, i) == (q.coil + i - 1) % 65536

CoilsOf_FromOne(q) ==   \* mutant: the second bit of the data is the first coil
  [i \in 1 .. Len(q.values) |->
     [coil |-> CoilAt(q, i), state |-> q.values[(i % Len(q.values)) + 1]]]

CoilsOf(q) ==
  [i \in 1 .. Len(q.values) |-> [coil |-> CoilAt(q, i), state |-> q.values[i]]]

(* The first row of the mapping that has the coil, as setRelays() finds it.*)
Matches(c) == {i \in DOMAIN Rows : Rows[i].coil = c}
Mapped(c) == Matches(c) # {}
RelayOf(c) == Rows[CHOOSE i \in Matches(c) : \A j \in Matches(c) : i <= j].relay

(* The bits of a request that are for relay r, and the state it is to      *)
(* leave the relay in: that of the last of them.                           *)
Hits(q, r) ==
  {i \in DOMAIN q.values : Mapped(CoilAt(q, i)) /\ RelayOf(CoilAt(q, i)) = r}
Meant(q, r, before) ==
  IF Hits(q, r) = {} THEN before ELSE q.values[Max(Hits(q, r))]

ASSUME RelayAssumption ==
  /\ NoMaster \notin Masters
  /\ NbRelays \in Nat /\ NbAlarms \in 0 .. NbRelays /\ NbAlarms <= 4
  /\ NbBits \in Nat
  /\ Commander \in [Relays -> Masters]
  /\ Rows \in Seq([coil : Nat, relay : Relays])
  /\ Asks \in [Masters -> SUBSET Request]
  /\ \A m \in Masters : \A q \in Asks[m] :
       Len(q.values) <= MaxCoils /\ (q.kind = "one" => Len(q.values) = 1)
  /\ \A m \in Masters : \A q \in Asks[m] : \A i \in DOMAIN q.values :
       Mapped(CoilAt(q, i)) => Commander[RelayOf(CoilAt(q, i))] = m
  /\ {ModeSRU, Simulates} \subseteq BOOLEAN
  /\ MaxQueue \in Nat \ {0}

VARIABLES
  inbox,     \* inbox[m]: requests the server has not received yet
  latest,    \* latest[m]: the last write of master m, as a sequence
  tied,      \* the master whose burst the handler waits for
  serving,   \* the master whose request is handled
  request,   \* that request
  coils,     \* the coils still to be driven for it
  outcome,   \* how its last relay write ended: "none", "done", "driver", "conflict"
  simPc,     \* "off", "idle", "drive"
  line,      \* the line the simulation is at
  step,      \* m_simulatedAlarmStepCounter
  inside,    \* inside[t]: the relay thread t is driving, or -1
  relay,     \* relay[r]: the state of the output
  wanted,    \* wanted[r]: what its commander asked for last
  sure       \* the relays whose last write came from the server and went well

masterVars == <<inbox, latest, wanted>>
serverVars == <<tied, serving, request, coils, outcome>>
simVars == <<simPc, line, step>>
outputs == <<inside, relay, sure>>
vars == <<masterVars, serverVars, simVars, outputs>>

Threads == {"server", "simulation"}
NoRequest == [kind |-> "none", coil |-> 0, values |-> <<>>]

TypeOK ==
  /\ \A m \in Masters : inbox[m] \in Seq(Asks[m]) /\ Len(inbox[m]) <= MaxQueue
  /\ \A m \in Masters : latest[m] \in Seq(Asks[m]) /\ Len(latest[m]) <= 1
  /\ tied \in Masters \cup {NoMaster}
  /\ serving \in Masters \cup {NoMaster}
  /\ request \in Request \cup {NoRequest}
  /\ coils \in Seq([coil : Addresses, state : BOOLEAN])
  /\ outcome \in {"none", "done", "driver", "conflict"}
  /\ simPc \in {"off", "idle", "drive"}
  /\ line \in 0 .. NbAlarms
  /\ step \in 0 .. 3
  /\ inside \in [Threads -> Relays \cup {-1}]
  /\ relay \in [Relays -> BOOLEAN]
  /\ wanted \in [Relays -> BOOLEAN]
  /\ sure \subseteq Relays

Init ==
  /\ inbox = [m \in Masters |-> <<>>]
  /\ latest = [m \in Masters |-> <<>>]
  /\ tied = NoMaster
  /\ serving = NoMaster
  /\ request = NoRequest
  /\ coils = <<>>
  /\ outcome = "none"
  /\ simPc = "off"
  /\ line = 0
  /\ step = 0
  /\ inside = [t \in Threads |-> -1]
  /\ relay = [r \in Relays |-> FALSE]
  /\ wanted = [r \in Relays |-> FALSE]
  /\ sure = Relays

----------------------------------------------------------------------------
(* The masters.                                                            *)

Ask(m, q) ==
  /\ Len(inbox[m]) < MaxQueue
  /\ inbox' = [inbox EXCEPT ![m] = Append(@, q)]
  /\ latest' = [latest EXCEPT ![m] = <<q>>]
  /\ wanted' = [r \in Relays |-> Meant(q, r, wanted[r])]
  /\ UNCHANGED <<serverVars, simVars, outputs>>

(* No answer in time: the write is repeated, whether or not it was done.   *)
Repeat(m) ==
  /\ latest[m] # <<>>
  /\ Len(inbox[m]) < MaxQueue
  /\ inbox' = [inbox EXCEPT ![m] = Append(@, latest[m][1])]
  /\ UNCHANGED <<latest, wanted, serverVars, simVars, outputs>>

(* The master hangs up, or sends a request that writes no coil: the end of *)
(* its burst.                                                              *)
EndsBurst(m) ==
  /\ tied = m /\ serving = NoMaster
  /\ inbox[m] = <<>>
  /\ tied' = NoMaster
  /\ UNCHANGED <<masterVars, serving, request, coils, outcome, simVars, outputs>>

----------------------------------------------------------------------------
(* A relay is driven under alarmsMutex, from the creation of its task to   *)
(* the write; the task reserves the line.                                  *)

Drive_NoMutex(t, r) ==   \* mutant: setRelayState() takes no mutex
  /\ inside[t] = -1
  /\ inside' = [inside EXCEPT ![t] = r]
  /\ UNCHANGED <<relay, sure>>

Drive(t, r) ==
  /\ \A u \in Threads : inside[u] = -1
  /\ inside' = [inside EXCEPT ![t] = r]
  /\ UNCHANGED <<relay, sure>>

(* How a write ends: it is done, or the driver fails, or another task has  *)
(* reserved the line. A write that fails leaves the output as it is, and   *)
(* DigitalWriter returns as if it had been done.                           *)
Ends(t, state, how) ==
  LET r == inside[t]
      conflict == \E u \in Threads \ {t} : inside[u] = r
  IN
  /\ r # -1
  /\ how = "done" => ~conflict
  /\ how = "conflict" => conflict
  /\ inside' = [inside EXCEPT ![t] = -1]
  /\ relay' = IF how = "done" THEN [relay EXCEPT ![r] = state] ELSE relay
  /\ sure' = IF how = "done" /\ t = "server" THEN sure \cup {r} ELSE sure \ {r}

Endings == {"done", "driver", "conflict"}

----------------------------------------------------------------------------
(* The server's thread.                                                    *)

Receive(m) ==
  /\ serving = NoMaster
  /\ tied \in {NoMaster, m}
  /\ inbox[m] # <<>>
  /\ inbox' = [inbox EXCEPT ![m] = Tail(@)]
  /\ serving' = m
  /\ request' = Head(inbox[m])
  /\ coils' = CoilsOf(request')
  /\ outcome' = "none"
  /\ UNCHANGED <<latest, wanted, tied, simVars, outputs>>

(* setRelays() logs a coil that is not mapped, and returns.                *)
SkipCoil_Stays ==   \* mutant: the loop over the coils does not go on after it
  /\ coils # <<>>
  /\ ~Mapped(coils[1].coil)
  /\ UNCHANGED vars

SkipCoil ==
  /\ coils # <<>>
  /\ ~Mapped(coils[1].coil)
  /\ coils' = Tail(coils)
  /\ UNCHANGED <<masterVars, tied, serving, request, outcome, simVars, outputs>>

DriveCoil ==
  /\ coils # <<>>
  /\ Mapped(coils[1].coil)
  /\ inside["server"] = -1
  /\ Drive("server", RelayOf(coils[1].coil))
  /\ UNCHANGED <<masterVars, serverVars, simVars>>

CoilWritten ==
  /\ \E how \in Endings :
       /\ Ends("server", coils[1].state, how)
       /\ outcome' = how
  /\ coils' = Tail(coils)
  /\ UNCHANGED <<masterVars, tied, serving, request, simVars>>

(* A single write is acknowledged unless the compatibility mode is on;     *)
(* modbus_reply() answers a coil it has no bit for with an exception. The  *)
(* handler stays with a master after a single write.                       *)
Acknowledged == request.kind = "one" /\ ~ModeSRU /\ request.coil < NbBits

Answered ==
  /\ serving' = NoMaster
  /\ request' = NoRequest
  /\ coils' = <<>>
  /\ outcome' = "none"
  /\ tied' = IF request.kind = "one" THEN serving ELSE NoMaster
  /\ UNCHANGED <<masterVars, simVars, outputs>>

Answer ==
  /\ serving # NoMaster
  /\ coils = <<>>
  /\ Answered

----------------------------------------------------------------------------
(* The simulation's thread: simulateRelays() at each tick.                 *)

SimulationStarts ==
  /\ Simulates
  /\ simPc = "off"
  /\ simPc' = "idle"
  /\ UNCHANGED <<masterVars, serverVars, line, step, outputs>>

(* stop() waits for the end of the tick. *)
SimulationStops ==
  /\ simPc = "idle"
  /\ simPc' = "off"
  /\ UNCHANGED <<masterVars, serverVars, line, step, outputs>>

TickBegins ==
  /\ simPc = "idle"
  /\ simPc' = "drive"
  /\ UNCHANGED <<masterVars, serverVars, line, step, outputs>>

DriveLine ==
  /\ simPc = "drive"
  /\ line < NbAlarms
  /\ inside["simulation"] = -1
  /\ Drive("simulation", line)
  /\ UNCHANGED <<masterVars, serverVars, simVars>>

(* relay[i] of simulateRelays(). *)
Lit(i) == i = step

LineWritten ==
  /\ \E how \in Endings : Ends("simulation", Lit(line), how)
  /\ line' = line + 1
  /\ UNCHANGED <<masterVars, serverVars, simPc, step>>

TickEnds ==
  /\ simPc = "drive"
  /\ line = NbAlarms
  /\ simPc' = "idle"
  /\ line' = 0
  /\ step' = (step + 1) % 4
  /\ UNCHANGED <<masterVars, serverVars, outputs>>

Server ==
  \/ \E m \in Masters : Receive(m)
  \/ SkipCoil \/ DriveCoil \/ CoilWritten \/ Answer

Simulation == DriveLine \/ LineWritten \/ TickEnds

Next ==
  \/ \E m \in Masters : (\E q \in Asks[m] : Ask(m, q)) \/ Repeat(m) \/ EndsBurst(m)
  \/ Server
  \/ Simulation \/ SimulationStarts \/ SimulationStops \/ TickBegins

(* The handler and a tick go on by themselves. Between two ticks the       *)
(* simulation sleeps without alarmsMutex, so a handler that waits for the  *)
(* mutex gets it again and again.                                          *)
Fairness ==
  /\ WF_vars(SkipCoil) /\ WF_vars(CoilWritten) /\ WF_vars(Answer)
  /\ SF_vars(DriveCoil)
  /\ WF_vars(LineWritten)

Spec == Init /\ [][Next]_vars /\ Fairness

----------------------------------------------------------------------------
(* Properties.                                                             *)

(* However late the answers and however often a master repeats its writes, *)
(* singly or several coils at a time, and whatever the simulation drives   *)
(* meanwhile: when all requests of a relay's commander are worked off, the *)
(* relay is as it was asked for last, unless its last write failed or was  *)
(* the simulation's. The first row of the mapping counts when two coils    *)
(* share a relay. (handleClientRequest(), setRelays(), setRelayState())    *)
Obeyed ==
  \A r \in sure :
    (inbox[Commander[r]] = <<>> /\ serving # Commander[r]) => relay[r] = wanted[r]

(* A write that is acknowledged has been driven before, or the driver      *)
(* itself has failed, or the coil has no relay: it is never lost to the    *)
(* simulation that drives the same lines (alarmsMutex), nor acknowledged   *)
(* first.                                                                  *)
AckIsDriven ==
  [][(serving # NoMaster /\ serving' = NoMaster /\ Acknowledged
        /\ Mapped(request.coil)) => outcome \in {"done", "driver"}]_vars

(* The simulation, which takes alarmsMutex for every line of every tick,   *)
(* never keeps the server's thread out for good: each request is worked    *)
(* off, and the handler is free for the next one.                          *)
RequestEnds == serving # NoMaster ~> serving = NoMaster

=============================================================================
