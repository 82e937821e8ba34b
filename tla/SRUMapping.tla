----------------------------- MODULE SRUMapping -----------------------------
(***************************************************************************)
(* How many registers a tick has. SensorRigUpStruct counts the channels of *)
(* the client's configuration; a simulated tick is put together from them  *)
(* by onSimulationTimerTimeOut(), the line of an acquired one is sized     *)
(* from them by startAcquisition().                                        *)
(***************************************************************************)
EXTENDS Naturals, Sequences

(* The member initialisers, which loadConfig() overrides by what modBus.ini*)
(* says; the file has no key for the coders.                               *)
Defaults ==
  [modeSRU |-> TRUE, analogsIn |-> 64, analogsOut |-> 0, counters |-> 8, coders |-> 0]

LoadConfig(ini) ==
  [k \in DOMAIN Defaults |->
     IF k \in DOMAIN ini \ {"coders"} THEN ini[k] ELSE Defaults[k]]

Repeated(n, words) ==
  [i \in 1 .. n * Len(words) |-> words[((i - 1) % Len(words)) + 1]]

SimulateAnalogicInputs(sru) ==
  (IF sru.modeSRU THEN <<"shift">> ELSE <<>>) \o Repeated(sru.analogsIn, <<"analog">>)
SimulateCounters(sru) == Repeated(sru.counters, <<"frequency", "high", "low">>)
SimulateCoders(sru) == Repeated(sru.coders, <<"high", "low">>)

(* What the registers of a simulated tick stand for, in their order.       *)
SimulatedTick(sru) ==
  SimulateAnalogicInputs(sru) \o SimulateCounters(sru) \o SimulateCoders(sru)

(* getSRUMappingSizeWithoutAlarms()                                        *)
LineSize(sru) ==
  sru.analogsIn + sru.analogsOut + 2 * sru.coders + 3 * sru.counters

(* What reMapInputRegisterValuesForAnalogics() copies of a tick.           *)
MODBUS_MAX_READ_REGISTERS == 125
RegistersToWrite(n) ==
  IF n < MODBUS_MAX_READ_REGISTERS THEN n ELSE MODBUS_MAX_READ_REGISTERS

WidthFor(sru) ==
  [simulate |-> RegistersToWrite(Len(SimulatedTick(sru))),
   acquire  |-> RegistersToWrite(LineSize(sru)),
   zeros    |-> 0]

=============================================================================
