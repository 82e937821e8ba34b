-------------------------- MODULE MCRegisterImage --------------------------
(* Small instances of RegisterImage: four registers, the last two of them  *)
(* the words of a counter. In the compatibility mode (modeSRU) a simulated *)
(* tick is one register longer than an acquired one, otherwise the two     *)
(* have the same length.                                                   *)
EXTENDS RegisterImage, SRUMapping

Plain == [modeSRU |-> FALSE, analogsIn |-> 1, counters |-> 1]
PlainWidth == [simulate |-> 4, acquire |-> 4, zeros |-> 0]
Shifted == [modeSRU |-> TRUE, analogsIn |-> 0, counters |-> 1]
ShiftedWidth == [simulate |-> 4, acquire |-> 3, zeros |-> 0]
CounterWords == <<2, 3>>

(* The widths and the words are those of such configurations, and the      *)
(* shipped one is of the second kind.                                      *)
ASSUME WidthsAreConfigured ==
  /\ PlainWidth = WidthFor(LoadConfig(Plain))
  /\ ShiftedWidth = WidthFor(LoadConfig(Shifted))
  /\ \A ini \in {Plain, Shifted} :
       \A i \in 1 .. 2 :
         SimulatedTick(LoadConfig(ini))[CounterWords[i] + 1] = <<"high", "low">>[i]
  /\ WidthFor(Defaults).simulate = WidthFor(Defaults).acquire + 1

============================================================================
