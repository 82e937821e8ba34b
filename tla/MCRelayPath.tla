---------------------------- MODULE MCRelayPath -----------------------------
(* Two relays. Master m1 writes the first one, coil by coil; m2 writes the *)
(* second one through the two coils that share it, as the default mapping  *)
(* has it, singly and with the coil in between; the second of them is      *)
(* beyond the bits of the server.                                          *)
EXTENDS RelayPath, MappingFiles

CONSTANTS m1, m2

MCRows ==
  << [coil |-> 0, relay |-> 0], [coil |-> 2, relay |-> 1], [coil |-> 4, relay |-> 1],
     [coil |-> 2, relay |-> 0] >>

(* The rows are what the bridge makes of an alarms' file; lines that do    *)
(* not name a coil are skipped.                                            *)
RelayOfLine == "/port0/line0" :> 0 @@ "/port0/line1" :> 1

MCAlarmFile ==
  << <<0, "Mod6", "Buzzer", "/port0/line0", 0>>,
     <<1, "Mod6", "Flash_H2S", "/port0/line1", 2>>,
     <<2, "Mod6", "Flash_CH4", "/port0/line1", NoNumber>>,
     <<2, "Mod6", "Flash_CH4", "/port0/line1", 4>>,
     <<3, "Mod6", "Siren", "/port0/line0">>,
     <<3, "Mod6", "Siren", "/port0/line0", 2>> >>

ASSUME RowsAreLoaded == MCRows = LoadAlarmMapping(MCAlarmFile, RelayOfLine)

MCCommander == 0 :> m1 @@ 1 :> m2

One(c, v) == [kind |-> "one", coil |-> c, values |-> <<v>>]
Many(c, vs) == [kind |-> "many", coil |-> c, values |-> vs]

MCAsks ==
  m1 :> {One(0, TRUE), One(0, FALSE)}
  @@ m2 :> {One(4, FALSE), Many(2, <<FALSE, FALSE, TRUE>>)}

=============================================================================
