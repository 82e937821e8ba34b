---------------------------- MODULE MappingFiles ----------------------------
(***************************************************************************)
(* The two mapping files, as loadMapping() and loadAlarmMapping() of the   *)
(* bridge read them: line by line, field by field, up to the first field   *)
(* that cannot be taken, which costs the line.                             *)
(*                                                                         *)
(* A file is a sequence of lines and a line a sequence of fields. A field  *)
(* is known by what std::stoi or std::stof makes of it or, where a name is *)
(* read, by what it names. (A number too large for its type is not caught: *)
(* it ends the program before anything else runs.)                         *)
(***************************************************************************)
EXTENDS Naturals, Sequences, SequencesExt

CONSTANT NoNumber   \* a field in which std::stoi or std::stof finds no number

Columns ==
  <<"index", "moduleType", "module", "channel",
    "minSource", "maxSource", "minDest", "maxDest", "modbusChannel">>

AlarmColumns == <<"index", "module", "alarmRole", "channel", "modbusCoilsChannel">>

Names == {"module", "channel", "alarmRole"}

(* A line with a field missing or unreadable is skipped; what follows the  *)
(* last column is not looked at.                                           *)
Readable(columns, fields) ==
  /\ Len(fields) >= Len(columns)
  /\ \A c \in DOMAIN columns :
       columns[c] \notin Names => fields[c] # NoNumber

Field(columns, fields, name) ==
  fields[CHOOSE c \in DOMAIN columns : columns[c] = name]

(* enum ModuleType, as the switch of acquireData() tells its values apart. *)
KindOf(moduleType) ==
  CASE moduleType \in {0, 1} -> "analog"
    [] moduleType = 4 -> "counter"
    [] OTHER -> "other"

(* m_mappingData: the lines that could be read, in the order of the file.  *)
LoadMapping(file) ==
  LET Row(l) == [kind |-> KindOf(Field(Columns, l, "moduleType")),
                 module |-> Field(Columns, l, "module"),
                 reg |-> Field(Columns, l, "modbusChannel")]
      Take(rows, l) == IF Readable(Columns, l) THEN Append(rows, Row(l)) ELSE rows
  IN  FoldLeft(Take, <<>>, file)

(* m_alarmsMappingData: a relay is named by module and channel, here by    *)
(* Relay[channel].                                                         *)
LoadAlarmMapping(file, Relay) ==
  LET Row(l) == [coil |-> Field(AlarmColumns, l, "modbusCoilsChannel"),
                 relay |-> Relay[Field(AlarmColumns, l, "channel")]]
      Take(rows, l) == IF Readable(AlarmColumns, l) THEN Append(rows, Row(l)) ELSE rows
  IN  FoldLeft(Take, <<>>, file)

=============================================================================
