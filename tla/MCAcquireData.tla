--------------------------- MODULE MCAcquireData ---------------------------
(* Instances of AcquireData: modules with a sampling thread, an analog one *)
(* without that may be missing, a coder, and one or two counters whose     *)
(* words of one bit wrap within the run. The mapping file has lines that   *)
(* cannot be read.                                                         *)
EXTENDS AcquireData, MappingFiles

Line(n, type, m, c, r) == <<n, type, m, c, 0, 1, 0, 65535, r>>

MCFile ==
  << <<NoNumber, NoNumber, "module", "channel">>,
     Line(0, 0, "Mod1", "/ai0", 0),
     Line(1, 4, "Mod4", "PFI0", NoNumber),
     Line(1, 4, "Mod4", "PFI0", 1),
     Line(2, 5, "Mod7", "/ctr0", 0),
     Line(3, 1, "Mod5", "/ai0", 4),
     <<>> >>
MCRows ==
  << [kind |-> "analog", module |-> "Mod1", reg |-> 0],
     [kind |-> "counter", module |-> "Mod4", reg |-> 1],
     [kind |-> "other", module |-> "Mod7", reg |-> 0],
     [kind |-> "analog", module |-> "Mod5", reg |-> 4] >>
MCLineSize == 5
MCSampled == {"Mod1"}
MCChassis == {{"Mod1", "Mod4", "Mod5", "Mod7"}, {"Mod1", "Mod4"}}
MCNone == {}

MCCounterFile == <<Line(0, 4, "Mod4", "PFI0", 0), Line(1, 4, "Mod4", "PFI1", 3)>>
MCCounterRows ==
  << [kind |-> "counter", module |-> "Mod4", reg |-> 0],
     [kind |-> "counter", module |-> "Mod4", reg |-> 3] >>
MCCounterSize == 6
MCCounterChassis == {{"Mod4"}}

(* The rows are what the bridge makes of the files. *)
ASSUME RowsAreLoaded ==
  MCRows = LoadMapping(MCFile) /\ MCCounterRows = LoadMapping(MCCounterFile)

=============================================================================
