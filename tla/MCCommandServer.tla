-------------------------- MODULE MCCommandServer --------------------------
(* Small instances of CommandServer: one client that waits for its answers *)
(* and one that does not.                                                  *)
EXTENDS CommandServer

CONSTANTS polite, hasty, nobody

BothConnections == {polite, hasty}
OnlyPolite == {polite}
OneFd == {4}

(* The hasty client needs two lines in one record and an upload to get the *)
(* server behind, and a fourth line to have one written to the file.       *)
FewOrMore == [k \in BothConnections |-> IF k = hasty THEN 4 ELSE 2]
OneOrTwo == [k \in BothConnections |-> IF k = hasty THEN 1 ELSE 2]
============================================================================
