-------------------------- MODULE MCBridgeControl --------------------------
(* Small instances of BridgeControl: the boot thread with one client or two. *)
EXTENDS BridgeControl, TLC

CONSTANTS boot, c1, c2, nobody

MCTimers == {"simulate", "acquire"}
OneClient == {c1}
TwoClients == {c1, c2}
OneCaller == {boot, c1}
TwoCallers == {boot, c1, c2}
ClientSymmetry == Permutations(TwoClients)
============================================================================
