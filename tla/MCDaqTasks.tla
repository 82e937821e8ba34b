---------------------------- MODULE MCDaqTasks ----------------------------
(* A small instance of DaqTasks with calls that the program makes: the     *)
(* timer's thread reads two counters by name, no other thread does; two    *)
(* command clients read a module by index that a sampling thread reads as  *)
(* well. (The relays and their mutex are in RelayPath.)                    *)
EXTENDS DaqTasks, TLC
CONSTANTS timer, client1, client2, sampler, ctr0, ctr1

C(op, key, res) == [op |-> op, key |-> key, res |-> res]

ThreadSet == {timer, client1, client2, sampler}
ResourceSet == {"Mod3", "counter0", "counter1"}
KeySet == {ctr0, ctr1}

LiveCalls ==
  timer :> {C("readCounterByName", ctr0, "counter0"),
            C("readCounterByName", ctr1, "counter1")} @@
  client1 :> {C("readVoltageByIndex", NoKey, "Mod3")} @@
  client2 :> {C("readVoltageByIndex", NoKey, "Mod3")} @@
  sampler :> {C("readMod3", NoKey, "Mod3")}

ClientSymmetry == Permutations({client1, client2})
============================================================================
