--------------------------- MODULE MCModuleConfig ---------------------------
(* An instance of ModuleConfig with the factory's five modules. The limits *)
(* and numbers that a user writes lie below, at, inside and above the      *)
(* built-in ones; the largest count is 9.                                  *)
EXTENDS ModuleConfig, DeviceModules, TLC

CONSTANTS Mod1, Mod2

AliasSet == {Mod1, Mod2}
AliasSymmetry == Permutations(AliasSet)
Top == 9
KindOf == [t \in Products |-> CreateModule(t, Top).kind]
MadeOf == [t \in Products |-> CreateModule(t, Top).settings]
LimitSet == {-30, 0, 30}
CounterLimitSet == {0, 5, 9}
CountSet == {0, 4, 20}
=============================================================================
