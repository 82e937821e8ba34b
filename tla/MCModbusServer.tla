--------------------------- MODULE MCModbusServer ---------------------------
(* Small instances of ModbusServer: the listening socket lies between the  *)
(* descriptors that accept() can return.                                   *)
EXTENDS ModbusServer

TwoFds == {1, 5}
ThreeFds == {1, 5, 6}
AllRequests == {"read", "coil", "bad"}
BurstRequests == {"read", "coil"}
=============================================================================
