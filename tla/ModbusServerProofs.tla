------------------------- MODULE ModbusServerProofs -------------------------
(***************************************************************************)
(* Theorems of ModbusServer, for every set of descriptors, every mix of    *)
(* requests and every bound. The four invariants are inductive together:   *)
(* accept() may count a connection off the backlog only because what       *)
(* select() found ready stays ready, and that because the scan meets       *)
(* registered sockets only.                                                *)
(***************************************************************************)
EXTENDS ModbusServer, TLAPS

ServerInv == TypeOK /\ Bookkeeping /\ NothingStale /\ AheadIsReady

(* setupServerSocket() establishes the invariant.                          *)
LEMMA ServerInit == Init => ServerInv
BY ServerAssumption
DEF Init, ServerInv, TypeOK, Bookkeeping, IsMaxSocket, NothingStale,
    AheadIsReady, Ahead

(* Every step of the server and of the masters preserves it.               *)
LEMMA ServerNext ==
  ASSUME ServerInv, [Next]_vars
  PROVE  ServerInv'
<1> USE ServerAssumption
    DEF ServerInv, TypeOK, serverVars, netVars
<1>1. CASE Connect
  <2>1. TypeOK'
    BY <1>1 DEF Connect, AheadIsReady, Ahead, Readable
  <2>2. Bookkeeping'
    BY <1>1 DEF Connect, Bookkeeping, IsMaxSocket
  <2>3. NothingStale'
    BY <1>1 DEF Connect, NothingStale, Ahead, Bookkeeping
  <2>4. AheadIsReady'
    BY <1>1 DEF Connect, AheadIsReady, NothingStale, Ahead, Readable, Bookkeeping
  <2> QED BY <2>1, <2>2, <2>3, <2>4
<1>2. ASSUME NEW f \in Fds, NEW r \in Requests, Send(f, r)
      PROVE  ServerInv'
  <2>1. TypeOK'
    BY <1>2 DEF Send, AheadIsReady, Ahead, Readable
  <2>2. Bookkeeping'
    BY <1>2 DEF Send, Bookkeeping, IsMaxSocket
  <2>3. NothingStale'
    BY <1>2 DEF Send, NothingStale, Ahead, Bookkeeping
  <2>4. AheadIsReady'
    BY <1>2 DEF Send, AheadIsReady, NothingStale, Ahead, Readable, Bookkeeping
  <2> QED BY <2>1, <2>2, <2>3, <2>4
<1>3. ASSUME NEW f \in Fds, HangUp(f)
      PROVE  ServerInv'
  <2>1. TypeOK'
    BY <1>3 DEF HangUp, AheadIsReady, Ahead, Readable
  <2>2. Bookkeeping'
    BY <1>3 DEF HangUp, Bookkeeping, IsMaxSocket
  <2>3. NothingStale'
    BY <1>3 DEF HangUp, NothingStale, Ahead, Bookkeeping
  <2>4. AheadIsReady'
    BY <1>3 DEF HangUp, AheadIsReady, NothingStale, Ahead, Readable, Bookkeeping
  <2> QED BY <2>1, <2>2, <2>3, <2>4
<1>4. CASE Select
  <2>1. TypeOK'
    BY <1>4 DEF Select, AheadIsReady, Ahead, Readable
  <2>2. Bookkeeping'
    BY <1>4 DEF Select, Bookkeeping, IsMaxSocket
  <2>3. NothingStale'
    BY <1>4 DEF Select, NothingStale, Ahead, Bookkeeping
  <2>4. AheadIsReady'
    BY <1>4 DEF Select, AheadIsReady, NothingStale, Ahead, Readable, Bookkeeping
  <2> QED BY <2>1, <2>2, <2>3, <2>4
<1>5. CASE PassEnds
  <2>1. TypeOK'
    BY <1>5 DEF PassEnds, AheadIsReady, Ahead, Readable
  <2>2. Bookkeeping'
    BY <1>5 DEF PassEnds, Bookkeeping, IsMaxSocket
  <2>3. NothingStale'
    BY <1>5 DEF PassEnds, NothingStale, Ahead, Bookkeeping
  <2>4. AheadIsReady'
    BY <1>5 DEF PassEnds, AheadIsReady, NothingStale, Ahead, Readable, Bookkeeping
  <2> QED BY <2>1, <2>2, <2>3, <2>4
<1>6. CASE AcceptFails
  <2>1. TypeOK'
    BY <1>6 DEF AcceptFails, Reaches, AheadIsReady, Ahead, Readable
  <2>2. Bookkeeping'
    BY <1>6 DEF AcceptFails, Reaches, Bookkeeping, IsMaxSocket
  <2>3. NothingStale'
    BY <1>6 DEF AcceptFails, Reaches, NothingStale, Ahead, Bookkeeping
  <2>4. AheadIsReady'
    BY <1>6 DEF AcceptFails, Reaches, AheadIsReady, NothingStale, Ahead, Readable, Bookkeeping
  <2> QED BY <2>1, <2>2, <2>3, <2>4
<1>7. ASSUME NEW f \in Fds, Accept(f)
      PROVE  ServerInv'
  <2>1. TypeOK'
    BY <1>7 DEF Accept, Reaches, AheadIsReady, Ahead, Readable
  <2>2. Bookkeeping'
    BY <1>7 DEF Accept, Reaches, Bookkeeping, IsMaxSocket
  <2>3. NothingStale'
    BY <1>7 DEF Accept, Reaches, NothingStale, Ahead, Bookkeeping
  <2>4. AheadIsReady'
    BY <1>7 DEF Accept, Reaches, AheadIsReady, NothingStale, Ahead, Readable, Bookkeeping
  <2> QED BY <2>1, <2>2, <2>3, <2>4
<1>8. ASSUME NEW f \in Fds, EnterHandler(f)
      PROVE  ServerInv'
  <2>1. TypeOK'
    BY <1>8 DEF EnterHandler, Reaches, AheadIsReady, Ahead, Readable
  <2>2. Bookkeeping'
    BY <1>8 DEF EnterHandler, Reaches, Bookkeeping, IsMaxSocket
  <2>3. NothingStale'
    BY <1>8 DEF EnterHandler, Reaches, NothingStale, Ahead, Bookkeeping
  <2>4. AheadIsReady'
    BY <1>8 DEF EnterHandler, Reaches, AheadIsReady, NothingStale, Ahead, Readable, Bookkeeping
  <2> QED BY <2>1, <2>2, <2>3, <2>4
<1>9. ASSUME NEW f \in Fds, ReceiveCoil(f)
      PROVE  ServerInv'
  <2>1. TypeOK'
    BY <1>9 DEF ReceiveCoil, Received, AheadIsReady, Ahead, Readable
  <2>2. Bookkeeping'
    BY <1>9 DEF ReceiveCoil, Received, Bookkeeping, IsMaxSocket
  <2>3. NothingStale'
    BY <1>9 DEF ReceiveCoil, Received, NothingStale, Ahead, Bookkeeping
  <2>4. AheadIsReady'
    BY <1>9 DEF ReceiveCoil, Received, AheadIsReady, NothingStale, Ahead, Readable, Bookkeeping
  <2> QED BY <2>1, <2>2, <2>3, <2>4
<1>10. ASSUME NEW f \in Fds, ReceiveOther(f)
      PROVE  ServerInv'
  <2>1. TypeOK'
    BY <1>10 DEF ReceiveOther, Received, AheadIsReady, Ahead, Readable
  <2>2. Bookkeeping'
    BY <1>10 DEF ReceiveOther, Received, Bookkeeping, IsMaxSocket
  <2>3. NothingStale'
    BY <1>10 DEF ReceiveOther, Received, NothingStale, Ahead, Bookkeeping
  <2>4. AheadIsReady'
    BY <1>10 DEF ReceiveOther, Received, AheadIsReady, NothingStale, Ahead, Readable, Bookkeeping
  <2> QED BY <2>1, <2>2, <2>3, <2>4
<1>11. ASSUME NEW f \in Fds, CloseClient(f)
      PROVE  ServerInv'
  <2>1. TypeOK'
    BY <1>11 DEF CloseClient, AheadIsReady, Ahead, Readable
  <2>2. Bookkeeping'
    BY <1>11 DEF CloseClient, Bookkeeping, IsMaxSocket
  <2>3. NothingStale'
    BY <1>11 DEF CloseClient, NothingStale, Ahead, Bookkeeping
  <2>4. AheadIsReady'
    BY <1>11 DEF CloseClient, AheadIsReady, NothingStale, Ahead, Readable, Bookkeeping
  <2> QED BY <2>1, <2>2, <2>3, <2>4
<1>12. CASE UNCHANGED vars
  BY <1>12 DEF vars, Bookkeeping, IsMaxSocket, NothingStale, AheadIsReady,
               Ahead, Readable
<1> QED
  BY <1>1, <1>2, <1>3, <1>4, <1>5, <1>6, <1>7, <1>8, <1>9, <1>10, <1>11, <1>12
  DEF Next, ServerStep, MasterStep

(* The inductive invariant of the connection loop.                         *)
THEOREM ServerInvariance == Spec => []ServerInv
BY ServerInit, ServerNext, PTL DEF Spec

(* The server's variables keep their types; fdmax is always a descriptor   *)
(* that the server holds or has held.                                      *)
THEOREM ServerTypes == Spec => []TypeOK
BY ServerInvariance, PTL DEF ServerInv

(* The bookkeeping of connections agrees with the sockets really held.     *)
THEOREM BookkeepingHolds == Spec => []Bookkeeping
<1>1. ServerInv => Bookkeeping
  BY DEF ServerInv
<1> QED BY <1>1, ServerInvariance, PTL

(* No descriptor is mistaken for an earlier one of the same number.        *)
THEOREM NothingStaleHolds == Spec => []NothingStale
<1>1. ServerInv => NothingStale
  BY DEF ServerInv
<1> QED BY <1>1, ServerInvariance, PTL

(* accept() and the first receive of a handler never block.                *)
THEOREM AheadIsReadyHolds == Spec => []AheadIsReady
<1>1. ServerInv => AheadIsReady
  BY DEF ServerInv
<1> QED BY <1>1, ServerInvariance, PTL

============================================================================
