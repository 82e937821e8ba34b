---------------------------- MODULE ModbusServer ----------------------------
(***************************************************************************)
(* The connection loop of NewModbusServer: one thread, select() over all   *)
(* sockets, one request per ready socket and pass, except that write       *)
(* single coil requests (function code 0x05) are served in a burst, in     *)
(* which modbus_receive() blocks on the socket of the burst.               *)
(*                                                                         *)
(* The masters are the environment: they connect, send requests of four    *)
(* kinds and hang up whenever they like. What a request does to registers, *)
(* coils and relays, and its reply, change nothing this module looks at.   *)
(***************************************************************************)
EXTENDS Naturals, Sequences, FiniteSets

CONSTANTS
  Fds,          \* the descriptors accept() can return
  ServerFd,     \* the listening socket
  Requests,     \* the kinds of request the masters send
  MaxInbox,     \* bound: requests waiting in one socket
  MaxBacklog    \* bound: connections waiting for accept()

ASSUME ServerAssumption ==
  /\ Fds \subseteq Nat
  /\ ServerFd \in Nat \ Fds
  /\ Requests \subseteq {"read", "coil", "coils", "bad"}
  /\ MaxInbox \in Nat
  /\ MaxBacklog \in Nat

VARIABLES
  refset,       \* the descriptors select() watches
  fdmax,        \* the upper bound of the scan
  clientList,   \* the sockets of the client list
  rdset,        \* what the last select() found ready
  cursor,       \* the descriptor the scan has reached
  at,           \* where the server thread is
  open,         \* operating system: the sockets the server holds
  peer,         \* peer[f]: the master behind f has not hung up
  inbox,        \* inbox[f]: the requests waiting in f
  backlog       \* connections waiting for accept()

serverVars == <<refset, fdmax, clientList, rdset, cursor, at>>
netVars == <<open, peer, inbox, backlog>>
vars == <<serverVars, netVars>>

TypeOK ==
  /\ refset \subseteq Fds \cup {ServerFd}
  /\ fdmax \in Fds \cup {ServerFd}
  /\ clientList \subseteq Fds
  /\ rdset \subseteq Fds \cup {ServerFd}
  /\ cursor \in Nat
  /\ at \in {"select", "scan", "receive"}
  /\ open \subseteq Fds
  /\ peer \in [Fds -> BOOLEAN]
  /\ inbox \in [Fds -> Seq(Requests)]
  /\ backlog \in Nat

(* After setupServerSocket(). *)
Init_NoMax ==   \* mutant: setupServerSocket() leaves fdmax at 0
  /\ refset = {ServerFd}
  /\ fdmax = 0
  /\ clientList = {}
  /\ rdset = {}
  /\ cursor = 0
  /\ at = "select"
  /\ open = {}
  /\ peer = [f \in Fds |-> FALSE]
  /\ inbox = [f \in Fds |-> <<>>]
  /\ backlog = 0

Init ==
  /\ refset = {ServerFd}
  /\ fdmax = ServerFd
  /\ clientList = {}
  /\ rdset = {}
  /\ cursor = 0
  /\ at = "select"
  /\ open = {}
  /\ peer = [f \in Fds |-> FALSE]
  /\ inbox = [f \in Fds |-> <<>>]
  /\ backlog = 0

----------------------------------------------------------------------------
(* The masters.                                                            *)

Connect ==
  /\ backlog < MaxBacklog
  /\ backlog' = backlog + 1
  /\ UNCHANGED <<serverVars, open, peer, inbox>>

Send(f, r) ==
  /\ f \in open
  /\ peer[f]
  /\ Len(inbox[f]) < MaxInbox
  /\ inbox' = [inbox EXCEPT ![f] = Append(@, r)]
  /\ UNCHANGED <<serverVars, open, peer, backlog>>

HangUp(f) ==
  /\ peer[f]
  /\ peer' = [peer EXCEPT ![f] = FALSE]
  /\ UNCHANGED <<serverVars, open, inbox, backlog>>

----------------------------------------------------------------------------
(* runServer(): select, then scan the descriptors 0 .. fdmax.              *)

Readable(f) ==
  IF f = ServerFd THEN backlog > 0
  ELSE f \in open /\ (inbox[f] # <<>> \/ ~ peer[f])

Select_KeepsOld ==   \* mutant: rdset is not copied afresh from refset
  /\ at = "select"
  /\ rdset' = rdset \cup {f \in refset : f <= fdmax /\ Readable(f)}
  /\ rdset' # {}
  /\ cursor' = 0
  /\ at' = "scan"
  /\ UNCHANGED <<refset, fdmax, clientList, netVars>>

Select_BelowMax ==   \* mutant: select(fdmax, ...) for select(fdmax + 1, ...)
  /\ at = "select"
  /\ rdset' = {f \in refset : f < fdmax /\ Readable(f)}
  /\ rdset' # {}
  /\ cursor' = 0
  /\ at' = "scan"
  /\ UNCHANGED <<refset, fdmax, clientList, netVars>>

Select ==
  /\ at = "select"
  /\ rdset' = {f \in refset : f <= fdmax /\ Readable(f)}
  /\ rdset' # {}
  /\ cursor' = 0
  /\ at' = "scan"
  /\ UNCHANGED <<refset, fdmax, clientList, netVars>>

(* The scan reaches f: the next ready descriptor, not above fdmax.         *)
Reaches(f) ==
  /\ at = "scan"
  /\ f \in rdset
  /\ cursor <= f /\ f <= fdmax
  /\ \A g \in rdset : cursor <= g => f <= g

PassEnds ==
  /\ at = "scan"
  /\ \A f \in rdset : f < cursor \/ f > fdmax
  /\ at' = "select"
  /\ UNCHANGED <<refset, fdmax, clientList, rdset, cursor, netVars>>

(* handleNewConnection() *)
Accept(f) ==
  /\ Reaches(ServerFd)
  /\ f \in Fds \ open
  /\ open' = open \cup {f}
  /\ peer' = [peer EXCEPT ![f] = TRUE]
  /\ backlog' = backlog - 1
  /\ refset' = refset \cup {f}
  /\ fdmax' = IF f > fdmax THEN f ELSE fdmax
  /\ clientList' = clientList \cup {f}
  /\ cursor' = ServerFd + 1
  /\ UNCHANGED <<rdset, at, inbox>>

(* accept() fails when the process has no descriptor left.                 *)
AcceptFails ==
  /\ Reaches(ServerFd)
  /\ open = Fds
  /\ cursor' = ServerFd + 1
  /\ UNCHANGED <<refset, fdmax, clientList, rdset, at, netVars>>

EnterHandler(f) ==
  /\ f # ServerFd
  /\ Reaches(f)
  /\ cursor' = f
  /\ at' = "receive"
  /\ UNCHANGED <<refset, fdmax, clientList, rdset, netVars>>

----------------------------------------------------------------------------
(* handleClientRequest() on the socket cursor.                             *)

Received(f, kinds) ==
  /\ at = "receive"
  /\ cursor = f
  /\ inbox[f] # <<>>
  /\ Head(inbox[f]) \in kinds
  /\ inbox' = [inbox EXCEPT ![f] = Tail(@)]
  /\ UNCHANGED <<refset, fdmax, clientList, rdset, open, peer, backlog>>

(* Function code 0x05: the loop goes back to modbus_receive().             *)
ReceiveCoil(f) ==
  /\ Received(f, {"coil"})
  /\ UNCHANGED <<cursor, at>>

ReceiveOther(f) ==
  /\ Received(f, {"coils", "read"})
  /\ cursor' = f + 1
  /\ at' = "scan"

(* findMaxSocket(): the greatest of the listening socket and the clients.  *)
IsMaxSocket(m, list) ==
  /\ m \in list \cup {ServerFd}
  /\ \A g \in list \cup {ServerFd} : g <= m

CloseClient_KeepsMax(f) ==   \* mutant: fdmax is not lowered
  /\ at = "receive"
  /\ cursor = f
  /\ ~ peer[f] \/ (inbox[f] # <<>> /\ Head(inbox[f]) = "bad")
  /\ clientList' = clientList \ {f}
  /\ open' = open \ {f}
  /\ refset' = refset \ {f}
  /\ peer' = [peer EXCEPT ![f] = FALSE]
  /\ inbox' = [inbox EXCEPT ![f] = <<>>]
  /\ cursor' = f + 1
  /\ at' = "scan"
  /\ UNCHANGED <<rdset, backlog, fdmax>>

CloseClient_ResetsMax(f) ==   \* mutant: every disconnection resets fdmax
  /\ at = "receive"
  /\ cursor = f
  /\ ~ peer[f] \/ (inbox[f] # <<>> /\ Head(inbox[f]) = "bad")
  /\ clientList' = clientList \ {f}
  /\ open' = open \ {f}
  /\ refset' = refset \ {f}
  /\ fdmax' = ServerFd
  /\ peer' = [peer EXCEPT ![f] = FALSE]
  /\ inbox' = [inbox EXCEPT ![f] = <<>>]
  /\ cursor' = f + 1
  /\ at' = "scan"
  /\ UNCHANGED <<rdset, backlog>>

(* modbus_receive() returns -1: the master has hung up (requests that      *)
(* still waited are lost when it reset the connection), or it sent what is *)
(* not a Modbus request.                                                   *)
CloseClient(f) ==
  /\ at = "receive"
  /\ cursor = f
  /\ ~ peer[f] \/ (inbox[f] # <<>> /\ Head(inbox[f]) = "bad")
  /\ clientList' = clientList \ {f}
  /\ open' = open \ {f}
  /\ refset' = refset \ {f}
  /\ IF f = fdmax THEN \E m \in Fds \cup {ServerFd} :
                         IsMaxSocket(m, clientList') /\ fdmax' = m
     ELSE fdmax' = fdmax
  /\ peer' = [peer EXCEPT ![f] = FALSE]
  /\ inbox' = [inbox EXCEPT ![f] = <<>>]
  /\ cursor' = f + 1
  /\ at' = "scan"
  /\ UNCHANGED <<rdset, backlog>>

----------------------------------------------------------------------------

ServerStep ==
  \/ Select \/ PassEnds \/ AcceptFails
  \/ \E f \in Fds :
       \/ Accept(f) \/ EnterHandler(f)
       \/ ReceiveCoil(f) \/ ReceiveOther(f) \/ CloseClient(f)

MasterStep ==
  \/ Connect
  \/ \E f \in Fds : HangUp(f) \/ \E r \in Requests : Send(f, r)

Next == ServerStep \/ MasterStep

Spec == Init /\ [][Next]_vars

(* The server thread is scheduled; the masters owe nothing.                *)
FairSpec == Spec /\ WF_vars(ServerStep)

----------------------------------------------------------------------------
(* Properties.                                                             *)

(* What the server keeps in three places agrees with the sockets it really *)
(* holds, so that select() never fails on a closed descriptor and never    *)
(* misses one: refset, the client list, and fdmax over all of them.        *)
Bookkeeping ==
  /\ clientList = open
  /\ refset = open \cup {ServerFd}
  /\ IsMaxSocket(fdmax, open)

(* The descriptors the scan has yet to look at. *)
Ahead(f) ==
  /\ at # "select"
  /\ f \in rdset
  /\ IF at = "receive" THEN f > cursor ELSE f >= cursor

(* A descriptor closed, and perhaps given out again, during a pass is not  *)
(* taken for the one select() reported: the rest of the scan and the       *)
(* handler only meet sockets that are registered.                          *)
NothingStale ==
  /\ at = "receive" => cursor \in open
  /\ \A f \in Fds \cup {ServerFd} : Ahead(f) => f \in refset

(* What select() found ready is still ready when the scan gets there, so   *)
(* accept() and the first modbus_receive() of a handler never block.       *)
AheadIsReady ==
  \A f \in Fds \cup {ServerFd} : Ahead(f) => Readable(f)

(* The comment of the burst loop says that after a burst "normal operation *)
(* resumes": a request that waits is read, or its socket is closed.        *)
Served ==
  \A f \in Fds :
    inbox[f] # <<>> ~> ((at = "receive" /\ cursor = f) \/ inbox[f] = <<>>)

(* What does hold: as long as every pass comes to its end, each request    *)
(* that waits is read and each connection that waits is accepted (or no    *)
(* descriptor is left), whatever the other masters send.                   *)
ServedIfPassesEnd ==
  []<>(at = "select") =>
    /\ Served
    /\ backlog = MaxBacklog ~> (backlog < MaxBacklog \/ open = Fds)

(* A master that has hung up is forgotten, under the same condition.       *)
ForgottenIfPassesEnd ==
  []<>(at = "select") =>
    \A f \in Fds : (f \in open /\ ~ peer[f]) ~> f \notin open

=============================================================================
