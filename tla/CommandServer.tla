--------------------------- MODULE CommandServer ---------------------------
(***************************************************************************)
(* The SSL command server: one thread accepts connections, and one thread  *)
(* per connection reads lines, runs each as a command and answers it.      *)
(*                                                                         *)
(* What a client sends is a sequence of records, one per SSL_write(), and  *)
(* SSL_read() returns one record. A record is a sequence of tokens: "cmd"  *)
(* (a piece of a command), "put" (the command that announces a file of     *)
(* FileSize pieces), "eol" (the newline that ends a command) and, in a     *)
(* file, "data" and "nl" (a newline of the file: the files are ini and csv *)
(* files). To the server both newlines are the same. No line of a file     *)
(* announces another. Commands are what BridgeControl and the readers do;  *)
(* here they only take a step and are answered. The server is never        *)
(* stopped: the only call of stopServer() is in a destructor that the      *)
(* endless loop of main() does not reach.                                  *)
(***************************************************************************)
EXTENDS Naturals, Sequences, FiniteSets

CONSTANTS
  Connections,    \* the connections that clients open, each once
  Polite,         \* those whose client waits for an answer before it goes on
  Fds,            \* the descriptors accept() can return
  NoConnection,
  MaxLine,        \* maxMessageSize, in tokens
  FileSize,       \* the size of every file, in tokens
  MaxCommands,    \* bound: MaxCommands[k] command lines on connection k
  MaxUnderWay     \* bound: MaxUnderWay[k] records of k are under way

ASSUME CommandAssumption ==
  /\ Polite \subseteq Connections
  /\ NoConnection \notin Connections
  /\ Fds \subseteq Nat \ {0}
  /\ MaxLine \in Nat \ {0}
  /\ FileSize \in Nat \ {0}
  /\ MaxCommands \in [Connections -> Nat]
  /\ MaxUnderWay \in [Connections -> Nat \ {0}]

VARIABLES
  alive,      \* the process runs
  acceptor,   \* where the accept thread is
  current,    \* the connection it is setting up
  socket,     \* operating system: socket[f] is the connection f stands for
  fdOf,       \* fdOf[k]: the descriptor accept() returned for k, 0 before
  clientIPs,  \* m_clientIPs: clientIPs[f] is the client listed under f
  handler,    \* handler[k]: where the thread of connection k is
  acc,        \* acc[k]: accumulatedData
  file,       \* file[k]: what the upload in progress has written
  peer,       \* peer[k]: "away", "queued", "secure" or "left"
  stage,      \* stage[k]: what the client of k does next
  sent,       \* sent[k]: how much of its file the client has sent
  inbox,      \* inbox[k]: records on their way to the server
  asked,      \* asked[k]: lines the client has sent
  answered,   \* answered[k]: answers the server has sent
  refused,    \* history: refused[k], an upload of k was refused
  filed,      \* history: filed[k], commands of k that went into a file
  strayed     \* history: strayed[k], lines of k's files that were run

countVars == <<answered, refused, filed, strayed>>
threadVars == <<handler, acc, file, countVars>>
acceptVars == <<acceptor, current, fdOf>>
clientVars == <<stage, sent, asked>>
vars == <<alive, acceptVars, socket, clientIPs, threadVars, peer, inbox, clientVars>>

FileTokens == {"data", "nl"}
Tokens == {"cmd", "put", "eol"} \cup FileTokens
Newlines == {"eol", "nl"}
Alive == {"read", "line", "upload"}

TypeOK ==
  /\ alive \in BOOLEAN
  /\ acceptor \in {"poll", "handshake", "register"}
  /\ current \in Connections \cup {NoConnection}
  /\ socket \in [Fds -> Connections \cup {NoConnection}]
  /\ fdOf \in [Connections -> Fds \cup {0}]
  /\ clientIPs \in [Fds -> Connections \cup {NoConnection}]
  /\ handler \in [Connections ->
                    {"none", "shutdown", "closed", "gone"} \cup Alive]
  /\ acc \in [Connections -> Seq(Tokens)]
  /\ file \in [Connections -> Seq(Tokens)]
  /\ peer \in [Connections -> {"away", "queued", "secure", "left"}]
  /\ stage \in [Connections -> {"idle", "half", "file", "wait"}]
  /\ sent \in [Connections -> 0 .. FileSize]
  /\ inbox \in [Connections -> Seq(Seq(Tokens))]
  /\ asked \in [Connections -> Nat]
  /\ answered \in [Connections -> Nat]
  /\ refused \in [Connections -> BOOLEAN]
  /\ filed \in [Connections -> Nat]
  /\ strayed \in [Connections -> Nat]

Init ==
  /\ alive = TRUE
  /\ acceptor = "poll"
  /\ current = NoConnection
  /\ socket = [f \in Fds |-> NoConnection]
  /\ fdOf = [k \in Connections |-> 0]
  /\ clientIPs = [f \in Fds |-> NoConnection]
  /\ handler = [k \in Connections |-> "none"]
  /\ acc = [k \in Connections |-> <<>>]
  /\ file = [k \in Connections |-> <<>>]
  /\ peer = [k \in Connections |-> "away"]
  /\ stage = [k \in Connections |-> "idle"]
  /\ sent = [k \in Connections |-> 0]
  /\ inbox = [k \in Connections |-> <<>>]
  /\ asked = [k \in Connections |-> 0]
  /\ answered = [k \in Connections |-> 0]
  /\ refused = [k \in Connections |-> FALSE]
  /\ filed = [k \in Connections |-> 0]
  /\ strayed = [k \in Connections |-> 0]

----------------------------------------------------------------------------
(* acceptClients().                                                        *)

Accept(k, f) ==
  /\ acceptor = "poll"
  /\ peer[k] # "away"
  /\ fdOf[k] = 0
  /\ socket[f] = NoConnection
  /\ socket' = [socket EXCEPT ![f] = k]
  /\ fdOf' = [fdOf EXCEPT ![k] = f]
  /\ current' = k
  /\ acceptor' = "handshake"
  /\ UNCHANGED <<clientIPs, threadVars, peer, inbox, clientVars>>

(* SSL_accept() returns when the client has done its part ...              *)
HandshakeDone ==
  /\ acceptor = "handshake"
  /\ peer[current] = "secure"
  /\ acceptor' = "register"
  /\ UNCHANGED <<current, fdOf, socket, clientIPs, threadVars, peer, inbox,
                 clientVars>>

(* ... or has gone away.                                                   *)
HandshakeFails ==
  /\ acceptor = "handshake"
  /\ peer[current] = "left"
  /\ socket' = [socket EXCEPT ![fdOf[current]] = NoConnection]
  /\ acceptor' = "poll"
  /\ current' = NoConnection
  /\ handler' = [handler EXCEPT ![current] = "gone"]
  /\ UNCHANGED <<fdOf, clientIPs, acc, file, countVars, peer, inbox,
                 clientVars>>

(* Under clientMutex_: list the client, start its thread.                  *)
Register ==
  /\ acceptor = "register"
  /\ clientIPs' = [clientIPs EXCEPT ![fdOf[current]] = current]
  /\ handler' = [handler EXCEPT ![current] = "read"]
  /\ acceptor' = "poll"
  /\ current' = NoConnection
  /\ UNCHANGED <<fdOf, socket, acc, file, countVars, peer, inbox,
                 clientVars>>

----------------------------------------------------------------------------
(* handleClient(): the line a record completes is run before the next read.*)

HasLine(s) == \E n \in DOMAIN s : s[n] \in Newlines

(* Position n ends the first line of s.                                    *)
EndsLine(s, n) == s[n] \in Newlines /\ \A i \in 1 .. n - 1 : s[i] \notin Newlines

(* The commands that a sequence of tokens, or of records, holds.           *)
Eols(s) == {n \in DOMAIN s : s[n] = "eol"}
LinesOf(s) == Cardinality(Eols(s))
EolsIn(records) == UNION {{i} \X Eols(records[i]) : i \in DOMAIN records}
LinesIn(records) == Cardinality(EolsIn(records))

Goto(k, from, to) ==
  /\ handler[k] = from
  /\ handler' = [handler EXCEPT ![k] = to]
  /\ UNCHANGED <<acceptVars, socket, clientIPs, peer, clientVars>>

ReadRecord_TestsBefore(k) ==   \* mutant: looks for the newline before appending
  /\ inbox[k] # <<>>
  /\ Len(acc[k] \o Head(inbox[k])) <= MaxLine
  /\ Goto(k, "read", IF HasLine(acc[k]) THEN "line" ELSE "read")
  /\ acc' = [acc EXCEPT ![k] = @ \o Head(inbox[k])]
  /\ inbox' = [inbox EXCEPT ![k] = Tail(@)]
  /\ UNCHANGED <<file, countVars>>

ReadRecord(k) ==
  /\ inbox[k] # <<>>
  /\ Len(acc[k] \o Head(inbox[k])) <= MaxLine
  /\ Goto(k, "read",
          IF HasLine(acc[k] \o Head(inbox[k])) THEN "line" ELSE "read")
  /\ acc' = [acc EXCEPT ![k] = @ \o Head(inbox[k])]
  /\ inbox' = [inbox EXCEPT ![k] = Tail(@)]
  /\ UNCHANGED <<file, countVars>>

(* "NACK: command rejected": the length counts everything accumulated.     *)
Reject(k) ==
  /\ inbox[k] # <<>>
  /\ Len(acc[k] \o Head(inbox[k])) > MaxLine
  /\ Goto(k, "read", "shutdown")
  /\ acc' = [acc EXCEPT ![k] = @ \o Head(inbox[k])]
  /\ inbox' = [inbox EXCEPT ![k] = Tail(@)]
  /\ answered' = [answered EXCEPT ![k] = @ + 1]
  /\ UNCHANGED <<file, refused, filed, strayed>>

(* The client has gone: what it sent last may be lost.                     *)
ReadFails(k) ==
  /\ peer[k] = "left"
  /\ Goto(k, "read", "shutdown")
  /\ inbox' = [inbox EXCEPT ![k] = <<>>]
  /\ UNCHANGED <<acc, file, countVars>>

(* The line that position n ends is taken for a command, whoever wrote it: *)
(* a line of a file as well.                                               *)
TakeLine(k, n) ==
  /\ acc' = [acc EXCEPT ![k] = SubSeq(@, n + 1, Len(@))]
  /\ strayed' = [strayed EXCEPT ![k] = IF acc[k][n] = "nl" THEN @ + 1 ELSE @]

RunCommand_Clears(k) ==   \* mutant: all that was accumulated is dropped
  \E n \in DOMAIN acc[k] :
    /\ EndsLine(acc[k], n)
    /\ \A i \in 1 .. n : acc[k][i] # "put"
    /\ Goto(k, "line", "read")
    /\ TakeLine(k, Len(acc[k]))
    /\ answered' = [answered EXCEPT ![k] = @ + 1]
    /\ UNCHANGED <<file, refused, filed, inbox>>

RunCommand(k) ==
  \E n \in DOMAIN acc[k] :
    /\ EndsLine(acc[k], n)
    /\ \A i \in 1 .. n : acc[k][i] # "put"
    /\ Goto(k, "line", "read")
    /\ TakeLine(k, n)
    /\ answered' = [answered EXCEPT ![k] = @ + 1]
    /\ UNCHANGED <<file, refused, filed, inbox>>

(* An empty line has no tokens, and parseRequest() reads the first of      *)
(* them: when the build does not take what it finds there for an unknown   *)
(* command, the process ends.                                              *)
EmptyLineEnds(k) ==
  /\ handler[k] = "line"
  /\ EndsLine(acc[k], 1)
  /\ alive' = FALSE
  /\ UNCHANGED <<acceptVars, socket, clientIPs, threadVars, peer, inbox,
                 clientVars>>

(* handleFileDownloadFromClient(): the file is opened ...                  *)
UploadBegins(k) ==
  \E n \in DOMAIN acc[k] :
    /\ EndsLine(acc[k], n)
    /\ \E i \in 1 .. n : acc[k][i] = "put"
    /\ Goto(k, "line", "upload")
    /\ TakeLine(k, n)
    /\ file' = [file EXCEPT ![k] = <<>>]
    /\ UNCHANGED <<answered, refused, filed, inbox>>

(* ... or it cannot be, and the data that follows is read as commands;     *)
UploadRefused(k) ==
  \E n \in DOMAIN acc[k] :
    /\ EndsLine(acc[k], n)
    /\ \E i \in 1 .. n : acc[k][i] = "put"
    /\ Goto(k, "line", "read")
    /\ TakeLine(k, n)
    /\ answered' = [answered EXCEPT ![k] = @ + 1]
    /\ refused' = [refused EXCEPT ![k] = TRUE]
    /\ UNCHANGED <<file, inbox, filed>>

UploadRecord_Short(k) ==   \* mutant: the loop ends one piece early
  /\ inbox[k] # <<>>
  /\ LET whole == file[k] \o Head(inbox[k])
         ends == Len(whole) >= FileSize - 1
     IN /\ Goto(k, "upload", IF ends THEN "read" ELSE "upload")
        /\ file' = [file EXCEPT ![k] = whole]
        /\ answered' = [answered EXCEPT ![k] = IF ends THEN @ + 1 ELSE @]
  /\ filed' = [filed EXCEPT ![k] = @ + LinesOf(Head(inbox[k]))]
  /\ inbox' = [inbox EXCEPT ![k] = Tail(@)]
  /\ UNCHANGED <<acc, refused, strayed>>

(* it grows record by record until it has its size.                        *)
UploadRecord(k) ==
  /\ inbox[k] # <<>>
  /\ LET whole == file[k] \o Head(inbox[k])
         ends == Len(whole) >= FileSize
     IN /\ Goto(k, "upload", IF ends THEN "read" ELSE "upload")
        /\ file' = [file EXCEPT ![k] = whole]
        /\ answered' = [answered EXCEPT ![k] = IF ends THEN @ + 1 ELSE @]
  /\ filed' = [filed EXCEPT ![k] = @ + LinesOf(Head(inbox[k]))]
  /\ inbox' = [inbox EXCEPT ![k] = Tail(@)]
  /\ UNCHANGED <<acc, refused, strayed>>

UploadFails(k) ==
  /\ peer[k] = "left"
  /\ Goto(k, "upload", "read")
  /\ answered' = [answered EXCEPT ![k] = @ + 1]
  /\ inbox' = [inbox EXCEPT ![k] = <<>>]
  /\ UNCHANGED <<acc, file, refused, filed, strayed>>

----------------------------------------------------------------------------
(* gracefulSSLShutdown(): close the socket, then, under clientMutex_, take *)
(* the client off the list. SSL_shutdown() waits for the client to go, or  *)
(* gives up on data it has not read.                                       *)

(* What was accumulated, and what is still under way, is dropped; the      *)
(* counts of the connection and what its client was about to send end with *)
(* it.                                                                     *)
EndThread(k) ==
  /\ acc' = [acc EXCEPT ![k] = <<>>]
  /\ file' = [file EXCEPT ![k] = <<>>]
  /\ inbox' = [inbox EXCEPT ![k] = <<>>]
  /\ refused' = [refused EXCEPT ![k] = FALSE]
  /\ filed' = [filed EXCEPT ![k] = 0]
  /\ strayed' = [strayed EXCEPT ![k] = 0]
  /\ answered' = [answered EXCEPT ![k] = 0]
  /\ asked' = [asked EXCEPT ![k] = 0]
  /\ stage' = [stage EXCEPT ![k] = "idle"]
  /\ sent' = [sent EXCEPT ![k] = 0]

CloseSocket_Leaks(k) ==   \* mutant: the descriptor is not closed
  /\ handler[k] = "shutdown"
  /\ peer[k] = "left" \/ inbox[k] # <<>>
  /\ handler' = [handler EXCEPT ![k] = "closed"]
  /\ EndThread(k)
  /\ UNCHANGED <<socket, acceptVars, clientIPs, peer>>

CloseSocket(k) ==
  /\ handler[k] = "shutdown"
  /\ peer[k] = "left" \/ inbox[k] # <<>>
  /\ handler' = [handler EXCEPT ![k] = "closed"]
  /\ socket' = [socket EXCEPT ![fdOf[k]] = NoConnection]
  /\ EndThread(k)
  /\ UNCHANGED <<acceptVars, clientIPs, peer>>

EraseEntry_Forgotten(k) ==   \* mutant: the client stays in the list
  /\ handler[k] = "closed"
  /\ handler' = [handler EXCEPT ![k] = "gone"]
  /\ UNCHANGED <<clientIPs, acceptVars, socket, acc, file, countVars,
                 peer, inbox, clientVars>>

EraseEntry(k) ==
  /\ handler[k] = "closed"
  /\ handler' = [handler EXCEPT ![k] = "gone"]
  /\ clientIPs' = [clientIPs EXCEPT ![fdOf[k]] = NoConnection]
  /\ UNCHANGED <<acceptVars, socket, acc, file, countVars, peer, inbox,
                 clientVars>>

----------------------------------------------------------------------------
(* The clients.                                                            *)

Connect(k) ==
  /\ peer[k] = "away"
  /\ peer' = [peer EXCEPT ![k] = "queued"]
  /\ UNCHANGED <<acceptVars, socket, clientIPs, threadVars, inbox, clientVars>>

ShakeHands(k) ==
  /\ acceptor = "handshake" /\ current = k
  /\ peer[k] = "queued"
  /\ peer' = [peer EXCEPT ![k] = "secure"]
  /\ UNCHANGED <<acceptVars, socket, clientIPs, threadVars, inbox, clientVars>>

Leave(k) ==
  /\ peer[k] \in {"queued", "secure"}
  /\ peer' = [peer EXCEPT ![k] = "left"]
  /\ stage' = [stage EXCEPT ![k] = "idle"]
  /\ sent' = [sent EXCEPT ![k] = 0]
  /\ UNCHANGED <<acceptVars, socket, clientIPs, threadVars, inbox, asked>>

Send(k, record, lines) ==
  /\ peer[k] = "secure"
  /\ ~ (acceptor = "handshake" /\ current = k)
  /\ handler[k] \notin {"closed", "gone"}
  /\ asked[k] + lines <= MaxCommands[k]
  /\ Len(inbox[k]) < MaxUnderWay[k]
  /\ inbox' = [inbox EXCEPT ![k] = Append(@, record)]
  /\ asked' = [asked EXCEPT ![k] = @ + lines]
  /\ UNCHANGED <<acceptVars, socket, clientIPs, threadVars, peer>>

AfterLine(k) == IF k \in Polite THEN "wait" ELSE "idle"

Line == <<"cmd", "eol">>
LongLine == [i \in 1 .. MaxLine + 1 |-> IF i <= MaxLine THEN "cmd" ELSE "eol"]

SendLine(k) ==
  /\ stage[k] = "idle"
  /\ \E record \in {Line, LongLine} : Send(k, record, 1)
  /\ stage' = [stage EXCEPT ![k] = AfterLine(k)]
  /\ UNCHANGED sent

SendTwoLines(k) ==
  /\ k \notin Polite
  /\ stage[k] = "idle"
  /\ Send(k, Line \o Line, 2)
  /\ UNCHANGED <<stage, sent>>

SendHalf(k) ==
  /\ stage[k] = "idle"
  /\ asked[k] < MaxCommands[k]
  /\ Send(k, <<"cmd">>, 0)
  /\ stage' = [stage EXCEPT ![k] = "half"]
  /\ UNCHANGED sent

SendRest(k) ==
  /\ stage[k] = "half"
  /\ Send(k, <<"eol">>, 1)
  /\ stage' = [stage EXCEPT ![k] = AfterLine(k)]
  /\ UNCHANGED sent

Announce(k) ==
  /\ stage[k] = "idle"
  /\ Send(k, <<"put", "eol">>, 1)
  /\ stage' = [stage EXCEPT ![k] = "file"]
  /\ sent' = [sent EXCEPT ![k] = 0]

SendData(k, n) ==
  /\ stage[k] = "file"
  /\ sent[k] + n <= FileSize
  /\ \E piece \in [1 .. n -> FileTokens] : Send(k, piece, 0)
  /\ sent' = [sent EXCEPT ![k] = @ + n]
  /\ stage' = [stage EXCEPT ![k] =
                 IF sent[k] + n = FileSize THEN AfterLine(k) ELSE "file"]

(* The client takes every answer for one to a command of its own.          *)
ReceiveAnswer(k) ==
  /\ stage[k] = "wait"
  /\ answered[k] >= asked[k]
  /\ stage' = [stage EXCEPT ![k] = "idle"]
  /\ UNCHANGED <<acceptVars, socket, clientIPs, threadVars, peer, inbox, sent,
                 asked>>

----------------------------------------------------------------------------

AcceptorStep ==
  /\ alive /\ UNCHANGED alive
  /\ \/ \E k \in Connections, f \in Fds : Accept(k, f)
     \/ HandshakeDone \/ HandshakeFails \/ Register

ServeStep(k) ==
  \/ ReadRecord(k) \/ Reject(k) \/ ReadFails(k) \/ RunCommand(k)
  \/ UploadBegins(k) \/ UploadRefused(k) \/ UploadRecord(k) \/ UploadFails(k)
  \/ CloseSocket(k) \/ EraseEntry(k)

HandlerStep(k) ==
  /\ alive
  /\ (ServeStep(k) /\ UNCHANGED alive) \/ EmptyLineEnds(k)

ClientStep(k) ==
  /\ alive /\ UNCHANGED alive
  /\ \/ Connect(k) \/ ShakeHands(k) \/ Leave(k)
     \/ SendLine(k) \/ SendTwoLines(k) \/ SendHalf(k) \/ SendRest(k)
     \/ Announce(k) \/ ReceiveAnswer(k)
     \/ \E n \in 1 .. FileSize : SendData(k, n)

Next ==
  \/ AcceptorStep
  \/ \E k \in Connections : HandlerStep(k) \/ ClientStep(k)

Spec == Init /\ [][Next]_vars

(* The server's threads are scheduled; the clients owe nothing.            *)
FairSpec ==
  /\ Spec
  /\ WF_vars(AcceptorStep)
  /\ \A k \in Connections : WF_vars(HandlerStep(k))

----------------------------------------------------------------------------
(* Properties.                                                             *)

(* Sockets are neither lost nor shared: the descriptors in use are those   *)
(* of the connection being set up and of the threads that have not closed  *)
(* theirs, each its own.                                                   *)
Holder(k, f) ==
  /\ fdOf[k] = f
  /\ current = k \/ handler[k] \in {"shutdown"} \cup Alive

SocketsAccounted ==
  \A f \in Fds, k \in Connections : socket[f] = k <=> Holder(k, f)

(* No ghost in the client list: every entry has a thread that will erase   *)
(* the entry of this descriptor.                                           *)
NoGhost ==
  \A f \in Fds :
    clientIPs[f] # NoConnection =>
      \E k \in Connections :
        fdOf[k] = f /\ handler[k] \in {"shutdown", "closed"} \cup Alive

(* The comments say "Store the client's IP address in the list" and        *)
(* "Remove the client from the list": a client being served is listed.     *)
ServedIsListed ==
  \A k \in Connections : handler[k] \in Alive => clientIPs[fdOf[k]] = k

(* No line is lost, and none is answered twice: what a client that has not *)
(* left has sent, and what of its files was run as commands, is answered,  *)
(* being served, accumulated, under way, or was written to a file. Of a    *)
(* client that waits for its answers no command is written to a file and   *)
(* no line of a file is run, unless an upload was refused.                 *)
LinesConserved ==
  \A k \in Connections :
    (handler[k] \in Alive /\ peer[k] # "left") =>
      /\ asked[k] + strayed[k] =
           answered[k] + LinesOf(acc[k]) + LinesIn(inbox[k]) + filed[k]
             + (IF handler[k] = "upload" THEN 1 ELSE 0)
      /\ k \in Polite /\ ~ refused[k] => filed[k] = 0 /\ strayed[k] = 0

(* Commands and files of a client that waits for its answers are kept      *)
(* apart, however its records are cut, until an upload is refused: no      *)
(* piece of a file is read as a command, nor of a command as a file.       *)
Framed(k) ==
  /\ \A n \in DOMAIN acc[k] : acc[k][n] \notin FileTokens
  /\ \A n \in DOMAIN file[k] : file[k][n] \in FileTokens

FramingKept == \A k \in Polite : refused[k] \/ Framed(k)

(* The same of every client does not hold: after two lines in one record   *)
(* the server is a line behind, and when the next one announces a file,    *)
(* the file is read before that line is run.                               *)
FramingKeptForAll == \A k \in Connections : refused[k] \/ Framed(k)

(* A client that waits for its answers gets them, unless the server closes *)
(* the connection or an empty line ends the process. (One that sends two   *)
(* lines in one record does not: the second is looked at when something    *)
(* else arrives.)                                                          *)
CommandAnswered ==
  \A k \in Polite :
    stage[k] = "wait" ~> \/ answered[k] >= asked[k]
                         \/ handler[k] \in {"shutdown", "closed", "gone"}
                         \/ ~ alive

(* The descriptor of a client that has left is released, and what was      *)
(* listed for it goes.                                                     *)
LeaverReleased ==
  \A k \in Connections, f \in Fds :
    (socket[f] = k /\ peer[k] = "left")
      ~> (~ alive \/ (socket[f] # k /\ clientIPs[f] # k))

============================================================================
