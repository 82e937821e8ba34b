------------------------ MODULE CommandServerProofs ------------------------
(***************************************************************************)
(* Theorems of CommandServer, for any connections, any number of           *)
(* descriptors, and any size of lines and files: descriptors are neither   *)
(* lost nor shared, the client list has no entry that nobody erases, every *)
(* line that a client sends is accounted for, and commands and files are   *)
(* kept apart.                                                             *)
(***************************************************************************)
EXTENDS CommandServer, FiniteSetTheorems, SequenceTheorems, TLAPS

Threads == {"none", "shutdown", "closed", "gone"} \cup Alive

(* The types that the two invariants rest on.                              *)
ListTypes ==
  /\ acceptor \in {"poll", "handshake", "register"}
  /\ current \in Connections \cup {NoConnection}
  /\ socket \in [Fds -> Connections \cup {NoConnection}]
  /\ fdOf \in [Connections -> Fds \cup {0}]
  /\ clientIPs \in [Fds -> Connections \cup {NoConnection}]
  /\ handler \in [Connections -> Threads]

(* Who is being set up has a descriptor and no thread yet; who has neither *)
(* been accepted nor is being set up has no descriptor.                    *)
SetUpOrder ==
  /\ acceptor = "poll" <=> current = NoConnection
  /\ current # NoConnection => handler[current] = "none" /\ fdOf[current] # 0
  /\ \A k \in Connections :
       (handler[k] = "none" /\ current # k) <=> fdOf[k] = 0

ListInv == ListTypes /\ SetUpOrder /\ SocketsAccounted /\ NoGhost

(* No connection, no descriptor, no entry.                                 *)
LEMMA ListInit == Init => ListInv
BY CommandAssumption
DEF Init, ListInv, ListTypes, SetUpOrder, SocketsAccounted, NoGhost, Holder,
    Threads, Alive

(* A thread that goes on serving its connection disturbs nothing.          *)
LEMMA ServingStep ==
  ASSUME ListInv, NEW k \in Connections,
         NEW from \in Alive, NEW to \in Alive \cup {"shutdown"},
         Goto(k, from, to)
  PROVE  ListInv'
<1> USE CommandAssumption
    DEF ListInv, ListTypes, Goto, acceptVars, Threads, Alive
<1>1. ListTypes'
  OBVIOUS
<1>2. SetUpOrder'
  BY DEF SetUpOrder
<1>3. SocketsAccounted'
  BY DEF SocketsAccounted, Holder
<1>4. NoGhost'
  BY DEF NoGhost
<1> QED BY <1>1, <1>2, <1>3, <1>4

(* Every step of the server and of its clients preserves the invariant.    *)
LEMMA ListNext ==
  ASSUME ListInv, [Next]_vars
  PROVE  ListInv'
<1> USE CommandAssumption
<1>0. ASSUME UNCHANGED <<acceptVars, socket, clientIPs, handler>>
      PROVE  ListInv'
  BY <1>0 DEF ListInv, ListTypes, SetUpOrder, SocketsAccounted, Holder,
              NoGhost, acceptVars
<1>1. ASSUME NEW k \in Connections, NEW f \in Fds, Accept(k, f)
      PROVE  ListInv'
  <2> USE <1>1 DEF ListInv, ListTypes, Accept, threadVars
  <2>1. ListTypes'
    OBVIOUS
  <2>2. SetUpOrder'
    BY DEF SetUpOrder
  <2>3. SocketsAccounted'
    BY DEF SocketsAccounted, Holder, SetUpOrder, Alive
  <2>4. NoGhost'
    BY DEF NoGhost, SetUpOrder, Alive
  <2> QED BY <2>1, <2>2, <2>3, <2>4
<1>2. CASE HandshakeDone
  BY <1>2 DEF ListInv, ListTypes, HandshakeDone, threadVars, SetUpOrder,
              SocketsAccounted, Holder, NoGhost
<1>3. CASE HandshakeFails
  <2> USE <1>3 DEF ListInv, ListTypes, HandshakeFails, SetUpOrder
  <2>0. current \in Connections /\ fdOf[current] \in Fds
    OBVIOUS
  <2>1. ListTypes'
    BY <2>0 DEF Threads
  <2>2. SetUpOrder'
    BY <2>0
  <2>3. SocketsAccounted'
    BY <2>0 DEF SocketsAccounted, Holder, Alive
  <2>4. NoGhost'
    BY <2>0 DEF NoGhost, Alive
  <2> QED BY <2>1, <2>2, <2>3, <2>4
<1>4. CASE Register
  <2> USE <1>4 DEF ListInv, ListTypes, Register, SetUpOrder
  <2>0. current \in Connections /\ fdOf[current] \in Fds
    OBVIOUS
  <2>1. ListTypes'
    BY <2>0 DEF Threads, Alive
  <2>2. SetUpOrder'
    BY <2>0
  <2>3. SocketsAccounted'
    BY <2>0 DEF SocketsAccounted, Holder, Alive
  <2>4. NoGhost'
    BY <2>0 DEF NoGhost, Alive
  <2> QED BY <2>1, <2>2, <2>3, <2>4
<1>5. ASSUME NEW k \in Connections, HandlerStep(k) PROVE ListInv'
  <2>1. CASE ReadRecord(k)
    BY <2>1, ServingStep DEF ReadRecord, Alive
  <2>2. CASE Reject(k)
    BY <2>2, ServingStep DEF Reject, Alive
  <2>3. CASE ReadFails(k)
    BY <2>3, ServingStep DEF ReadFails, Alive
  <2>4. CASE RunCommand(k)
    BY <2>4, ServingStep DEF RunCommand, Alive
  <2>5. CASE UploadBegins(k)
    BY <2>5, ServingStep DEF UploadBegins, Alive
  <2>6. CASE UploadRefused(k)
    BY <2>6, ServingStep DEF UploadRefused, Alive
  <2>7. CASE UploadRecord(k)
    BY <2>7, ServingStep DEF UploadRecord, Alive
  <2>8. CASE UploadFails(k)
    BY <2>8, ServingStep DEF UploadFails, Alive
  <2>9. CASE CloseSocket(k)
    <3> USE <2>9 DEF ListInv, ListTypes, CloseSocket, acceptVars, SetUpOrder
    <3>0. fdOf[k] \in Fds /\ current # k
      OBVIOUS
    <3>1. ListTypes'
      BY <3>0 DEF Threads
    <3>2. SetUpOrder'
      BY <3>0
    <3>3. SocketsAccounted'
      BY <3>0 DEF SocketsAccounted, Holder, Alive
    <3>4. NoGhost'
      BY <3>0 DEF NoGhost, Alive
    <3> QED BY <3>1, <3>2, <3>3, <3>4
  <2>10. CASE EraseEntry(k)
    <3> USE <2>10 DEF ListInv, ListTypes, EraseEntry, acceptVars, SetUpOrder
    <3>0. fdOf[k] \in Fds /\ current # k
      OBVIOUS
    <3>1. ListTypes'
      BY <3>0 DEF Threads
    <3>2. SetUpOrder'
      BY <3>0
    <3>3. SocketsAccounted'
      BY <3>0 DEF SocketsAccounted, Holder, Alive
    <3>4. NoGhost'
      BY <3>0 DEF NoGhost, Alive
    <3> QED BY <3>1, <3>2, <3>3, <3>4
  <2>11. CASE EmptyLineEnds(k)
    BY <2>11, <1>0 DEF EmptyLineEnds, threadVars
  <2> QED
    BY <1>5, <2>1, <2>2, <2>3, <2>4, <2>5, <2>6, <2>7, <2>8, <2>9, <2>10, <2>11
    DEF HandlerStep, ServeStep
<1>7. ASSUME NEW k \in Connections, ClientStep(k) PROVE ListInv'
  <2>1. UNCHANGED <<acceptVars, socket, clientIPs, handler>>
    BY <1>7 DEF ClientStep, Connect, ShakeHands, Leave, SendLine,
                SendTwoLines, SendHalf, SendRest, Announce, SendData,
                ReceiveAnswer, Send, threadVars
  <2> QED BY <2>1, <1>0
<1>8. CASE UNCHANGED vars
  BY <1>0, <1>8 DEF vars, threadVars
<1> QED
  BY <1>1, <1>2, <1>3, <1>4, <1>5, <1>7, <1>8 DEF Next, AcceptorStep

(* The inductive invariant of the client list.                             *)
LEMMA ListInvariance == Spec => []ListInv
BY ListInit, ListNext, PTL DEF Spec

(* acceptClients() and gracefulSSLShutdown() neither lose a descriptor nor *)
(* close one that another connection has been given.                       *)
THEOREM SocketsHold == Spec => []SocketsAccounted
BY ListInvariance, PTL DEF ListInv

(* Every entry of m_clientIPs has a thread that will erase it.             *)
THEOREM NoGhostHolds == Spec => []NoGhost
BY ListInvariance, PTL DEF ListInv

----------------------------------------------------------------------------
(* Counting lines.                                                         *)

(* The ends of lines of a sequence are finitely many.                      *)
LEMMA EolsFinite ==
  ASSUME NEW s \in Seq(Tokens)
  PROVE  /\ Eols(s) \subseteq 1 .. Len(s)
         /\ IsFiniteSet(Eols(s))
         /\ LinesOf(s) \in Nat
<1>1. Eols(s) \subseteq 1 .. Len(s)
  BY DEF Eols
<1>2. IsFiniteSet(1 .. Len(s))
  BY FS_Interval
<1>3. IsFiniteSet(Eols(s))
  BY <1>1, <1>2, FS_Subset
<1> QED BY <1>1, <1>3, FS_CardinalityType DEF LinesOf

(* A map that only moves the elements of a finite set keeps their number.  *)
LEMMA MovedSet ==
  ASSUME NEW S, NEW T, IsFiniteSet(S), NEW f \in [S -> T],
         \A a, b \in S : f[a] = f[b] => a = b,
         \A t \in T : \E a \in S : f[a] = t
  PROVE  IsFiniteSet(T) /\ Cardinality(T) = Cardinality(S)
<1>1. f \in Bijection(S, T)
  BY DEF Bijection, Injection, Surjection, IsInjective
<1>2. ExistsBijection(S, T)
  BY <1>1 DEF ExistsBijection
<1> QED BY <1>2, FS_Bijection

(* Sets that do not overlap add up.                                        *)
LEMMA DisjointSum ==
  ASSUME NEW S, NEW T, IsFiniteSet(S), IsFiniteSet(T), S \cap T = {}
  PROVE  Cardinality(S \cup T) = Cardinality(S) + Cardinality(T)
<1>1. Cardinality(S \cap T) = 0
  BY FS_EmptySet
<1>2. Cardinality(S) \in Nat /\ Cardinality(T) \in Nat
  BY FS_CardinalityType
<1>3. Cardinality(S \cup T) =
        Cardinality(S) + Cardinality(T) - Cardinality(S \cap T)
  BY FS_Union
<1> QED BY <1>1, <1>2, <1>3

(* A record appended to what was accumulated brings its lines.             *)
LEMMA LinesOfConcat ==
  ASSUME NEW s \in Seq(Tokens), NEW t \in Seq(Tokens)
  PROVE  LinesOf(s \o t) = LinesOf(s) + LinesOf(t)
<1> DEFINE moved == {Len(s) + n : n \in Eols(t)}
           shift == [n \in Eols(t) |-> Len(s) + n]
<1>0. Len(s) \in Nat /\ Len(t) \in Nat /\ Eols(s) \subseteq 1 .. Len(s)
      /\ Eols(t) \subseteq 1 .. Len(t)
  BY EolsFinite, LenProperties
<1>1. IsFiniteSet(moved) /\ Cardinality(moved) = LinesOf(t)
  <2>1. shift \in [Eols(t) -> moved]
    OBVIOUS
  <2>2. \A a, b \in Eols(t) : shift[a] = shift[b] => a = b
    BY <1>0
  <2>3. \A m \in moved : \E a \in Eols(t) : shift[a] = m
    OBVIOUS
  <2> HIDE DEF moved, shift
  <2> QED BY <2>1, <2>2, <2>3, EolsFinite, MovedSet DEF LinesOf
<1>2. Eols(s \o t) = Eols(s) \cup moved
  <2>1. /\ DOMAIN (s \o t) = 1 .. Len(s) + Len(t)
        /\ \A i \in 1 .. Len(s) + Len(t) :
             (s \o t)[i] = IF i <= Len(s) THEN s[i] ELSE t[i - Len(s)]
        /\ DOMAIN s = 1 .. Len(s) /\ DOMAIN t = 1 .. Len(t)
    BY ConcatProperties, LenProperties
  <2>2. ASSUME NEW i \in Eols(s \o t) PROVE i \in Eols(s) \cup moved
    <3>1. CASE i <= Len(s)
      BY <3>1, <2>1, <2>2, <1>0 DEF Eols
    <3>2. CASE ~ (i <= Len(s))
      <4>1. i - Len(s) \in Eols(t) /\ i = Len(s) + (i - Len(s))
        BY <3>2, <2>1, <2>2, <1>0 DEF Eols
      <4> QED BY <4>1
    <3> QED BY <3>1, <3>2
  <2>3. ASSUME NEW i \in Eols(s) PROVE i \in Eols(s \o t)
    BY <2>1, <2>3, <1>0 DEF Eols
  <2>4. ASSUME NEW n \in Eols(t) PROVE Len(s) + n \in Eols(s \o t)
    BY <2>1, <2>4, <1>0 DEF Eols
  <2> QED BY <2>2, <2>3, <2>4
<1>3. Eols(s) \cap moved = {}
  BY <1>0
<1> HIDE DEF moved
<1> QED BY <1>1, <1>2, <1>3, EolsFinite, DisjointSum DEF LinesOf

(* Taking off the first line leaves one command less, if it is a command   *)
(* and no line of a file.                                                  *)
LEMMA FirstLineTaken ==
  ASSUME NEW s \in Seq(Tokens), NEW n \in DOMAIN s, EndsLine(s, n)
  PROVE  /\ SubSeq(s, n + 1, Len(s)) \in Seq(Tokens)
         /\ LinesOf(s) = LinesOf(SubSeq(s, n + 1, Len(s)))
                            + (IF s[n] = "eol" THEN 1 ELSE 0)
<1> DEFINE line == SubSeq(s, 1, n)
           rest == SubSeq(s, n + 1, Len(s))
<1>0. n \in 1 .. Len(s) /\ Len(s) \in Nat
  BY LenProperties
<1>1. /\ line \in Seq(Tokens) /\ Len(line) = n
      /\ \A i \in 1 .. n : line[i] = s[i]
  BY <1>0, SubSeqProperties, ElementOfSeq
<1>2. /\ rest \in Seq(Tokens) /\ Len(rest) = Len(s) - n
      /\ \A i \in 1 .. Len(s) - n : rest[i] = s[n + i]
  BY <1>0, SubSeqProperties, ElementOfSeq
<1> HIDE DEF line, rest
<1>3. s = line \o rest
  <2>1. line \o rest \in Seq(Tokens) /\ Len(line \o rest) = Len(s)
    BY <1>0, <1>1, <1>2, ConcatProperties
  <2>2. ASSUME NEW i \in 1 .. Len(s) PROVE s[i] = (line \o rest)[i]
    <3>1. (line \o rest)[i] = IF i <= n THEN line[i] ELSE rest[i - n]
      BY <1>0, <1>1, <1>2, ConcatProperties
    <3> QED BY <3>1, <1>0, <1>1, <1>2
  <2> QED BY <2>1, <2>2, SeqEqual
<1>4. Eols(line) = IF s[n] = "eol" THEN {n} ELSE {}
  BY <1>0, <1>1 DEF Eols, EndsLine, Newlines
<1>5. LinesOf(line) = IF s[n] = "eol" THEN 1 ELSE 0
  BY <1>4, FS_Singleton, FS_EmptySet DEF LinesOf
<1>6. LinesOf(s) = LinesOf(line) + LinesOf(rest)
  BY <1>1, <1>2, <1>3, LinesOfConcat
<1>7. LinesOf(rest) \in Nat
  BY <1>2, EolsFinite
<1> QED BY <1>2, <1>5, <1>6, <1>7 DEF rest

(* The ends of lines in a sequence of records are finitely many.           *)
LEMMA LinesInFinite ==
  ASSUME NEW r \in Seq(Seq(Tokens))
  PROVE  IsFiniteSet(EolsIn(r)) /\ LinesIn(r) \in Nat
<1> DEFINE part == [i \in DOMAIN r |-> {i} \X Eols(r[i])]
           parts == {{i} \X Eols(r[i]) : i \in DOMAIN r}
<1>1. IsFiniteSet(DOMAIN r)
  BY FS_Interval, LenProperties
<1>2. part \in Surjection(DOMAIN r, parts)
  BY DEF Surjection
<1>3. IsFiniteSet(parts)
  <2> HIDE DEF part, parts
  <2> QED BY <1>1, <1>2, FS_Surjection
<1>4. ASSUME NEW P \in parts PROVE IsFiniteSet(P)
  <2>1. PICK i \in DOMAIN r : P = {i} \X Eols(r[i])
    OBVIOUS
  <2>2. r[i] \in Seq(Tokens)
    BY LenProperties, ElementOfSeq
  <2>3. IsFiniteSet(Eols(r[i])) /\ IsFiniteSet({i})
    BY <2>2, EolsFinite, FS_Singleton
  <2> QED BY <2>1, <2>3, FS_Product
<1>5. IsFiniteSet(UNION parts)
  <2> HIDE DEF parts
  <2> QED BY <1>3, <1>4, FS_UNION
<1> QED BY <1>5, FS_CardinalityType DEF EolsIn, LinesIn

(* A record put under way adds its lines.                                  *)
LEMMA LinesAppended ==
  ASSUME NEW r \in Seq(Seq(Tokens)), NEW x \in Seq(Tokens)
  PROVE  LinesIn(Append(r, x)) = LinesIn(r) + LinesOf(x)
<1> DEFINE last == {Len(r) + 1} \X Eols(x)
           place == [n \in Eols(x) |-> <<Len(r) + 1, n>>]
<1>0. /\ Len(r) \in Nat /\ DOMAIN r = 1 .. Len(r)
      /\ DOMAIN Append(r, x) = 1 .. Len(r) + 1
      /\ \A i \in 1 .. Len(r) : Append(r, x)[i] = r[i]
      /\ Append(r, x)[Len(r) + 1] = x
  BY LenProperties, AppendProperties
<1>1. IsFiniteSet(last) /\ Cardinality(last) = LinesOf(x)
  <2>1. place \in [Eols(x) -> last]
    OBVIOUS
  <2>2. \A a, b \in Eols(x) : place[a] = place[b] => a = b
    OBVIOUS
  <2>3. \A p \in last : \E a \in Eols(x) : place[a] = p
    OBVIOUS
  <2> HIDE DEF last, place
  <2> QED BY <2>1, <2>2, <2>3, EolsFinite, MovedSet DEF LinesOf
<1>2. EolsIn(Append(r, x)) = EolsIn(r) \cup last
  BY <1>0 DEF EolsIn
<1>3. EolsIn(r) \cap last = {}
  BY <1>0 DEF EolsIn
<1> HIDE DEF last
<1> QED BY <1>1, <1>2, <1>3, LinesInFinite, DisjointSum DEF LinesIn

(* The record read first takes its lines along.                            *)
LEMMA LinesRead ==
  ASSUME NEW r \in Seq(Seq(Tokens)), r # <<>>
  PROVE  /\ Head(r) \in Seq(Tokens) /\ Tail(r) \in Seq(Seq(Tokens))
         /\ LinesIn(r) = LinesOf(Head(r)) + LinesIn(Tail(r))
<1> DEFINE first == {1} \X Eols(Head(r))
           later == EolsIn(r) \ first
           place == [n \in Eols(Head(r)) |-> <<1, n>>]
           shift == [p \in EolsIn(Tail(r)) |-> <<p[1] + 1, p[2]>>]
<1>0. /\ Len(r) \in Nat \ {0} /\ DOMAIN r = 1 .. Len(r)
      /\ DOMAIN Tail(r) = 1 .. Len(r) - 1
      /\ \A i \in 1 .. Len(r) - 1 : Tail(r)[i] = r[i + 1]
      /\ Head(r) = r[1]
      /\ Head(r) \in Seq(Tokens) /\ Tail(r) \in Seq(Seq(Tokens))
  BY EmptySeq, LenProperties, HeadTailProperties
<1>1. IsFiniteSet(first) /\ Cardinality(first) = LinesOf(Head(r))
  <2>1. place \in [Eols(Head(r)) -> first]
    OBVIOUS
  <2>2. \A a, b \in Eols(Head(r)) : place[a] = place[b] => a = b
    OBVIOUS
  <2>3. \A p \in first : \E a \in Eols(Head(r)) : place[a] = p
    OBVIOUS
  <2> HIDE DEF first, place
  <2> QED BY <1>0, <2>1, <2>2, <2>3, EolsFinite, MovedSet DEF LinesOf
<1>2. IsFiniteSet(later) /\ Cardinality(later) = LinesIn(Tail(r))
  <2>1. shift \in [EolsIn(Tail(r)) -> later]
    <3>1. ASSUME NEW p \in EolsIn(Tail(r)) PROVE <<p[1] + 1, p[2]>> \in later
      <4>1. PICK i \in 1 .. Len(r) - 1 : \E n \in Eols(Tail(r)[i]) : p = <<i, n>>
        BY <1>0 DEF EolsIn
      <4>0. PICK j \in Eols(Tail(r)[i]) : p = <<i, j>>
        BY <4>1
      <4>2. i + 1 \in DOMAIN r /\ j \in Eols(r[i + 1]) /\ i + 1 # 1
        BY <4>0, <1>0
      <4>3. <<i + 1, j>> \in EolsIn(r)
        BY <4>2 DEF EolsIn
      <4> QED BY <4>0, <4>2, <4>3
    <3> QED BY <3>1
  <2>2. ASSUME NEW a \in EolsIn(Tail(r)), NEW b \in EolsIn(Tail(r)),
               shift[a] = shift[b]
        PROVE  a = b
    <3>1. ASSUME NEW p \in EolsIn(Tail(r))
          PROVE  \E i \in Int : \E n : p = <<i, n>>
      BY <1>0 DEF EolsIn
    <3>2. PICK i \in Int, j \in Int : (\E n : a = <<i, n>>) /\ (\E n : b = <<j, n>>)
      BY <3>1
    <3>3. PICK m : a = <<i, m>>
      BY <3>2
    <3>4. PICK n : b = <<j, n>>
      BY <3>2
    <3>5. <<i + 1, m>> = <<j + 1, n>>
      BY <2>2, <3>3, <3>4
    <3> QED BY <3>2, <3>3, <3>4, <3>5
  <2>3. ASSUME NEW p \in later PROVE \E a \in EolsIn(Tail(r)) : shift[a] = p
    <3>1. PICK i \in 1 .. Len(r) : \E n \in Eols(r[i]) : p = <<i, n>>
      BY <1>0 DEF EolsIn
    <3>0. PICK j \in Eols(r[i]) : p = <<i, j>>
      BY <3>1
    <3>2. i # 1
      BY <3>0, <1>0
    <3>3. i - 1 \in 1 .. Len(r) - 1 /\ Tail(r)[i - 1] = r[i]
      BY <3>2, <1>0
    <3>4. <<i - 1, j>> \in EolsIn(Tail(r))
      BY <3>0, <3>3, <1>0 DEF EolsIn
    <3>5. shift[<<i - 1, j>>] = p
      BY <3>0, <3>4, <1>0
    <3> QED BY <3>4, <3>5
  <2> HIDE DEF later, shift
  <2> QED BY <1>0, <2>1, <2>2, <2>3, LinesInFinite, MovedSet DEF LinesIn
<1>3. EolsIn(r) = first \cup later
  BY <1>0 DEF EolsIn
<1>4. first \cap later = {}
  OBVIOUS
<1> HIDE DEF first, later
<1> QED BY <1>0, <1>1, <1>2, <1>3, <1>4, DisjointSum DEF LinesIn

(* The types that the account of lines rests on.                           *)
LineTypes ==
  /\ handler \in [Connections -> Threads]
  /\ acc \in [Connections -> Seq(Tokens)]
  /\ file \in [Connections -> Seq(Tokens)]
  /\ peer \in [Connections -> {"away", "queued", "secure", "left"}]
  /\ stage \in [Connections -> {"idle", "half", "file", "wait"}]
  /\ sent \in [Connections -> 0 .. FileSize]
  /\ inbox \in [Connections -> Seq(Seq(Tokens))]
  /\ asked \in [Connections -> Nat]
  /\ answered \in [Connections -> Nat]
  /\ refused \in [Connections -> BOOLEAN]
  /\ filed \in [Connections -> Nat]
  /\ strayed \in [Connections -> Nat]

(* What the lines of k are accounted for by: an upload is a line that is   *)
(* not answered yet.                                                       *)
Uploads(k) == IF handler[k] = "upload" THEN 1 ELSE 0
Accounted(k) ==
  answered[k] + LinesOf(acc[k]) + LinesIn(inbox[k]) + filed[k]
    + Uploads(k)

Served(k) == handler[k] \in Alive \cup {"none"} /\ peer[k] # "left"

(* Of a client that waits, and of whom no upload was refused, one line at  *)
(* most is not answered, none while it may send the next: so nothing but   *)
(* data is under way during its uploads.                                   *)
Balanced(k) ==
  /\ asked[k] + strayed[k] = Accounted(k)
  /\ k \in Polite /\ ~ refused[k] =>
       /\ filed[k] = 0 /\ strayed[k] = 0
       /\ asked[k] <= answered[k] + 1
       /\ stage[k] \in {"idle", "half"} => asked[k] = answered[k]

LineInv == LineTypes /\ \A k \in Connections : Served(k) => Balanced(k)

LEMMA NoLines == <<>> \in Seq(Tokens) /\ LinesOf(<<>>) = 0 /\ LinesIn(<<>>) = 0
<1>1. Eols(<<>>) = {} /\ EolsIn(<<>>) = {}
  BY DEF Eols, EolsIn
<1> QED BY <1>1, FS_EmptySet DEF LinesOf, LinesIn

LEMMA LineInit == Init => LineInv
<1> SUFFICES ASSUME Init PROVE LineInv
  OBVIOUS
<1>1. LineTypes
  BY CommandAssumption DEF Init, LineTypes, Threads
<1>2. ASSUME NEW k \in Connections PROVE Balanced(k)
  BY NoLines DEF Init, Balanced, Accounted, Uploads
<1> QED BY <1>1, <1>2 DEF LineInv

(* What the clients send: records of one line, of two, of none.            *)
LEMMA RecordLines ==
  /\ Line \in Seq(Tokens) /\ LinesOf(Line) = 1
  /\ LongLine \in Seq(Tokens) /\ LinesOf(LongLine) = 1
  /\ Line \o Line \in Seq(Tokens) /\ LinesOf(Line \o Line) = 2
  /\ <<"cmd">> \in Seq(Tokens) /\ LinesOf(<<"cmd">>) = 0
  /\ <<"eol">> \in Seq(Tokens) /\ LinesOf(<<"eol">>) = 1
  /\ <<"put", "eol">> \in Seq(Tokens) /\ LinesOf(<<"put", "eol">>) = 1
<1> USE CommandAssumption
<1>1. ASSUME NEW s \in Seq(Tokens), NEW n, Eols(s) = {n} PROVE LinesOf(s) = 1
  BY <1>1, FS_Singleton DEF LinesOf
<1>2. Line \in Seq(Tokens) /\ Eols(Line) = {2}
  BY DEF Line, Tokens, Eols
<1>3. LongLine \in Seq(Tokens) /\ Eols(LongLine) = {MaxLine + 1}
  <2>1. LongLine \in Seq(Tokens)
    BY DEF LongLine, Tokens
  <2>2. Eols(LongLine) = {MaxLine + 1}
    BY DEF LongLine, Eols
  <2> QED BY <2>1, <2>2
<1>4. <<"eol">> \in Seq(Tokens) /\ Eols(<<"eol">>) = {1}
  BY DEF Tokens, Eols
<1>5. <<"put", "eol">> \in Seq(Tokens) /\ Eols(<<"put", "eol">>) = {2}
  BY DEF Tokens, Eols
<1>6. <<"cmd">> \in Seq(Tokens) /\ Eols(<<"cmd">>) = {}
  BY DEF Tokens, Eols
<1>7. LinesOf(<<"cmd">>) = 0
  BY <1>6, FS_EmptySet DEF LinesOf
<1>8. Line \o Line \in Seq(Tokens) /\ LinesOf(Line \o Line) = 2
  <2>1. LinesOf(Line) = 1
    BY <1>1, <1>2
  <2>2. /\ Line \o Line \in Seq(Tokens)
        /\ LinesOf(Line \o Line) = LinesOf(Line) + LinesOf(Line)
    BY <1>2, LinesOfConcat, ConcatProperties
  <2> QED BY <2>1, <2>2
<1> QED BY <1>1, <1>2, <1>3, <1>4, <1>5, <1>6, <1>7, <1>8

(* Pieces of a file hold no command.                                       *)
LEMMA DataLines ==
  ASSUME NEW n \in 1 .. FileSize, NEW piece \in [1 .. n -> FileTokens]
  PROVE  /\ piece \in Seq(Tokens) /\ Len(piece) = n
         /\ LinesOf(piece) = 0
<1>0. n \in Nat
  BY CommandAssumption
<1>1. piece \in Seq(Tokens) /\ Len(piece) = n
  BY <1>0 DEF Tokens
<1>2. Eols(piece) = {}
  BY DEF Eols, FileTokens
<1> QED BY <1>1, <1>2, FS_EmptySet DEF LinesOf

(* Nothing that concerns the lines of j changes.                           *)
Untouched(j) ==
  /\ handler'[j] = handler[j] /\ peer'[j] = peer[j] /\ stage'[j] = stage[j]
  /\ acc'[j] = acc[j] /\ inbox'[j] = inbox[j] /\ asked'[j] = asked[j]
  /\ answered'[j] = answered[j] /\ filed'[j] = filed[j]
  /\ refused'[j] = refused[j] /\ strayed'[j] = strayed[j]

(* A step of k only has to keep the account of k.                          *)
LEMMA OneAccount ==
  ASSUME LineInv, LineTypes', NEW k \in Connections,
         \A j \in Connections : j # k => Untouched(j),
         Served(k)' => Balanced(k)'
  PROVE  LineInv'
<1>1. ASSUME NEW j \in Connections, j # k, Served(j)' PROVE Balanced(j)'
  <2>1. Untouched(j)
    BY <1>1
  <2>2. Served(j) /\ Balanced(j)
    BY <1>1, <2>1 DEF LineInv, Served, Untouched
  <2> QED BY <2>1, <2>2 DEF Balanced, Accounted, Uploads, Untouched
<1> QED BY <1>1 DEF LineInv

(* The counts of a client are numbers.                                     *)
LEMMA Counts ==
  ASSUME LineTypes, NEW k \in Connections
  PROVE  /\ asked[k] \in Nat /\ answered[k] \in Nat /\ filed[k] \in Nat
         /\ strayed[k] \in Nat
         /\ LinesOf(acc[k]) \in Nat /\ LinesIn(inbox[k]) \in Nat
BY EolsFinite, LinesInFinite DEF LineTypes

(* A client sends a record: its lines are asked for, and under way.        *)
LEMMA SendStep ==
  ASSUME LineInv, NEW k \in Connections,
         NEW record \in Seq(Tokens), Send(k, record, LinesOf(record)),
         NEW to \in {"idle", "half", "file", "wait"},
         stage' = [stage EXCEPT ![k] = to],
         sent' \in [Connections -> 0 .. FileSize],
         k \in Polite => \/ LinesOf(record) = 0
                         \/ LinesOf(record) = 1 /\ stage[k] \in {"idle", "half"},
         k \in Polite /\ to \in {"idle", "half"} =>
           LinesOf(record) = 0 /\ stage[k] \in {"idle", "half"}
  PROVE  LineInv'
<1>n. LinesOf(record) \in Nat
  BY EolsFinite
<1>0. LineTypes /\ \A j \in Connections : Served(j) => Balanced(j)
  BY DEF LineInv
<1>a. /\ UNCHANGED <<handler, acc, file, answered, refused, filed, strayed,
                      peer>>
      /\ inbox' = [inbox EXCEPT ![k] = Append(@, record)]
      /\ asked' = [asked EXCEPT ![k] = @ + LinesOf(record)]
  BY DEF Send, threadVars, countVars
<1>1. LineTypes'
  <2>1. Append(inbox[k], record) \in Seq(Seq(Tokens))
    BY <1>0, AppendProperties DEF LineTypes
  <2>2. inbox' \in [Connections -> Seq(Seq(Tokens))]
    BY <1>0, <1>a, <2>1 DEF LineTypes
  <2>3. asked' \in [Connections -> Nat]
    BY <1>0, <1>n, <1>a DEF LineTypes
  <2> QED BY <1>0, <1>a, <2>2, <2>3 DEF LineTypes
<1>2. \A j \in Connections : j # k => Untouched(j)
  BY <1>0, <1>a DEF LineTypes, Untouched
<1>3. ASSUME Served(k)' PROVE Balanced(k)'
  <2>1. Served(k) /\ Balanced(k)
    BY <1>0, <1>a, <1>3 DEF Served
  <2>2. /\ asked'[k] = asked[k] + LinesOf(record) /\ stage'[k] = to
        /\ inbox'[k] = Append(inbox[k], record)
        /\ handler'[k] = handler[k] /\ acc'[k] = acc[k]
        /\ answered'[k] = answered[k] /\ filed'[k] = filed[k]
        /\ refused'[k] = refused[k] /\ strayed'[k] = strayed[k]
    BY <1>0, <1>a DEF LineTypes
  <2>3. LinesIn(inbox'[k]) = LinesIn(inbox[k]) + LinesOf(record)
    BY <1>0, <2>2, LinesAppended DEF LineTypes
  <2>u. Uploads(k) \in Nat /\ Uploads(k)' = Uploads(k)
    BY <2>2 DEF Uploads
  <2>4. Accounted(k)' = Accounted(k) + LinesOf(record)
    BY <1>0, <1>n, <2>2, <2>3, <2>u, Counts DEF Accounted
  <2>5. asked'[k] + strayed'[k] = Accounted(k)'
    <3>1. asked[k] + strayed[k] = Accounted(k)
      BY <2>1 DEF Balanced
    <3>2. asked[k] \in Nat /\ strayed[k] \in Nat
      BY <1>0, Counts
    <3> QED BY <1>n, <2>2, <2>4, <3>1, <3>2
  <2>6. ASSUME k \in Polite /\ ~ refused[k]
        PROVE  /\ asked'[k] <= answered'[k] + 1
               /\ stage'[k] \in {"idle", "half"} => asked'[k] = answered'[k]
    BY <1>0, <1>n, <2>1, <2>2, <2>6, Counts DEF Balanced
  <2> QED BY <2>1, <2>2, <2>5, <2>6 DEF Balanced
<1> QED BY <1>1, <1>2, <1>3, OneAccount

LEMMA LineClients ==
  ASSUME LineInv, NEW k \in Connections, ClientStep(k)
  PROVE  LineInv'
<1> USE CommandAssumption
<1>0. sent \in [Connections -> 0 .. FileSize]
      /\ stage \in [Connections -> {"idle", "half", "file", "wait"}]
  BY DEF LineInv, LineTypes
<1>1. ASSUME UNCHANGED <<threadVars, inbox, asked>>,
             \A j \in Connections : j # k => Untouched(j), LineTypes',
             Served(k)' => Served(k) /\ stage'[k] = stage[k]
      PROVE  LineInv'
  <2>1. ASSUME Served(k)' PROVE Balanced(k)'
    BY <1>1, <2>1
    DEF LineInv, Balanced, Accounted, Uploads, threadVars, countVars
  <2> QED BY <1>1, <2>1, OneAccount
<1>2. CASE Connect(k)
  <2>1. LineTypes' /\ \A j \in Connections : j # k => Untouched(j)
    BY <1>2 DEF Connect, LineInv, LineTypes, Untouched, threadVars, countVars,
                clientVars
  <2>2. UNCHANGED <<threadVars, inbox, asked, stage>> /\ peer[k] # "left"
    BY <1>2 DEF Connect, clientVars
  <2> QED BY <1>1, <2>1, <2>2 DEF Served, threadVars
<1>3. CASE ShakeHands(k)
  <2>1. LineTypes' /\ \A j \in Connections : j # k => Untouched(j)
    BY <1>3 DEF ShakeHands, LineInv, LineTypes, Untouched, threadVars,
                countVars, clientVars
  <2>2. UNCHANGED <<threadVars, inbox, asked, stage>> /\ peer[k] # "left"
    BY <1>3 DEF ShakeHands, clientVars
  <2> QED BY <1>1, <2>1, <2>2 DEF Served, threadVars
<1>4. CASE Leave(k)
  <2>1. LineTypes' /\ \A j \in Connections : j # k => Untouched(j)
    BY <1>4 DEF Leave, LineInv, LineTypes, Untouched, threadVars, countVars
  <2>2. UNCHANGED <<threadVars, inbox, asked>> /\ peer'[k] = "left"
    BY <1>4 DEF Leave, LineInv, LineTypes
  <2> QED BY <1>1, <2>1, <2>2 DEF Served
<1>5. CASE SendLine(k)
  <2>1. PICK record \in {Line, LongLine} : Send(k, record, 1)
    BY <1>5 DEF SendLine
  <2>2. record \in Seq(Tokens) /\ LinesOf(record) = 1
    BY RecordLines
  <2>3. PICK to \in {"idle", "wait"} :
          stage' = [stage EXCEPT ![k] = to] /\ (to = "idle" => k \notin Polite)
    BY <1>5 DEF SendLine, AfterLine
  <2>4. stage[k] = "idle" /\ sent' = sent /\ Send(k, record, LinesOf(record))
    BY <1>5, <2>1, <2>2 DEF SendLine
  <2> QED BY <1>0, <2>2, <2>3, <2>4, SendStep
<1>6. CASE SendTwoLines(k)
  <2> DEFINE two == Line \o Line
  <2>1. two \in Seq(Tokens) /\ Send(k, two, LinesOf(two))
    BY <1>6, RecordLines DEF SendTwoLines
  <2>2. /\ k \notin Polite /\ sent' = sent
        /\ stage' = [stage EXCEPT ![k] = "idle"]
    BY <1>0, <1>6 DEF SendTwoLines
  <2> HIDE DEF two
  <2> QED BY <1>0, <2>1, <2>2, SendStep
<1>7. CASE SendHalf(k)
  <2> DEFINE half == <<"cmd">>
  <2>1. half \in Seq(Tokens) /\ Send(k, half, LinesOf(half)) /\ LinesOf(half) = 0
    BY <1>7, RecordLines DEF SendHalf
  <2>2. stage[k] = "idle" /\ sent' = sent /\ stage' = [stage EXCEPT ![k] = "half"]
    BY <1>7 DEF SendHalf
  <2> HIDE DEF half
  <2> QED BY <1>0, <2>1, <2>2, SendStep
<1>8. CASE SendRest(k)
  <2> DEFINE end == <<"eol">>
  <2>1. end \in Seq(Tokens) /\ Send(k, end, LinesOf(end)) /\ LinesOf(end) = 1
    BY <1>8, RecordLines DEF SendRest
  <2>2. stage[k] = "half" /\ sent' = sent
    BY <1>8 DEF SendRest
  <2>3. PICK to \in {"idle", "wait"} :
          stage' = [stage EXCEPT ![k] = to] /\ (to = "idle" => k \notin Polite)
    BY <1>8 DEF SendRest, AfterLine
  <2> HIDE DEF end
  <2> QED BY <1>0, <2>1, <2>2, <2>3, SendStep
<1>9. CASE Announce(k)
  <2> DEFINE put == <<"put", "eol">>
  <2>1. put \in Seq(Tokens) /\ Send(k, put, LinesOf(put)) /\ LinesOf(put) = 1
    BY <1>9, RecordLines DEF Announce
  <2>2. /\ stage[k] = "idle" /\ stage' = [stage EXCEPT ![k] = "file"]
        /\ sent' \in [Connections -> 0 .. FileSize]
    BY <1>0, <1>9 DEF Announce
  <2> HIDE DEF put
  <2> QED BY <2>1, <2>2, SendStep
<1>10. ASSUME NEW n \in 1 .. FileSize, SendData(k, n) PROVE LineInv'
  <2>1. sent' \in [Connections -> 0 .. FileSize]
    BY <1>0, <1>10 DEF SendData
  <2>2. PICK to \in {"idle", "file", "wait"} :
          /\ stage' = [stage EXCEPT ![k] = to]
          /\ to = "idle" => k \notin Polite
    BY <1>10 DEF SendData, AfterLine
  <2>0. PICK data \in [1 .. n -> FileTokens] : Send(k, data, 0)
    BY <1>10 DEF SendData
  <2>3. data \in Seq(Tokens) /\ Send(k, data, LinesOf(data)) /\ LinesOf(data) = 0
    BY <2>0, DataLines
  <2> QED BY <2>1, <2>2, <2>3, SendStep
<1>11. CASE ReceiveAnswer(k)
  <2>1. LineTypes' /\ \A j \in Connections : j # k => Untouched(j)
    BY <1>11 DEF ReceiveAnswer, LineInv, LineTypes, Untouched, threadVars,
                 countVars
  <2>2. ASSUME Served(k)' PROVE Balanced(k)'
    <3>1. /\ UNCHANGED <<handler, acc, answered, refused, filed, strayed, peer,
                         inbox, asked>>
          /\ answered[k] >= asked[k]
      BY <1>11 DEF ReceiveAnswer, threadVars, countVars
    <3>2. Balanced(k) /\ Accounted(k)' = Accounted(k)
      BY <2>2, <3>1 DEF LineInv, Served, Accounted, Uploads
    <3>3. Uploads(k) \in Nat
      BY DEF Uploads
    <3>4. ASSUME k \in Polite /\ ~ refused[k] PROVE asked[k] = answered[k]
      <4>1. asked[k] = Accounted(k)
        BY <3>2, <3>4, Counts DEF LineInv, Balanced
      <4>2. answered[k] <= Accounted(k)
        BY <3>3, Counts DEF LineInv, Accounted
      <4> QED BY <3>1, <4>1, <4>2, Counts DEF LineInv
    <3> QED BY <3>1, <3>2, <3>4 DEF Balanced
  <2> QED BY <2>1, <2>2, OneAccount
<1> QED
  BY <1>2, <1>3, <1>4, <1>5, <1>6, <1>7, <1>8, <1>9, <1>10, <1>11
  DEF ClientStep

(* Whose thread has ended, or will, has no account to keep.                *)
LEMMA EndingStep ==
  ASSUME LineInv, LineTypes', NEW k \in Connections,
         \A j \in Connections : j # k => Untouched(j), ~ Served(k)'
  PROVE  LineInv'
BY OneAccount

(* The thread of k takes a record from those under way.                    *)
LEMMA TakesRecord ==
  ASSUME LineTypes, NEW k \in Connections, inbox[k] # <<>>
  PROVE  /\ Head(inbox[k]) \in Seq(Tokens)
         /\ Tail(inbox[k]) \in Seq(Seq(Tokens))
         /\ acc[k] \o Head(inbox[k]) \in Seq(Tokens)
         /\ file[k] \o Head(inbox[k]) \in Seq(Tokens)
         /\ LinesIn(inbox[k]) = LinesOf(Head(inbox[k])) + LinesIn(Tail(inbox[k]))
         /\ LinesOf(acc[k] \o Head(inbox[k]))
              = LinesOf(acc[k]) + LinesOf(Head(inbox[k]))
         /\ LinesOf(Head(inbox[k])) \in Nat
         /\ LinesIn(Tail(inbox[k])) \in Nat
<1>1. inbox[k] \in Seq(Seq(Tokens)) /\ acc[k] \in Seq(Tokens)
      /\ file[k] \in Seq(Tokens)
  BY DEF LineTypes
<1>2. /\ Head(inbox[k]) \in Seq(Tokens) /\ Tail(inbox[k]) \in Seq(Seq(Tokens))
      /\ LinesIn(inbox[k]) = LinesOf(Head(inbox[k])) + LinesIn(Tail(inbox[k]))
  BY <1>1, LinesRead
<1>3. /\ acc[k] \o Head(inbox[k]) \in Seq(Tokens)
      /\ file[k] \o Head(inbox[k]) \in Seq(Tokens)
  BY <1>1, <1>2, ConcatProperties
<1> QED BY <1>1, <1>2, <1>3, LinesOfConcat, EolsFinite, LinesInFinite

(* The thread of k runs the first line of what was accumulated.            *)
LEMMA TakesLine ==
  ASSUME LineTypes, NEW k \in Connections, NEW n \in DOMAIN acc[k],
         EndsLine(acc[k], n),
         NEW to \in {"read", "upload"}, Goto(k, "line", to), TakeLine(k, n)
  PROVE  /\ handler' \in [Connections -> Threads] /\ handler'[k] = to
         /\ acc' \in [Connections -> Seq(Tokens)]
         /\ strayed' \in [Connections -> Nat]
         /\ LinesOf(acc[k]) + strayed'[k] = LinesOf(acc'[k]) + strayed[k] + 1
         /\ acc[k][n] # "nl" => strayed'[k] = strayed[k]
         /\ \A j \in Connections :
              j # k => /\ handler'[j] = handler[j] /\ acc'[j] = acc[j]
                       /\ strayed'[j] = strayed[j]
         /\ UNCHANGED <<peer, stage, sent, asked>>
<1> DEFINE rest == SubSeq(acc[k], n + 1, Len(acc[k]))
           eol == IF acc[k][n] = "eol" THEN 1 ELSE 0
           nl == IF acc[k][n] = "nl" THEN 1 ELSE 0
<1>1. rest \in Seq(Tokens) /\ LinesOf(acc[k]) = LinesOf(rest) + eol
  BY FirstLineTaken DEF LineTypes
<1>2. acc'[k] = rest /\ acc' = [acc EXCEPT ![k] = rest]
  BY DEF LineTypes, TakeLine
<1>3. /\ strayed'[k] = strayed[k] + nl /\ strayed[k] \in Nat
      /\ strayed' \in [Connections -> Nat]
      /\ \A j \in Connections : j # k => strayed'[j] = strayed[j]
  BY DEF LineTypes, TakeLine
<1>4. eol \in Nat /\ nl \in Nat /\ eol + nl = 1
  BY DEF EndsLine, Newlines
<1>5. acc[k][n] # "nl" => nl = 0
  OBVIOUS
<1> HIDE DEF rest, eol, nl
<1>6. LinesOf(acc[k]) + strayed'[k] = LinesOf(acc'[k]) + strayed[k] + 1
  <2>1. LinesOf(rest) \in Nat
    BY <1>1, EolsFinite
  <2> QED BY <1>1, <1>2, <1>3, <1>4, <2>1
<1>7. acc[k][n] # "nl" => strayed'[k] = strayed[k]
  BY <1>3, <1>5
<1>8. /\ handler' \in [Connections -> Threads] /\ handler'[k] = to
      /\ \A j \in Connections : j # k => handler'[j] = handler[j]
      /\ UNCHANGED <<peer, stage, sent, asked>>
  BY DEF LineTypes, Goto, clientVars, Threads, Alive
<1>9. /\ acc' \in [Connections -> Seq(Tokens)]
      /\ \A j \in Connections : j # k => acc'[j] = acc[j]
  BY <1>1, <1>2 DEF LineTypes
<1> QED BY <1>3, <1>6, <1>7, <1>8, <1>9

LEMMA LineHandlers ==
  ASSUME LineInv, FramingKept, NEW k \in Connections, HandlerStep(k)
  PROVE  LineInv'
<1>0. LineTypes /\ (Served(k) => Balanced(k))
  BY DEF LineInv
<1>c. /\ asked[k] \in Nat /\ answered[k] \in Nat /\ filed[k] \in Nat
      /\ strayed[k] \in Nat
      /\ LinesOf(acc[k]) \in Nat /\ LinesIn(inbox[k]) \in Nat
  BY <1>0, Counts
<1>1. CASE ReadRecord(k)
  <2>0. /\ inbox[k] # <<>> /\ handler[k] = "read"
        /\ handler' = [handler EXCEPT ![k] =
             IF HasLine(acc[k] \o Head(inbox[k])) THEN "line" ELSE "read"]
        /\ acc' = [acc EXCEPT ![k] = @ \o Head(inbox[k])]
        /\ inbox' = [inbox EXCEPT ![k] = Tail(@)]
        /\ UNCHANGED <<file, answered, refused, filed, strayed, peer, stage,
                       sent, asked>>
    BY <1>1 DEF ReadRecord, Goto, clientVars, countVars
  <2>1. LineTypes'
    BY <1>0, <2>0, TakesRecord DEF LineTypes, Threads, Alive
  <2>2. \A j \in Connections : j # k => Untouched(j)
    BY <1>0, <2>0 DEF LineTypes, Untouched
  <2>3. ASSUME Served(k)' PROVE Balanced(k)'
    <3>1. Served(k) /\ Balanced(k)
      BY <1>0, <2>0, <2>3 DEF Served, Alive
    <3>2. /\ acc'[k] = acc[k] \o Head(inbox[k]) /\ inbox'[k] = Tail(inbox[k])
          /\ handler'[k] \in {"read", "line"}
      BY <1>0, <2>0 DEF LineTypes
    <3>a. /\ LinesOf(acc'[k]) = LinesOf(acc[k]) + LinesOf(Head(inbox[k]))
          /\ LinesIn(inbox[k]) = LinesOf(Head(inbox[k])) + LinesIn(inbox'[k])
          /\ LinesOf(Head(inbox[k])) \in Nat /\ LinesIn(inbox'[k]) \in Nat
      BY <1>0, <2>0, <3>2, TakesRecord
    <3>b. Uploads(k) = 0 /\ Uploads(k)' = 0
      BY <2>0, <3>2 DEF Uploads
    <3>3. Accounted(k)' = Accounted(k)
      BY <1>c, <2>0, <3>2, <3>a, <3>b DEF Accounted
    <3> QED BY <2>0, <3>1, <3>3 DEF Balanced
  <2> QED BY <2>1, <2>2, <2>3, OneAccount
<1>2. CASE Reject(k)
  <2>0. /\ inbox[k] # <<>>
        /\ handler' = [handler EXCEPT ![k] = "shutdown"]
        /\ acc' = [acc EXCEPT ![k] = @ \o Head(inbox[k])]
        /\ inbox' = [inbox EXCEPT ![k] = Tail(@)]
        /\ answered' = [answered EXCEPT ![k] = @ + 1]
        /\ UNCHANGED <<file, refused, filed, strayed, peer, stage, sent, asked>>
    BY <1>2 DEF Reject, Goto, clientVars
  <2>a. /\ Tail(inbox[k]) \in Seq(Seq(Tokens))
        /\ acc[k] \o Head(inbox[k]) \in Seq(Tokens)
    BY <1>0, <2>0, TakesRecord
  <2>b. /\ handler' \in [Connections -> Threads]
        /\ answered' \in [Connections -> Nat]
    BY <1>0, <2>0 DEF LineTypes, Threads
  <2>1. LineTypes'
    BY <1>0, <2>0, <2>a, <2>b DEF LineTypes
  <2>2. \A j \in Connections : j # k => Untouched(j)
    BY <1>0, <2>0 DEF LineTypes, Untouched
  <2>3. ~ Served(k)'
    BY <1>0, <2>0 DEF LineTypes, Served, Alive
  <2> QED BY <2>1, <2>2, <2>3, EndingStep
<1>3. CASE ReadFails(k)
  <2>0. /\ handler' = [handler EXCEPT ![k] = "shutdown"]
        /\ inbox' = [inbox EXCEPT ![k] = <<>>]
        /\ UNCHANGED <<acc, file, answered, refused, filed, strayed, peer, stage,
                       sent, asked>>
    BY <1>3 DEF ReadFails, Goto, clientVars, countVars
  <2>1. LineTypes'
    BY <1>0, <2>0 DEF LineTypes, Threads
  <2>2. \A j \in Connections : j # k => Untouched(j)
    BY <1>0, <2>0 DEF LineTypes, Untouched
  <2>3. ~ Served(k)'
    BY <1>0, <2>0 DEF LineTypes, Served, Alive
  <2> QED BY <2>1, <2>2, <2>3, EndingStep
<1>4. ASSUME NEW n \in DOMAIN acc[k], EndsLine(acc[k], n),
             NEW to \in {"read", "upload"}, Goto(k, "line", to), TakeLine(k, n),
             to = "upload" => UNCHANGED answered,
             to = "read" => answered' = [answered EXCEPT ![k] = @ + 1],
             file' \in [Connections -> Seq(Tokens)],
             refused' \in [Connections -> BOOLEAN],
             refused[k] => refused'[k],
             \A j \in Connections : j # k => refused'[j] = refused[j],
             UNCHANGED <<inbox, filed>>
      PROVE  LineInv'
  <2>0. /\ handler' \in [Connections -> Threads] /\ handler'[k] = to
        /\ acc' \in [Connections -> Seq(Tokens)]
        /\ strayed' \in [Connections -> Nat]
        /\ LinesOf(acc[k]) + strayed'[k] = LinesOf(acc'[k]) + strayed[k] + 1
        /\ acc[k][n] # "nl" => strayed'[k] = strayed[k]
        /\ \A j \in Connections :
             j # k => /\ handler'[j] = handler[j] /\ acc'[j] = acc[j]
                      /\ strayed'[j] = strayed[j]
        /\ UNCHANGED <<peer, stage, sent, asked>>
    BY <1>0, <1>4, TakesLine
  <2>a. answered' \in [Connections -> Nat]
    <3>0. answered \in [Connections -> Nat]
          /\ [answered EXCEPT ![k] = @ + 1] \in [Connections -> Nat]
      BY <1>0 DEF LineTypes
    <3>1. CASE to = "upload"
      BY <1>4, <3>0, <3>1
    <3>2. CASE to = "read"
      BY <1>4, <3>0, <3>2
    <3> QED BY <3>1, <3>2
  <2>1. LineTypes'
    BY <1>0, <1>4, <2>0, <2>a DEF LineTypes
  <2>2. \A j \in Connections : j # k => Untouched(j)
    <3>1. \A j \in Connections : j # k => answered'[j] = answered[j]
      BY <1>0, <1>4 DEF LineTypes
    <3> QED BY <1>4, <2>0, <3>1 DEF Untouched
  <2>3. ASSUME Served(k)' PROVE Balanced(k)'
    <3>1. handler[k] = "line" /\ Served(k) /\ Balanced(k)
      BY <1>0, <1>4, <2>0, <2>3 DEF Served, Alive, Goto
    <3>2. /\ to = "upload" => answered'[k] = answered[k]
          /\ to = "read" => answered'[k] = answered[k] + 1
      BY <1>0, <1>4 DEF LineTypes
    <3>3. LinesOf(acc'[k]) \in Nat /\ strayed'[k] \in Nat
      BY <2>0, EolsFinite
    <3>u. /\ Uploads(k) = 0 /\ Uploads(k)' = (IF to = "upload" THEN 1 ELSE 0)
          /\ answered'[k] + Uploads(k)' = answered[k] + 1
      BY <1>c, <2>0, <3>1, <3>2 DEF Uploads
    <3>n. /\ answered'[k] \in Nat /\ Uploads(k)' \in Nat
          /\ answered[k] <= answered'[k]
      BY <1>c, <2>a, <3>2, <3>u
    <3>4. asked'[k] + strayed'[k] = Accounted(k)'
      <4>1. inbox'[k] = inbox[k] /\ filed'[k] = filed[k] /\ asked'[k] = asked[k]
        BY <1>4, <2>0
      <4>2. asked[k] + strayed[k] =
              answered[k] + LinesOf(acc[k]) + LinesIn(inbox[k]) + filed[k]
        BY <1>c, <3>1, <3>u DEF Balanced, Accounted
      <4>3. LinesOf(acc[k]) + strayed'[k] = LinesOf(acc'[k]) + strayed[k] + 1
        BY <2>0
      <4>4. asked[k] + strayed'[k] =
              answered[k] + 1 + LinesOf(acc'[k]) + LinesIn(inbox[k]) + filed[k]
        BY <1>c, <3>3, <4>2, <4>3
      <4>5. asked[k] + strayed'[k] =
              answered'[k] + LinesOf(acc'[k]) + LinesIn(inbox[k]) + filed[k]
                + Uploads(k)'
        BY <1>c, <3>3, <3>u, <3>n, <4>4
      <4> QED BY <4>1, <4>5 DEF Accounted
    <3>5. ASSUME k \in Polite, ~ refused'[k]
          PROVE  /\ filed'[k] = 0 /\ strayed'[k] = 0
                 /\ asked'[k] <= answered'[k] + 1
                 /\ stage'[k] \in {"idle", "half"} => asked'[k] = answered'[k]
      <4>0. ~ refused[k]
        BY <1>4, <3>5
      <4>1. acc[k][n] # "nl"
        BY <1>4, <3>5, <4>0 DEF FramingKept, Framed, FileTokens
      <4>2. /\ filed[k] = 0 /\ strayed[k] = 0 /\ asked[k] = Accounted(k)
            /\ asked[k] <= answered[k] + 1
            /\ stage[k] \in {"idle", "half"} => asked[k] = answered[k]
        BY <1>c, <3>1, <3>5, <4>0 DEF Balanced
      <4>3. strayed'[k] = 0 /\ filed'[k] = 0 /\ LinesOf(acc[k]) >= 1
        BY <1>4, <2>0, <3>3, <4>1, <4>2, <1>c
      <4>4. asked[k] >= answered[k] + 1
        BY <1>c, <3>u, <4>2, <4>3 DEF Accounted
      <4>5. stage'[k] = stage[k] /\ asked'[k] = asked[k]
        BY <2>0
      <4>6. stage[k] \notin {"idle", "half"}
        BY <1>c, <4>2, <4>4
      <4>7. asked[k] <= answered'[k] + 1
        BY <1>c, <3>n, <4>2
      <4> QED BY <4>3, <4>5, <4>6, <4>7
    <3> QED BY <3>4, <3>5 DEF Balanced
  <2> QED BY <2>1, <2>2, <2>3, OneAccount
<1>5. CASE RunCommand(k)
  <2>1. PICK n \in DOMAIN acc[k] :
          /\ EndsLine(acc[k], n) /\ Goto(k, "line", "read") /\ TakeLine(k, n)
          /\ answered' = [answered EXCEPT ![k] = @ + 1]
          /\ UNCHANGED <<file, refused, filed, inbox>>
    BY <1>5 DEF RunCommand
  <2>2. /\ file' \in [Connections -> Seq(Tokens)]
        /\ refused' \in [Connections -> BOOLEAN]
        /\ \A j \in Connections : refused'[j] = refused[j]
    BY <1>0, <2>1 DEF LineTypes
  <2> QED BY <2>1, <2>2, <1>4
<1>6. CASE UploadBegins(k)
  <2>1. PICK n \in DOMAIN acc[k] :
          /\ EndsLine(acc[k], n) /\ Goto(k, "line", "upload") /\ TakeLine(k, n)
          /\ file' = [file EXCEPT ![k] = <<>>]
          /\ UNCHANGED <<answered, refused, filed, inbox>>
    BY <1>6 DEF UploadBegins
  <2>2. /\ file' \in [Connections -> Seq(Tokens)]
        /\ refused' \in [Connections -> BOOLEAN]
        /\ \A j \in Connections : refused'[j] = refused[j]
    BY <1>0, <2>1 DEF LineTypes
  <2> QED BY <2>1, <2>2, <1>4
<1>7. CASE UploadRefused(k)
  <2>1. PICK n \in DOMAIN acc[k] :
          /\ EndsLine(acc[k], n) /\ Goto(k, "line", "read") /\ TakeLine(k, n)
          /\ answered' = [answered EXCEPT ![k] = @ + 1]
          /\ refused' = [refused EXCEPT ![k] = TRUE]
          /\ UNCHANGED <<file, inbox, filed>>
    BY <1>7 DEF UploadRefused
  <2>2. /\ file' \in [Connections -> Seq(Tokens)]
        /\ refused' \in [Connections -> BOOLEAN] /\ refused'[k]
        /\ \A j \in Connections : j # k => refused'[j] = refused[j]
    BY <1>0, <2>1 DEF LineTypes
  <2> QED BY <2>1, <2>2, <1>4
<1>8. CASE UploadRecord(k)
  <2>0. /\ inbox[k] # <<>> /\ handler[k] = "upload"
        /\ file' = [file EXCEPT ![k] = @ \o Head(inbox[k])]
        /\ filed' = [filed EXCEPT ![k] = @ + LinesOf(Head(inbox[k]))]
        /\ inbox' = [inbox EXCEPT ![k] = Tail(@)]
        /\ UNCHANGED <<acc, refused, strayed, peer, stage, sent, asked>>
    BY <1>8 DEF UploadRecord, Goto, clientVars
  <2>a. PICK to \in {"read", "upload"} :
          /\ handler' = [handler EXCEPT ![k] = to]
          /\ to = "read" => answered' = [answered EXCEPT ![k] = @ + 1]
          /\ to = "upload" => answered' = [answered EXCEPT ![k] = @]
    BY <1>8 DEF UploadRecord, Goto
  <2>b. /\ Tail(inbox[k]) \in Seq(Seq(Tokens))
        /\ file[k] \o Head(inbox[k]) \in Seq(Tokens)
    BY <1>0, <2>0, TakesRecord
  <2>d. /\ LinesIn(inbox[k]) = LinesOf(Head(inbox[k])) + LinesIn(Tail(inbox[k]))
        /\ LinesOf(Head(inbox[k])) \in Nat /\ LinesIn(Tail(inbox[k])) \in Nat
    BY <1>0, <2>0, TakesRecord
  <2>c. Uploads(k) = 1
    BY <2>0 DEF Uploads
  <2>1. LineTypes'
    <3>a. handler' \in [Connections -> Threads]
      BY <1>0, <2>a DEF LineTypes, Threads, Alive
    <3>b. answered \in [Connections -> Nat]
          /\ [answered EXCEPT ![k] = @ + 1] \in [Connections -> Nat]
      BY <1>0 DEF LineTypes
    <3>1. answered' \in [Connections -> Nat]
      <4>1. CASE to = "read"
        BY <2>a, <3>b, <4>1
      <4>2. CASE to = "upload"
        BY <2>a, <3>b, <4>2
      <4> QED BY <4>1, <4>2
    <3>2. filed' \in [Connections -> Nat]
      BY <1>0, <2>0, <2>d DEF LineTypes
    <3>3. file' \in [Connections -> Seq(Tokens)]
          /\ inbox' \in [Connections -> Seq(Seq(Tokens))]
      BY <1>0, <2>0, <2>b DEF LineTypes
    <3> QED BY <1>0, <2>0, <3>a, <3>1, <3>2, <3>3 DEF LineTypes
  <2>2. \A j \in Connections : j # k => Untouched(j)
    BY <1>0, <2>0, <2>a DEF LineTypes, Untouched
  <2>3. ASSUME Served(k)' PROVE Balanced(k)'
    <3>1. Served(k) /\ Balanced(k)
      BY <1>0, <2>0, <2>3 DEF Served, Alive
    <3>2. /\ handler'[k] = to
          /\ to = "read" => answered'[k] = answered[k] + 1
          /\ to = "upload" => answered'[k] = answered[k]
          /\ filed'[k] = filed[k] + LinesOf(Head(inbox[k]))
          /\ inbox'[k] = Tail(inbox[k])
          /\ acc'[k] = acc[k] /\ asked'[k] = asked[k] /\ stage'[k] = stage[k]
      BY <1>0, <2>0, <2>a DEF LineTypes
    <3>3. Accounted(k)' = Accounted(k)
      <4>1. CASE to = "read"
        <5>1. Uploads(k)' = 0
          BY <3>2, <4>1 DEF Uploads
        <5>2. answered'[k] = answered[k] + 1
          BY <3>2, <4>1
        <5>3. LinesOf(acc'[k]) = LinesOf(acc[k])
          BY <3>2
        <5>4. PICK h \in Nat, t \in Nat :
                /\ LinesIn(inbox[k]) = h + t /\ LinesIn(inbox'[k]) = t
                /\ filed'[k] = filed[k] + h
          BY <2>d, <3>2
        <5> QED BY <1>c, <2>c, <5>1, <5>2, <5>3, <5>4 DEF Accounted
      <4>2. CASE to = "upload"
        <5>1. Uploads(k)' = 1
          BY <3>2, <4>2 DEF Uploads
        <5> QED BY <1>c, <2>d, <2>c, <3>2, <4>2, <5>1 DEF Accounted
      <4> QED BY <4>1, <4>2
    <3>4. ASSUME k \in Polite, ~ refused[k]
          PROVE  LinesOf(Head(inbox[k])) = 0 /\ asked[k] = answered[k] + 1
      BY <1>c, <2>d, <2>c, <3>1, <3>4 DEF Balanced, Accounted
    <3>5. ASSUME k \in Polite, ~ refused[k]
          PROVE  /\ filed'[k] = 0
                 /\ asked'[k] <= answered'[k] + 1
                 /\ stage'[k] \notin {"idle", "half"}
      BY <1>c, <3>1, <3>2, <3>4, <3>5 DEF Balanced
    <3> QED BY <2>0, <3>1, <3>2, <3>3, <3>5 DEF Balanced
  <2> QED BY <2>1, <2>2, <2>3, OneAccount
<1>9. CASE UploadFails(k)
  <2>0. /\ handler' = [handler EXCEPT ![k] = "read"]
        /\ answered' = [answered EXCEPT ![k] = @ + 1]
        /\ inbox' = [inbox EXCEPT ![k] = <<>>]
        /\ UNCHANGED <<acc, file, refused, filed, strayed, peer, stage, sent,
                       asked>>
        /\ peer[k] = "left"
    BY <1>9 DEF UploadFails, Goto, clientVars
  <2>1. LineTypes'
    BY <1>0, <2>0 DEF LineTypes, Threads, Alive
  <2>2. \A j \in Connections : j # k => Untouched(j)
    BY <1>0, <2>0 DEF LineTypes, Untouched
  <2>3. ~ Served(k)'
    BY <2>0 DEF Served
  <2> QED BY <2>1, <2>2, <2>3, EndingStep
<1>10. CASE CloseSocket(k)
  <2>0. /\ handler' = [handler EXCEPT ![k] = "closed"]
        /\ EndThread(k)
        /\ UNCHANGED peer
    BY <1>10 DEF CloseSocket
  <2>1. LineTypes'
    <3>1. handler' \in [Connections -> Threads]
      BY <1>0, <2>0 DEF LineTypes, Threads
    <3>2. 0 \in 0 .. FileSize
      BY CommandAssumption
    <3> QED BY <1>0, <2>0, <3>1, <3>2 DEF LineTypes, EndThread
  <2>2. \A j \in Connections : j # k => Untouched(j)
    BY <1>0, <2>0 DEF LineTypes, Untouched, EndThread
  <2>3. ~ Served(k)'
    BY <1>0, <2>0 DEF LineTypes, Served, Alive
  <2> QED BY <2>1, <2>2, <2>3, EndingStep
<1>11. CASE EraseEntry(k)
  <2>0. /\ handler' = [handler EXCEPT ![k] = "gone"]
        /\ UNCHANGED <<acc, file, inbox, refused, filed, strayed, answered,
                       peer, stage, sent, asked>>
    BY <1>11 DEF EraseEntry, clientVars, countVars
  <2>1. LineTypes'
    BY <1>0, <2>0 DEF LineTypes, Threads
  <2>2. \A j \in Connections : j # k => Untouched(j)
    BY <1>0, <2>0 DEF LineTypes, Untouched
  <2>3. ~ Served(k)'
    BY <1>0, <2>0 DEF LineTypes, Served, Alive
  <2> QED BY <2>1, <2>2, <2>3, EndingStep
<1>12. CASE EmptyLineEnds(k)
  <2>1. UNCHANGED <<handler, acc, file, inbox, refused, filed, strayed,
                    answered, peer, stage, sent, asked>>
    BY <1>12 DEF EmptyLineEnds, threadVars, countVars, clientVars
  <2>2. LineTypes'
    BY <1>0, <2>1 DEF LineTypes
  <2>3. ASSUME NEW j \in Connections, Served(j)' PROVE Balanced(j)'
    BY <2>1, <2>3 DEF LineInv, Served, Balanced, Accounted, Uploads
  <2> QED BY <2>2, <2>3 DEF LineInv
<1> QED
  BY <1>1, <1>2, <1>3, <1>5, <1>6, <1>7, <1>8, <1>9, <1>10, <1>11, <1>12
  DEF HandlerStep, ServeStep

(* Nothing else changes an account: the threads only begin and end.        *)
LEMMA LineNext ==
  ASSUME LineInv, FramingKept, ListInv, [Next]_vars
  PROVE  LineInv'
<1>0. LineTypes /\ \A k \in Connections : Served(k) => Balanced(k)
  BY DEF LineInv
<1>1. ASSUME UNCHANGED <<acc, file, answered, refused, filed, strayed, peer,
                         inbox, stage, sent, asked>>,
             handler' \in [Connections -> Threads],
             \A k \in Connections :
               \/ handler'[k] = handler[k]
               \/ handler[k] = "none" /\ handler'[k] = "read"
               \/ handler'[k] = "gone"
      PROVE  LineInv'
  <2>1. LineTypes'
    BY <1>0, <1>1 DEF LineTypes
  <2>2. ASSUME NEW k \in Connections, Served(k)' PROVE Balanced(k)'
    <3>1. Served(k) /\ Uploads(k)' = Uploads(k)
      BY <1>1, <2>2 DEF Served, Uploads, Alive
    <3>2. Balanced(k) /\ Accounted(k)' = Accounted(k)
      BY <1>0, <1>1, <2>2, <3>1 DEF Accounted
    <3> QED BY <1>1, <3>1, <3>2 DEF Balanced
  <2> QED BY <2>1, <2>2 DEF LineInv
<1>2. ASSUME NEW k \in Connections, NEW f \in Fds, Accept(k, f)
      PROVE  LineInv'
  BY <1>0, <1>1, <1>2 DEF Accept, threadVars, countVars, clientVars, LineTypes
<1>3. CASE HandshakeDone
  BY <1>0, <1>1, <1>3 DEF HandshakeDone, threadVars, countVars, clientVars, LineTypes
<1>4. CASE HandshakeFails
  <2>1. handler' \in [Connections -> Threads]
        /\ \A k \in Connections : handler'[k] = handler[k] \/ handler'[k] = "gone"
    BY <1>0, <1>4 DEF HandshakeFails, LineTypes, Threads
  <2> QED BY <1>1, <1>4, <2>1 DEF HandshakeFails, countVars, clientVars
<1>5. CASE UNCHANGED vars
  BY <1>0, <1>1, <1>5 DEF vars, threadVars, countVars, clientVars, LineTypes
<1>6. ASSUME NEW k \in Connections, HandlerStep(k) \/ ClientStep(k)
      PROVE  LineInv'
  BY <1>6, LineHandlers, LineClients
<1>7. CASE Register
  <2>1. current \in Connections /\ handler[current] = "none"
    BY <1>7 DEF Register, ListInv, ListTypes, SetUpOrder
  <2>2. handler' \in [Connections -> Threads]
        /\ \A k \in Connections :
             \/ handler'[k] = handler[k]
             \/ handler[k] = "none" /\ handler'[k] = "read"
    BY <1>0, <1>7, <2>1 DEF Register, LineTypes, Threads, Alive
  <2> QED BY <1>1, <1>7, <2>2 DEF Register, countVars, clientVars
<1> QED
  BY <1>2, <1>3, <1>4, <1>5, <1>6, <1>7 DEF Next, AcceptorStep

----------------------------------------------------------------------------
(* Framing.                                                                *)

HasPut(s) == \E i \in DOMAIN s : s[i] = "put"
Without(s, token) == \A i \in DOMAIN s : s[i] # token
OnlyText(s) == \A i \in DOMAIN s : s[i] \notin FileTokens
OnlyData(s) == \A i \in DOMAIN s : s[i] \in FileTokens

(* A line ends where the sequence ends, and who announces a file ends the  *)
(* line.                                                                   *)
OneLine(s) ==
  \A i \in DOMAIN s :
    /\ s[i] = "eol" => i = Len(s)
    /\ s[i] = "put" => s[Len(s)] = "eol"

(* What a client that waits has under way: m records of text, of which the *)
(* last alone may announce a file, then pieces of that file; g[i] is where *)
(* record i ends in the file, at the latest.                               *)
UnderWay(box, m, g) ==
  /\ m \in 0 .. Len(box)
  /\ g \in [0 .. Len(box) -> 0 .. FileSize]
  /\ \A i \in 1 .. Len(box) : OneLine(box[i]) /\ (HasPut(box[i]) => i = m)
  /\ \A i \in 1 .. m : OnlyText(box[i])
  /\ \A i \in m + 1 .. Len(box) : Len(box[i]) > 0 /\ OnlyData(box[i])
  /\ \A i, j \in m .. Len(box) : i < j => g[i] + Len(box[j]) <= g[j]

(* The announcement of the file whose pieces are under way is being        *)
(* served, was accumulated, or is the last of the text.                    *)
Announced(k, m) ==
  \/ handler[k] = "upload"
  \/ HasPut(acc[k])
  \/ m \in 1 .. Len(inbox[k]) /\ HasPut(inbox[k][m])

Stream(k, m, g) ==
  /\ UnderWay(inbox[k], m, g)
  /\ OneLine(acc[k])
  /\ handler[k] # "line" => Without(acc[k], "eol")
  /\ handler[k] = "upload" => m = 0 /\ Len(file[k]) <= g[0]
  /\ HasPut(acc[k]) => m = 0
  /\ m < Len(inbox[k]) => Announced(k, m)
  /\ (peer[k] # "left" /\ stage[k] = "file") =>
       /\ g[Len(inbox[k])] = sent[k]
       /\ sent[k] < FileSize
       /\ Announced(k, m)

Reading(k) == handler[k] \in Alive \cup {"none"}

(* After a refusal nothing is kept apart until the connection ends.        *)
Frame(k) ==
  ~ refused[k] => Framed(k) /\ (Reading(k) => \E m, g : Stream(k, m, g))

FrameInv == \A k \in Polite : Frame(k)

(* Who has not ended a line has announced nothing.                         *)
LEMMA PutEndsLine ==
  ASSUME NEW s \in Seq(Tokens), OneLine(s), Without(s, "eol")
  PROVE  ~ HasPut(s)
<1> SUFFICES ASSUME NEW i \in DOMAIN s, s[i] = "put" PROVE FALSE
  BY DEF HasPut
<1>1. s[Len(s)] = "eol"
  BY DEF OneLine
<1>2. Len(s) \in DOMAIN s
  BY LenProperties
<1> QED BY <1>1, <1>2 DEF Without

(* Text appended to an unfinished line is one line at most.                *)
LEMMA LineGrows ==
  ASSUME NEW s \in Seq(Tokens), NEW t \in Seq(Tokens),
         Without(s, "eol"), OneLine(s), OneLine(t)
  PROVE  /\ OneLine(s \o t)
         /\ HasPut(s \o t) <=> HasPut(t)
         /\ (OnlyText(s) /\ OnlyText(t)) => OnlyText(s \o t)
<1>1. /\ Len(s) \in Nat /\ Len(t) \in Nat
      /\ DOMAIN s = 1 .. Len(s) /\ DOMAIN t = 1 .. Len(t)
      /\ Len(s \o t) = Len(s) + Len(t) /\ DOMAIN (s \o t) = 1 .. Len(s) + Len(t)
      /\ \A i \in 1 .. Len(s) + Len(t) :
           (s \o t)[i] = IF i <= Len(s) THEN s[i] ELSE t[i - Len(s)]
  BY ConcatProperties, LenProperties
<1> DEFINE st == s \o t
<1> HIDE DEF st
<1>2. ~ HasPut(s)
  BY PutEndsLine
<1>3. \A i \in 1 .. Len(s) : st[i] = s[i]
  BY <1>1 DEF st
<1>4. \A i \in 1 .. Len(t) : st[Len(s) + i] = t[i]
  BY <1>1 DEF st
<1>5. ASSUME NEW i \in 1 .. Len(s) + Len(t)
      PROVE  \/ i \in 1 .. Len(s) /\ st[i] = s[i]
             \/ \E j \in 1 .. Len(t) : i = Len(s) + j /\ st[i] = t[j]
  <2>1. CASE i <= Len(s)
    BY <1>1, <1>3, <2>1
  <2>2. CASE ~ (i <= Len(s))
    <3>1. i - Len(s) \in 1 .. Len(t) /\ i = Len(s) + (i - Len(s))
      BY <1>1, <2>2
    <3> QED BY <1>4, <3>1
  <2> QED BY <2>1, <2>2
<1>6. DOMAIN st = 1 .. Len(s) + Len(t) /\ Len(st) = Len(s) + Len(t)
  BY <1>1 DEF st
<1>7. OneLine(st)
  <2> SUFFICES ASSUME NEW i \in 1 .. Len(s) + Len(t)
               PROVE  /\ st[i] = "eol" => i = Len(st)
                      /\ st[i] = "put" => st[Len(st)] = "eol"
    BY <1>6 DEF OneLine
  <2>1. CASE i \in 1 .. Len(s) /\ st[i] = s[i]
    BY <1>1, <1>2, <2>1 DEF Without, HasPut
  <2>2. ASSUME NEW j \in 1 .. Len(t), i = Len(s) + j, st[i] = t[j]
        PROVE  /\ st[i] = "eol" => i = Len(st)
               /\ st[i] = "put" => st[Len(st)] = "eol"
    <3>0. j \in DOMAIN t
      BY <1>1
    <3>1. /\ t[j] = "eol" => j = Len(t)
          /\ t[j] = "put" => t[Len(t)] = "eol"
      BY <3>0, Zenon DEF OneLine
    <3>2. Len(t) \in 1 .. Len(t) /\ st[Len(s) + Len(t)] = t[Len(t)]
      BY <1>1, <1>4
    <3> QED BY <2>2, <3>1, <3>2, <1>6
  <2> QED BY <1>5, <2>1, <2>2
<1>8. HasPut(st) <=> HasPut(t)
  <2>1. ASSUME HasPut(st) PROVE HasPut(t)
    BY <1>1, <1>2, <1>5, <1>6, <2>1 DEF HasPut
  <2>2. ASSUME HasPut(t) PROVE HasPut(st)
    <3>1. PICK j \in 1 .. Len(t) : t[j] = "put"
      BY <1>1, <2>2 DEF HasPut
    <3>2. Len(s) + j \in 1 .. Len(s) + Len(t) /\ st[Len(s) + j] = "put"
      BY <1>1, <1>4, <3>1
    <3> QED BY <1>6, <3>2 DEF HasPut
  <2> QED BY <2>1, <2>2
<1>9. (OnlyText(s) /\ OnlyText(t)) => OnlyText(st)
  BY <1>1, <1>5, <1>6 DEF OnlyText
<1> QED BY <1>7, <1>8, <1>9 DEF st

(* The pieces of a file, one after the other.                              *)
LEMMA FileGrows ==
  ASSUME NEW s \in Seq(Tokens), NEW t \in Seq(Tokens), OnlyData(s), OnlyData(t)
  PROVE  OnlyData(s \o t) /\ Len(s \o t) = Len(s) + Len(t)
BY ConcatProperties, LenProperties DEF OnlyData

(* What is known of the first record, and of the others without it.        *)
FlowsOn(box, m, g, next, marks) ==
  /\ UnderWay(Tail(box), next, marks)
  /\ Len(Tail(box)) = Len(box) - 1 /\ Len(box) \in Nat \ {0}
  /\ marks[Len(Tail(box))] = g[Len(box)]
  /\ OneLine(Head(box))
  /\ HasPut(Head(box)) => m = 1
  /\ m > 1 => Tail(box)[next] = box[m]
  /\ m = 1 => Head(box) = box[m]
  /\ m = 0 => /\ OnlyData(Head(box)) /\ Len(Head(box)) > 0
              /\ g[0] + Len(Head(box)) <= marks[0]
  /\ m > 0 => OnlyText(Head(box))

(* The thread takes the first record.                                      *)
LEMMA FlowTaken ==
  ASSUME NEW box \in Seq(Seq(Tokens)), box # <<>>,
         NEW m, NEW g, UnderWay(box, m, g),
         NEW next, next = (IF m = 0 THEN 0 ELSE m - 1),
         NEW marks, marks = [i \in 0 .. Len(box) - 1 |-> g[i + 1]]
  PROVE  FlowsOn(box, m, g, next, marks)
<1>1. /\ Len(box) \in Nat \ {0}
      /\ Len(Tail(box)) = Len(box) - 1
      /\ \A i \in 1 .. Len(box) - 1 : Tail(box)[i] = box[i + 1]
      /\ Head(box) = box[1]
  BY EmptySeq, LenProperties, HeadTailProperties
<1>2. /\ m \in 0 .. Len(box)
      /\ g \in [0 .. Len(box) -> 0 .. FileSize]
      /\ \A i \in 1 .. Len(box) : OneLine(box[i]) /\ (HasPut(box[i]) => i = m)
      /\ \A i \in 1 .. m : OnlyText(box[i])
      /\ \A i \in m + 1 .. Len(box) : Len(box[i]) > 0 /\ OnlyData(box[i])
      /\ \A i, j \in m .. Len(box) : i < j => g[i] + Len(box[j]) <= g[j]
  BY DEF UnderWay
<1>3. next \in 0 .. Len(box) - 1
  BY <1>1, <1>2
<1>4. marks \in [0 .. Len(box) - 1 -> 0 .. FileSize]
  BY <1>1, <1>2
<1>5. \A i \in 0 .. Len(box) - 1 : marks[i] = g[i + 1]
  OBVIOUS
<1> DEFINE rest == Tail(box)
<1>6. Len(rest) = Len(box) - 1
      /\ \A i \in 1 .. Len(rest) : rest[i] = box[i + 1]
  BY <1>1
<1> HIDE DEF rest
<1>7. ASSUME NEW i \in 1 .. Len(rest)
      PROVE  OneLine(rest[i]) /\ (HasPut(rest[i]) => i = next)
  BY <1>1, <1>2, <1>6
<1>8. ASSUME NEW i \in 1 .. next PROVE OnlyText(rest[i])
  <2>1. i + 1 \in 1 .. m /\ i \in 1 .. Len(rest)
    BY <1>1, <1>2, <1>3, <1>6
  <2> QED BY <1>2, <1>6, <1>8, <2>1
<1>9. ASSUME NEW i \in next + 1 .. Len(rest)
      PROVE  Len(rest[i]) > 0 /\ OnlyData(rest[i])
  BY <1>1, <1>2, <1>3, <1>6
<1>10. ASSUME NEW i \in next .. Len(rest), NEW j \in next .. Len(rest), i < j
       PROVE  marks[i] + Len(rest[j]) <= marks[j]
  <2>1. i + 1 \in m .. Len(box) /\ j + 1 \in m .. Len(box) /\ i + 1 < j + 1
    BY <1>1, <1>2, <1>3, <1>6, <1>10
  <2>2. marks[i] = g[i + 1] /\ marks[j] = g[j + 1] /\ rest[j] = box[j + 1]
    BY <1>1, <1>2, <1>3, <1>5, <1>6, <1>10
  <2> QED BY <1>2, <2>1, <2>2
<1>11. UnderWay(rest, next, marks)
  BY <1>3, <1>4, <1>6, <1>7, <1>8, <1>9, <1>10 DEF UnderWay
<1>12. marks[Len(rest)] = g[Len(box)]
  BY <1>1, <1>5, <1>6
<1>13. m = 0 => /\ OnlyData(Head(box)) /\ Len(Head(box)) > 0
                /\ g[0] + Len(Head(box)) <= marks[0]
  BY <1>1, <1>2, <1>5
<1>14. m > 1 => rest[next] = box[m]
  BY <1>1, <1>2, <1>3, <1>6
<1> QED BY <1>1, <1>2, <1>11, <1>12, <1>13, <1>14 DEF rest, FlowsOn

(* The client sends text: what is under way is all text then.              *)
LEMMA TextFlows ==
  ASSUME NEW box \in Seq(Seq(Tokens)), NEW record \in Seq(Tokens),
         NEW g, UnderWay(box, Len(box), g),
         \A i \in 1 .. Len(box) : ~ HasPut(box[i]),
         OneLine(record), OnlyText(record)
  PROVE  UnderWay(Append(box, record), Len(box) + 1,
                  [i \in 0 .. Len(box) + 1 |-> 0])
<1> DEFINE all == Append(box, record)
           marks == [i \in 0 .. Len(box) + 1 |-> 0]
<1>1. /\ Len(box) \in Nat /\ Len(all) = Len(box) + 1
      /\ \A i \in 1 .. Len(box) : all[i] = box[i]
      /\ all[Len(box) + 1] = record
  BY LenProperties, AppendProperties
<1>2. marks \in [0 .. Len(all) -> 0 .. FileSize]
  BY <1>1, CommandAssumption
<1> HIDE DEF all, marks
<1>3. ASSUME NEW i \in 1 .. Len(all)
      PROVE  OneLine(all[i]) /\ (HasPut(all[i]) => i = Len(box) + 1)
  <2>1. i \in 1 .. Len(box) \/ i = Len(box) + 1
    BY <1>1
  <2>2. \A j \in 1 .. Len(box) : OneLine(box[j])
    BY DEF UnderWay
  <2> QED BY <1>1, <2>1, <2>2
<1>4. ASSUME NEW i \in 1 .. Len(box) + 1 PROVE OnlyText(all[i])
  <2>1. \A j \in 1 .. Len(box) : OnlyText(box[j])
    BY DEF UnderWay
  <2>2. i \in 1 .. Len(box) \/ i = Len(box) + 1
    BY <1>1
  <2> QED BY <1>1, <2>1, <2>2
<1>5. UnderWay(all, Len(box) + 1, marks)
  <2>1. Len(box) + 1 \in 0 .. Len(all) /\ (Len(box) + 1) + 1 > Len(all)
    BY <1>1
  <2>2. ~ \E i \in (Len(box) + 1) + 1 .. Len(all) : TRUE
    BY <1>1
  <2>3. \A i, j \in Len(box) + 1 .. Len(all) : ~ (i < j)
    BY <1>1
  <2> QED BY <1>1, <1>2, <1>3, <1>4, <2>1, <2>2, <2>3 DEF UnderWay
<1> QED BY <1>5 DEF all, marks

(* The client sends a piece of the file.                                   *)
LEMMA DataFlows ==
  ASSUME NEW box \in Seq(Seq(Tokens)), NEW record \in Seq(Tokens),
         NEW m, NEW g, UnderWay(box, m, g),
         Len(record) > 0, OnlyData(record),
         g[Len(box)] + Len(record) <= FileSize,
         NEW marks,
         marks = [i \in 0 .. Len(box) + 1 |->
                    IF i = Len(box) + 1 THEN g[Len(box)] + Len(record)
                                        ELSE g[i]]
  PROVE  UnderWay(Append(box, record), m, marks)
<1> DEFINE all == Append(box, record)
<1>1. /\ Len(box) \in Nat /\ Len(all) = Len(box) + 1 /\ Len(record) \in Nat
      /\ \A i \in 1 .. Len(box) : all[i] = box[i]
      /\ all[Len(box) + 1] = record
  BY LenProperties, AppendProperties
<1>2. /\ m \in 0 .. Len(box)
      /\ g \in [0 .. Len(box) -> 0 .. FileSize]
      /\ \A i, j \in m .. Len(box) : i < j => g[i] + Len(box[j]) <= g[j]
  BY DEF UnderWay
<1>g. \A i \in 0 .. Len(box) : g[i] \in Nat /\ g[i] <= FileSize
  <2>1. FileSize \in Nat
    BY CommandAssumption
  <2>2. ASSUME NEW i \in 0 .. Len(box) PROVE g[i] \in 0 .. FileSize
    BY <1>2, Zenon
  <2> QED BY <2>1, <2>2
<1>3. marks \in [0 .. Len(all) -> 0 .. FileSize]
  <2>1. ASSUME NEW i \in 0 .. Len(box) + 1
        PROVE  (IF i = Len(box) + 1 THEN g[Len(box)] + Len(record) ELSE g[i])
                 \in 0 .. FileSize
    BY <1>1, <1>g, CommandAssumption
  <2> QED BY <1>1, <2>1
<1>m. /\ \A i \in 0 .. Len(box) : marks[i] = g[i]
      /\ marks[Len(box) + 1] = g[Len(box)] + Len(record)
  BY <1>1
<1> HIDE DEF all
<1>4. OneLine(record) /\ ~ HasPut(record)
  BY DEF OnlyData, OneLine, HasPut, FileTokens
<1>5. ASSUME NEW i \in 1 .. Len(all)
      PROVE  OneLine(all[i]) /\ (HasPut(all[i]) => i = m)
  BY <1>1, <1>4 DEF UnderWay
<1>6. ASSUME NEW i \in 1 .. m PROVE OnlyText(all[i])
  <2>1. i \in 1 .. Len(box)
    BY <1>1, <1>2
  <2>2. OnlyText(box[i])
    BY DEF UnderWay
  <2> QED BY <1>1, <2>1, <2>2
<1>7. ASSUME NEW i \in m + 1 .. Len(all)
      PROVE  Len(all[i]) > 0 /\ OnlyData(all[i])
  <2>1. \/ i \in 1 .. Len(box) /\ i \in m + 1 .. Len(box)
        \/ i = Len(box) + 1
    BY <1>1, <1>2
  <2>2. \A j \in m + 1 .. Len(box) : Len(box[j]) > 0 /\ OnlyData(box[j])
    BY DEF UnderWay
  <2> QED BY <1>1, <2>1, <2>2
<1>8. ASSUME NEW i \in m .. Len(all), NEW j \in m .. Len(all), i < j
      PROVE  marks[i] + Len(all[j]) <= marks[j]
  <2>0. i \in m .. Len(box) /\ marks[i] = g[i] /\ g[i] \in Nat
    BY <1>1, <1>2, <1>8, <1>m, <1>g
  <2>1. CASE j <= Len(box)
    <3>1. j \in m .. Len(box) /\ all[j] = box[j] /\ marks[j] = g[j]
      BY <1>1, <1>2, <1>8, <1>m, <2>0, <2>1
    <3> QED BY <1>2, <1>8, <2>0, <3>1
  <2>2. CASE ~ (j <= Len(box))
    <3>1. j = Len(box) + 1 /\ all[j] = record
          /\ marks[j] = g[Len(box)] + Len(record) /\ g[Len(box)] \in Nat
      BY <1>1, <1>2, <1>m, <1>g, <2>2
    <3>2. g[i] <= g[Len(box)]
      <4>1. CASE i = Len(box)
        BY <4>1, <3>1
      <4>2. CASE i # Len(box)
        <5>0. /\ i < Len(box) /\ Len(box) \in m .. Len(box)
              /\ Len(box) \in 1 .. Len(box)
          BY <1>1, <1>2, <2>0, <4>2
        <5>1. g[i] + Len(box[Len(box)]) <= g[Len(box)]
          BY <1>2, <2>0, <5>0
        <5>2. Len(box[Len(box)]) \in Nat
          BY <5>0, ElementOfSeq, LenProperties
        <5> QED BY <2>0, <3>1, <5>1, <5>2
      <4> QED BY <4>1, <4>2
    <3> QED BY <1>1, <2>0, <3>1, <3>2
  <2> QED BY <2>1, <2>2
<1>9. m \in 0 .. Len(all)
  BY <1>1, <1>2
<1> QED BY <1>3, <1>5, <1>6, <1>7, <1>8, <1>9 DEF UnderWay, all

(* Nothing that concerns the commands and files of j changes.              *)
Same(j) ==
  /\ Untouched(j)
  /\ file'[j] = file[j] /\ sent'[j] = sent[j]

(* A step that moves no token, and lets nobody go on with a file who did   *)
(* not, keeps the commands and files of k apart.                           *)
LEMMA QuietFrame ==
  ASSUME NEW k \in Connections, Frame(k),
         acc'[k] = acc[k], file'[k] = file[k], refused'[k] = refused[k],
         Reading(k)' => /\ inbox'[k] = inbox[k]
                        /\ \/ handler'[k] = handler[k]
                           \/ handler[k] = "none" /\ handler'[k] = "read",
         (peer'[k] # "left" /\ stage'[k] = "file") =>
           peer[k] # "left" /\ stage[k] = "file" /\ sent'[k] = sent[k]
  PROVE  Frame(k)'
<1> SUFFICES ASSUME ~ refused[k]
             PROVE  Framed(k)' /\ (Reading(k)' => \E m, g : Stream(k, m, g)')
  BY DEF Frame
<1>1. Framed(k)'
  BY DEF Frame, Framed
<1>2. ASSUME Reading(k)' PROVE \E m, g : Stream(k, m, g)'
  <2>1. Reading(k) /\ inbox'[k] = inbox[k]
    BY <1>2 DEF Reading
  <2>2. PICK m, g : Stream(k, m, g)
    BY <2>1 DEF Frame
  <2>3. handler'[k] # "line" => handler[k] # "line"
    BY <1>2
  <2>4. handler'[k] = "upload" <=> handler[k] = "upload"
    BY <1>2
  <2>5. Announced(k, m)' <=> Announced(k, m)
    BY <2>1, <2>4 DEF Announced
  <2>6. Stream(k, m, g)'
    BY <2>1, <2>2, <2>3, <2>4, <2>5 DEF Stream
  <2> QED BY <2>6
<1> QED BY <1>1, <1>2

(* What a record brings to the line that is read: no piece of a file.      *)
LEMMA FrameRead ==
  ASSUME LineTypes, NEW k \in Connections, Frame(k),
         inbox[k] # <<>>, handler[k] = "read", ~ refused[k],
         NEW line, line = acc[k] \o Head(inbox[k])
  PROVE  /\ OnlyText(line)
         /\ OneLine(line)
         /\ \E m, g :
              /\ UnderWay(Tail(inbox[k]), m, g)
              /\ HasPut(line) => m = 0
              /\ m < Len(Tail(inbox[k])) =>
                   \/ HasPut(line)
                   \/ /\ m \in 1 .. Len(Tail(inbox[k]))
                      /\ HasPut(Tail(inbox[k])[m])
              /\ (peer[k] # "left" /\ stage[k] = "file") =>
                   /\ g[Len(Tail(inbox[k]))] = sent[k]
                   /\ sent[k] < FileSize
                   /\ \/ HasPut(line)
                      \/ /\ m \in 1 .. Len(Tail(inbox[k]))
                         /\ HasPut(Tail(inbox[k])[m])
<1>0. acc[k] \in Seq(Tokens) /\ inbox[k] \in Seq(Seq(Tokens))
  BY DEF LineTypes
<1>1. PICK m, g : Stream(k, m, g)
  BY DEF Frame, Reading, Alive
<1>2. /\ UnderWay(inbox[k], m, g)
      /\ OneLine(acc[k]) /\ Without(acc[k], "eol")
      /\ m < Len(inbox[k]) => Announced(k, m)
      /\ (peer[k] # "left" /\ stage[k] = "file") =>
           /\ g[Len(inbox[k])] = sent[k]
           /\ sent[k] < FileSize
           /\ Announced(k, m)
  BY <1>1 DEF Stream
<1> DEFINE next == IF m = 0 THEN 0 ELSE m - 1
           marks == [i \in 0 .. Len(inbox[k]) - 1 |-> g[i + 1]]
           first == Head(inbox[k])
           rest == Tail(inbox[k])
<1>d. /\ next = (IF m = 0 THEN 0 ELSE m - 1)
      /\ marks = [i \in 0 .. Len(inbox[k]) - 1 |-> g[i + 1]]
  OBVIOUS
<1>u. UnderWay(inbox[k], m, g) /\ inbox[k] \in Seq(Seq(Tokens))
      /\ inbox[k] # <<>>
  BY <1>0, <1>2
<1> HIDE DEF next, marks
<1>f. FlowsOn(inbox[k], m, g, next, marks)
  BY <1>u, <1>d, FlowTaken
<1>3. /\ UnderWay(rest, next, marks)
      /\ Len(rest) = Len(inbox[k]) - 1 /\ Len(inbox[k]) \in Nat \ {0}
      /\ marks[Len(rest)] = g[Len(inbox[k])]
      /\ OneLine(first)
      /\ HasPut(first) => m = 1
      /\ m > 1 => rest[next] = inbox[k][m]
      /\ m = 1 => first = inbox[k][m]
      /\ m > 0 => OnlyText(first)
  BY <1>f DEF FlowsOn
<1>4. m \in 0 .. Len(inbox[k])
  BY <1>2 DEF UnderWay
<1>5. first \in Seq(Tokens)
  BY <1>0, LinesRead
<1> HIDE DEF first, rest
<1>6. /\ OneLine(line)
      /\ HasPut(line) <=> HasPut(first)
      /\ (OnlyText(acc[k]) /\ OnlyText(first)) => OnlyText(line)
  BY <1>0, <1>2, <1>3, <1>5, LineGrows DEF first
<1>7. ~ HasPut(acc[k])
  BY <1>0, <1>2, PutEndsLine
<1>8. Announced(k, m) => m > 0 /\ HasPut(inbox[k][m])
  BY <1>3, <1>4, <1>7 DEF Announced
<1>9. m > 0
  BY <1>2, <1>3, <1>4, <1>8
<1>10. OnlyText(line)
  <2>1. OnlyText(acc[k])
    BY DEF Frame, Framed, OnlyText
  <2> QED BY <1>3, <1>6, <1>9, <2>1
<1>11. HasPut(line) => next = 0
  BY <1>3, <1>6 DEF next
<1>12. Announced(k, m) =>
         HasPut(line) \/ (next \in 1 .. Len(rest) /\ HasPut(rest[next]))
  <2> HAVE Announced(k, m)
  <2>1. CASE m = 1
    BY <1>3, <1>6, <1>8, <2>1
  <2>2. CASE m # 1
    BY <1>3, <1>4, <1>8, <2>2 DEF next
  <2> QED BY <2>1, <2>2
<1>13. next < Len(rest) => Announced(k, m)
  BY <1>2, <1>3, <1>4, <1>9 DEF next
<1> QED BY <1>2, <1>3, <1>6, <1>10, <1>11, <1>12, <1>13 DEF rest

(* A line that ends where the sequence ends leaves nothing behind.         *)
LEMMA WholeLineTaken ==
  ASSUME NEW s \in Seq(Tokens), OneLine(s), OnlyText(s),
         NEW n \in DOMAIN s, EndsLine(s, n)
  PROVE  n = Len(s) /\ SubSeq(s, n + 1, Len(s)) = <<>>
<1>1. n = Len(s) /\ Len(s) \in Nat
  BY LenProperties DEF OneLine, EndsLine, OnlyText, FileTokens, Newlines
<1> QED BY <1>1

(* The thread of k keeps the commands and the files of k apart.            *)
LEMMA FrameHandler ==
  ASSUME LineTypes, NEW k \in Connections, HandlerStep(k)
  PROVE  /\ \A j \in Connections : j # k => Same(j)
         /\ Frame(k) => Frame(k)'
<1>1. CASE ReadRecord(k)
  <2>0. /\ inbox[k] # <<>> /\ handler[k] = "read"
        /\ handler' = [handler EXCEPT ![k] =
             IF HasLine(acc[k] \o Head(inbox[k])) THEN "line" ELSE "read"]
        /\ acc' = [acc EXCEPT ![k] = @ \o Head(inbox[k])]
        /\ inbox' = [inbox EXCEPT ![k] = Tail(@)]
        /\ UNCHANGED <<file, answered, refused, filed, strayed, peer, stage,
                       sent, asked>>
    BY <1>1 DEF ReadRecord, Goto, clientVars, countVars
  <2>1. \A j \in Connections : j # k => Same(j)
    BY <2>0 DEF LineTypes, Same, Untouched
  <2>2. ASSUME Frame(k), ~ refused[k]
        PROVE  Framed(k)' /\ \E m, g : Stream(k, m, g)'
    <3> DEFINE line == acc[k] \o Head(inbox[k])
               rest == Tail(inbox[k])
    <3>1. /\ acc'[k] = line /\ inbox'[k] = rest
          /\ handler'[k] = IF HasLine(line) THEN "line" ELSE "read"
      BY <2>0 DEF LineTypes
    <3> HIDE DEF line, rest
    <3>2. /\ OnlyText(line)
          /\ OneLine(line)
          /\ \E m, g :
               /\ UnderWay(rest, m, g)
               /\ HasPut(line) => m = 0
               /\ m < Len(rest) =>
                    HasPut(line) \/ (m \in 1 .. Len(rest) /\ HasPut(rest[m]))
               /\ (peer[k] # "left" /\ stage[k] = "file") =>
                    /\ g[Len(rest)] = sent[k]
                    /\ sent[k] < FileSize
                    /\ \/ HasPut(line)
                       \/ m \in 1 .. Len(rest) /\ HasPut(rest[m])
      BY <2>0, <2>2, FrameRead DEF line, rest
    <3>3. Framed(k)'
      BY <2>0, <2>2, <3>1, <3>2 DEF Frame, Framed, OnlyText
    <3>4. handler'[k] # "line" => Without(line, "eol")
      BY <3>1 DEF HasLine, Newlines, Without
    <3>5. handler'[k] # "upload"
      BY <3>1
    <3>6. PICK m, g :
               /\ UnderWay(rest, m, g)
               /\ HasPut(line) => m = 0
               /\ m < Len(rest) =>
                    HasPut(line) \/ (m \in 1 .. Len(rest) /\ HasPut(rest[m]))
               /\ (peer[k] # "left" /\ stage[k] = "file") =>
                    /\ g[Len(rest)] = sent[k]
                    /\ sent[k] < FileSize
                    /\ \/ HasPut(line)
                       \/ m \in 1 .. Len(rest) /\ HasPut(rest[m])
      BY <3>2
    <3>7. Stream(k, m, g)'
      BY <2>0, <3>1, <3>2, <3>4, <3>5, <3>6 DEF Stream, Announced
    <3> QED BY <3>3, <3>7
  <2> QED BY <2>0, <2>1, <2>2 DEF Frame
<1>2. CASE Reject(k)
  <2>0. /\ inbox[k] # <<>> /\ handler[k] = "read"
        /\ handler' = [handler EXCEPT ![k] = "shutdown"]
        /\ acc' = [acc EXCEPT ![k] = @ \o Head(inbox[k])]
        /\ inbox' = [inbox EXCEPT ![k] = Tail(@)]
        /\ answered' = [answered EXCEPT ![k] = @ + 1]
        /\ UNCHANGED <<file, refused, filed, strayed, peer, stage, sent, asked>>
    BY <1>2 DEF Reject, Goto, clientVars
  <2>1. \A j \in Connections : j # k => Same(j)
    BY <2>0 DEF LineTypes, Same, Untouched
  <2>2. ASSUME Frame(k), ~ refused[k] PROVE Framed(k)' /\ ~ Reading(k)'
    <3>1. acc'[k] = acc[k] \o Head(inbox[k]) /\ handler'[k] = "shutdown"
      BY <2>0 DEF LineTypes
    <3>2. OnlyText(acc'[k])
      BY <2>0, <2>2, <3>1, FrameRead
    <3>3. Framed(k)'
      BY <2>0, <2>2, <3>2 DEF Frame, Framed, OnlyText
    <3> QED BY <3>1, <3>3 DEF Reading, Alive
  <2> QED BY <2>0, <2>1, <2>2 DEF Frame
<1>3. CASE ReadFails(k)
  <2>0. /\ handler' = [handler EXCEPT ![k] = "shutdown"]
        /\ inbox' = [inbox EXCEPT ![k] = <<>>]
        /\ UNCHANGED <<acc, file, answered, refused, filed, strayed, peer, stage,
                       sent, asked>>
    BY <1>3 DEF ReadFails, Goto, clientVars, countVars
  <2>1. \A j \in Connections : j # k => Same(j)
    BY <2>0 DEF LineTypes, Same, Untouched
  <2>2. ~ Reading(k)'
    BY <2>0 DEF LineTypes, Reading, Alive
  <2> QED BY <2>0, <2>1, <2>2, QuietFrame
<1>4. ASSUME NEW n \in DOMAIN acc[k], EndsLine(acc[k], n),
             NEW to \in {"read", "upload"}, Goto(k, "line", to), TakeLine(k, n),
             (\E i \in 1 .. n : acc[k][i] = "put") <=> to = "upload",
             file'[k] = IF to = "upload" THEN <<>> ELSE file[k],
             inbox'[k] = inbox[k],
             ~ refused[k], Frame(k)
      PROVE  Framed(k)' /\ \E m, g : Stream(k, m, g)'
  <2>1. PICK m, g : Stream(k, m, g)
    BY <1>4 DEF Frame, Reading, Alive, Goto
  <2>2. /\ UnderWay(inbox[k], m, g)
        /\ OneLine(acc[k])
        /\ HasPut(acc[k]) => m = 0
        /\ m < Len(inbox[k]) => Announced(k, m)
        /\ (peer[k] # "left" /\ stage[k] = "file") =>
             /\ g[Len(inbox[k])] = sent[k]
             /\ sent[k] < FileSize
             /\ Announced(k, m)
    BY <2>1 DEF Stream
  <2>3. /\ n = Len(acc[k]) /\ acc'[k] = <<>>
        /\ HasPut(acc[k]) <=> to = "upload"
    <3>1. acc[k] \in Seq(Tokens) /\ OnlyText(acc[k])
      BY <1>4 DEF LineTypes, Frame, Framed, OnlyText
    <3>2. n = Len(acc[k]) /\ SubSeq(acc[k], n + 1, Len(acc[k])) = <<>>
      BY <1>4, <2>2, <3>1, WholeLineTaken
    <3>3. DOMAIN acc[k] = 1 .. n
      BY <3>1, <3>2, LenProperties
    <3> QED BY <1>4, <3>2, <3>3 DEF LineTypes, TakeLine, HasPut
  <2>4. /\ handler[k] = "line" /\ handler'[k] = to
        /\ peer' = peer /\ stage' = stage /\ sent' = sent
    BY <1>4 DEF Goto, LineTypes, clientVars
  <2>5. /\ OneLine(<<>>) /\ Without(<<>>, "eol") /\ OnlyText(<<>>)
        /\ ~ HasPut(<<>>) /\ OnlyData(<<>>)
    BY DEF OneLine, Without, HasPut, OnlyData, OnlyText
  <2>6. Framed(k)'
    <3>1. OnlyText(acc'[k])
      BY <2>3, <2>5
    <3>2. OnlyData(file'[k])
      BY <1>4, <2>5 DEF Frame, Framed, OnlyData
    <3> QED BY <3>1, <3>2 DEF Framed, OnlyText, OnlyData
  <2>7. UnderWay(inbox'[k], m, g)
    BY <1>4, <2>2
  <2>8. handler'[k] = "upload" => m = 0 /\ Len(file'[k]) <= g[0]
    <3>1. g[0] \in Nat
      <4>1. 0 \in 0 .. Len(inbox[k]) /\ FileSize \in Nat
        BY <2>2, CommandAssumption, LenProperties DEF LineTypes
      <4>2. g \in [0 .. Len(inbox[k]) -> 0 .. FileSize]
        BY <2>2 DEF UnderWay
      <4> QED BY <4>1, <4>2
    <3>2. Len(<<>>) = 0
      OBVIOUS
    <3> QED BY <1>4, <2>2, <2>3, <2>4, <3>1, <3>2
  <2>9. Announced(k, m) => Announced(k, m)'
    <3> HAVE Announced(k, m)
    <3>1. CASE HasPut(acc[k])
      BY <2>3, <2>4, <3>1 DEF Announced
    <3>2. CASE ~ HasPut(acc[k])
      BY <1>4, <2>4, <3>2 DEF Announced
    <3> QED BY <3>1, <3>2
  <2>10. Stream(k, m, g)'
    <3>1. OneLine(acc'[k]) /\ Without(acc'[k], "eol") /\ ~ HasPut(acc'[k])
      BY <2>3, <2>5
    <3>2. m < Len(inbox'[k]) => Announced(k, m)'
      BY <1>4, <2>2, <2>9
    <3>3. (peer'[k] # "left" /\ stage'[k] = "file") =>
            /\ g[Len(inbox'[k])] = sent'[k]
            /\ sent'[k] < FileSize
            /\ Announced(k, m)'
      BY <1>4, <2>2, <2>4, <2>9
    <3> QED BY <2>7, <2>8, <3>1, <3>2, <3>3 DEF Stream
  <2> QED BY <2>6, <2>10
<1>s. ASSUME NEW n \in DOMAIN acc[k],
             NEW to \in {"read", "upload"}, Goto(k, "line", to), TakeLine(k, n),
             UNCHANGED <<inbox, filed>>,
             \A j \in Connections :
               j # k => /\ file'[j] = file[j] /\ refused'[j] = refused[j]
                        /\ answered'[j] = answered[j]
      PROVE  \A j \in Connections : j # k => Same(j)
  <2>1. \A j \in Connections :
          j # k => /\ acc'[j] = acc[j] /\ strayed'[j] = strayed[j]
                   /\ handler'[j] = handler[j]
    BY <1>s DEF TakeLine, LineTypes, Goto
  <2>2. UNCHANGED <<peer, stage, sent, asked>>
    BY <1>s DEF Goto, clientVars
  <2> QED BY <1>s, <2>1, <2>2 DEF Same, Untouched
<1>5. CASE RunCommand(k)
  <2>1. PICK n \in DOMAIN acc[k] :
          /\ EndsLine(acc[k], n) /\ Goto(k, "line", "read") /\ TakeLine(k, n)
          /\ \A i \in 1 .. n : acc[k][i] # "put"
          /\ answered' = [answered EXCEPT ![k] = @ + 1]
          /\ UNCHANGED <<file, refused, filed, inbox>>
    BY <1>5 DEF RunCommand
  <2>2. \A j \in Connections : j # k => Same(j)
    BY <2>1, <1>s DEF LineTypes
  <2>3. file'[k] = file[k] /\ inbox'[k] = inbox[k] /\ refused'[k] = refused[k]
    BY <2>1
  <2>4. ASSUME Frame(k), ~ refused[k]
        PROVE  Framed(k)' /\ \E m, g : Stream(k, m, g)'
    BY <2>1, <2>3, <2>4, <1>4
  <2> QED BY <2>2, <2>3, <2>4 DEF Frame
<1>6. CASE UploadBegins(k)
  <2>1. PICK n \in DOMAIN acc[k] :
          /\ EndsLine(acc[k], n) /\ Goto(k, "line", "upload") /\ TakeLine(k, n)
          /\ \E i \in 1 .. n : acc[k][i] = "put"
          /\ file' = [file EXCEPT ![k] = <<>>]
          /\ UNCHANGED <<answered, refused, filed, inbox>>
    BY <1>6 DEF UploadBegins
  <2>2. \A j \in Connections : j # k => Same(j)
    BY <2>1, <1>s DEF LineTypes
  <2>3. file'[k] = <<>> /\ inbox'[k] = inbox[k] /\ refused'[k] = refused[k]
    BY <2>1 DEF LineTypes
  <2>4. ASSUME Frame(k), ~ refused[k]
        PROVE  Framed(k)' /\ \E m, g : Stream(k, m, g)'
    BY <2>1, <2>3, <2>4, <1>4
  <2> QED BY <2>2, <2>3, <2>4 DEF Frame
<1>7. CASE UploadRefused(k)
  <2>1. PICK n \in DOMAIN acc[k] :
          /\ Goto(k, "line", "read") /\ TakeLine(k, n)
          /\ answered' = [answered EXCEPT ![k] = @ + 1]
          /\ refused' = [refused EXCEPT ![k] = TRUE]
          /\ UNCHANGED <<file, inbox, filed>>
    BY <1>7 DEF UploadRefused
  <2>2. \A j \in Connections : j # k => Same(j)
    BY <2>1, <1>s DEF LineTypes
  <2>3. refused'[k] = TRUE
    BY <2>1 DEF LineTypes
  <2> QED BY <2>2, <2>3 DEF Frame
<1>8. CASE UploadRecord(k)
  <2>0. /\ inbox[k] # <<>> /\ handler[k] = "upload"
        /\ handler' = [handler EXCEPT ![k] =
             IF Len(file[k] \o Head(inbox[k])) >= FileSize THEN "read"
                                                           ELSE "upload"]
        /\ file' = [file EXCEPT ![k] = @ \o Head(inbox[k])]
        /\ filed' = [filed EXCEPT ![k] = @ + LinesOf(Head(inbox[k]))]
        /\ inbox' = [inbox EXCEPT ![k] = Tail(@)]
        /\ UNCHANGED <<acc, refused, strayed, peer, stage, sent, asked>>
    BY <1>8 DEF UploadRecord, Goto, clientVars
  <2>1. \A j \in Connections : j # k => Same(j)
    <3>1. \A j \in Connections : j # k => answered'[j] = answered[j]
      BY <1>8 DEF UploadRecord, LineTypes
    <3> QED BY <2>0, <3>1 DEF LineTypes, Same, Untouched
  <2>2. ASSUME Frame(k), ~ refused[k]
        PROVE  Framed(k)' /\ \E m, g : Stream(k, m, g)'
    <3> DEFINE first == Head(inbox[k])
               rest == Tail(inbox[k])
               whole == file[k] \o Head(inbox[k])
    <3>0. /\ file[k] \in Seq(Tokens) /\ inbox[k] \in Seq(Seq(Tokens))
          /\ FileSize \in Nat
      BY CommandAssumption DEF LineTypes
    <3>1. /\ file'[k] = whole /\ inbox'[k] = rest
          /\ handler'[k] = IF Len(whole) >= FileSize THEN "read" ELSE "upload"
      BY <2>0 DEF LineTypes
    <3>2. PICK m, g : Stream(k, m, g)
      BY <2>0, <2>2 DEF Frame, Reading, Alive
    <3>3. /\ UnderWay(inbox[k], m, g)
          /\ OneLine(acc[k]) /\ Without(acc[k], "eol")
          /\ m = 0 /\ Len(file[k]) <= g[0]
          /\ (peer[k] # "left" /\ stage[k] = "file") =>
               g[Len(inbox[k])] = sent[k] /\ sent[k] < FileSize
      BY <2>0, <3>2 DEF Stream
    <3>d. PICK marks : marks = [i \in 0 .. Len(inbox[k]) - 1 |-> g[i + 1]]
      OBVIOUS
    <3>4. FlowsOn(inbox[k], 0, g, 0, marks)
      BY <2>0, <3>0, <3>3, <3>d, FlowTaken
    <3>5. first \in Seq(Tokens) /\ rest \in Seq(Seq(Tokens))
      BY <2>0, <3>0, LinesRead
    <3> HIDE DEF first, rest, whole
    <3>6. /\ UnderWay(rest, 0, marks)
          /\ Len(rest) = Len(inbox[k]) - 1 /\ Len(inbox[k]) \in Nat \ {0}
          /\ marks[Len(rest)] = g[Len(inbox[k])]
          /\ OnlyData(first) /\ g[0] + Len(first) <= marks[0]
      BY <3>4 DEF FlowsOn, first, rest
    <3>7. OnlyData(whole) /\ Len(whole) = Len(file[k]) + Len(first)
      BY <2>2, <3>0, <3>5, <3>6, FileGrows
      DEF Frame, Framed, OnlyData, whole, first
    <3>8. Framed(k)'
      BY <2>0, <2>2, <3>1, <3>7 DEF Frame, Framed, OnlyData
    <3>9. Len(rest) \in Nat /\ Len(first) \in Nat /\ Len(file[k]) \in Nat
      BY <3>0, <3>5, LenProperties
    <3>10. \A i \in 0 .. Len(rest) : marks[i] \in Nat /\ marks[i] <= FileSize
      <4>1. ASSUME NEW i \in 0 .. Len(rest) PROVE marks[i] \in 0 .. FileSize
        BY <3>6, Zenon DEF UnderWay
      <4> QED BY <3>0, <4>1
    <3>11. Len(whole) <= marks[0]
      <4>1. g[0] \in Nat
        <5>1. 0 \in 0 .. Len(inbox[k])
          BY <3>6
        <5>2. g[0] \in 0 .. FileSize
          BY <5>1, <3>3, Zenon DEF UnderWay
        <5> QED BY <3>0, <5>2
      <4>2. marks[0] \in Nat
        BY <3>9, <3>10
      <4> QED BY <3>3, <3>6, <3>7, <3>9, <4>1, <4>2
    <3>12. CASE Len(whole) < FileSize
      <4>1. handler'[k] = "upload"
        BY <3>1, <3>7, <3>9, <3>12, <3>0
      <4> QED
        BY <2>0, <3>1, <3>3, <3>6, <3>8, <3>11, <4>1, <3>2
        DEF Stream, Announced
    <3>13. CASE ~ (Len(whole) < FileSize)
      <4>1. handler'[k] = "read"
        BY <3>0, <3>1, <3>7, <3>9, <3>13
      <4>2. marks[0] = FileSize
        <5>1. Len(whole) \in Nat /\ FileSize \in Nat
          BY <3>0, <3>7, <3>9
        <5>2. marks[0] \in Nat /\ marks[0] <= FileSize
          BY <3>9, <3>10
        <5> QED BY <3>11, <3>13, <5>1, <5>2
      <4>3. Len(rest) = 0
        <5> SUFFICES ASSUME Len(rest) # 0 PROVE FALSE
          OBVIOUS
        <5>1. /\ 0 \in 0 .. Len(rest) /\ Len(rest) \in 0 .. Len(rest)
              /\ 0 < Len(rest) /\ Len(rest) \in 0 + 1 .. Len(rest)
              /\ Len(rest) \in 1 .. Len(rest)
          BY <3>9
        <5>2. marks[0] + Len(rest[Len(rest)]) <= marks[Len(rest)]
          BY <3>6, <5>1 DEF UnderWay
        <5>3. Len(rest[Len(rest)]) > 0
          BY <3>6, <5>1 DEF UnderWay
        <5>4. Len(rest[Len(rest)]) \in Nat
          BY <3>5, <5>1, ElementOfSeq, LenProperties
        <5>5. marks[Len(rest)] \in Nat /\ marks[Len(rest)] <= FileSize
          BY <3>10, <5>1
        <5> QED BY <3>0, <4>2, <5>2, <5>3, <5>4, <5>5
      <4>4. ~ (peer'[k] # "left" /\ stage'[k] = "file")
        <5>1. g[Len(inbox[k])] = FileSize
          BY <3>6, <4>2, <4>3
        <5> QED BY <2>0, <3>0, <3>3, <5>1
      <4>5. Stream(k, 0, marks)'
        <5>1. UnderWay(inbox'[k], 0, marks)
          BY <2>0, <3>1, <3>6
        <5>2. OneLine(acc'[k]) /\ Without(acc'[k], "eol")
          BY <2>0, <3>3
        <5>3. ~ (0 < Len(inbox'[k]))
          BY <3>1, <4>3
        <5>4. handler'[k] # "upload"
          BY <4>1
        <5> QED BY <4>4, <5>1, <5>2, <5>3, <5>4 DEF Stream
      <4> QED BY <3>8, <4>5
    <3> QED BY <3>12, <3>13
  <2> QED BY <2>0, <2>1, <2>2 DEF Frame
<1>9. CASE UploadFails(k)
  <2>0. /\ handler[k] = "upload"
        /\ handler' = [handler EXCEPT ![k] = "read"]
        /\ answered' = [answered EXCEPT ![k] = @ + 1]
        /\ inbox' = [inbox EXCEPT ![k] = <<>>]
        /\ UNCHANGED <<acc, file, refused, filed, strayed, peer, stage, sent,
                       asked>>
        /\ peer[k] = "left"
    BY <1>9 DEF UploadFails, Goto, clientVars
  <2>1. \A j \in Connections : j # k => Same(j)
    BY <2>0 DEF LineTypes, Same, Untouched
  <2>2. ASSUME Frame(k), ~ refused[k]
        PROVE  Framed(k)' /\ \E m, g : Stream(k, m, g)'
    <3>1. PICK m, g : Stream(k, m, g)
      BY <2>0, <2>2 DEF Frame, Reading, Alive
    <3>2. OneLine(acc[k]) /\ Without(acc[k], "eol")
      BY <2>0, <3>1 DEF Stream
    <3>3. handler'[k] = "read" /\ inbox'[k] = <<>>
      BY <2>0 DEF LineTypes
    <3> DEFINE none == [i \in 0 .. 0 |-> 0]
    <3>4. UnderWay(<<>>, 0, none)
      <4>1. FileSize \in Nat /\ Len(<<>>) = 0
        BY CommandAssumption
      <4>2. none \in [0 .. 0 -> 0 .. FileSize]
        BY <4>1
      <4> HIDE DEF none
      <4> QED BY <4>1, <4>2 DEF UnderWay
    <3> HIDE DEF none
    <3>5. Stream(k, 0, none)'
      BY <2>0, <3>2, <3>3, <3>4 DEF Stream, Announced
    <3>6. Framed(k)'
      BY <2>0, <2>2 DEF Frame, Framed
    <3> QED BY <3>5, <3>6
  <2> QED BY <2>0, <2>1, <2>2 DEF Frame
<1>10. CASE CloseSocket(k)
  <2>0. /\ handler' = [handler EXCEPT ![k] = "closed"]
        /\ EndThread(k)
        /\ UNCHANGED peer
    BY <1>10 DEF CloseSocket
  <2>1. \A j \in Connections : j # k => Same(j)
    BY <2>0 DEF LineTypes, Same, Untouched, EndThread
  <2>2. /\ ~ Reading(k)' /\ acc'[k] = <<>> /\ file'[k] = <<>>
    BY <2>0 DEF LineTypes, Reading, Alive, EndThread
  <2> QED BY <2>1, <2>2 DEF Frame, Framed
<1>11. CASE EraseEntry(k)
  <2>0. /\ handler' = [handler EXCEPT ![k] = "gone"]
        /\ UNCHANGED <<acc, file, inbox, refused, filed, strayed, answered,
                       peer, stage, sent, asked>>
    BY <1>11 DEF EraseEntry, clientVars, countVars
  <2>1. \A j \in Connections : j # k => Same(j)
    BY <2>0 DEF LineTypes, Same, Untouched
  <2>2. ~ Reading(k)'
    BY <2>0 DEF LineTypes, Reading, Alive
  <2> QED BY <2>0, <2>1, <2>2, QuietFrame
<1>12. CASE EmptyLineEnds(k)
  <2>1. UNCHANGED <<handler, acc, file, inbox, refused, filed, strayed,
                    answered, peer, stage, sent, asked>>
    BY <1>12 DEF EmptyLineEnds, threadVars, countVars, clientVars
  <2> QED BY <2>1, QuietFrame DEF Same, Untouched
<1> QED
  BY <1>1, <1>2, <1>3, <1>5, <1>6, <1>7, <1>8, <1>9, <1>10, <1>11, <1>12
  DEF HandlerStep, ServeStep

(* Records that hold no line end none and announce nothing.                *)
LEMMA NoLineUnderWay ==
  ASSUME NEW box \in Seq(Seq(Tokens)), LinesIn(box) = 0,
         NEW i \in 1 .. Len(box), OneLine(box[i])
  PROVE  ~ HasPut(box[i])
<1>1. EolsIn(box) = {}
  BY LinesInFinite, FS_EmptySet DEF LinesIn
<1>2. i \in DOMAIN box /\ box[i] \in Seq(Tokens)
  BY LenProperties, ElementOfSeq
<1>3. Without(box[i], "eol")
  <2> SUFFICES ASSUME NEW n \in DOMAIN box[i], box[i][n] = "eol" PROVE FALSE
    BY DEF Without
  <2>1. n \in Eols(box[i])
    BY DEF Eols
  <2>2. <<i, n>> \in EolsIn(box)
    BY <1>2, <2>1 DEF EolsIn
  <2> QED BY <1>1, <2>2
<1> QED BY <1>2, <1>3, PutEndsLine

(* A client that waits for its answers sends text only when all its lines  *)
(* are answered: no announcement is under way, so no piece of a file is.   *)
LEMMA TextFrame ==
  ASSUME LineInv, NEW k \in Polite, Frame(k),
         NEW record \in Seq(Tokens), NEW n, Send(k, record, n),
         stage[k] \in {"idle", "half"},
         OneLine(record), OnlyText(record),
         stage'[k] = "file" => HasPut(record) /\ sent'[k] = 0
  PROVE  Frame(k)'
<1>0. /\ k \in Connections /\ LineTypes /\ (Served(k) => Balanced(k))
      /\ FileSize \in Nat \ {0}
  BY CommandAssumption DEF LineInv
<1>1. /\ UNCHANGED <<handler, acc, file, refused, peer>>
      /\ inbox'[k] = Append(inbox[k], record) /\ peer[k] = "secure"
  BY <1>0 DEF Send, threadVars, countVars, LineTypes
<1> SUFFICES ASSUME ~ refused[k]
             PROVE  Framed(k)' /\ (Reading(k)' => \E m, g : Stream(k, m, g)')
  BY <1>1 DEF Frame
<1>2. Framed(k)'
  BY <1>1 DEF Frame, Framed
<1>3. ASSUME Reading(k)' PROVE \E m, g : Stream(k, m, g)'
  <2>1. Reading(k) /\ Served(k)
    BY <1>1, <1>3 DEF Reading, Served
  <2>2. PICK m, g : Stream(k, m, g)
    BY <2>1 DEF Frame
  <2>3. /\ UnderWay(inbox[k], m, g)
        /\ OneLine(acc[k])
        /\ m < Len(inbox[k]) => Announced(k, m)
    BY <2>2 DEF Stream
  <2>4. LinesOf(acc[k]) = 0 /\ LinesIn(inbox[k]) = 0 /\ handler[k] # "upload"
    <3>1. asked[k] = answered[k] /\ asked[k] = Accounted(k)
      BY <1>0, <2>1, Counts DEF Balanced
    <3>2. Uploads(k) \in Nat /\ (Uploads(k) = 0 => handler[k] # "upload")
      BY DEF Uploads
    <3>3. /\ asked[k] \in Nat /\ answered[k] \in Nat /\ filed[k] \in Nat
          /\ LinesOf(acc[k]) \in Nat /\ LinesIn(inbox[k]) \in Nat
      BY <1>0, Counts
    <3>4. asked[k] = asked[k] + LinesOf(acc[k]) + LinesIn(inbox[k]) + filed[k]
                       + Uploads(k)
      BY <3>1 DEF Accounted
    <3>5. LinesOf(acc[k]) = 0 /\ LinesIn(inbox[k]) = 0 /\ Uploads(k) = 0
      BY <3>2, <3>3, <3>4
    <3> QED BY <3>2, <3>5
  <2>5. acc[k] \in Seq(Tokens) /\ inbox[k] \in Seq(Seq(Tokens))
    BY <1>0 DEF LineTypes
  <2>6. Without(acc[k], "eol")
    <3>1. Eols(acc[k]) = {}
      BY <2>4, <2>5, EolsFinite, FS_EmptySet DEF LinesOf
    <3> QED BY <3>1 DEF Eols, Without
  <2>7. ~ HasPut(acc[k])
    BY <2>3, <2>5, <2>6, PutEndsLine
  <2>8. \A i \in 1 .. Len(inbox[k]) : ~ HasPut(inbox[k][i])
    BY <2>3, <2>4, <2>5, NoLineUnderWay DEF UnderWay
  <2>9. ~ Announced(k, m)
    BY <2>4, <2>7, <2>8 DEF Announced
  <2>10. m = Len(inbox[k])
    <3>1. m \in 0 .. Len(inbox[k]) /\ Len(inbox[k]) \in Nat
      BY <2>3, <2>5, LenProperties DEF UnderWay
    <3> QED BY <2>3, <2>9, <3>1
  <2>a. PICK all : all = Append(inbox[k], record)
    OBVIOUS
  <2>l. PICK last : last = Len(inbox[k]) + 1
    OBVIOUS
  <2>m. PICK marks : marks = [i \in 0 .. Len(inbox[k]) + 1 |-> 0]
    OBVIOUS
  <2>11. UnderWay(all, last, marks)
    BY <2>3, <2>5, <2>8, <2>10, <2>a, <2>l, <2>m, TextFlows
  <2>12. /\ Len(all) = last /\ last \in Nat \ {0}
         /\ all[last] = record /\ marks[last] = 0
    BY <2>5, <2>a, <2>l, <2>m, LenProperties, AppendProperties
  <2>13. inbox'[k] = all
    BY <1>1, <2>a
  <2>14. HasPut(record) => Announced(k, last)'
    <3>1. last \in 1 .. Len(inbox'[k]) /\ inbox'[k][last] = record
      BY <2>12, <2>13
    <3> QED BY <3>1 DEF Announced
  <2>15. Stream(k, last, marks)'
    <3>1. UnderWay(inbox'[k], last, marks)
      BY <1>1, <2>11, <2>13
    <3>2. /\ OneLine(acc'[k]) /\ Without(acc'[k], "eol") /\ ~ HasPut(acc'[k])
          /\ handler'[k] # "upload"
      BY <1>1, <2>3, <2>4, <2>6, <2>7
    <3>3. ~ (last < Len(inbox'[k]))
      BY <2>12, <2>13
    <3>4. stage'[k] = "file" =>
            /\ marks[Len(inbox'[k])] = sent'[k]
            /\ sent'[k] < FileSize
            /\ Announced(k, last)'
      BY <1>0, <2>12, <2>13, <2>14
    <3> QED BY <3>1, <3>2, <3>3, <3>4 DEF Stream
  <2> QED BY <2>15
<1> QED BY <1>2, <1>3

(* A piece of the file follows the announcement, and the pieces before it. *)
LEMMA DataFrame ==
  ASSUME LineTypes, NEW k \in Connections, Frame(k),
         NEW n \in 1 .. FileSize, SendData(k, n)
  PROVE  Frame(k)'
<1>p. PICK record \in [1 .. n -> FileTokens] : Send(k, record, 0)
  BY DEF SendData
<1>r. FileSize \in Nat \ {0} /\ record \in Seq(Tokens) /\ Len(record) = n
  BY CommandAssumption, DataLines
<1>0. /\ FileSize \in Nat \ {0} /\ record \in Seq(Tokens)
      /\ Len(record) = n /\ OnlyData(record)
  BY <1>r DEF OnlyData
<1>1. /\ UNCHANGED <<handler, acc, file, refused, peer>>
      /\ inbox'[k] = Append(inbox[k], record) /\ peer[k] = "secure"
      /\ stage[k] = "file" /\ sent[k] + n <= FileSize
      /\ sent'[k] = sent[k] + n
      /\ sent[k] + n = FileSize => stage'[k] # "file"
  BY <1>p DEF SendData, Send, AfterLine, threadVars, countVars, LineTypes
<1> SUFFICES ASSUME ~ refused[k]
             PROVE  Framed(k)' /\ (Reading(k)' => \E m, g : Stream(k, m, g)')
  BY <1>1 DEF Frame
<1>2. Framed(k)'
  BY <1>1 DEF Frame, Framed
<1>3. ASSUME Reading(k)' PROVE \E m, g : Stream(k, m, g)'
  <2>1. Reading(k)
    BY <1>1, <1>3 DEF Reading
  <2>2. PICK m, g : Stream(k, m, g)
    BY <2>1 DEF Frame
  <2>3. /\ UnderWay(inbox[k], m, g)
        /\ OneLine(acc[k])
        /\ handler[k] # "line" => Without(acc[k], "eol")
        /\ handler[k] = "upload" => m = 0 /\ Len(file[k]) <= g[0]
        /\ HasPut(acc[k]) => m = 0
        /\ g[Len(inbox[k])] = sent[k]
        /\ Announced(k, m)
    BY <1>1, <2>2 DEF Stream
  <2>4. inbox[k] \in Seq(Seq(Tokens)) /\ sent[k] \in Nat
    BY <1>0 DEF LineTypes
  <2>a. PICK all : all = Append(inbox[k], record)
    OBVIOUS
  <2>m. PICK marks :
          marks = [i \in 0 .. Len(inbox[k]) + 1 |->
                     IF i = Len(inbox[k]) + 1
                       THEN g[Len(inbox[k])] + Len(record) ELSE g[i]]
    OBVIOUS
  <2>5. UnderWay(all, m, marks)
    <3>1. Len(record) > 0 /\ g[Len(inbox[k])] + Len(record) <= FileSize
      BY <1>0, <1>1, <2>3
    <3> QED BY <1>0, <2>3, <2>4, <2>a, <2>m, <3>1, DataFlows
  <2>6. /\ Len(inbox[k]) \in Nat /\ Len(all) = Len(inbox[k]) + 1
        /\ \A i \in 1 .. Len(inbox[k]) : all[i] = inbox[k][i]
    BY <1>0, <2>4, <2>a, LenProperties, AppendProperties
  <2>7. marks[Len(all)] = sent[k] + n /\ marks[0] = g[0]
    BY <1>0, <2>3, <2>6, <2>m
  <2>8. inbox'[k] = all
    BY <1>1, <2>a
  <2>9. Announced(k, m) => Announced(k, m)'
    BY <1>1, <2>6, <2>8 DEF Announced
  <2>10. Stream(k, m, marks)'
    <3>1. UnderWay(inbox'[k], m, marks)
      BY <1>1, <2>5, <2>8
    <3>2. /\ OneLine(acc'[k]) /\ (HasPut(acc'[k]) => m = 0)
          /\ handler'[k] # "line" => Without(acc'[k], "eol")
          /\ handler'[k] = "upload" => m = 0 /\ Len(file'[k]) <= marks[0]
      BY <1>1, <2>3, <2>7
    <3>3. Announced(k, m)'
      BY <1>1, <2>3, <2>9
    <3>4. stage'[k] = "file" =>
            marks[Len(inbox'[k])] = sent'[k] /\ sent'[k] < FileSize
      <4> HAVE stage'[k] = "file"
      <4>1. sent[k] + n # FileSize
        BY <1>1
      <4>2. sent[k] + n < FileSize
        <5>1. sent[k] + n <= FileSize
          BY <1>1
        <5>2. FileSize \in Nat /\ n \in Nat /\ sent[k] \in Nat
          BY <1>r, <2>4
        <5> QED BY <4>1, <5>1, <5>2
      <4> QED BY <1>1, <2>7, <2>8, <4>2
    <3> QED BY <3>1, <3>2, <3>3, <3>4 DEF Stream
  <2> QED BY <2>10
<1> QED BY <1>2, <1>3

(* What the client of k does keeps its commands and files apart.           *)
LEMMA FrameClient ==
  ASSUME LineInv, NEW k \in Connections, ClientStep(k)
  PROVE  /\ \A j \in Connections : j # k => Same(j)
         /\ (k \in Polite /\ Frame(k)) => Frame(k)'
<1>0. LineTypes
  BY DEF LineInv
<1>t. /\ OneLine(Line) /\ OnlyText(Line)
      /\ OneLine(<<"cmd">>) /\ OnlyText(<<"cmd">>)
      /\ OneLine(<<"eol">>) /\ OnlyText(<<"eol">>)
      /\ OneLine(<<"put", "eol">>) /\ OnlyText(<<"put", "eol">>)
      /\ HasPut(<<"put", "eol">>)
  BY DEF Line, OneLine, OnlyText, FileTokens, HasPut
<1>l. OneLine(LongLine) /\ OnlyText(LongLine)
  BY CommandAssumption DEF LongLine, OneLine, OnlyText, FileTokens
<1>1. ASSUME UNCHANGED <<threadVars, inbox>>,
             \A j \in Connections : j # k => Same(j),
             (peer'[k] # "left" /\ stage'[k] = "file") =>
               peer[k] # "left" /\ stage[k] = "file" /\ sent'[k] = sent[k]
      PROVE  /\ \A j \in Connections : j # k => Same(j)
             /\ (k \in Polite /\ Frame(k)) => Frame(k)'
  BY <1>1, QuietFrame DEF threadVars, countVars
<1>2. CASE Connect(k)
  <2>1. \A j \in Connections : j # k => Same(j)
    BY <1>0, <1>2 DEF Connect, LineTypes, Same, Untouched, countVars, threadVars,
                      clientVars
  <2> QED BY <1>1, <1>2, <2>1 DEF Connect, clientVars
<1>3. CASE ShakeHands(k)
  <2>1. \A j \in Connections : j # k => Same(j)
    BY <1>0, <1>3 DEF ShakeHands, LineTypes, Same, Untouched, countVars, threadVars,
                      clientVars
  <2> QED BY <1>1, <1>3, <2>1 DEF ShakeHands, clientVars
<1>4. CASE Leave(k)
  <2>1. \A j \in Connections : j # k => Same(j)
    BY <1>0, <1>4 DEF Leave, LineTypes, Same, Untouched, countVars, threadVars
  <2>2. peer'[k] = "left"
    BY <1>0, <1>4 DEF Leave, LineTypes
  <2> QED BY <1>1, <1>4, <2>1, <2>2 DEF Leave
<1>5. CASE SendLine(k)
  <2>1. PICK record \in {Line, LongLine} : Send(k, record, 1)
    BY <1>5 DEF SendLine
  <2>2. \A j \in Connections : j # k => Same(j)
    BY <1>0, <1>5, <2>1 DEF SendLine, Send, LineTypes, Same, Untouched, countVars,
                            threadVars
  <2>3. stage[k] = "idle" /\ stage'[k] # "file"
    BY <1>0, <1>5 DEF SendLine, AfterLine, LineTypes
  <2>4. /\ record \in Seq(Tokens) /\ OneLine(record)
        /\ OnlyText(record)
    BY <1>t, <1>l, RecordLines
  <2> QED BY <2>1, <2>2, <2>3, <2>4, TextFrame
<1>6. CASE SendTwoLines(k)
  BY <1>0, <1>6 DEF SendTwoLines, Send, LineTypes, Same, Untouched, countVars, threadVars
<1>7. CASE SendHalf(k)
  <2>1. \A j \in Connections : j # k => Same(j)
    BY <1>0, <1>7 DEF SendHalf, Send, LineTypes, Same, Untouched, countVars, threadVars
  <2>2. /\ stage[k] = "idle" /\ stage'[k] # "file" /\ Send(k, <<"cmd">>, 0)
    BY <1>0, <1>7 DEF SendHalf, LineTypes
  <2> QED BY <1>t, <2>1, <2>2, RecordLines, TextFrame
<1>8. CASE SendRest(k)
  <2>1. \A j \in Connections : j # k => Same(j)
    BY <1>0, <1>8 DEF SendRest, Send, LineTypes, Same, Untouched, countVars, threadVars
  <2>2. /\ stage[k] = "half" /\ stage'[k] # "file" /\ Send(k, <<"eol">>, 1)
    BY <1>0, <1>8 DEF SendRest, AfterLine, LineTypes
  <2> QED BY <1>t, <2>1, <2>2, RecordLines, TextFrame
<1>9. CASE Announce(k)
  <2>1. \A j \in Connections : j # k => Same(j)
    BY <1>0, <1>9 DEF Announce, Send, LineTypes, Same, Untouched, countVars, threadVars
  <2>2. stage[k] = "idle" /\ sent'[k] = 0 /\ Send(k, <<"put", "eol">>, 1)
    BY <1>0, <1>9 DEF Announce, LineTypes
  <2> QED BY <1>t, <2>1, <2>2, RecordLines, TextFrame
<1>10. ASSUME NEW n \in 1 .. FileSize, SendData(k, n)
       PROVE  /\ \A j \in Connections : j # k => Same(j)
              /\ (k \in Polite /\ Frame(k)) => Frame(k)'
  <2>1. \A j \in Connections : j # k => Same(j)
    BY <1>0, <1>10 DEF SendData, Send, LineTypes, Same, Untouched, countVars, threadVars
  <2> QED BY <1>0, <1>10, <2>1, DataFrame
<1>11. CASE ReceiveAnswer(k)
  <2>1. \A j \in Connections : j # k => Same(j)
    BY <1>0, <1>11 DEF ReceiveAnswer, LineTypes, Same, Untouched, countVars, threadVars
  <2>2. stage'[k] # "file"
    BY <1>0, <1>11 DEF ReceiveAnswer, LineTypes
  <2> QED BY <1>1, <1>11, <2>1, <2>2 DEF ReceiveAnswer
<1> QED
  BY <1>2, <1>3, <1>4, <1>5, <1>6, <1>7, <1>8, <1>9, <1>10, <1>11
  DEF ClientStep

(* Nothing accumulated, nothing under way.                                 *)
LEMMA FrameInit == Init => FrameInv
<1> SUFFICES ASSUME Init, NEW k \in Polite PROVE Frame(k)
  BY DEF FrameInv
<1> DEFINE none == [i \in 0 .. 0 |-> 0]
<1>1. k \in Connections /\ FileSize \in Nat
  BY CommandAssumption
<1>2. acc[k] = <<>> /\ file[k] = <<>> /\ inbox[k] = <<>> /\ stage[k] = "idle"
      /\ handler[k] = "none"
  BY <1>1 DEF Init
<1>3. none \in [0 .. 0 -> 0 .. FileSize] /\ Len(<<>>) = 0
  BY <1>1
<1> HIDE DEF none
<1>4. UnderWay(<<>>, 0, none)
  BY <1>3 DEF UnderWay
<1>5. Stream(k, 0, none)
  BY <1>2, <1>3, <1>4 DEF Stream, OneLine, Without, HasPut
<1>6. Framed(k)
  BY <1>2 DEF Framed
<1> QED BY <1>5, <1>6 DEF Frame

LEMMA FrameNext ==
  ASSUME FrameInv, LineInv, ListInv, [Next]_vars
  PROVE  FrameInv'
<1>0. LineTypes /\ Polite \subseteq Connections
  BY CommandAssumption DEF LineInv
<1>1. ASSUME NEW j \in Polite, Same(j) PROVE Frame(j)'
  BY <1>0, <1>1, QuietFrame DEF FrameInv, Same, Untouched
<1>2. ASSUME NEW k \in Connections, HandlerStep(k) \/ ClientStep(k)
      PROVE  FrameInv'
  <2>1. /\ \A j \in Connections : j # k => Same(j)
        /\ (k \in Polite /\ Frame(k)) => Frame(k)'
    BY <1>0, <1>2, FrameHandler, FrameClient
  <2> QED BY <1>0, <1>1, <2>1 DEF FrameInv
<1>3. ASSUME UNCHANGED <<acc, file, refused, peer, inbox, stage, sent>>,
             \A k \in Connections :
               \/ handler'[k] = handler[k]
               \/ handler[k] = "none" /\ handler'[k] = "read"
               \/ handler'[k] = "gone"
      PROVE  FrameInv'
  <2> SUFFICES ASSUME NEW k \in Polite PROVE Frame(k)'
    BY DEF FrameInv
  <2>1. Reading(k)' => \/ handler'[k] = handler[k]
                       \/ handler[k] = "none" /\ handler'[k] = "read"
    BY <1>0, <1>3 DEF Reading, Alive
  <2> QED BY <1>0, <1>3, <2>1, QuietFrame DEF FrameInv
<1>4. ASSUME NEW k \in Connections, NEW f \in Fds, Accept(k, f)
      PROVE  FrameInv'
  BY <1>3, <1>4 DEF Accept, threadVars, countVars, clientVars
<1>5. CASE HandshakeDone
  BY <1>3, <1>5 DEF HandshakeDone, threadVars, countVars, clientVars
<1>6. CASE HandshakeFails
  BY <1>0, <1>3, <1>6 DEF HandshakeFails, countVars, clientVars, LineTypes
<1>7. CASE Register
  <2>1. current \in Connections /\ handler[current] = "none"
    BY <1>7 DEF Register, ListInv, ListTypes, SetUpOrder
  <2> QED BY <1>0, <1>3, <1>7, <2>1 DEF Register, countVars, clientVars, LineTypes
<1>8. CASE UNCHANGED vars
  BY <1>3, <1>8 DEF vars, threadVars, countVars, clientVars
<1> QED
  BY <1>2, <1>4, <1>5, <1>6, <1>7, <1>8 DEF Next, AcceptorStep

(* The inductive invariant of the lines and of their framing: each is      *)
(* preserved because the other holds before the step.                      *)
LEMMA LinesAndFrames == Spec => [](LineInv /\ FrameInv)
<1>1. Init => LineInv /\ FrameInv
  BY LineInit, FrameInit
<1>2. (LineInv /\ FrameInv) /\ ListInv /\ [Next]_vars => (LineInv /\ FrameInv)'
  <2>1. FrameInv => FramingKept
    BY DEF FrameInv, Frame, FramingKept
  <2> QED BY <2>1, LineNext, FrameNext
<1> QED BY <1>1, <1>2, ListInvariance, PTL DEF Spec

(* handleClient() loses no line and answers none twice: lines are only     *)
(* written to a file when their client did not wait for its answers, and   *)
(* lines of a file are only run for such a client or after a refusal.      *)
THEOREM LinesKept == Spec => []LinesConserved
<1>1. LineInv => LinesConserved
  <2> SUFFICES ASSUME LineInv, NEW k \in Connections,
                      handler[k] \in Alive, peer[k] # "left"
               PROVE  /\ asked[k] + strayed[k] =
                            answered[k] + LinesOf(acc[k])
                              + LinesIn(inbox[k]) + filed[k]
                              + (IF handler[k] = "upload" THEN 1 ELSE 0)
                      /\ k \in Polite /\ ~ refused[k] =>
                           filed[k] = 0 /\ strayed[k] = 0
    BY DEF LinesConserved
  <2>1. Balanced(k)
    BY DEF LineInv, Served
  <2> QED BY <2>1 DEF Balanced, Accounted, Uploads
<1> QED BY <1>1, LinesAndFrames, PTL

(* handleClient() and handleFileDownloadFromClient(): of a client that     *)
(* waits for its answers, until an upload is refused, no piece of a file   *)
(* is read as a command, and no command ends up in a file.                 *)
THEOREM FramingHolds == Spec => []FramingKept
<1>1. FrameInv => FramingKept
  BY DEF FrameInv, Frame, FramingKept
<1> QED BY <1>1, LinesAndFrames, PTL

(* Every variable of the server and of its clients keeps its type.         *)
THEOREM TypeCorrect == Spec => []TypeOK
<1> DEFINE AliveType == alive \in BOOLEAN
<1>1. Init => AliveType
  BY DEF Init
<1>2. AliveType /\ [Next]_vars => AliveType'
  <2> SUFFICES ASSUME AliveType, [Next]_vars PROVE alive' \in BOOLEAN
    OBVIOUS
  <2>1. CASE AcceptorStep
    BY <2>1 DEF AcceptorStep
  <2>2. ASSUME NEW k \in Connections, HandlerStep(k) PROVE alive' \in BOOLEAN
    BY <2>2 DEF HandlerStep, EmptyLineEnds
  <2>3. ASSUME NEW k \in Connections, ClientStep(k) PROVE alive' \in BOOLEAN
    BY <2>3 DEF ClientStep
  <2>4. CASE UNCHANGED vars
    BY <2>4 DEF vars
  <2> QED BY <2>1, <2>2, <2>3, <2>4 DEF Next
<1>3. AliveType /\ ListInv /\ LineInv => TypeOK
  BY DEF ListInv, ListTypes, LineInv, LineTypes, TypeOK, Threads, Alive
<1> HIDE DEF AliveType
<1>4. Spec => []AliveType
  BY <1>1, <1>2, PTL DEF Spec
<1> QED BY <1>3, <1>4, ListInvariance, LinesAndFrames, PTL

============================================================================
