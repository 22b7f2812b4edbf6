---------------------------- MODULE TcpServerProofs ----------------------------
(***************************************************************************)
(* What TcpServer does for any number of clients, socket numbers, queued   *)
(* answers and ticks, with one loop or with three threads.                 *)
(*                                                                         *)
(* The argument is about ownership.  A socket number that is open has one  *)
(* client and at most one of three owners: an entry of the cache, the      *)
(* ReceiveMessage() that accepted it, or the SendMessage() that looked it  *)
(* up.  Who closes a number is always its owner, so a number that is held  *)
(* still means the client it was taken for.                                *)
(***************************************************************************)
EXTENDS TcpServer, FiniteSetTheorems, TLAPS

\* Where ReceiveMessage() holds an accepted socket.
Busy == {"accepted", "read", "buffered", "putting"}

\* Where SendMessage() holds a socket it looked up.
Sending == {"sending", "removing"}

Distinct(s) == \A i, j \in 1 .. Len(s) : s[i] = s[j] => i = j

FieldTypes ==
  /\ now \in 0 .. LastTick
  /\ running_ \in BOOLEAN /\ listening \in BOOLEAN /\ oneLoop \in BOOLEAN
  /\ arrived \subseteq Clients /\ asked \subseteq Clients

QueueTypes ==
  /\ backlog \in Seq(Clients) /\ Len(backlog) <= Backlog
  /\ receiveBuffer_ \in Seq(Clients)
  /\ sendBuffer_ \in Seq(Clients) /\ Len(sendBuffer_) <= MaxAnswers

SockType == sock \in [Fds -> Clients \cup {None}]

RxType ==
  /\ rx \in Threads(RxPlaces)
  /\ rx.at \in Busy => rx.client \in Clients /\ rx.fd \in Fds
  /\ rx.at \notin Busy => rx.client = None /\ rx.fd = None

TxType ==
  /\ tx \in Threads(TxPlaces)
  /\ tx.at # "idle" => tx.client \in Clients
  /\ tx.at \in Sending => tx.fd \in Fds
  /\ tx.at \notin Sending => tx.fd = None

CtlType == ctl \in CtlPlaces

Types == FieldTypes /\ QueueTypes /\ SockType /\ RxType /\ TxType /\ CtlType

\* A client has one connection, and it is either waiting to be accepted or open.
OneSocket ==
  /\ \A f, g \in Fds : sock[f] = sock[g] /\ sock[f] # None => f = g
  /\ \A f \in Fds : ~InSeq(sock[f], backlog)
  /\ Distinct(backlog)

\* A cached number is connected to the client it is cached for.
CacheInv ==
  \A c \in DOMAIN socketCache_ :
    /\ c \in Clients
    /\ socketCache_[c].value \in Fds /\ sock[socketCache_[c].value] = c

\* A number that a thread holds is connected to the client of that thread, and
\* what ReceiveMessage() holds has no other owner.
HoldInv ==
  /\ rx.at \in Busy => /\ sock[rx.fd] = rx.client
                       /\ rx.fd \notin CachedFds(socketCache_) /\ rx.fd # tx.fd
  /\ tx.at \in Sending => sock[tx.fd] = tx.client

\* The clients whose message the application has, or may take.
Taken == {c \in Clients : InSeq(c, receiveBuffer_)} \cup asked

\* The message of a client that connects has not been taken: a client whose
\* message arrived does not connect again.
TakenInv ==
  /\ Taken \subseteq arrived
  /\ rx.at \in Busy \ {"accepted"} => rx.client \in arrived
  /\ rx.at \in {"accepted", "read"} => rx.client \notin Taken
  /\ \A c \in Taken : ~InSeq(c, backlog)

\* Only what was taken is answered.
AskedInv ==
  /\ \A c \in Clients : InSeq(c, sendBuffer_) => c \in asked
  /\ tx.at # "idle" => tx.client \in asked

\* The connection a client was answered on is open no longer than it takes to
\* close it.
AnsweredInv ==
  /\ answered \subseteq asked
  /\ \A f \in Fds : sock[f] \in answered => tx.at = "removing" /\ tx.fd = f

\* With one loop one method runs at a time, and a server that has cleared its
\* cache to stop caches nothing more.
LoopInv ==
  /\ ~running_ => ctl = "idle"
  /\ oneLoop => /\ rx.at = "idle" \/ tx.at = "idle"
                /\ (rx.at = "idle" /\ tx.at = "idle") \/ ctl = "idle"
                /\ ~running_ => rx.at = "idle" /\ tx.at = "idle"
                /\ ~running_ \/ ctl \notin {"idle", "clearing"} => DOMAIN socketCache_ = {}

Ownership == OneSocket /\ CacheInv /\ HoldInv /\ NoSocketLost

Answers == TakenInv /\ AskedInv /\ AnsweredInv

IInv == Types /\ Ownership /\ Answers /\ LoopInv

-----------------------------------------------------------------------------
(***************************************************************************)
(* Sequences and caches.                                                   *)
(***************************************************************************)

LEMMA AppendAdds ==
  ASSUME NEW S, NEW s \in Seq(S), NEW x \in S
  PROVE  /\ Append(s, x) \in Seq(S) /\ Len(Append(s, x)) = Len(s) + 1
         /\ \A y : InSeq(y, Append(s, x)) <=> InSeq(y, s) \/ y = x
         /\ Distinct(s) /\ ~InSeq(x, s) => Distinct(Append(s, x))
<1>1. /\ Append(s, x) \in Seq(S) /\ Len(Append(s, x)) = Len(s) + 1
      /\ Append(s, x)[Len(s) + 1] = x
      /\ \A i \in 1 .. Len(s) : Append(s, x)[i] = s[i]
      /\ Len(s) \in Nat
  OBVIOUS
<1>2. ASSUME NEW y PROVE InSeq(y, Append(s, x)) <=> InSeq(y, s) \/ y = x
  BY <1>1 DEF InSeq
<1>3. Distinct(s) /\ ~InSeq(x, s) => Distinct(Append(s, x))
  BY <1>1 DEF Distinct, InSeq
<1> QED
  BY <1>1, <1>2, <1>3

LEMMA TailTakes ==
  ASSUME NEW S, NEW s \in Seq(S), s # <<>>
  PROVE  /\ Tail(s) \in Seq(S) /\ Len(Tail(s)) = Len(s) - 1 /\ Head(s) \in S
         /\ InSeq(Head(s), s)
         /\ \A y : InSeq(y, Tail(s)) => InSeq(y, s)
         /\ Distinct(s) => Distinct(Tail(s)) /\ ~InSeq(Head(s), Tail(s))
<1>1. /\ Tail(s) \in Seq(S) /\ Len(Tail(s)) = Len(s) - 1 /\ Head(s) = s[1] /\ Head(s) \in S
      /\ \A i \in 1 .. Len(s) - 1 : Tail(s)[i] = s[i + 1]
      /\ Len(s) \in Nat \ {0}
  OBVIOUS
<1>2. InSeq(Head(s), s)
  BY <1>1 DEF InSeq
<1>3. ASSUME NEW y, InSeq(y, Tail(s)) PROVE InSeq(y, s)
  <2>1. PICK i \in 1 .. Len(Tail(s)) : Tail(s)[i] = y
    BY <1>3 DEF InSeq
  <2>2. i + 1 \in 1 .. Len(s) /\ s[i + 1] = y
    BY <1>1, <2>1
  <2> QED
    BY <2>2 DEF InSeq
<1>4. ASSUME Distinct(s) PROVE Distinct(Tail(s)) /\ ~InSeq(Head(s), Tail(s))
  <2>1. ASSUME NEW i \in 1 .. Len(Tail(s)), NEW j \in 1 .. Len(Tail(s)), Tail(s)[i] = Tail(s)[j]
        PROVE  i = j
    <3>1. i + 1 \in 1 .. Len(s) /\ j + 1 \in 1 .. Len(s) /\ s[i + 1] = s[j + 1]
      BY <1>1, <2>1
    <3>2. i + 1 = j + 1
      BY <1>4, <3>1 DEF Distinct
    <3> QED
      BY <1>1, <3>2
  <2>2. ASSUME NEW i \in 1 .. Len(Tail(s)), Tail(s)[i] = Head(s) PROVE FALSE
    <3>1. 1 \in 1 .. Len(s) /\ i + 1 \in 1 .. Len(s) /\ s[i + 1] = s[1]
      BY <1>1, <2>2
    <3>2. i + 1 = 1
      BY <1>4, <3>1 DEF Distinct
    <3> QED
      BY <1>1, <3>2
  <2> QED
    BY <2>1, <2>2 DEF Distinct, InSeq
<1> QED
  BY <1>1, <1>2, <1>3, <1>4

LEMMA EmptySeqHasNone == \A y : ~InSeq(y, <<>>)
BY DEF InSeq

LEMMA LookupErases ==
  ASSUME NEW cache, NEW k, NEW t, ~Found(cache, k, t)
  PROVE  AfterLookup(cache, k, t) = Erase(cache, {k})
BY DEF AfterLookup

LEMMA EmptyHoldsNone == DOMAIN Empty = {} /\ CachedFds(Empty) = {}
BY DEF Empty, CachedFds

LEMMA Closing ==
  ASSUME SockType, NEW cache, NEW sender, CloseReleased(cache, sender)
  PROVE  /\ SockType'
         /\ \A f \in Fds : sock'[f] = sock[f] \/ sock'[f] = None
         /\ \A f \in Fds : sock'[f] # None
              => f \in CachedFds(cache) \/ f = sender.fd
                 \/ (f \notin CachedFds(socketCache_) /\ f # tx.fd)
         /\ \A f \in Fds : f \in CachedFds(cache) \/ f = sender.fd
                           \/ (f \notin CachedFds(socketCache_) /\ f # tx.fd)
              => sock'[f] = sock[f]
BY DEF CloseReleased, SockType

-----------------------------------------------------------------------------
(***************************************************************************)
(* Types.                                                                  *)
(***************************************************************************)

\* The steps that are not those of ReceiveMessage() and SendMessage().
OutsideStep == Tick \/ \E c \in Clients : Connect(c) \/ Arrive(c)

AppSteps == GetNextReceivedMessage \/ \E c \in Clients : QueueMessageToSend(c)
CtlSteps == Start \/ Stop

LEMMA StepCases ==
  ASSUME [Next]_vars
  PROVE  OutsideStep \/ ReceiveMessage \/ SendMessage \/ AppSteps \/ CtlSteps \/ UNCHANGED vars
BY DEF Next, OutsideStep, AppSteps, CtlSteps

LEMMA FieldStep == Types /\ Answers /\ [Next]_vars => FieldTypes'
<1> SUFFICES ASSUME Types, Answers, [Next]_vars PROVE FieldTypes'
  OBVIOUS
<1> USE DEF Types, FieldTypes
<1>1. CASE OutsideStep
  <2>1. CASE Tick
    <3>1. now' \in 0 .. LastTick
      BY <2>1, ServerAssumption DEF Tick
    <3> QED
      BY <2>1, <3>1 DEF Tick, net, app
  <2>2. ASSUME NEW c \in Clients, Connect(c) \/ Arrive(c) PROVE FieldTypes'
    BY <2>2 DEF Connect, Arrive, net, app
  <2> QED
    BY <1>1, <2>1, <2>2 DEF OutsideStep
<1>2. CASE ReceiveMessage
  BY <1>2 DEF ReceiveMessage, BeginReceive, ReceiveStep, AcceptConnection, Recv,
              BufferReceived, EnterPut, PutSocket, net, app
<1>3. CASE SendMessage
  BY <1>3 DEF SendMessage, BeginSend, SendStep, EnterGet, GetMisses, GetHits, SendOnSocket,
              RemoveSocket, net, app
<1>4. CASE AppSteps
  <2>1. CASE GetNextReceivedMessage
    <3>1. Head(receiveBuffer_) \in Clients
      BY <2>1, TailTakes DEF GetNextReceivedMessage, QueueTypes
    <3> QED
      BY <2>1, <3>1 DEF GetNextReceivedMessage, net
  <2>2. ASSUME NEW c \in Clients, QueueMessageToSend(c) PROVE FieldTypes'
    BY <2>2 DEF QueueMessageToSend, net
  <2> QED
    BY <1>4, <2>1, <2>2 DEF AppSteps
<1>5. CASE CtlSteps
  BY <1>5 DEF CtlSteps, Start, Stop, BeginStop, StopStep, ClearSockets, ClearReceived, ClearToSend,
              EndStop, net, app
<1>6. CASE UNCHANGED vars
  BY <1>6 DEF vars, net, app
<1> QED
  BY <1>1, <1>2, <1>3, <1>4, <1>5, <1>6, StepCases

LEMMA QueueStep == Types /\ [Next]_vars => QueueTypes'
<1> SUFFICES ASSUME Types, [Next]_vars PROVE QueueTypes'
  OBVIOUS
<1> USE DEF QueueTypes
<1>a. QueueTypes /\ RxType
  BY DEF Types
<1>b. ASSUME UNCHANGED <<backlog, receiveBuffer_, sendBuffer_>> PROVE QueueTypes'
  BY <1>a, <1>b
<1>c. /\ <<>> \in Seq(Clients) /\ Len(<<>>) <= Backlog /\ Len(<<>>) <= MaxAnswers
      /\ Backlog \in Nat /\ MaxAnswers \in Nat
  BY ServerAssumption
<1>1. CASE OutsideStep
  <2>1. ASSUME NEW c \in Clients, Connect(c) PROVE QueueTypes'
    <3>1. backlog' \in Seq(Clients) /\ Len(backlog') = Len(backlog) + 1
      BY <1>a, <2>1, AppendAdds DEF Connect
    <3>2. Len(backlog) < Backlog /\ Len(backlog) \in Nat
      BY <1>a, <2>1 DEF Connect
    <3> QED
      BY <1>a, <1>c, <2>1, <3>1, <3>2 DEF Connect, app
  <2>2. ASSUME NEW c \in Clients, Arrive(c) PROVE QueueTypes'
    BY <1>b, <2>2 DEF Arrive, net, app
  <2>3. CASE Tick
    BY <1>b, <2>3 DEF Tick, net, app
  <2> QED
    BY <1>1, <2>1, <2>2, <2>3 DEF OutsideStep
<1>2. CASE ReceiveMessage
  <2>1. CASE AcceptConnection
    <3>1. CASE backlog # <<>> /\ backlog' = Tail(backlog)
      <4>1. backlog' \in Seq(Clients) /\ Len(backlog') = Len(backlog) - 1 /\ Len(backlog) \in Nat
        BY <1>a, <3>1, TailTakes
      <4> QED
        BY <1>a, <1>c, <2>1, <4>1 DEF AcceptConnection, app
    <3>2. CASE backlog' = backlog
      BY <1>b, <2>1, <3>2 DEF AcceptConnection, app
    <3> QED
      BY <2>1, <3>1, <3>2 DEF AcceptConnection
  <2>2. CASE BufferReceived
    <3>1. rx.client \in Clients
      BY <1>a, <2>2 DEF BufferReceived, RxType, Busy
    <3>2. receiveBuffer_' \in Seq(Clients)
      BY <1>a, <2>2, <3>1, AppendAdds DEF BufferReceived
    <3> QED
      BY <1>a, <2>2, <3>2 DEF BufferReceived, net
  <2>3. CASE BeginReceive \/ Recv \/ EnterPut \/ PutSocket
    BY <1>b, <2>3 DEF BeginReceive, Recv, EnterPut, PutSocket, net, app
  <2> QED
    BY <1>2, <2>1, <2>2, <2>3 DEF ReceiveMessage, ReceiveStep
<1>3. CASE SendMessage
  <2>1. CASE BeginSend
    <3>1. /\ sendBuffer_' \in Seq(Clients) /\ Len(sendBuffer_') = Len(sendBuffer_) - 1
          /\ Len(sendBuffer_) \in Nat
      BY <1>a, <2>1, TailTakes DEF BeginSend
    <3> QED
      BY <1>a, <1>c, <2>1, <3>1 DEF BeginSend, net
  <2>2. CASE SendStep
    BY <1>b, <2>2 DEF SendStep, EnterGet, GetMisses, GetHits, SendOnSocket, RemoveSocket, net, app
  <2> QED
    BY <1>3, <2>1, <2>2 DEF SendMessage
<1>4. CASE AppSteps
  <2>1. CASE GetNextReceivedMessage
    BY <1>a, <2>1, TailTakes DEF GetNextReceivedMessage, net
  <2>2. ASSUME NEW c \in Clients, QueueMessageToSend(c) PROVE QueueTypes'
    <3>1. sendBuffer_' \in Seq(Clients) /\ Len(sendBuffer_') = Len(sendBuffer_) + 1
      BY <1>a, <2>2, AppendAdds DEF QueueMessageToSend
    <3>2. Len(sendBuffer_) < MaxAnswers /\ Len(sendBuffer_) \in Nat
      BY <1>a, <2>2 DEF QueueMessageToSend
    <3> QED
      BY <1>a, <1>c, <2>2, <3>1, <3>2 DEF QueueMessageToSend, net
  <2> QED
    BY <1>4, <2>1, <2>2 DEF AppSteps
<1>5. CASE CtlSteps
  <2>1. CASE BeginStop
    BY <1>a, <1>c, <2>1 DEF BeginStop, app
  <2>2. CASE ClearReceived
    BY <1>a, <1>c, <2>2 DEF ClearReceived, net
  <2>3. CASE ClearToSend
    BY <1>a, <1>c, <2>3 DEF ClearToSend, net
  <2>4. CASE Start \/ ClearSockets \/ EndStop
    BY <1>b, <2>4 DEF Start, ClearSockets, EndStop, net, app
  <2> QED
    BY <1>5, <2>1, <2>2, <2>3, <2>4 DEF CtlSteps, Stop, StopStep
<1>6. CASE UNCHANGED vars
  BY <1>b, <1>6 DEF vars, net, app
<1> QED
  BY <1>1, <1>2, <1>3, <1>4, <1>5, <1>6, StepCases

\* The stack gives only a number that is not in use, and only Recv and
\* CloseReleased take a number away.
LEMMA SockStep == Types /\ [Next]_vars => SockType'
<1> SUFFICES ASSUME Types, [Next]_vars PROVE SockType'
  OBVIOUS
<1>a. SockType /\ QueueTypes
  BY DEF Types
<1>b. ASSUME UNCHANGED sock PROVE SockType'
  BY <1>a, <1>b DEF SockType
<1>c. ASSUME NEW cache, NEW sender, CloseReleased(cache, sender) PROVE SockType'
  BY <1>a, <1>c, Closing
<1>1. CASE OutsideStep
  BY <1>b, <1>1 DEF OutsideStep, Tick, Connect, Arrive
<1>2. CASE ReceiveMessage
  <2>1. CASE AcceptConnection
    <3>1. ASSUME NEW f \in Fds, backlog # <<>>, sock' = [sock EXCEPT ![f] = Head(backlog)]
          PROVE  SockType'
      <4>1. Head(backlog) \in Clients
        BY <1>a, <3>1, TailTakes DEF QueueTypes
      <4> QED
        BY <1>a, <3>1, <4>1 DEF SockType
    <3> QED
      BY <1>b, <2>1, <3>1 DEF AcceptConnection, OpenFds
  <2>2. CASE Recv
    BY <1>a, <2>2 DEF Recv, SockType
  <2>3. CASE BeginReceive \/ BufferReceived \/ EnterPut \/ PutSocket
    BY <1>b, <2>3 DEF BeginReceive, BufferReceived, EnterPut, PutSocket
  <2> QED
    BY <1>2, <2>1, <2>2, <2>3 DEF ReceiveMessage, ReceiveStep
<1>3. CASE SendMessage
  BY <1>b, <1>c, <1>3 DEF SendMessage, BeginSend, SendStep, EnterGet, GetMisses, GetHits,
                          SendOnSocket, RemoveSocket
<1>4. CASE AppSteps
  BY <1>b, <1>4 DEF AppSteps, GetNextReceivedMessage, QueueMessageToSend
<1>5. CASE CtlSteps
  BY <1>b, <1>c, <1>5 DEF CtlSteps, Start, Stop, BeginStop, StopStep, ClearSockets, ClearReceived,
                          ClearToSend, EndStop
<1>6. CASE UNCHANGED vars
  BY <1>b, <1>6 DEF vars
<1> QED
  BY <1>1, <1>2, <1>3, <1>4, <1>5, <1>6, StepCases

LEMMA RxStep == Types /\ [Next]_vars => RxType'
<1> SUFFICES ASSUME Types, [Next]_vars PROVE RxType'
  OBVIOUS
<1>a. RxType /\ QueueTypes
  BY DEF Types
<1>b. ASSUME UNCHANGED rx PROVE RxType'
  BY <1>a, <1>b DEF RxType, Threads, RxPlaces, Busy
<1>c. ASSUME rx' = Idle \/ rx' = [Idle EXCEPT !.at = "accepting"] PROVE RxType'
  BY <1>c DEF RxType, Idle, Threads, RxPlaces, Busy
<1>d. ASSUME rx.at \in Busy, NEW place \in Busy, rx' = [rx EXCEPT !.at = place] PROVE RxType'
  BY <1>a, <1>d DEF RxType, Threads, RxPlaces, Busy
<1>1. CASE ReceiveMessage
  <2>1. CASE AcceptConnection
    <3>1. ASSUME NEW f \in Fds, backlog # <<>>,
                 rx' = [at |-> "accepted", client |-> Head(backlog), fd |-> f]
          PROVE  RxType'
      <4>1. Head(backlog) \in Clients
        BY <1>a, <3>1, TailTakes DEF QueueTypes
      <4> QED
        BY <3>1, <4>1 DEF RxType, Threads, RxPlaces, Busy
    <3> QED
      BY <1>c, <2>1, <3>1 DEF AcceptConnection
  <2>2. CASE Recv
    BY <1>c, <1>d, <2>2 DEF Recv, Busy
  <2>3. CASE BufferReceived \/ EnterPut
    BY <1>d, <2>3 DEF BufferReceived, EnterPut, Busy
  <2>4. CASE BeginReceive \/ PutSocket
    BY <1>c, <2>4 DEF BeginReceive, PutSocket
  <2> QED
    BY <1>1, <2>1, <2>2, <2>3, <2>4 DEF ReceiveMessage, ReceiveStep
<1>2. CASE OutsideStep
  BY <1>b, <1>2 DEF OutsideStep, Tick, Connect, Arrive
<1>3. CASE SendMessage
  BY <1>b, <1>3 DEF SendMessage, BeginSend, SendStep, EnterGet, GetMisses, GetHits,
                    SendOnSocket, RemoveSocket
<1>4. CASE AppSteps
  BY <1>b, <1>4 DEF AppSteps, GetNextReceivedMessage, QueueMessageToSend
<1>5. CASE CtlSteps
  BY <1>b, <1>5 DEF CtlSteps, Start, Stop, BeginStop, StopStep, ClearSockets, ClearReceived,
                    ClearToSend, EndStop
<1>6. CASE UNCHANGED vars
  BY <1>b, <1>6 DEF vars
<1> QED
  BY <1>1, <1>2, <1>3, <1>4, <1>5, <1>6, StepCases

LEMMA TxStep == Types /\ CacheInv /\ [Next]_vars => TxType'
<1> SUFFICES ASSUME Types, CacheInv, [Next]_vars PROVE TxType'
  OBVIOUS
<1>a. TxType /\ QueueTypes
  BY DEF Types
<1>b. ASSUME UNCHANGED tx PROVE TxType'
  BY <1>a, <1>b DEF TxType, Threads, TxPlaces, Sending
<1>c. ASSUME tx' = Idle PROVE TxType'
  BY <1>c DEF TxType, Idle, Threads, TxPlaces, Sending
<1>1. CASE SendMessage
  <2>1. CASE BeginSend
    <3>1. Head(sendBuffer_) \in Clients
      BY <1>a, <2>1, TailTakes DEF BeginSend, QueueTypes
    <3> QED
      BY <2>1, <3>1 DEF BeginSend, TxType, Idle, Threads, TxPlaces, Sending
  <2>2. CASE EnterGet
    BY <1>a, <2>2 DEF EnterGet, TxType, Threads, TxPlaces, Sending
  <2>3. CASE GetMisses \/ RemoveSocket
    BY <1>c, <2>3 DEF GetMisses, RemoveSocket
  <2>4. CASE GetHits
    <3>1. socketCache_[tx.client].value \in Fds
      BY <2>4 DEF GetHits, Found, Live, CacheInv
    <3> QED
      BY <1>a, <2>4, <3>1 DEF GetHits, TxType, Threads, TxPlaces, Sending
  <2>5. CASE SendOnSocket
    BY <1>a, <2>5 DEF SendOnSocket, TxType, Threads, TxPlaces, Sending
  <2> QED
    BY <1>1, <2>1, <2>2, <2>3, <2>4, <2>5 DEF SendMessage, SendStep
<1>2. CASE OutsideStep
  BY <1>b, <1>2 DEF OutsideStep, Tick, Connect, Arrive
<1>3. CASE ReceiveMessage
  BY <1>b, <1>3 DEF ReceiveMessage, BeginReceive, ReceiveStep, AcceptConnection, Recv,
                    BufferReceived, EnterPut, PutSocket
<1>4. CASE AppSteps
  BY <1>b, <1>4 DEF AppSteps, GetNextReceivedMessage, QueueMessageToSend
<1>5. CASE CtlSteps
  BY <1>b, <1>5 DEF CtlSteps, Start, Stop, BeginStop, StopStep, ClearSockets, ClearReceived,
                    ClearToSend, EndStop
<1>6. CASE UNCHANGED vars
  BY <1>b, <1>6 DEF vars
<1> QED
  BY <1>1, <1>2, <1>3, <1>4, <1>5, <1>6, StepCases

LEMMA CtlStep == Types /\ [Next]_vars => CtlType'
<1> SUFFICES ASSUME Types, [Next]_vars PROVE CtlType'
  OBVIOUS
<1> USE DEF Types, CtlType, CtlPlaces
<1>1. CASE OutsideStep
  BY <1>1 DEF OutsideStep, Tick, Connect, Arrive
<1>2. CASE ReceiveMessage
  BY <1>2 DEF ReceiveMessage, BeginReceive, ReceiveStep, AcceptConnection, Recv,
              BufferReceived, EnterPut, PutSocket
<1>3. CASE SendMessage
  BY <1>3 DEF SendMessage, BeginSend, SendStep, EnterGet, GetMisses, GetHits, SendOnSocket,
              RemoveSocket
<1>4. CASE AppSteps
  BY <1>4 DEF AppSteps, GetNextReceivedMessage, QueueMessageToSend
<1>5. CASE CtlSteps
  BY <1>5 DEF CtlSteps, Start, Stop, BeginStop, StopStep, ClearSockets, ClearReceived, ClearToSend,
              EndStop
<1>6. CASE UNCHANGED vars
  BY <1>6 DEF vars
<1> QED
  BY <1>1, <1>2, <1>3, <1>4, <1>5, <1>6, StepCases

-----------------------------------------------------------------------------
(***************************************************************************)
(* Ownership of the sockets.                                               *)
(***************************************************************************)

LEMMA OneSocketStep == Types /\ OneSocket /\ [Next]_vars => OneSocket'
<1> SUFFICES ASSUME Types, OneSocket, [Next]_vars PROVE OneSocket'
  OBVIOUS
<1>a. SockType /\ backlog \in Seq(Clients)
  BY DEF Types, QueueTypes
<1>b. ~InSeq(None, backlog)
  BY <1>a, NoneAssumption DEF InSeq
<1>c. ASSUME UNCHANGED <<sock, backlog>> PROVE OneSocket'
  BY <1>c DEF OneSocket, Distinct, InSeq
<1>d. ASSUME UNCHANGED backlog, \A f \in Fds : sock'[f] = sock[f] \/ sock'[f] = None
      PROVE  OneSocket'
  <2>1. \A f \in Fds : ~InSeq(sock'[f], backlog)
    BY <1>b, <1>d DEF OneSocket
  <2>2. \A f, g \in Fds : sock'[f] = sock'[g] /\ sock'[f] # None => f = g
    BY <1>d DEF OneSocket
  <2>3. Distinct(backlog)
    BY DEF OneSocket
  <2> QED
    BY <1>d, <2>1, <2>2, <2>3 DEF OneSocket, InSeq, Distinct
<1>e. ASSUME NEW cache, NEW sender, CloseReleased(cache, sender), UNCHANGED backlog
      PROVE  OneSocket'
  BY <1>a, <1>d, <1>e, Closing
<1>1. CASE OutsideStep
  <2>1. ASSUME NEW c \in Clients, Connect(c) PROVE OneSocket'
    <3>1. /\ backlog' = Append(backlog, c) /\ sock' = sock
          /\ ~InSeq(c, backlog) /\ \A f \in Fds : sock[f] # c
      BY <2>1 DEF Connect
    <3>2. Distinct(backlog') /\ \A y : InSeq(y, backlog') <=> InSeq(y, backlog) \/ y = c
      BY <1>a, <3>1, AppendAdds DEF OneSocket
    <3> QED
      BY <3>1, <3>2 DEF OneSocket, Distinct, InSeq
  <2>2. ASSUME NEW c \in Clients, Arrive(c) PROVE OneSocket'
    BY <1>c, <2>2 DEF Arrive
  <2>3. CASE Tick
    BY <1>c, <2>3 DEF Tick, net
  <2> QED
    BY <1>1, <2>1, <2>2, <2>3 DEF OutsideStep
<1>2. CASE ReceiveMessage
  <2>1. CASE AcceptConnection
    <3>1. CASE backlog # <<>> /\ backlog' = Tail(backlog)
      <4>1. /\ InSeq(Head(backlog), backlog) /\ ~InSeq(Head(backlog), backlog')
            /\ Distinct(backlog') /\ \A y : InSeq(y, backlog') => InSeq(y, backlog)
        BY <1>a, <3>1, TailTakes DEF OneSocket
      <4>2. CASE sock' = sock
        BY <4>1, <4>2 DEF OneSocket, Distinct, InSeq
      <4>3. ASSUME NEW f \in Fds, sock[f] = None, sock' = [sock EXCEPT ![f] = Head(backlog)]
            PROVE  OneSocket'
        <5>1. sock'[f] = Head(backlog) /\ \A g \in Fds \ {f} : sock'[g] = sock[g]
          BY <1>a, <4>3 DEF SockType
        <5>2. \A g \in Fds : sock[g] # Head(backlog)
          BY <4>1 DEF OneSocket
        <5>3. \A g, h \in Fds : sock'[g] = sock'[h] /\ sock'[g] # None => g = h
          BY <5>1, <5>2 DEF OneSocket
        <5>4. \A g \in Fds : ~InSeq(sock'[g], backlog')
          BY <4>1, <5>1 DEF OneSocket
        <5> QED
          BY <4>1, <5>3, <5>4 DEF OneSocket, Distinct, InSeq
      <4> QED
        BY <2>1, <3>1, <4>2, <4>3 DEF AcceptConnection, OpenFds
    <3>2. CASE backlog' = backlog /\ sock' = sock
      BY <1>c, <3>2
    <3> QED
      BY <2>1, <3>1, <3>2 DEF AcceptConnection
  <2>2. CASE Recv
    <3>1. \A f \in Fds : sock'[f] = sock[f] \/ sock'[f] = None
      BY <1>a, <2>2 DEF Recv, SockType
    <3> QED
      BY <1>d, <2>2, <3>1 DEF Recv, net
  <2>3. CASE BeginReceive \/ BufferReceived \/ EnterPut \/ PutSocket
    BY <1>c, <2>3 DEF BeginReceive, BufferReceived, EnterPut, PutSocket, net
  <2> QED
    BY <1>2, <2>1, <2>2, <2>3 DEF ReceiveMessage, ReceiveStep
<1>3. CASE SendMessage
  BY <1>c, <1>e, <1>3 DEF SendMessage, BeginSend, SendStep, EnterGet, GetMisses, GetHits,
                          SendOnSocket, RemoveSocket, net
<1>4. CASE AppSteps
  BY <1>c, <1>4 DEF AppSteps, GetNextReceivedMessage, QueueMessageToSend, net
<1>5. CASE CtlSteps
  <2>1. CASE BeginStop
    BY <2>1 DEF BeginStop, OneSocket, Distinct, InSeq
  <2>2. CASE Start \/ StopStep
    BY <1>c, <1>e, <2>2 DEF Start, StopStep, ClearSockets, ClearReceived, ClearToSend, EndStop, net
  <2> QED
    BY <1>5, <2>1, <2>2 DEF CtlSteps, Stop
<1>6. CASE UNCHANGED vars
  BY <1>c, <1>6 DEF vars, net
<1> QED
  BY <1>1, <1>2, <1>3, <1>4, <1>5, <1>6, StepCases

Owners == CacheInv /\ HoldInv /\ NoSocketLost

\* A thread's number and client are kept while it does not take or give a socket.
LEMMA OwnersKept ==
  ASSUME Owners, UNCHANGED <<sock, socketCache_>>,
         rx'.at \in Busy <=> rx.at \in Busy, rx'.client = rx.client, rx'.fd = rx.fd,
         tx'.at \in Sending => tx.at \in Sending /\ tx'.client = tx.client, tx'.fd = tx.fd
  PROVE  Owners'
<1>1. CacheInv'
  BY DEF Owners, CacheInv
<1>2. HoldInv'
  BY DEF Owners, HoldInv, CachedFds
<1>3. NoSocketLost'
  BY DEF Owners, NoSocketLost, OpenFds, CachedFds
<1> QED
  BY <1>1, <1>2, <1>3 DEF Owners

\* What leaves the cache and is not held is closed, and nothing else is.
LEMMA OwnersReleased ==
  ASSUME Types, Types', Owners, rx' = rx, tx' = Idle \/ tx' = tx,
         DOMAIN socketCache_' \subseteq DOMAIN socketCache_,
         \A c \in DOMAIN socketCache_' : socketCache_'[c] = socketCache_[c],
         CloseReleased(socketCache_', tx')
  PROVE  Owners'
<1>a. SockType /\ RxType /\ TxType /\ TxType'
  BY DEF Types
<1>b. CachedFds(socketCache_') \subseteq CachedFds(socketCache_)
  BY DEF CachedFds
<1>c. tx'.fd \in {tx.fd, None} /\ (tx'.at \in Sending => tx' = tx)
  BY DEF Idle, Sending
<1>d. /\ \A f \in Fds : sock'[f] # None
           => f \in CachedFds(socketCache_') \/ f = tx'.fd
              \/ (f \notin CachedFds(socketCache_) /\ f # tx.fd)
      /\ \A f \in Fds : f \in CachedFds(socketCache_') \/ f = tx'.fd
                        \/ (f \notin CachedFds(socketCache_) /\ f # tx.fd)
           => sock'[f] = sock[f]
  BY <1>a, Closing
<1>1. CacheInv'
  <2>1. ASSUME NEW c \in DOMAIN socketCache_'
        PROVE  /\ c \in Clients
               /\ socketCache_'[c].value \in Fds /\ sock'[socketCache_'[c].value] = c
    <3>1. c \in Clients /\ socketCache_'[c].value \in Fds /\ sock[socketCache_'[c].value] = c
      BY <2>1 DEF Owners, CacheInv
    <3>2. socketCache_'[c].value \in CachedFds(socketCache_')
      BY <2>1 DEF CachedFds
    <3> QED
      BY <1>d, <3>1, <3>2
  <2> QED
    BY <2>1 DEF CacheInv
<1>2. HoldInv'
  <2>1. rx.at \in Busy => /\ sock'[rx.fd] = rx.client
                          /\ rx.fd \notin CachedFds(socketCache_') /\ rx.fd # tx'.fd
    <3> SUFFICES ASSUME rx.at \in Busy
                 PROVE  /\ sock'[rx.fd] = rx.client
                        /\ rx.fd \notin CachedFds(socketCache_') /\ rx.fd # tx'.fd
      OBVIOUS
    <3>1. rx.fd \in Fds /\ sock[rx.fd] = rx.client /\ rx.fd \notin CachedFds(socketCache_)
          /\ rx.fd # tx.fd
      BY <1>a DEF Owners, HoldInv, RxType
    <3>2. rx.fd # None
      BY <3>1, NoneAssumption
    <3> QED
      BY <1>b, <1>c, <1>d, <3>1, <3>2
  <2>2. tx'.at \in Sending => sock'[tx'.fd] = tx'.client
    BY <1>a, <1>c, <1>d DEF Owners, HoldInv, TxType
  <2> QED
    BY <2>1, <2>2 DEF HoldInv, CachedFds
<1>3. NoSocketLost'
  <2>1. ASSUME NEW f \in Fds, sock'[f] # None
        PROVE  f \in CachedFds(socketCache_') \cup {tx'.fd, rx'.fd}
    <3>1. CASE f \notin CachedFds(socketCache_) /\ f # tx.fd
      BY <1>d, <2>1, <3>1 DEF Owners, NoSocketLost, OpenFds
    <3> QED
      BY <1>d, <2>1, <3>1
  <2> QED
    BY <2>1 DEF NoSocketLost, OpenFds, CachedFds
<1> QED
  BY <1>1, <1>2, <1>3 DEF Owners

LEMMA AcceptOwns ==
  ASSUME Types, Owners, NEW f \in Fds \ OpenFds, NEW c \in Clients,
         rx.at = "accepting", rx' = [at |-> "accepted", client |-> c, fd |-> f],
         sock' = [sock EXCEPT ![f] = c], UNCHANGED <<socketCache_, tx>>
  PROVE  Owners'
<1>a. SockType /\ RxType /\ TxType
  BY DEF Types
<1>b. sock[f] = None /\ sock'[f] = c /\ \A g \in Fds \ {f} : sock'[g] = sock[g]
  BY <1>a DEF SockType, OpenFds
<1>c. rx'.at = "accepted" /\ rx'.client = c /\ rx'.fd = f
  OBVIOUS
<1>1. \A d \in DOMAIN socketCache_ : socketCache_[d].value # f
  BY <1>b, NoneAssumption DEF Owners, CacheInv
<1>2. tx.fd # f
  BY <1>a, <1>b, NoneAssumption DEF Owners, HoldInv, TxType, Sending
<1>3. CacheInv'
  BY <1>b, <1>1 DEF Owners, CacheInv
<1>4. HoldInv'
  <2>1. f \notin CachedFds(socketCache_)
    BY <1>1 DEF CachedFds
  <2>2. tx.at \in Sending => sock'[tx.fd] = tx.client
    BY <1>a, <1>b, <1>2 DEF Owners, HoldInv, TxType
  <2> QED
    BY <1>b, <1>c, <1>2, <2>1, <2>2 DEF HoldInv, CachedFds
<1>5. NoSocketLost'
  <2>1. rx.fd = None
    BY <1>a DEF RxType, Busy
  <2>2. ASSUME NEW g \in Fds, sock'[g] # None PROVE g \in CachedFds(socketCache_) \cup {tx.fd, f}
    BY <1>b, <2>1, <2>2, NoneAssumption DEF Owners, NoSocketLost, OpenFds
  <2> QED
    BY <1>c, <2>2 DEF NoSocketLost, OpenFds, CachedFds
<1> QED
  BY <1>3, <1>4, <1>5 DEF Owners

LEMMA RecvOwns == ASSUME Types, Owners, Recv PROVE Owners'
<1>a. SockType /\ RxType /\ TxType
  BY DEF Types
<1>1. CASE rx' = [rx EXCEPT !.at = "read"] /\ UNCHANGED sock
  <2>1. rx.at \in Busy /\ rx'.at \in Busy /\ rx'.client = rx.client /\ rx'.fd = rx.fd
    BY <1>a, <1>1 DEF Recv, RxType, Threads, Busy
  <2> QED
    BY <1>1, <2>1, OwnersKept DEF Recv
<1>2. CASE rx' = Idle /\ sock' = [sock EXCEPT ![rx.fd] = None]
  <2>1. /\ rx.fd \in Fds /\ rx.fd \notin CachedFds(socketCache_) /\ rx.fd # tx.fd
        /\ sock'[rx.fd] = None /\ \A g \in Fds \ {rx.fd} : sock'[g] = sock[g]
    BY <1>a, <1>2 DEF Recv, RxType, SockType, Owners, HoldInv, Busy
  <2>2. UNCHANGED <<socketCache_, tx>>
    BY DEF Recv
  <2>3. CacheInv'
    BY <2>1, <2>2 DEF Owners, CacheInv, CachedFds
  <2>4. HoldInv'
    BY <1>a, <1>2, <2>1, <2>2 DEF Owners, HoldInv, TxType, Idle, Busy
  <2>5. ASSUME NEW g \in Fds, sock'[g] # None PROVE g \in CachedFds(socketCache_) \cup {tx.fd}
    BY <2>1, <2>5 DEF Owners, NoSocketLost, OpenFds
  <2>6. NoSocketLost'
    BY <2>2, <2>5 DEF NoSocketLost, OpenFds, CachedFds
  <2> QED
    BY <2>3, <2>4, <2>6 DEF Owners
<1> QED
  BY <1>1, <1>2 DEF Recv

LEMMA PutOwns == ASSUME Types, OneSocket, Owners, PutSocket PROVE Owners'
<1>a. SockType /\ RxType /\ TxType
  BY DEF Types
<1>b. UNCHANGED <<sock, tx>> /\ rx' = Idle
  BY DEF PutSocket
<1>c. rx.client \in Clients /\ rx.fd \in Fds /\ sock[rx.fd] = rx.client
  BY <1>a DEF PutSocket, RxType, Owners, HoldInv, Busy
<1>d. /\ DOMAIN socketCache_' = DOMAIN socketCache_ \cup {rx.client}
      /\ socketCache_'[rx.client].value = rx.fd
      /\ \A c \in DOMAIN socketCache_ \ {rx.client} : socketCache_'[c] = socketCache_[c]
  BY DEF PutSocket, Put
<1>1. CacheInv'
  BY <1>b, <1>c, <1>d DEF Owners, CacheInv
<1>2. HoldInv'
  BY <1>b DEF Owners, HoldInv, Idle, Busy
<1>3. NoSocketLost'
  <2>1. ASSUME NEW f \in Fds, sock[f] # None PROVE f \in CachedFds(socketCache_') \cup {tx.fd}
    <3>1. CASE f = rx.fd
      BY <1>d, <3>1 DEF CachedFds
    <3>2. ASSUME NEW c \in DOMAIN socketCache_, f = socketCache_[c].value, f # rx.fd
          PROVE  f \in CachedFds(socketCache_')
      <4>1. c # rx.client
        BY <1>c, <2>1, <3>2 DEF Owners, CacheInv, OneSocket
      <4> QED
        BY <1>d, <3>2, <4>1 DEF CachedFds
    <3> QED
      BY <2>1, <3>1, <3>2 DEF Owners, NoSocketLost, OpenFds, CachedFds
  <2> QED
    BY <1>b, <2>1 DEF NoSocketLost, OpenFds, CachedFds
<1> QED
  BY <1>1, <1>2, <1>3 DEF Owners

LEMMA GetHitsOwns == ASSUME Types, Owners, GetHits PROVE Owners'
<1>a. TxType /\ tx.at = "getting" /\ UNCHANGED <<sock, socketCache_, rx>>
  BY DEF Types, GetHits
<1>b. tx.client \in DOMAIN socketCache_
  BY DEF GetHits, Found, Live
<1>c. tx'.client = tx.client /\ tx'.fd = socketCache_[tx.client].value
  BY <1>a DEF GetHits, TxType, Threads
<1>d. sock[tx'.fd] = tx'.client /\ tx'.fd \in CachedFds(socketCache_)
  BY <1>b, <1>c DEF Owners, CacheInv, CachedFds
<1>1. CacheInv'
  BY <1>a DEF Owners, CacheInv
<1>2. HoldInv'
  BY <1>a, <1>d DEF Owners, HoldInv, CachedFds
<1>3. NoSocketLost'
  <2>1. tx.fd = None
    BY <1>a DEF TxType, Sending
  <2> QED
    BY <1>a, <2>1, NoneAssumption DEF Owners, NoSocketLost, OpenFds, CachedFds
<1> QED
  BY <1>1, <1>2, <1>3 DEF Owners

LEMMA OwnersStep == Types /\ Types' /\ OneSocket /\ Owners /\ [Next]_vars => Owners'
<1> SUFFICES ASSUME Types, Types', OneSocket, Owners, [Next]_vars PROVE Owners'
  OBVIOUS
<1>a. RxType /\ TxType /\ QueueTypes
  BY DEF Types
<1>b. ASSUME UNCHANGED <<sock, socketCache_, rx, tx>> PROVE Owners'
  BY <1>b, OwnersKept
<1>c. ASSUME socketCache_' = Erase(socketCache_, {tx.client}), CloseReleased(socketCache_', Idle),
             rx' = rx, tx' = Idle
      PROVE  Owners'
  <2>1. /\ DOMAIN socketCache_' \subseteq DOMAIN socketCache_
        /\ \A c \in DOMAIN socketCache_' : socketCache_'[c] = socketCache_[c]
    BY <1>c DEF Erase, Keep
  <2>2. CloseReleased(socketCache_', tx')
    BY <1>c DEF CloseReleased
  <2> QED
    BY <1>c, <2>1, <2>2, OwnersReleased
<1>1. CASE OutsideStep
  BY <1>b, <1>1 DEF OutsideStep, Tick, Connect, Arrive
<1>2. CASE ReceiveMessage
  <2>1. CASE AcceptConnection
    <3>1. CASE rx' = Idle /\ sock' = sock
      BY <1>a, <2>1, <3>1, OwnersKept DEF AcceptConnection, RxType, Idle, Busy
    <3>2. ASSUME NEW f \in Fds \ OpenFds, backlog # <<>>,
                 sock' = [sock EXCEPT ![f] = Head(backlog)],
                 rx' = [at |-> "accepted", client |-> Head(backlog), fd |-> f]
          PROVE  Owners'
      <4>1. Head(backlog) \in Clients
        BY <1>a, <3>2, TailTakes DEF QueueTypes
      <4> QED
        BY <2>1, <3>2, <4>1, AcceptOwns DEF AcceptConnection
    <3> QED
      BY <2>1, <3>1, <3>2 DEF AcceptConnection
  <2>2. CASE BeginReceive
    <3>1. rx.at \notin Busy
      BY <2>2 DEF BeginReceive, MayBegin, Busy
    <3> QED
      BY <1>a, <2>2, <3>1, OwnersKept DEF BeginReceive, RxType, Idle, Busy
  <2>3. CASE BufferReceived \/ EnterPut
    BY <1>a, <2>3, OwnersKept DEF BufferReceived, EnterPut, RxType, Threads, Busy
  <2> QED
    BY <1>2, <2>1, <2>2, <2>3, RecvOwns, PutOwns DEF ReceiveMessage, ReceiveStep
<1>3. CASE SendMessage
  <2>1. CASE BeginSend
    <3>1. tx.at = "idle"
      BY <2>1 DEF BeginSend, MayBegin
    <3> QED
      BY <1>a, <2>1, <3>1, OwnersKept DEF BeginSend, TxType, Idle, Sending
  <2>2. CASE EnterGet
    BY <1>a, <2>2, OwnersKept DEF EnterGet, TxType, Threads, Sending
  <2>3. CASE SendOnSocket
    BY <1>a, <2>3, OwnersKept DEF SendOnSocket, TxType, Threads, Sending
  <2>4. CASE GetMisses
    BY <1>c, <2>4, LookupErases DEF GetMisses
  <2>5. CASE RemoveSocket
    BY <1>c, <2>5 DEF RemoveSocket
  <2> QED
    BY <1>3, <2>1, <2>2, <2>3, <2>4, <2>5, GetHitsOwns DEF SendMessage, SendStep
<1>4. CASE AppSteps
  BY <1>b, <1>4 DEF AppSteps, GetNextReceivedMessage, QueueMessageToSend
<1>5. CASE CtlSteps
  <2>1. CASE ClearSockets
    <3>1. rx' = rx /\ tx' = tx /\ socketCache_' = Empty /\ CloseReleased(Empty, tx)
      BY <2>1 DEF ClearSockets
    <3>2. CloseReleased(socketCache_', tx')
      BY <3>1 DEF CloseReleased
    <3> QED
      BY <3>1, <3>2, EmptyHoldsNone, OwnersReleased
  <2>2. CASE Start \/ BeginStop \/ ClearReceived \/ ClearToSend \/ EndStop
    BY <1>b, <2>2 DEF Start, BeginStop, ClearReceived, ClearToSend, EndStop
  <2> QED
    BY <1>5, <2>1, <2>2 DEF CtlSteps, Stop, StopStep
<1>6. CASE UNCHANGED vars
  BY <1>b, <1>6 DEF vars
<1> QED
  BY <1>1, <1>2, <1>3, <1>4, <1>5, <1>6, StepCases

-----------------------------------------------------------------------------
(***************************************************************************)
(* Messages and answers.                                                   *)
(***************************************************************************)

LEMMA TakenStep ==
  Types /\ OneSocket /\ HoldInv /\ TakenInv /\ [Next]_vars => TakenInv'
<1> SUFFICES ASSUME Types, OneSocket, HoldInv, TakenInv, [Next]_vars PROVE TakenInv'
  OBVIOUS
<1>a. QueueTypes /\ RxType /\ asked \subseteq Clients
  BY DEF Types, FieldTypes
<1>b. ASSUME arrived \subseteq arrived', Taken' \subseteq Taken,
             \A c \in Clients : InSeq(c, backlog') => InSeq(c, backlog),
             rx' = rx \/ rx'.at \notin Busy
      PROVE  TakenInv'
  <2>1. Taken' \subseteq arrived'
    BY <1>b DEF TakenInv
  <2>2. \A c \in Taken' : ~InSeq(c, backlog')
    BY <1>a, <1>b DEF TakenInv, Taken
  <2>3. rx'.at \in Busy \ {"accepted"} => rx'.client \in arrived'
    BY <1>b DEF TakenInv
  <2>4. rx'.at \in {"accepted", "read"} => rx'.client \notin Taken'
    BY <1>b DEF TakenInv, Busy
  <2> QED
    BY <2>1, <2>2, <2>3, <2>4 DEF TakenInv
<1>c. ASSUME UNCHANGED <<arrived, receiveBuffer_, asked, backlog, rx>> PROVE TakenInv'
  BY <1>b, <1>c DEF Taken
<1>1. CASE OutsideStep
  <2>1. ASSUME NEW c \in Clients, Connect(c) PROVE TakenInv'
    <3>1. UNCHANGED <<arrived, receiveBuffer_, asked, rx>> /\ c \notin arrived
      BY <2>1 DEF Connect, app
    <3>2. \A y : InSeq(y, backlog') <=> InSeq(y, backlog) \/ y = c
      BY <1>a, <2>1, AppendAdds DEF Connect, QueueTypes
    <3> QED
      BY <3>1, <3>2 DEF TakenInv, Taken
  <2>2. ASSUME NEW c \in Clients, Arrive(c) PROVE TakenInv'
    BY <1>b, <2>2 DEF Arrive, Taken, app
  <2>3. CASE Tick
    BY <1>c, <2>3 DEF Tick, net, app
  <2> QED
    BY <1>1, <2>1, <2>2, <2>3 DEF OutsideStep
<1>2. CASE ReceiveMessage
  <2>1. CASE AcceptConnection
    <3>1. UNCHANGED <<arrived, receiveBuffer_, asked>>
      BY <2>1 DEF AcceptConnection, app
    <3>2. \A c \in Clients : InSeq(c, backlog') => InSeq(c, backlog)
      BY <1>a, <2>1, TailTakes DEF AcceptConnection, QueueTypes
    <3>3. CASE rx' = Idle
      BY <1>b, <3>1, <3>2, <3>3 DEF Idle, Busy, Taken
    <3>4. CASE backlog # <<>> /\ rx'.at = "accepted" /\ rx'.client = Head(backlog)
      <4>1. InSeq(Head(backlog), backlog)
        BY <1>a, <3>4, TailTakes DEF QueueTypes
      <4> QED
        BY <1>a, <3>1, <3>2, <3>4, <4>1 DEF TakenInv, Taken
    <3> QED
      BY <2>1, <3>3, <3>4 DEF AcceptConnection
  <2>2. CASE Recv
    <3>1. UNCHANGED <<arrived, receiveBuffer_, asked, backlog>>
      BY <2>2 DEF Recv, app, net
    <3>2. CASE rx' = Idle
      BY <1>b, <3>1, <3>2 DEF Idle, Busy, Taken
    <3>3. CASE rx.client \in arrived /\ rx' = [rx EXCEPT !.at = "read"]
      <4>1. rx'.at = "read" /\ rx'.client = rx.client /\ rx.at = "accepted"
        BY <1>a, <2>2, <3>3 DEF Recv, RxType, Threads
      <4> QED
        BY <3>1, <3>3, <4>1 DEF TakenInv, Taken
    <3> QED
      BY <2>2, <3>2, <3>3 DEF Recv
  <2>3. CASE BufferReceived
    <3>1. /\ UNCHANGED <<arrived, backlog, asked>>
          /\ rx.at = "read" /\ rx'.at = "buffered" /\ rx'.client = rx.client
      BY <1>a, <2>3 DEF BufferReceived, RxType, Threads, net
    <3>2. rx.client \in arrived /\ rx.client \in Clients /\ ~InSeq(rx.client, backlog)
      BY <1>a, <3>1 DEF TakenInv, RxType, Busy, HoldInv, OneSocket
    <3>3. \A y : InSeq(y, receiveBuffer_') <=> InSeq(y, receiveBuffer_) \/ y = rx.client
      BY <1>a, <2>3, <3>2, AppendAdds DEF BufferReceived, QueueTypes
    <3>4. Taken' = Taken \cup {rx.client}
      BY <3>1, <3>2, <3>3 DEF Taken
    <3> QED
      BY <3>1, <3>2, <3>4 DEF TakenInv
  <2>4. CASE EnterPut
    <3>1. /\ UNCHANGED <<arrived, backlog, asked, receiveBuffer_>>
          /\ rx.at = "buffered" /\ rx'.at = "putting" /\ rx'.client = rx.client
      BY <1>a, <2>4 DEF EnterPut, RxType, Threads, net, app
    <3> QED
      BY <3>1 DEF TakenInv, Taken, Busy
  <2>5. CASE BeginReceive \/ PutSocket
    <3>1. UNCHANGED <<arrived, receiveBuffer_, asked, backlog>>
      BY <2>5 DEF BeginReceive, PutSocket, net, app
    <3>2. rx'.at \notin Busy
      BY <2>5 DEF BeginReceive, PutSocket, Idle, Busy
    <3> QED
      BY <1>b, <3>1, <3>2 DEF Taken
  <2> QED
    BY <1>2, <2>1, <2>2, <2>3, <2>4, <2>5 DEF ReceiveMessage, ReceiveStep
<1>3. CASE SendMessage
  BY <1>c, <1>3 DEF SendMessage, BeginSend, SendStep, EnterGet, GetMisses, GetHits,
                    SendOnSocket, RemoveSocket, net, app
<1>4. CASE AppSteps
  <2>1. CASE GetNextReceivedMessage
    <3>1. UNCHANGED <<arrived, backlog, rx>>
      BY <2>1 DEF GetNextReceivedMessage, net
    <3>2. Taken' \subseteq Taken
      BY <1>a, <2>1, TailTakes DEF GetNextReceivedMessage, QueueTypes, Taken
    <3> QED
      BY <1>b, <3>1, <3>2
  <2>2. ASSUME NEW c \in Clients, QueueMessageToSend(c) PROVE TakenInv'
    BY <1>c, <2>2 DEF QueueMessageToSend, net
  <2> QED
    BY <1>4, <2>1, <2>2 DEF AppSteps
<1>5. CASE CtlSteps
  <2>1. CASE BeginStop \/ ClearReceived
    <3>1. UNCHANGED <<arrived, asked, rx>>
      BY <2>1 DEF BeginStop, ClearReceived, net, app
    <3>2. \A y : /\ InSeq(y, backlog') => InSeq(y, backlog)
                 /\ InSeq(y, receiveBuffer_') => InSeq(y, receiveBuffer_)
      BY <2>1, EmptySeqHasNone DEF BeginStop, ClearReceived, net, app
    <3> QED
      BY <1>b, <3>1, <3>2 DEF Taken
  <2>2. CASE Start \/ ClearSockets \/ ClearToSend \/ EndStop
    BY <1>c, <2>2 DEF Start, ClearSockets, ClearToSend, EndStop, net, app
  <2> QED
    BY <1>5, <2>1, <2>2 DEF CtlSteps, Stop, StopStep
<1>6. CASE UNCHANGED vars
  BY <1>c, <1>6 DEF vars, net, app
<1> QED
  BY <1>1, <1>2, <1>3, <1>4, <1>5, <1>6, StepCases

LEMMA AskedStep == Types /\ AskedInv /\ [Next]_vars => AskedInv'
<1> SUFFICES ASSUME Types, AskedInv, [Next]_vars PROVE AskedInv'
  OBVIOUS
<1>a. QueueTypes /\ TxType
  BY DEF Types
<1>b. ASSUME asked \subseteq asked',
             \A c \in Clients : InSeq(c, sendBuffer_') => InSeq(c, sendBuffer_),
             tx'.at # "idle" => tx.at # "idle" /\ tx'.client = tx.client
      PROVE  AskedInv'
  BY <1>b DEF AskedInv
<1>c. ASSUME UNCHANGED <<asked, sendBuffer_, tx>> PROVE AskedInv'
  BY <1>b, <1>c
<1>1. CASE OutsideStep
  BY <1>c, <1>1 DEF OutsideStep, Tick, Connect, Arrive, app
<1>2. CASE ReceiveMessage
  BY <1>c, <1>2 DEF ReceiveMessage, BeginReceive, ReceiveStep, AcceptConnection, Recv,
                    BufferReceived, EnterPut, PutSocket, app
<1>3. CASE SendMessage
  <2>1. CASE BeginSend
    <3>1. /\ Head(sendBuffer_) \in asked
          /\ \A c \in Clients : InSeq(c, sendBuffer_') => InSeq(c, sendBuffer_)
      BY <1>a, <2>1, TailTakes DEF BeginSend, QueueTypes, AskedInv
    <3>2. tx'.client = Head(sendBuffer_) /\ asked' = asked
      BY <2>1 DEF BeginSend, Idle
    <3> QED
      BY <3>1, <3>2 DEF AskedInv
  <2>2. CASE EnterGet \/ GetHits \/ SendOnSocket
    BY <1>a, <1>b, <2>2 DEF EnterGet, GetHits, SendOnSocket, TxType, Threads, app
  <2>3. CASE GetMisses \/ RemoveSocket
    BY <1>b, <2>3 DEF GetMisses, RemoveSocket, Idle, app
  <2> QED
    BY <1>3, <2>1, <2>2, <2>3 DEF SendMessage, SendStep
<1>4. CASE AppSteps
  <2>1. CASE GetNextReceivedMessage
    BY <1>b, <2>1 DEF GetNextReceivedMessage
  <2>2. ASSUME NEW c \in Clients, QueueMessageToSend(c) PROVE AskedInv'
    <3>1. \A y : InSeq(y, sendBuffer_') <=> InSeq(y, sendBuffer_) \/ y = c
      BY <1>a, <2>2, AppendAdds DEF QueueMessageToSend, QueueTypes
    <3> QED
      BY <2>2, <3>1 DEF QueueMessageToSend, AskedInv
  <2> QED
    BY <1>4, <2>1, <2>2 DEF AppSteps
<1>5. CASE CtlSteps
  <2>1. CASE ClearToSend
    BY <1>b, <2>1, EmptySeqHasNone DEF ClearToSend
  <2>2. CASE Start \/ BeginStop \/ ClearSockets \/ ClearReceived \/ EndStop
    BY <1>c, <2>2 DEF Start, BeginStop, ClearSockets, ClearReceived, EndStop, app
  <2> QED
    BY <1>5, <2>1, <2>2 DEF CtlSteps, Stop, StopStep
<1>6. CASE UNCHANGED vars
  BY <1>c, <1>6 DEF vars, app
<1> QED
  BY <1>1, <1>2, <1>3, <1>4, <1>5, <1>6, StepCases

LEMMA AnsweredStep ==
  Types /\ OneSocket /\ Owners /\ TakenInv /\ AskedInv /\ AnsweredInv /\ [Next]_vars => AnsweredInv'
<1> SUFFICES ASSUME Types, OneSocket, Owners, TakenInv, AskedInv, AnsweredInv, [Next]_vars
             PROVE  AnsweredInv'
  OBVIOUS
<1>a. SockType /\ QueueTypes /\ RxType /\ TxType /\ asked \subseteq Clients
  BY DEF Types, FieldTypes
<1>b. None \notin answered
  BY <1>a, NoneAssumption DEF AnsweredInv
<1>c. ASSUME answered' = answered, asked \subseteq asked', tx' = tx \/ tx.at # "removing",
             \A f \in Fds : sock'[f] = sock[f] \/ sock'[f] = None
      PROVE  AnsweredInv'
  BY <1>b, <1>c DEF AnsweredInv
<1>d. ASSUME UNCHANGED <<answered, sock>>, asked \subseteq asked', tx' = tx \/ tx.at # "removing"
      PROVE  AnsweredInv'
  BY <1>c, <1>d
<1>e. ASSUME NEW cache, NEW sender, CloseReleased(cache, sender), UNCHANGED <<answered, asked>>,
             tx' = tx \/ tx.at # "removing"
      PROVE  AnsweredInv'
  BY <1>a, <1>c, <1>e, Closing
<1>1. CASE OutsideStep
  BY <1>d, <1>1 DEF OutsideStep, Tick, Connect, Arrive, app
<1>2. CASE ReceiveMessage
  <2>1. CASE AcceptConnection
    <3>1. UNCHANGED <<answered, asked, tx>>
      BY <2>1 DEF AcceptConnection, app
    <3>2. ASSUME NEW f \in Fds, backlog # <<>>, sock' = [sock EXCEPT ![f] = Head(backlog)]
          PROVE  AnsweredInv'
      <4>1. Head(backlog) \notin answered
        BY <1>a, <3>2, TailTakes DEF QueueTypes, TakenInv, AnsweredInv, Taken
      <4>2. sock'[f] = Head(backlog) /\ \A g \in Fds \ {f} : sock'[g] = sock[g]
        BY <1>a, <3>2 DEF SockType
      <4> QED
        BY <3>1, <4>1, <4>2 DEF AnsweredInv
    <3> QED
      BY <1>d, <2>1, <3>1, <3>2 DEF AcceptConnection, OpenFds
  <2>2. CASE Recv
    <3>1. \A f \in Fds : sock'[f] = sock[f] \/ sock'[f] = None
      BY <1>a, <2>2 DEF Recv, SockType
    <3> QED
      BY <1>c, <2>2, <3>1 DEF Recv, app
  <2>3. CASE BeginReceive \/ BufferReceived \/ EnterPut \/ PutSocket
    BY <1>d, <2>3 DEF BeginReceive, BufferReceived, EnterPut, PutSocket, app
  <2> QED
    BY <1>2, <2>1, <2>2, <2>3 DEF ReceiveMessage, ReceiveStep
<1>3. CASE SendMessage
  <2>1. CASE BeginSend \/ EnterGet \/ GetHits
    BY <1>d, <2>1 DEF BeginSend, EnterGet, GetHits, MayBegin, app
  <2>2. CASE GetMisses
    BY <1>e, <2>2 DEF GetMisses, app
  <2>3. CASE SendOnSocket
    <3>1. /\ UNCHANGED <<asked, sock>> /\ answered' \in {answered, answered \cup {sock[tx.fd]}}
          /\ tx.at = "sending" /\ tx'.at = "removing" /\ tx'.fd = tx.fd
      BY <1>a, <2>3 DEF SendOnSocket, TxType, Threads, app
    <3>2. tx.fd \in Fds /\ sock[tx.fd] = tx.client /\ tx.client \in asked /\ sock[tx.fd] # None
      BY <1>a, <3>1, NoneAssumption DEF TxType, Sending, Owners, HoldInv, AskedInv
    <3>3. \A f \in Fds : sock[f] \in answered' => f = tx.fd
      BY <3>1, <3>2 DEF AnsweredInv, OneSocket
    <3> QED
      BY <3>1, <3>2, <3>3 DEF AnsweredInv
  <2>4. CASE RemoveSocket
    <3>1. /\ UNCHANGED <<asked, answered>> /\ tx.at = "removing"
          /\ socketCache_' = Erase(socketCache_, {tx.client}) /\ CloseReleased(socketCache_', Idle)
      BY <2>4 DEF RemoveSocket, app
    <3>2. tx.fd \in Fds /\ sock[tx.fd] = tx.client
      BY <1>a, <3>1 DEF TxType, Sending, Owners, HoldInv
    <3>3. tx.fd \notin CachedFds(socketCache_')
      BY <3>1, <3>2 DEF CachedFds, Erase, Keep, Owners, CacheInv
    <3>4. tx.fd # None
      BY <3>2, NoneAssumption
    <3>5. sock'[tx.fd] = None
      BY <3>1, <3>2, <3>3, <3>4 DEF CloseReleased, Idle
    <3>6. \A f \in Fds : sock'[f] = sock[f] \/ sock'[f] = None
      BY <1>a, <3>1, Closing
    <3> QED
      BY <1>b, <3>1, <3>5, <3>6 DEF AnsweredInv
  <2> QED
    BY <1>3, <2>1, <2>2, <2>3, <2>4 DEF SendMessage, SendStep
<1>4. CASE AppSteps
  BY <1>d, <1>4 DEF AppSteps, GetNextReceivedMessage, QueueMessageToSend
<1>5. CASE CtlSteps
  BY <1>d, <1>e, <1>5 DEF CtlSteps, Start, Stop, BeginStop, StopStep, ClearSockets, ClearReceived,
                          ClearToSend, EndStop, app
<1>6. CASE UNCHANGED vars
  BY <1>d, <1>6 DEF vars, app
<1> QED
  BY <1>1, <1>2, <1>3, <1>4, <1>5, <1>6, StepCases

LEMMA LoopStep == Types /\ LoopInv /\ [Next]_vars => LoopInv'
<1> SUFFICES ASSUME Types, LoopInv, [Next]_vars PROVE LoopInv'
  OBVIOUS
<1>a. ASSUME UNCHANGED <<oneLoop, running_, ctl>>,
             DOMAIN socketCache_' \subseteq DOMAIN socketCache_,
             rx'.at = "idle" \/ (rx.at # "idle" /\ rx'.at # "idle"),
             tx'.at = "idle" \/ (tx.at # "idle" /\ tx'.at # "idle")
      PROVE  LoopInv'
  BY <1>a DEF LoopInv
<1>1. CASE OutsideStep
  BY <1>a, <1>1 DEF OutsideStep, Tick, Connect, Arrive
<1>2. CASE ReceiveMessage
  <2>1. CASE BeginReceive
    BY <2>1 DEF BeginReceive, MayBegin, Idle, LoopInv
  <2>2. CASE AcceptConnection
    BY <1>a, <2>2 DEF AcceptConnection, Idle
  <2>3. CASE Recv \/ BufferReceived \/ EnterPut
    BY <1>a, <2>3 DEF Recv, BufferReceived, EnterPut, Idle, Types, RxType, Threads
  <2>4. CASE PutSocket
    BY <2>4 DEF PutSocket, Idle, LoopInv
  <2> QED
    BY <1>2, <2>1, <2>2, <2>3, <2>4 DEF ReceiveMessage, ReceiveStep
<1>3. CASE SendMessage
  <2>1. CASE BeginSend
    BY <2>1 DEF BeginSend, MayBegin, Idle, LoopInv
  <2>2. CASE EnterGet \/ GetHits \/ SendOnSocket
    BY <1>a, <2>2 DEF EnterGet, GetHits, SendOnSocket, Types, TxType, Threads
  <2>3. CASE GetMisses \/ RemoveSocket
    <3>1. DOMAIN socketCache_' \subseteq DOMAIN socketCache_
      <4>1. socketCache_' = Erase(socketCache_, {tx.client})
        BY <2>3, LookupErases DEF GetMisses, RemoveSocket
      <4> QED
        BY <4>1 DEF Erase, Keep
    <3> QED
      BY <1>a, <2>3, <3>1 DEF GetMisses, RemoveSocket, Idle
  <2> QED
    BY <1>3, <2>1, <2>2, <2>3 DEF SendMessage, SendStep
<1>4. CASE AppSteps
  BY <1>a, <1>4 DEF AppSteps, GetNextReceivedMessage, QueueMessageToSend
<1>5. CASE CtlSteps
  <2>1. CASE Start
    BY <2>1 DEF Start, MayBegin, LoopInv
  <2>2. CASE BeginStop
    BY <2>2 DEF BeginStop, MayBegin, LoopInv
  <2>3. CASE ClearSockets
    BY <2>3, EmptyHoldsNone DEF ClearSockets, LoopInv
  <2>4. CASE ClearReceived \/ ClearToSend \/ EndStop
    <3>1. UNCHANGED <<oneLoop, socketCache_, rx, tx>> /\ ctl \notin {"idle", "clearing"}
      BY <2>4 DEF ClearReceived, ClearToSend, EndStop
    <3>2. \/ running_' = running_ /\ ctl' \in {"emptying send", "stopping"}
          \/ ctl' = "idle"
      BY <2>4 DEF ClearReceived, ClearToSend, EndStop
    <3> QED
      BY <3>1, <3>2 DEF LoopInv
  <2> QED
    BY <1>5, <2>1, <2>2, <2>3, <2>4 DEF CtlSteps, Stop, StopStep
<1>6. CASE UNCHANGED vars
  BY <1>a, <1>6 DEF vars
<1> QED
  BY <1>1, <1>2, <1>3, <1>4, <1>5, <1>6, StepCases

-----------------------------------------------------------------------------
(***************************************************************************)
(* The invariant, and what it says of the specification.                   *)
(***************************************************************************)

LEMMA IInvInit == Init => IInv
<1> SUFFICES ASSUME Init PROVE IInv
  OBVIOUS
<1>1. /\ 0 \in 0 .. LastTick /\ Len(<<>>) <= Backlog /\ Len(<<>>) <= MaxAnswers
      /\ <<>> \in Seq(Clients)
  BY ServerAssumption
<1>2. oneLoop \in BOOLEAN
  BY ServerAssumption DEF Init
<1>3. FieldTypes /\ QueueTypes /\ SockType
  BY <1>1, <1>2 DEF Init, FieldTypes, QueueTypes, SockType
<1>4. RxType /\ TxType /\ CtlType
  BY DEF Init, RxType, TxType, CtlType, Idle, Threads, RxPlaces, TxPlaces, CtlPlaces, Busy, Sending
<1>5. OneSocket
  BY EmptySeqHasNone DEF Init, OneSocket, Distinct
<1>6. DOMAIN socketCache_ = {} /\ OpenFds = {}
  BY EmptyHoldsNone DEF Init, OpenFds
<1>7. Owners
  BY <1>6 DEF Init, Owners, CacheInv, HoldInv, NoSocketLost, Idle, Busy, Sending
<1>8. TakenInv /\ AskedInv /\ AnsweredInv
  BY EmptySeqHasNone DEF Init, TakenInv, Taken, AskedInv, AnsweredInv, Idle, Busy
<1>9. LoopInv
  BY <1>6 DEF Init, LoopInv, Idle
<1> QED
  BY <1>3, <1>4, <1>5, <1>7, <1>8, <1>9 DEF IInv, Types, Ownership, Owners, Answers

LEMMA IInvStep == IInv /\ [Next]_vars => IInv'
<1> SUFFICES ASSUME IInv, [Next]_vars PROVE IInv'
  OBVIOUS
<1>1. Types'
  BY FieldStep, QueueStep, SockStep, RxStep, TxStep, CtlStep DEF IInv, Types, Ownership
<1>2. Ownership'
  BY <1>1, OneSocketStep, OwnersStep DEF IInv, Ownership, Owners
<1>3. Answers'
  BY TakenStep, AskedStep, AnsweredStep DEF IInv, Ownership, Owners, Answers
<1> QED
  BY <1>1, <1>2, <1>3, LoopStep DEF IInv

LEMMA IInvAlways == Spec => []IInv
BY IInvInit, IInvStep, PTL DEF Spec

\* Every variable of the server stays in the range its C++ type and use give it,
\* and the cache holds only sockets that are open.
THEOREM TypeCorrect == Spec => []TypeOK
<1>1. IInv => TypeOK
  <2> SUFFICES ASSUME IInv PROVE TypeOK
    OBVIOUS
  <2>1. CachedFds(socketCache_) \subseteq OpenFds
    BY NoneAssumption DEF IInv, Ownership, CacheInv, CachedFds, OpenFds
  <2>2. DOMAIN socketCache_ \subseteq Clients
    BY DEF IInv, Ownership, CacheInv
  <2>3. answered \subseteq Clients
    BY DEF IInv, Answers, AnsweredInv, Types, FieldTypes
  <2> QED
    BY <2>1, <2>2, <2>3 DEF IInv, Types, FieldTypes, QueueTypes, SockType, RxType, TxType, CtlType,
                            TypeOK
<1> QED
  BY <1>1, IInvAlways, PTL

\* The number SendMessage() sends on is connected to the client that asked, even
\* while Stop() empties the cache and ReceiveMessage() is given new numbers.
THEOREM AnswersReachAskers == Spec => []AnswerReachesAsker
<1>1. IInv => AnswerReachesAsker
  BY DEF IInv, Ownership, HoldInv, AnswerReachesAsker, Sending
<1> QED
  BY <1>1, IInvAlways, PTL

\* Every open connection has an owner that will close it.
THEOREM NoSocketEverLost == Spec => []NoSocketLost
<1>1. IInv => NoSocketLost
  BY DEF IInv, Ownership
<1> QED
  BY <1>1, IInvAlways, PTL

\* With one loop, a server that has stopped has closed every connection.
THEOREM StoppedNeverHoldsSocket == Spec => []StoppedHoldsNoSocket
<1>1. IInv => StoppedHoldsNoSocket
  <2> SUFFICES ASSUME IInv, oneLoop, ~running_ PROVE OpenFds = {}
    BY DEF StoppedHoldsNoSocket
  <2>1. rx.at = "idle" /\ tx.at = "idle" /\ DOMAIN socketCache_ = {}
    BY DEF IInv, LoopInv
  <2>2. rx.fd = None /\ tx.fd = None
    BY <2>1 DEF IInv, Types, RxType, TxType, Busy, Sending
  <2> QED
    BY <2>1, <2>2, NoneAssumption DEF IInv, Ownership, NoSocketLost, CachedFds, OpenFds
<1> QED
  BY <1>1, IInvAlways, PTL

\* No client is sent two answers, however often the application answers it: what
\* was answered is closed before SendMessage() looks for a socket again.
THEOREM NeverAnsweredTwice == Spec => AnsweredOnce
<1>1. IInv => \A c \in Clients : tx.at = "sending" /\ tx.client = c => c \notin answered
  <2> SUFFICES ASSUME IInv, tx.at = "sending" PROVE tx.client \notin answered
    OBVIOUS
  <2>1. tx.fd \in Fds /\ sock[tx.fd] = tx.client
    BY DEF IInv, Types, TxType, Ownership, HoldInv, Sending
  <2> QED
    BY <2>1 DEF IInv, Answers, AnsweredInv
<1>2. IInv => [\A c \in Clients : tx.at = "sending" /\ tx.client = c /\ tx' # tx
                                    => c \notin answered]_vars
  BY <1>1
<1> QED
  BY <1>2, IInvAlways, PTL DEF AnsweredOnce

-----------------------------------------------------------------------------
(***************************************************************************)
(* Two threads inside the cache, and an answer that is dropped.            *)
(***************************************************************************)

LEMMA TwoAreTwo ==
  ASSUME NEW a \in InsideCache, NEW b \in InsideCache, a # b PROVE ~Defined
<1>1. IsFiniteSet({"rx", "tx", "ctl"})
  <2>1. IsFiniteSet({"rx"})
    BY FS_Singleton
  <2>2. IsFiniteSet({"rx"} \cup {"tx"})
    BY <2>1, FS_AddElement
  <2>3. IsFiniteSet(({"rx"} \cup {"tx"}) \cup {"ctl"})
    BY <2>2, FS_AddElement
  <2>4. {"rx", "tx", "ctl"} = ({"rx"} \cup {"tx"}) \cup {"ctl"}
    OBVIOUS
  <2> QED
    BY <2>3, <2>4
<1>2. IsFiniteSet(InsideCache)
  BY <1>1, FS_Subset DEF InsideCache
<1>3. Cardinality({a} \cup {b}) = 2
  <2>1. IsFiniteSet({a}) /\ Cardinality({a}) = 1 /\ b \notin {a}
    BY FS_Singleton
  <2> QED
    BY <2>1, FS_AddElement
<1>4. Cardinality({a} \cup {b}) <= Cardinality(InsideCache)
  BY <1>2, FS_Subset
<1>5. Cardinality(InsideCache) \in Nat
  BY <1>2, FS_CardinalityType
<1> QED
  BY <1>3, <1>4, <1>5 DEF Defined

LEMMA OneIsDefined ==
  ASSUME NEW a, InsideCache \subseteq {a} PROVE Defined
<1>1. InsideCache = {} \/ InsideCache = {a}
  OBVIOUS
<1>2. Cardinality({}) = 0 /\ Cardinality({a}) = 1
  BY FS_EmptySet, FS_Singleton
<1> QED
  BY <1>1, <1>2 DEF Defined

\* With one loop no two threads are inside the cache: it needs no mutex there.
THEOREM OneLoopIsDefined == Spec => [](oneLoop => Defined)
<1>1. IInv => (oneLoop => Defined)
  <2> SUFFICES ASSUME IInv, oneLoop PROVE Defined
    OBVIOUS
  <2>1. /\ rx.at = "idle" \/ tx.at = "idle"
        /\ (rx.at = "idle" /\ tx.at = "idle") \/ ctl = "idle"
    BY DEF IInv, LoopInv
  <2>2. \/ InsideCache \subseteq {"rx"} \/ InsideCache \subseteq {"tx"}
        \/ InsideCache \subseteq {"ctl"}
    BY <2>1 DEF InsideCache
  <2> QED
    BY <2>2, OneIsDefined
<1> QED
  BY <1>1, IInvAlways, PTL

\* An answer that finds no socket although its client is connected either came
\* too late or, with loops of its own, before the socket was cached.
THEOREM AvailableIsAlwaysSent == Spec => AvailableIsSent
<1> DEFINE Dropped ==
      tx.at = "getting" /\ tx'.at = "idle" /\ (\E f \in Fds : sock[f] = tx.client)
    Excused ==
      \/ \E g \in DOMAIN socketCache_ : g = tx.client /\ Expired(socketCache_[g], now)
      \/ ~oneLoop /\ rx.client = tx.client /\ rx.at = "buffered"
<1>1. ASSUME IInv, [Next]_vars, Dropped PROVE Excused
  <2>1. Defined /\ GetMisses
    <3>1. tx' # tx
      BY <1>1
    <3>2. OutsideStep \/ ReceiveMessage \/ AppSteps \/ CtlSteps \/ UNCHANGED vars => tx' = tx
      BY DEF OutsideStep, Tick, Connect, Arrive, ReceiveMessage, BeginReceive, ReceiveStep,
             AcceptConnection, Recv, BufferReceived, EnterPut, PutSocket, AppSteps,
             GetNextReceivedMessage, QueueMessageToSend, CtlSteps, Start, Stop, BeginStop, StopStep,
             ClearSockets, ClearReceived, ClearToSend, EndStop, vars
    <3>3. SendMessage /\ Defined
      BY <1>1, <3>1, <3>2, StepCases DEF Next, vars
    <3>4. ~(BeginSend \/ EnterGet \/ GetHits \/ SendOnSocket \/ RemoveSocket)
      BY <1>1 DEF IInv, Types, TxType, Threads, BeginSend, MayBegin, EnterGet, GetHits,
                  SendOnSocket, RemoveSocket
    <3> QED
      BY <3>3, <3>4 DEF SendMessage, SendStep
  <2>2. PICK f \in Fds : sock[f] = tx.client
    BY <1>1
  <2>3. tx.client \in Taken /\ tx.client # None /\ tx.fd = None
    BY <1>1, NoneAssumption
    DEF IInv, Types, FieldTypes, TxType, Sending, Answers, AskedInv, Taken
  <2>4. f \in CachedFds(socketCache_) \/ f = rx.fd
    BY <1>1, <2>2, <2>3, NoneAssumption DEF IInv, Ownership, NoSocketLost, OpenFds
  <2>5. CASE f \in CachedFds(socketCache_)
    <3>1. PICK g \in DOMAIN socketCache_ : socketCache_[g].value = f
      BY <2>5 DEF CachedFds
    <3>2. g = tx.client
      BY <1>1, <2>2, <3>1 DEF IInv, Ownership, CacheInv
    <3>3. Expired(socketCache_[g], now)
      BY <2>1, <3>2 DEF GetMisses, Found, Live
    <3> QED
      BY <3>2, <3>3
  <2>6. CASE f = rx.fd
    <3>1. rx.at \in Busy /\ rx.client = tx.client
      BY <1>1, <2>2, <2>6, NoneAssumption DEF IInv, Types, RxType, Ownership, HoldInv
    <3>2. rx.at \notin {"accepted", "read"}
      BY <1>1, <2>3, <3>1 DEF IInv, Answers, TakenInv
    <3>3. rx.at # "putting"
      <4>1. "tx" \in InsideCache /\ (rx.at = "putting" => "rx" \in InsideCache)
        BY <1>1 DEF InsideCache
      <4> QED
        BY <2>1, <4>1, TwoAreTwo
    <3>4. ~oneLoop
      BY <1>1, <3>1 DEF IInv, LoopInv, Busy
    <3> QED
      BY <3>1, <3>2, <3>3, <3>4 DEF Busy
  <2> QED
    BY <2>4, <2>5, <2>6
<1>2. IInv /\ [Next]_vars
        => [tx.at = "getting" /\ tx'.at = "idle" /\ (\E f \in Fds : sock[f] = tx.client)
              => \/ \E g \in DOMAIN socketCache_ : g = tx.client /\ Expired(socketCache_[g], now)
                 \/ ~oneLoop /\ rx.client = tx.client /\ rx.at = "buffered"]_vars
  BY <1>1
<1> QED
  BY <1>2, IInvAlways, PTL DEF AvailableIsSent, Spec
================================================================================
