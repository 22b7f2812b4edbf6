------------------------------ MODULE TcpServer ------------------------------
(***************************************************************************)
(* EspidfTcpServer: a message is read from each connection, handed to the  *)
(* application through a buffer, and answered, if the application answers  *)
(* within the socket cache's time-to-live, on the connection it came from. *)
(*                                                                         *)
(* ReceiveMessage(), SendMessage() and the lifecycle methods are called    *)
(* from loops and threads outside the class; oneLoop says whether one      *)
(* thread makes all these calls.  The buffers have mutexes and each use of *)
(* one is a step.  The socket cache has none: a thread is inside it for    *)
(* the length of a call, and two threads inside at once make the behaviour *)
(* undefined, where the model stops.                                       *)
(***************************************************************************)
EXTENDS CacheOps, Sequences, FiniteSets

CONSTANTS
  Clients,    \* each sends one message and wants one answer
  Fds,        \* socket numbers the network stack has for connections
  Backlog,    \* connections that may wait to be accepted
  SocketTtl,  \* time-to-live of a cached socket
  MaxAnswers, \* answers the application may have queued at once
  LastTick,   \* the run of the clock that is looked at
  OneLoop     \* whether one thread makes all calls below, or not, or either

ASSUME ServerAssumption ==
  /\ IsFiniteSet(Fds)
  /\ {Backlog, SocketTtl, MaxAnswers, LastTick} \subseteq Nat
  /\ OneLoop \subseteq BOOLEAN

None == "none"
ASSUME NoneAssumption == None \notin Clients \cup Fds

VARIABLES
  now,
  oneLoop,
  running_,
  listening,      \* serverSock_ is an open socket
  backlog,        \* connections the stack holds for accept()
  arrived,        \* clients whose message has reached this host
  sock,           \* the client each open socket number is connected to
  socketCache_,   \* by GUID; a message's GUID stands for the client that sent it
  receiveBuffer_, sendBuffer_,
  asked,          \* messages the application has taken and may answer
  rx, tx, ctl,    \* the three loops: where each is in its method
  answered        \* clients that were sent an answer

net == <<listening, backlog, arrived>>
app == <<receiveBuffer_, sendBuffer_, asked>>
vars == <<now, oneLoop, running_, net, sock, socketCache_, app, rx, tx, ctl, answered>>

Idle == [at |-> "idle", client |-> None, fd |-> None]

Init ==
  /\ now = 0
  /\ oneLoop \in OneLoop
  /\ running_ = FALSE /\ listening = FALSE
  /\ backlog = <<>> /\ arrived = {}
  /\ sock = [f \in Fds |-> None]
  /\ socketCache_ = Empty
  /\ receiveBuffer_ = <<>> /\ sendBuffer_ = <<>> /\ asked = {}
  /\ rx = Idle /\ tx = Idle /\ ctl = "idle"
  /\ answered = {}

-----------------------------------------------------------------------------
InSeq(x, s) == \E i \in 1 .. Len(s) : s[i] = x

OpenFds == {f \in Fds : sock[f] # None}

CachedFds(cache) == {cache[g].value : g \in DOMAIN cache}

InsideCache ==
  {t \in {"rx", "tx", "ctl"} :
     \/ t = "rx" /\ rx.at = "putting"
     \/ t = "tx" /\ tx.at \in {"getting", "removing"}
     \/ t = "ctl" /\ ctl = "clearing"}

Defined == Cardinality(InsideCache) <= 1

\* A thread begins a method when it is in none.
MayBegin(thread) ==
  /\ thread = "rx" \/ oneLoop => rx.at = "idle"
  /\ thread = "tx" \/ oneLoop => tx.at = "idle"
  /\ thread = "ctl" \/ oneLoop => ctl = "idle"

\* The cache alone owns a socket; SendMessage() keeps a bare number
\* (a faulty CloseReleased).
CloseUncached(cache, sender) ==
  sock' = [f \in Fds |->
             IF f \in CachedFds(socketCache_) /\ f \notin CachedFds(cache)
             THEN None ELSE sock[f]]

\* A cached socket belongs to its entry and to a SendMessage() that looked it up;
\* the last of them to go closes it.
CloseReleased(cache, sender) ==
  sock' = [f \in Fds |->
             IF f \in CachedFds(socketCache_) \cup {tx.fd}
                /\ f \notin CachedFds(cache) \cup {sender.fd}
             THEN None ELSE sock[f]]

-----------------------------------------------------------------------------
(***************************************************************************)
(* Faulty variants, each substituted for its original to show that a       *)
(* property depends on it.                                                 *)
(***************************************************************************)

\* A connection with nothing to read is abandoned without closing it.
RecvLeaks ==
  /\ rx.at = "accepted"
  /\ \/ /\ rx.client \in arrived
        /\ rx' = [rx EXCEPT !.at = "read"]
     \/ rx' = Idle
  /\ UNCHANGED <<now, oneLoop, running_, net, sock, socketCache_, app, tx, ctl, answered>>

\* The read closes the connection whether or not it succeeds.
RecvCloses ==
  /\ rx.at = "accepted"
  /\ \/ rx.client \in arrived /\ rx' = [rx EXCEPT !.at = "read"]
     \/ rx' = Idle
  /\ sock' = [sock EXCEPT ![rx.fd] = None]
  /\ UNCHANGED <<now, oneLoop, running_, net, socketCache_, app, tx, ctl, answered>>

\* The socket is cached under a GUID of its own, not under the message's.
PutMiskeyed ==
  /\ rx.at = "putting"
  /\ socketCache_' = Put(socketCache_, None, rx.fd, SocketTtl, now)
  /\ rx' = Idle
  /\ UNCHANGED <<now, oneLoop, running_, net, sock, app, tx, ctl, answered>>

\* A socket stays in the cache after it was answered on.
RemoveForgotten ==
  /\ tx.at = "removing"
  /\ tx' = Idle
  /\ CloseReleased(socketCache_, Idle)
  /\ UNCHANGED <<now, oneLoop, running_, net, socketCache_, app, rx, ctl, answered>>

\* Stop() leaves the cached sockets to expire.
ClearForgotten ==
  /\ ctl = "clearing"
  /\ ctl' = "emptying receive"
  /\ UNCHANGED <<now, oneLoop, running_, net, sock, socketCache_, app, rx, tx, answered>>

-----------------------------------------------------------------------------
(***************************************************************************)
(* The network and the clock.                                              *)
(***************************************************************************)

Connect(c) ==
  /\ listening /\ Len(backlog) < Backlog
  /\ c \notin arrived /\ ~InSeq(c, backlog) /\ \A f \in Fds : sock[f] # c
  /\ backlog' = Append(backlog, c)
  /\ UNCHANGED <<now, oneLoop, running_, listening, arrived, sock, socketCache_, app, rx, tx, ctl,
                 answered>>

\* A message may arrive with the connection or later, accepted or not.
Arrive(c) ==
  /\ c \notin arrived
  /\ InSeq(c, backlog) \/ \E f \in Fds : sock[f] = c
  /\ arrived' = arrived \cup {c}
  /\ UNCHANGED <<now, oneLoop, running_, listening, backlog, sock, socketCache_, app, rx, tx, ctl,
                 answered>>

Tick ==
  /\ now < LastTick
  /\ now' = now + 1
  /\ UNCHANGED <<oneLoop, running_, net, sock, socketCache_, app, rx, tx, ctl, answered>>

-----------------------------------------------------------------------------
(***************************************************************************)
(* ReceiveMessage().                                                       *)
(***************************************************************************)

BeginReceive ==
  /\ MayBegin("rx")
  /\ running_
  /\ rx' = [Idle EXCEPT !.at = "accepting"]
  /\ UNCHANGED <<now, oneLoop, running_, net, sock, socketCache_, app, tx, ctl, answered>>

\* Without a free socket number the stack drops the connection it accepted.
AcceptConnection ==
  /\ rx.at = "accepting"
  /\ \/ /\ ~listening \/ backlog = <<>>
        /\ rx' = Idle
        /\ UNCHANGED <<backlog, sock>>
     \/ /\ listening /\ backlog # <<>>
        /\ backlog' = Tail(backlog)
        /\ \/ OpenFds = Fds /\ rx' = Idle /\ UNCHANGED sock
           \/ \E f \in Fds \ OpenFds :
                /\ rx' = [at |-> "accepted", client |-> Head(backlog), fd |-> f]
                /\ sock' = [sock EXCEPT ![f] = Head(backlog)]
  /\ UNCHANGED <<now, oneLoop, running_, listening, arrived, socketCache_, app, tx, ctl, answered>>

\* The read does not block: if the message is not there yet, or the peer is
\* gone, the connection is closed.
Recv ==
  /\ rx.at = "accepted"
  /\ \/ /\ rx.client \in arrived
        /\ rx' = [rx EXCEPT !.at = "read"]
        /\ UNCHANGED sock
     \/ /\ rx' = Idle
        /\ sock' = [sock EXCEPT ![rx.fd] = None]
  /\ UNCHANGED <<now, oneLoop, running_, net, socketCache_, app, tx, ctl, answered>>

BufferReceived ==
  /\ rx.at = "read"
  /\ receiveBuffer_' = Append(receiveBuffer_, rx.client)
  /\ rx' = [rx EXCEPT !.at = "buffered"]
  /\ UNCHANGED <<now, oneLoop, running_, net, sock, socketCache_, sendBuffer_, asked, tx, ctl,
                 answered>>

EnterPut ==
  /\ rx.at = "buffered"
  /\ rx' = [rx EXCEPT !.at = "putting"]
  /\ UNCHANGED <<now, oneLoop, running_, net, sock, socketCache_, app, tx, ctl, answered>>

PutSocket ==
  /\ rx.at = "putting"
  /\ socketCache_' = Put(socketCache_, rx.client, rx.fd, SocketTtl, now)
  /\ rx' = Idle
  /\ UNCHANGED <<now, oneLoop, running_, net, sock, app, tx, ctl, answered>>

ReceiveStep == AcceptConnection \/ Recv \/ BufferReceived \/ EnterPut \/ PutSocket

ReceiveMessage == BeginReceive \/ ReceiveStep

-----------------------------------------------------------------------------
(***************************************************************************)
(* SendMessage().                                                          *)
(***************************************************************************)

BeginSend ==
  /\ MayBegin("tx")
  /\ running_
  /\ sendBuffer_ # <<>>
  /\ tx' = [Idle EXCEPT !.at = "popped", !.client = Head(sendBuffer_)]
  /\ sendBuffer_' = Tail(sendBuffer_)
  /\ UNCHANGED <<now, oneLoop, running_, net, sock, socketCache_, receiveBuffer_, asked, rx,
                 ctl, answered>>

EnterGet ==
  /\ tx.at = "popped"
  /\ tx' = [tx EXCEPT !.at = "getting"]
  /\ UNCHANGED <<now, oneLoop, running_, net, sock, socketCache_, app, rx, ctl, answered>>

GetMisses ==
  /\ tx.at = "getting"
  /\ ~Found(socketCache_, tx.client, now)
  /\ tx' = Idle
  /\ socketCache_' = AfterLookup(socketCache_, tx.client, now)
  /\ CloseReleased(socketCache_', Idle)
  /\ UNCHANGED <<now, oneLoop, running_, net, app, rx, ctl, answered>>

GetHits ==
  /\ tx.at = "getting"
  /\ Found(socketCache_, tx.client, now)
  /\ tx' = [tx EXCEPT !.at = "sending", !.fd = socketCache_[tx.client].value]
  /\ UNCHANGED <<now, oneLoop, running_, net, sock, socketCache_, app, rx, ctl, answered>>

\* A send that fails, or would block, is treated as one that succeeded.
SendOnSocket ==
  /\ tx.at = "sending"
  /\ tx' = [tx EXCEPT !.at = "removing"]
  /\ answered' \in {answered, answered \cup {sock[tx.fd]}}
  /\ UNCHANGED <<now, oneLoop, running_, net, sock, socketCache_, app, rx, ctl>>

RemoveSocket ==
  /\ tx.at = "removing"
  /\ tx' = Idle
  /\ socketCache_' = Erase(socketCache_, {tx.client})
  /\ CloseReleased(socketCache_', Idle)
  /\ UNCHANGED <<now, oneLoop, running_, net, app, rx, ctl, answered>>

SendStep == EnterGet \/ GetMisses \/ GetHits \/ SendOnSocket \/ RemoveSocket

SendMessage == BeginSend \/ SendStep

-----------------------------------------------------------------------------
(***************************************************************************)
(* The application.                                                        *)
(***************************************************************************)

GetNextReceivedMessage ==
  /\ receiveBuffer_ # <<>>
  /\ asked' = asked \cup {Head(receiveBuffer_)}
  /\ receiveBuffer_' = Tail(receiveBuffer_)
  /\ UNCHANGED <<now, oneLoop, running_, net, sock, socketCache_, sendBuffer_, rx, tx, ctl,
                 answered>>

\* The application may answer a message more than once, late, or while the
\* server is stopped.
QueueMessageToSend(c) ==
  /\ c \in asked /\ Len(sendBuffer_) < MaxAnswers
  /\ sendBuffer_' = Append(sendBuffer_, c)
  /\ UNCHANGED <<now, oneLoop, running_, net, sock, socketCache_, receiveBuffer_, asked, rx, tx,
                 ctl, answered>>

-----------------------------------------------------------------------------
(***************************************************************************)
(* Start() and Stop().  A failed Start() changes nothing that is read      *)
(* before the next one.                                                    *)
(***************************************************************************)

Start ==
  /\ MayBegin("ctl")
  /\ ~running_
  /\ running_' = TRUE /\ listening' = TRUE
  /\ UNCHANGED <<now, oneLoop, backlog, arrived, sock, socketCache_, app, rx, tx, ctl, answered>>

BeginStop ==
  /\ MayBegin("ctl")
  /\ running_
  /\ listening' = FALSE /\ backlog' = <<>>
  /\ ctl' = "clearing"
  /\ UNCHANGED <<now, oneLoop, running_, arrived, sock, socketCache_, app, rx, tx, answered>>

ClearSockets ==
  /\ ctl = "clearing"
  /\ socketCache_' = Empty
  /\ CloseReleased(Empty, tx)
  /\ ctl' = "emptying receive"
  /\ UNCHANGED <<now, oneLoop, running_, net, app, rx, tx, answered>>

ClearReceived ==
  /\ ctl = "emptying receive"
  /\ receiveBuffer_' = <<>>
  /\ ctl' = "emptying send"
  /\ UNCHANGED <<now, oneLoop, running_, net, sock, socketCache_, sendBuffer_, asked, rx, tx,
                 answered>>

ClearToSend ==
  /\ ctl = "emptying send"
  /\ sendBuffer_' = <<>>
  /\ ctl' = "stopping"
  /\ UNCHANGED <<now, oneLoop, running_, net, sock, socketCache_, receiveBuffer_, asked, rx, tx,
                 answered>>

EndStop ==
  /\ ctl = "stopping"
  /\ running_' = FALSE
  /\ ctl' = "idle"
  /\ UNCHANGED <<now, oneLoop, net, sock, socketCache_, app, rx, tx, answered>>

StopStep == ClearSockets \/ ClearReceived \/ ClearToSend \/ EndStop

Stop == BeginStop \/ StopStep

-----------------------------------------------------------------------------
Next ==
  /\ Defined
  /\ \/ \E c \in Clients : Connect(c) \/ Arrive(c) \/ QueueMessageToSend(c)
     \/ Tick
     \/ ReceiveMessage \/ SendMessage \/ GetNextReceivedMessage
     \/ Start \/ Stop

\* The loops keep calling, the application keeps taking messages, the clock and
\* the network run on; nobody has to answer, connect, start or stop.
Fairness ==
  /\ WF_vars(Defined /\ ReceiveStep) /\ SF_vars(Defined /\ BeginReceive)
  /\ WF_vars(Defined /\ SendStep) /\ SF_vars(Defined /\ BeginSend)
  /\ WF_vars(Defined /\ GetNextReceivedMessage)
  /\ WF_vars(Defined /\ StopStep)
  /\ WF_vars(Defined /\ Tick)
  /\ \A c \in Clients : WF_vars(Defined /\ Arrive(c))

Spec == Init /\ [][Next]_vars

FairSpec == Spec /\ Fairness

-----------------------------------------------------------------------------
(***************************************************************************)
(* Properties.                                                             *)
(***************************************************************************)

RxPlaces == {"idle", "accepting", "accepted", "read", "buffered", "putting"}
TxPlaces == {"idle", "popped", "getting", "sending", "removing"}
CtlPlaces == {"idle", "clearing", "emptying receive", "emptying send", "stopping"}

Threads(places) == [at : places, client : Clients \cup {None}, fd : Fds \cup {None}]

\* Every variable stays in the range its C++ type and use give it.
TypeOK ==
  /\ now \in 0 .. LastTick
  /\ {running_, listening} \subseteq BOOLEAN
  /\ Len(backlog) <= Backlog /\ arrived \subseteq Clients
  /\ sock \in [Fds -> Clients \cup {None}]
  /\ DOMAIN socketCache_ \subseteq Clients
  /\ CachedFds(socketCache_) \subseteq OpenFds
  /\ asked \subseteq Clients /\ Len(sendBuffer_) <= MaxAnswers
  /\ rx \in Threads(RxPlaces) /\ tx \in Threads(TxPlaces) /\ ctl \in CtlPlaces
  /\ answered \subseteq Clients

\* An answer goes out on the connection its message came from: the socket number
\* SendMessage() holds still means that client, although the number may be given
\* to a new connection as soon as it is closed.
AnswerReachesAsker == tx.at = "sending" => sock[tx.fd] = tx.client

\* No client is sent two answers on one connection, however often the
\* application answers.
AnsweredOnce ==
  [][\A c \in Clients : tx.at = "sending" /\ tx.client = c /\ tx' # tx => c \notin answered]_vars

\* Every open connection has an owner that will close it: the cache, the
\* SendMessage() that looked it up or the ReceiveMessage() that accepted it.
NoSocketLost ==
  OpenFds \subseteq CachedFds(socketCache_) \cup {tx.fd, rx.fd}

\* With one loop, a server that has stopped has no client sockets ("Clear client
\* sockets"); a ReceiveMessage() on another thread may cache one after Stop().
StoppedHoldsNoSocket == oneLoop /\ ~running_ => OpenFds = {}

\* An answer whose client is still connected and whose time is not up is sent,
\* unless it overtakes the ReceiveMessage() that read the message and has not
\* yet cached the socket; with one loop it cannot.
AvailableIsSent ==
  [][tx.at = "getting" /\ tx'.at = "idle" /\ (\E f \in Fds : sock[f] = tx.client)
       => \/ \E g \in DOMAIN socketCache_ : g = tx.client /\ Expired(socketCache_[g], now)
          \/ ~oneLoop /\ rx.client = tx.client /\ rx.at = "buffered"]_vars

\* The socket of an entry that has expired is closed ("ensure cleanup on expiry").
ExpiredIsClosed ==
  \A c \in Clients :
    (Holds(socketCache_, c) /\ now > socketCache_[c].expiry)
      ~> (\A f \in Fds : sock[f] # c)
=============================================================================
