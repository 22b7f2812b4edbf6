----------------------------- MODULE MqttClient -----------------------------
(***************************************************************************)
(* EspidfMqttClient: a handle of the esp-mqtt library, created by every    *)
(* Connect() and destroyed by every Disconnect(), two flags the library's  *)
(* task sets through MqttEventHandler(), and buffers for messages in       *)
(* either direction.                                                       *)
(*                                                                         *)
(* Three threads meet here: the one that manages the connection, the one   *)
(* that calls SendMessage() in a loop, and the library's task.  The flags, *)
(* the handle and the configuration strings have no mutex, so each access  *)
(* another thread can fall between is a step.  OneLoop says whether one    *)
(* thread manages and sends.                                               *)
(*                                                                         *)
(* The library is modelled from its use: a started handle connects or      *)
(* fails, a connection breaks once and is not renewed                      *)
(* (disable_auto_reconnect), esp_mqtt_client_stop() returns when no        *)
(* handler runs and none will, and the handle keeps pointers into the      *)
(* strings it was configured with.                                         *)
(***************************************************************************)
EXTENDS Integers, Sequences, FiniteSets

CONSTANTS
  Attempts,  \* how many times Connect() gets to the library
  WaitTurns, \* turns of the loop in WaitForConnection() before it times out
  Outgoing,  \* messages the application may queue, each once
  Incoming,  \* messages the broker may deliver, each once
  Topics,
  OneLoop    \* SendMessage() shares the thread of the connection's methods

ASSUME ClientAssumption ==
  /\ Attempts \in Nat \ {0}
  /\ WaitTurns \in Nat
  /\ OneLoop \in BOOLEAN

None == "none"
ASSUME NoneAssumption == None \notin Outgoing

VARIABLES
  client,   \* the handle: the number of the attempt that made it, or 0
  running,
  connectAttemptFailed_,
  strings,  \* the attempt the configuration strings were set for, 0 if cleared
  attempt,  \* how many attempts there were
  alive,    \* handles that are initialised and not destroyed
  session,  \* what became of each handle's connection
  subscribed,     \* topics the broker delivers
  handler,        \* where the library's task is in MqttEventHandler()
  ctl,            \* where the managing thread is, and where Disconnect() returns
  waited,
  tx,             \* where the sending thread is, and with what
  sendBuffer_, receiveBuffer_,
  queued, arrived, \* messages that were queued, and delivered
  sent             \* messages the library took to a connection

flags == <<running, connectAttemptFailed_>>
library == <<alive, session, subscribed>>
messages == <<sendBuffer_, receiveBuffer_, queued, arrived, sent>>
vars == <<client, flags, strings, attempt, library, handler, ctl, waited, tx, messages>>

Handles == 1 .. Attempts

Sessions == {"none", "connecting", "up", "failing", "down", "stopped"}

TxIdle == [at |-> "idle", msg |-> None, via |-> 0]

Init ==
  /\ client = 0 /\ running = FALSE /\ connectAttemptFailed_ = FALSE
  /\ strings = 0 /\ attempt = 0
  /\ alive = {} /\ session = [h \in Handles |-> "none"] /\ subscribed = {}
  /\ handler = "idle" /\ ctl = [at |-> "idle", then |-> "idle"] /\ waited = 0
  /\ tx = TxIdle
  /\ sendBuffer_ = <<>> /\ receiveBuffer_ = [t \in Topics |-> <<>>]
  /\ queued = {} /\ arrived = {} /\ sent = {}

\* Publishing on a handle that was destroyed is undefined; the model stops.
HandleInUseIsAlive == tx.at = "publishing" => tx.via \in alive \cup {0}

MayManage == OneLoop => tx.at = "idle"
MaySend == tx.at = "idle" /\ (OneLoop => ctl.at = "idle")

Goto(from, to) ==
  /\ ctl.at = from
  /\ ctl' = [ctl EXCEPT !.at = to]

\* Calls Disconnect(), to go on at `then' when it returns.
CallDisconnectFrom(from, then) ==
  /\ ctl.at = from
  /\ ctl' = [at |-> "disconnect", then |-> then]

Return(from) ==
  /\ ctl.at = from
  /\ ctl' = [ctl EXCEPT !.at = ctl.then]

-----------------------------------------------------------------------------
(***************************************************************************)
(* Faulty variants, each substituted for its original to show that a       *)
(* property depends on it.                                                 *)
(***************************************************************************)

\* The flag of an earlier attempt is not reset.
PrepareKeepsFailure ==
  /\ attempt < Attempts
  /\ Goto("prepare", "init")
  /\ attempt' = attempt + 1
  /\ strings' = attempt'
  /\ UNCHANGED <<client, flags, library, handler, waited, tx, messages>>

\* Connect() does not dispose of the handle of a connection that broke.
CheckConnectedOnly ==
  /\ IF running THEN Goto("connect", "idle") ELSE Goto("connect", "prepare")
  /\ UNCHANGED <<client, flags, strings, attempt, library, handler, waited, tx, messages>>

\* A handle that could not be started is forgotten but not destroyed.
AbandonLeaks ==
  /\ Goto("abandon", "unset")
  /\ UNCHANGED <<client, flags, strings, attempt, library, handler, waited, tx, messages>>

\* Disconnect() disposes of the handle and leaves the flag.
ResetKeepsRunning ==
  /\ Return("reset")
  /\ strings' = 0
  /\ UNCHANGED <<client, flags, attempt, library, handler, waited, tx, messages>>

\* The loop of WaitForConnection() does not count its turns.
WaitTurnUncounted ==
  /\ ~connectAttemptFailed_
  /\ Goto("wait failed", "wait")
  /\ UNCHANGED <<client, flags, strings, attempt, library, handler, waited, tx, messages>>

\* WaitForConnection() makes one turn too many.
WaitChecksRunningLate ==
  /\ IF running \/ waited > WaitTurns
     THEN Goto("wait", "idle")
     ELSE Goto("wait", "wait failed")
  /\ UNCHANGED <<client, flags, strings, attempt, library, handler, waited, tx, messages>>

-----------------------------------------------------------------------------
(***************************************************************************)
(* The library's task and MqttEventHandler().                              *)
(***************************************************************************)

\* MQTT_EVENT_CONNECTED: the flags are written one after the other.
ConnectedEvent ==
  /\ handler = "idle"
  /\ \E h \in Handles :
       /\ session[h] = "connecting"
       /\ session' = [session EXCEPT ![h] = "up"]
  /\ connectAttemptFailed_' = FALSE
  /\ handler' = "rising"
  /\ UNCHANGED <<client, running, strings, attempt, alive, subscribed, ctl, waited, tx, messages>>

EndConnectedEvent ==
  /\ handler = "rising"
  /\ running' = TRUE
  /\ handler' = "idle"
  /\ UNCHANGED <<client, connectAttemptFailed_, strings, attempt, library, ctl, waited, tx,
                 messages>>

\* MQTT_EVENT_ERROR, which MQTT_EVENT_DISCONNECTED follows, or that event alone.
BreakEvent ==
  /\ handler = "idle"
  /\ \E h \in Handles, to \in {"failing", "down"} :
       /\ session[h] \in {"connecting", "up", "failing"} /\ session[h] # to
       /\ session' = [session EXCEPT ![h] = to]
  /\ running' = FALSE
  /\ handler' = "falling"
  /\ UNCHANGED <<client, connectAttemptFailed_, strings, attempt, alive, subscribed, ctl, waited,
                 tx, messages>>

EndBreakEvent ==
  /\ handler = "falling"
  /\ connectAttemptFailed_' = TRUE
  /\ handler' = "idle"
  /\ UNCHANGED <<client, running, strings, attempt, library, ctl, waited, tx, messages>>

\* MQTT_EVENT_DATA.
DataEvent(t, m) ==
  /\ handler = "idle"
  /\ t \in subscribed /\ \E h \in Handles : session[h] = "up"
  /\ m \notin arrived
  /\ arrived' = arrived \cup {m}
  /\ receiveBuffer_' = [receiveBuffer_ EXCEPT ![t] = Append(@, m)]
  /\ UNCHANGED <<client, flags, strings, attempt, library, handler, ctl, waited, tx, sendBuffer_,
                 queued, sent>>

MqttEventHandler ==
  \/ ConnectedEvent \/ EndConnectedEvent
  \/ BreakEvent \/ EndBreakEvent
  \/ \E t \in Topics, m \in Incoming : DataEvent(t, m)

-----------------------------------------------------------------------------
(***************************************************************************)
(* Disconnect(), also as a part of Connect() and RefreshConnection().      *)
(***************************************************************************)

CheckClient ==
  /\ \/ /\ client = 0
        /\ Return("disconnect")
        /\ running' = FALSE /\ strings' = 0
     \/ /\ client # 0
        /\ Goto("disconnect", "stop")
        /\ UNCHANGED <<running, strings>>
  /\ UNCHANGED <<client, connectAttemptFailed_, attempt, library, handler, waited, tx, messages>>

StopClient ==
  /\ handler = "idle"
  /\ Goto("stop", "destroy")
  /\ session' = [session EXCEPT ![client] = "stopped"]
  /\ subscribed' = {}
  /\ UNCHANGED <<client, flags, strings, attempt, alive, handler, waited, tx, messages>>

DestroyClient ==
  /\ Goto("destroy", "forget")
  /\ alive' = alive \ {client}
  /\ UNCHANGED <<client, flags, strings, attempt, session, subscribed, handler, waited, tx,
                 messages>>

ForgetClient ==
  /\ Goto("forget", "reset")
  /\ client' = 0
  /\ UNCHANGED <<flags, strings, attempt, library, handler, waited, tx, messages>>

Reset ==
  /\ Return("reset")
  /\ running' = FALSE /\ strings' = 0
  /\ UNCHANGED <<client, connectAttemptFailed_, attempt, library, handler, waited, tx, messages>>

Disconnect == CheckClient \/ StopClient \/ DestroyClient \/ ForgetClient \/ Reset

-----------------------------------------------------------------------------
(***************************************************************************)
(* Connect() and RefreshConnection().                                      *)
(***************************************************************************)

CheckConnected ==
  /\ \/ running /\ Goto("connect", "idle")
     \/ ~running /\ client = 0 /\ Goto("connect", "prepare")
     \/ ~running /\ client # 0 /\ CallDisconnectFrom("connect", "prepare")
  /\ UNCHANGED <<client, flags, strings, attempt, library, handler, waited, tx, messages>>

Prepare ==
  /\ attempt < Attempts
  /\ Goto("prepare", "init")
  /\ attempt' = attempt + 1
  /\ strings' = attempt'
  /\ connectAttemptFailed_' = FALSE
  /\ UNCHANGED <<client, running, library, handler, waited, tx, messages>>

InitClient ==
  /\ \/ /\ Goto("init", "start")
        /\ client' = attempt
        /\ alive' = alive \cup {attempt}
     \/ /\ Goto("init", "idle")
        /\ client' = 0
        /\ UNCHANGED alive
  /\ UNCHANGED <<flags, strings, attempt, session, subscribed, handler, waited, tx, messages>>

StartClient ==
  /\ \/ /\ Goto("start", "idle")
        /\ session' = [session EXCEPT ![client] = "connecting"]
     \/ /\ Goto("start", "abandon")
        /\ UNCHANGED session
  /\ UNCHANGED <<client, flags, strings, attempt, alive, subscribed, handler, waited, tx, messages>>

Abandon ==
  /\ Goto("abandon", "unset")
  /\ alive' = alive \ {client}
  /\ UNCHANGED <<client, flags, strings, attempt, session, subscribed, handler, waited, tx,
                 messages>>

Unset ==
  /\ Goto("unset", "idle")
  /\ client' = 0
  /\ UNCHANGED <<flags, strings, attempt, library, handler, waited, tx, messages>>

Connect == CheckConnected \/ Prepare \/ InitClient \/ StartClient \/ Abandon \/ Unset

-----------------------------------------------------------------------------
(***************************************************************************)
(* WaitForConnection() reads the flags in turn, `running' first.           *)
(***************************************************************************)

WaitChecksRunning ==
  /\ IF running \/ waited = WaitTurns
     THEN Goto("wait", "idle")
     ELSE Goto("wait", "wait failed")
  /\ UNCHANGED <<client, flags, strings, attempt, library, handler, waited, tx, messages>>

WaitChecksFailed ==
  /\ connectAttemptFailed_
  /\ Goto("wait failed", "idle")
  /\ UNCHANGED <<client, flags, strings, attempt, library, handler, waited, tx, messages>>

WaitTurn ==
  /\ ~connectAttemptFailed_
  /\ Goto("wait failed", "wait")
  /\ waited' = waited + 1
  /\ UNCHANGED <<client, flags, strings, attempt, library, handler, tx, messages>>

WaitForConnection == WaitChecksRunning \/ WaitChecksFailed \/ WaitTurn

-----------------------------------------------------------------------------
\* The managing thread calls a method.
Call ==
  /\ MayManage
  /\ \/ Goto("idle", "connect") /\ attempt < Attempts
     \/ CallDisconnectFrom("idle", "idle")
     \/ CallDisconnectFrom("idle", "connect") /\ attempt < Attempts
     \/ Goto("idle", "wait")
  /\ waited' = 0
  /\ UNCHANGED <<client, flags, strings, attempt, library, handler, tx, messages>>

\* The broker takes a subscription while the connection is up; on a handle that
\* is gone or not connected the library refuses it.
Subscribe(t) ==
  /\ MayManage /\ ctl.at = "idle"
  /\ client # 0 /\ session[client] = "up"
  /\ subscribed' = subscribed \cup {t}
  /\ UNCHANGED <<client, flags, strings, attempt, alive, session, handler, ctl, waited, tx,
                 messages>>

Manage == Connect \/ Disconnect \/ WaitForConnection

-----------------------------------------------------------------------------
(***************************************************************************)
(* SendMessage(): the message is taken from the buffer before the handle   *)
(* is read again to publish it.                                            *)
(***************************************************************************)

TakeToSend ==
  /\ MaySend
  /\ running /\ client # 0
  /\ sendBuffer_ # <<>>
  /\ tx' = [at |-> "taken", msg |-> Head(sendBuffer_), via |-> 0]
  /\ sendBuffer_' = Tail(sendBuffer_)
  /\ UNCHANGED <<client, flags, strings, attempt, library, handler, ctl, waited, receiveBuffer_,
                 queued, arrived, sent>>

LoadClient ==
  /\ tx.at = "taken"
  /\ tx' = [tx EXCEPT !.at = "publishing", !.via = client]
  /\ UNCHANGED <<client, flags, strings, attempt, library, handler, ctl, waited, messages>>

\* The library refuses a null handle and may refuse for want of memory.
Publish ==
  /\ tx.at = "publishing"
  /\ tx' = TxIdle
  /\ \/ /\ tx.via \in alive /\ session[tx.via] = "up"
        /\ sent' = sent \cup {tx.msg}
     \/ UNCHANGED sent
  /\ UNCHANGED <<client, flags, strings, attempt, library, handler, ctl, waited, sendBuffer_,
                 receiveBuffer_, queued, arrived>>

SendMessage == TakeToSend \/ LoadClient \/ Publish

-----------------------------------------------------------------------------
(***************************************************************************)
(* The application's side of the buffers.                                  *)
(***************************************************************************)

QueueMessageToSend(m) ==
  /\ m \notin queued
  /\ queued' = queued \cup {m}
  /\ sendBuffer_' = Append(sendBuffer_, m)
  /\ UNCHANGED <<client, flags, strings, attempt, library, handler, ctl, waited, tx,
                 receiveBuffer_, arrived, sent>>

GetNextReceivedMessage(t) ==
  /\ receiveBuffer_[t] # <<>>
  /\ receiveBuffer_' = [receiveBuffer_ EXCEPT ![t] = Tail(@)]
  /\ UNCHANGED <<client, flags, strings, attempt, library, handler, ctl, waited, tx, sendBuffer_,
                 queued, arrived, sent>>

-----------------------------------------------------------------------------
Next ==
  /\ HandleInUseIsAlive
  /\ \/ MqttEventHandler \/ Manage \/ SendMessage \/ Call
     \/ \E t \in Topics : Subscribe(t) \/ GetNextReceivedMessage(t)
     \/ \E m \in Outgoing : QueueMessageToSend(m)

\* A method that was called runs on, and so does a handler; nobody has to call,
\* and a connection need not come up or break.
Fairness ==
  /\ WF_vars(HandleInUseIsAlive /\ Manage)
  /\ WF_vars(HandleInUseIsAlive /\ (EndConnectedEvent \/ EndBreakEvent))
  /\ WF_vars(HandleInUseIsAlive /\ (LoadClient \/ Publish))

Spec == Init /\ [][Next]_vars

FairSpec == Spec /\ Fairness

-----------------------------------------------------------------------------
(***************************************************************************)
(* Properties.                                                             *)
(***************************************************************************)

CtlPlaces == {"idle", "connect", "disconnect", "stop", "destroy", "forget", "reset", "prepare",
              "init", "start", "abandon", "unset", "wait", "wait failed"}

\* Every variable stays in the range its C++ type and use give it.
TypeOK ==
  /\ {client, strings, attempt} \subseteq 0 .. Attempts
  /\ {running, connectAttemptFailed_} \subseteq BOOLEAN
  /\ alive \subseteq Handles /\ session \in [Handles -> Sessions]
  /\ subscribed \subseteq Topics
  /\ handler \in {"idle", "rising", "falling"}
  /\ ctl \in [at : CtlPlaces, then : {"idle", "connect", "prepare"}]
  /\ waited \in 0 .. WaitTurns
  /\ tx \in [at : {"idle", "taken", "publishing"}, msg : Outgoing \cup {None},
             via : 0 .. Attempts]
  /\ sent \subseteq queued /\ queued \subseteq Outgoing /\ arrived \subseteq Incoming

\* Between a stop of the library and the end of Disconnect() the fields lag.
Dismantling == ctl.at \in {"destroy", "forget", "reset"}

\* IsConnected() is about the handle there is: no event of an earlier connection,
\* and none that came while Disconnect() waited, leaves `running' set.
RunningIsCurrent ==
  running /\ handler = "idle" /\ ~Dismantling => client # 0 /\ session[client] = "up"

\* WaitForConnection() is not told of a failure that an earlier attempt had.
FailureIsCurrent ==
  connectAttemptFailed_ /\ client # 0 => session[client] \in {"failing", "down", "stopped"}

\* The certificates, the key and the host name a handle points to are there, and
\* are the ones it was made with, for as long as it lives.
ConfigOutlivesHandle == \A h \in alive : strings = h

\* Every handle that lives is the one the next Disconnect() will destroy.
NoHandleLeaked == alive \subseteq {client}

\* A method of the managing thread returns: the stop waits for a handler, never
\* the handler for the stop, and the wait for a connection is bounded.
ManagingReturns == ctl.at # "idle" ~> ctl.at = "idle"
=============================================================================
