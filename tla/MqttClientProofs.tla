--------------------------- MODULE MqttClientProofs ---------------------------
(***************************************************************************)
(* What MqttClient does for any number of attempts, turns, messages and    *)
(* topics, with one loop or with two.                                      *)
(*                                                                         *)
(* The argument follows the managing thread: where it is says whether      *)
(* there is a handle, whether that handle has been started, and what its   *)
(* connection can have become, so what the library's task may do meanwhile *)
(* is known at every place.                                                *)
(***************************************************************************)
EXTENDS MqttClient, TLAPS

\* What a connection can be that was started and not stopped.
Live == {"connecting", "up", "failing", "down"}

\* Where the managing thread is while it leaves a started handle alone.
Attached == {"idle", "connect", "disconnect", "stop", "wait", "wait failed"}

\* TypeOK, variable by variable.
FieldTypes ==
  /\ client \in 0 .. Attempts /\ strings \in 0 .. Attempts /\ attempt \in 0 .. Attempts
  /\ running \in BOOLEAN /\ connectAttemptFailed_ \in BOOLEAN
  /\ handler \in {"idle", "rising", "falling"}

LibraryTypes ==
  /\ alive \subseteq Handles
  /\ session \in [Handles -> Sessions]
  /\ subscribed \subseteq Topics

CtlType == ctl \in [at : CtlPlaces, then : {"idle", "connect", "prepare"}]

WaitType ==
  /\ waited \in 0 .. WaitTurns
  /\ ctl.at = "wait failed" => waited < WaitTurns

MessageTypes ==
  /\ tx \in [at : {"idle", "taken", "publishing"}, msg : Outgoing \cup {None},
             via : 0 .. Attempts]
  /\ tx.at # "idle" => tx.msg \in queued
  /\ sendBuffer_ \in Seq(queued)
  /\ sent \subseteq queued /\ queued \subseteq Outgoing /\ arrived \subseteq Incoming

Types == FieldTypes /\ LibraryTypes /\ CtlType /\ WaitType /\ MessageTypes

LEMMA TypesSuffice == Types => TypeOK
BY DEF Types, FieldTypes, LibraryTypes, CtlType, WaitType, MessageTypes, TypeOK

\* The handle, the set of living handles and the strings go together.
HandleInv ==
  /\ ctl.at \in {"prepare", "init", "reset"} => client = 0
  /\ ctl.at \in {"start", "abandon", "unset", "stop", "destroy", "forget"} => client # 0
  /\ alive = IF client = 0 \/ ctl.at \in {"forget", "unset"} THEN {} ELSE {client}
  /\ alive # {} => strings = client
  /\ ctl.at = "init" => strings = attempt
  /\ ctl.at \in {"start", "abandon"} => client = attempt
  /\ ctl.at = "init" => attempt # 0

\* A connection that was started and not stopped is that of the handle.
SessionInv ==
  /\ \A h \in Handles : h > attempt => session[h] = "none"
  /\ ctl.at = "init" => session[attempt] = "none" /\ ~connectAttemptFailed_
  /\ ctl.at \in {"start", "abandon"} => session[client] = "none"
  /\ \A h \in Handles : session[h] \in Live => h = client /\ ctl.at \in Attached
  /\ client # 0 /\ ctl.at \in Attached => session[client] \in Live
  /\ ctl.at \in {"destroy", "forget"} => session[client] = "stopped"

\* While an event is handled the handle is the one it is about.
HandlerInv ==
  /\ handler = "rising" => client # 0 /\ session[client] = "up"
  /\ handler = "falling" => client # 0 /\ session[client] \in {"failing", "down"} /\ ~running

IInv ==
  /\ Types /\ HandleInv /\ SessionInv /\ HandlerInv
  /\ RunningIsCurrent /\ FailureIsCurrent

\* With one loop the sending thread works only while the managing one rests.
LoopInv ==
  OneLoop => /\ tx.at # "idle" => ctl.at = "idle"
             /\ tx.at = "publishing" => tx.via = client

-----------------------------------------------------------------------------
(***************************************************************************)
(* The steps.  Only the library's events and the managing thread change    *)
(* the handle, the flags or the connection.                                *)
(***************************************************************************)

Event == ConnectedEvent \/ EndConnectedEvent \/ BreakEvent \/ EndBreakEvent

connection == <<client, flags, strings, attempt, alive, session, handler, ctl>>

LEMMA StepCases ==
  ASSUME [Next]_vars
  PROVE  Event \/ Disconnect \/ Connect \/ WaitForConnection \/ Call \/ UNCHANGED connection
<1>1. ASSUME NEW t \in Topics, NEW m \in Incoming, DataEvent(t, m) PROVE UNCHANGED connection
  BY <1>1 DEF DataEvent, connection, library
<1>2. ASSUME NEW t \in Topics, Subscribe(t) \/ GetNextReceivedMessage(t)
      PROVE  UNCHANGED connection
  BY <1>2 DEF Subscribe, GetNextReceivedMessage, connection, library
<1>3. CASE SendMessage
  BY <1>3 DEF SendMessage, TakeToSend, LoadClient, Publish, connection, library
<1>4. ASSUME NEW m \in Outgoing, QueueMessageToSend(m) PROVE UNCHANGED connection
  BY <1>4 DEF QueueMessageToSend, connection, library
<1>5. CASE UNCHANGED vars
  BY <1>5 DEF vars, connection, library
<1> QED
  BY <1>1, <1>2, <1>3, <1>4, <1>5 DEF Next, MqttEventHandler, Manage, Event

LEMMA HandleStep == Types /\ HandleInv /\ [Next]_vars => HandleInv'
<1> SUFFICES ASSUME Types, HandleInv, [Next]_vars PROVE HandleInv'
  OBVIOUS
<1> USE DEF Types, FieldTypes, LibraryTypes, CtlType, HandleInv, Handles, Goto, Return,
            CallDisconnectFrom, flags, library
<1>1. CASE Event
  BY <1>1 DEF Event, ConnectedEvent, EndConnectedEvent, BreakEvent, EndBreakEvent
<1>2. CASE Disconnect
  BY <1>2, ClientAssumption
  DEF Disconnect, CheckClient, StopClient, DestroyClient, ForgetClient, Reset
<1>3. CASE Connect
  BY <1>3, ClientAssumption
  DEF Connect, CheckConnected, Prepare, InitClient, StartClient, Abandon, Unset
<1>4. CASE WaitForConnection
  BY <1>4 DEF WaitForConnection, WaitChecksRunning, WaitChecksFailed, WaitTurn
<1>5. CASE Call
  BY <1>5 DEF Call
<1>6. CASE UNCHANGED connection
  BY <1>6 DEF connection
<1> QED
  BY <1>1, <1>2, <1>3, <1>4, <1>5, <1>6, StepCases

LEMMA SessionStep ==
  Types /\ HandleInv /\ SessionInv /\ HandlerInv /\ FailureIsCurrent /\ [Next]_vars => SessionInv'
<1> SUFFICES ASSUME Types, HandleInv, SessionInv, HandlerInv, FailureIsCurrent, [Next]_vars
             PROVE  SessionInv'
  OBVIOUS
<1> USE DEF Goto, Return, CallDisconnectFrom, flags, library
<1>a. ASSUME UNCHANGED <<attempt, connectAttemptFailed_, session, client>>, ctl.at \in Attached,
             ctl'.at \in Attached
      PROVE  SessionInv'
  BY <1>a DEF SessionInv, Attached
<1>b. ASSUME UNCHANGED <<attempt, connectAttemptFailed_, session, client>>, ctl.at \in Attached,
             client = 0, ctl'.at = "prepare"
      PROVE  SessionInv'
  <2>1. \A h \in Handles : session[h] \notin Live
    BY <1>b, ClientAssumption DEF SessionInv, Handles
  <2> QED
    BY <1>b, <2>1 DEF SessionInv
<1>4. CASE CheckClient
  <2>1. ctl.at \in Attached
    BY <1>4 DEF CheckClient, Attached
  <2>2. ctl'.at \in {"idle", "connect", "stop"} \/ (client = 0 /\ ctl'.at = "prepare")
    BY <1>4 DEF CheckClient, CtlType, Types
  <2> QED
    BY <1>a, <1>b, <1>4, <2>1, <2>2 DEF CheckClient, Attached
<1>8. CASE CheckConnected
  <2>1. ctl.at \in Attached
    BY <1>8 DEF CheckConnected, Attached
  <2>2. ctl'.at \in {"idle", "disconnect"} \/ (client = 0 /\ ctl'.at = "prepare")
    BY <1>8 DEF CheckConnected, CtlType, Types
  <2> QED
    BY <1>a, <1>b, <1>8, <2>1, <2>2 DEF CheckConnected, Attached
<1>14. CASE Call
  <2>1. ctl.at \in Attached
    BY <1>14 DEF Call, Attached
  <2>2. ctl'.at \in {"idle", "connect", "disconnect", "wait"}
    BY <1>14 DEF Call, CtlType, Types
  <2> QED
    BY <1>a, <1>14, <2>1, <2>2 DEF Call, Attached
<1> USE DEF Types, FieldTypes, LibraryTypes, CtlType, HandleInv, SessionInv, Live, Attached, Handles
<1>1. CASE ConnectedEvent
  BY <1>1 DEF ConnectedEvent
<1>2. CASE BreakEvent
  BY <1>2 DEF BreakEvent
<1>3. CASE EndConnectedEvent \/ EndBreakEvent
  BY <1>3 DEF EndConnectedEvent, EndBreakEvent, HandlerInv
<1>5. CASE StopClient
  BY <1>5 DEF StopClient
<1>6. CASE DestroyClient \/ ForgetClient
  BY <1>6 DEF DestroyClient, ForgetClient
<1>7. CASE Reset
  BY <1>7 DEF Reset
<1>9. CASE Prepare
  BY <1>9, ClientAssumption DEF Prepare
<1>10. CASE InitClient
  BY <1>10 DEF InitClient, FailureIsCurrent
<1>11. CASE StartClient
  <2>1. CASE ctl'.at = "idle"
    <3>1. session' = [session EXCEPT ![client] = "connecting"]
      BY <1>11, <2>1 DEF StartClient
    <3>2. client \in Handles /\ client = attempt /\ ctl.at = "start" /\ session[client] = "none"
      BY <1>11, <2>1, ClientAssumption DEF StartClient
    <3>3. UNCHANGED <<client, attempt, connectAttemptFailed_>>
      BY <1>11 DEF StartClient
    <3>4. session'[client] = "connecting" /\ \A h \in Handles \ {client} : session'[h] = session[h]
      BY <3>1, <3>2
    <3>5. \A h \in Handles : session[h] \notin Live
      BY <3>2 DEF SessionInv, Attached
    <3>6. \A h \in Handles : h > attempt => session'[h] = "none"
      BY <3>2, <3>4 DEF SessionInv
    <3>7. \A h \in Handles : session'[h] \in Live => h = client
      BY <3>4, <3>5
    <3> QED
      BY <2>1, <3>2, <3>3, <3>4, <3>6, <3>7 DEF SessionInv, Live, Attached
  <2>2. CASE ctl'.at = "abandon"
    BY <1>11, <2>2 DEF StartClient
  <2> QED
    BY <1>11, <2>1, <2>2 DEF StartClient
<1>12. CASE Abandon \/ Unset
  BY <1>12 DEF Abandon, Unset
<1>13. CASE WaitForConnection
  BY <1>13 DEF WaitForConnection, WaitChecksRunning, WaitChecksFailed, WaitTurn
<1>15. CASE UNCHANGED connection
  BY <1>15 DEF connection
<1> QED
  BY <1>1, <1>2, <1>3, <1>4, <1>5, <1>6, <1>7, <1>8, <1>9, <1>10, <1>11, <1>12, <1>13, <1>14, <1>15,
     StepCases DEF Event, Disconnect, Connect

LEMMA HandlerStep ==
  Types /\ HandleInv /\ SessionInv /\ HandlerInv /\ [Next]_vars => HandlerInv'
<1> SUFFICES ASSUME Types, HandleInv, SessionInv, HandlerInv, [Next]_vars PROVE HandlerInv'
  OBVIOUS
<1> USE DEF Goto, Return, CallDisconnectFrom, flags, library
<1>1. CASE Event
  <2>1. CASE ConnectedEvent
    <3>1. PICK h \in Handles : session[h] = "connecting" /\ session' = [session EXCEPT ![h] = "up"]
      BY <2>1 DEF ConnectedEvent
    <3>2. h = client /\ client # 0
      BY <3>1, ClientAssumption DEF SessionInv, Live, Handles
    <3> QED
      BY <2>1, <3>1, <3>2 DEF ConnectedEvent, HandlerInv, Types, LibraryTypes
  <2>2. CASE BreakEvent
    <3>1. PICK h \in Handles, to \in {"failing", "down"} :
            /\ session[h] \in {"connecting", "up", "failing"}
            /\ session' = [session EXCEPT ![h] = to]
      BY <2>2 DEF BreakEvent
    <3>2. h = client /\ client # 0
      BY <3>1, ClientAssumption DEF SessionInv, Live, Handles
    <3> QED
      BY <2>2, <3>1, <3>2 DEF BreakEvent, HandlerInv, Types, LibraryTypes
  <2>3. CASE EndConnectedEvent \/ EndBreakEvent
    BY <2>3 DEF EndConnectedEvent, EndBreakEvent, HandlerInv
  <2> QED
    BY <1>1, <2>1, <2>2, <2>3 DEF Event
<1>2. CASE Disconnect
  <2>1. CASE CheckClient
    BY <2>1 DEF CheckClient, HandlerInv
  <2>2. CASE StopClient
    BY <2>2 DEF StopClient, HandlerInv
  <2>3. CASE DestroyClient \/ Reset
    BY <2>3 DEF DestroyClient, Reset, HandlerInv
  <2>4. CASE ForgetClient
    BY <2>4 DEF ForgetClient, HandlerInv, HandleInv, SessionInv
  <2> QED
    BY <1>2, <2>1, <2>2, <2>3, <2>4 DEF Disconnect
<1>3. CASE Connect
  <2>1. CASE CheckConnected \/ Prepare \/ Abandon
    BY <2>1 DEF CheckConnected, Prepare, Abandon, HandlerInv
  <2>2. CASE InitClient
    BY <2>2 DEF InitClient, HandlerInv, HandleInv
  <2>3. CASE StartClient
    BY <2>3 DEF StartClient, HandlerInv, SessionInv
  <2>4. CASE Unset
    <3>1. session[client] \notin Live
      BY <2>4, ClientAssumption
      DEF Unset, HandleInv, SessionInv, Attached, Types, FieldTypes, Handles
    <3> QED
      BY <2>4, <3>1 DEF Unset, HandlerInv, Live
  <2> QED
    BY <1>3, <2>1, <2>2, <2>3, <2>4 DEF Connect
<1>4. CASE WaitForConnection
  <2>1. UNCHANGED <<handler, client, session, running>>
    BY <1>4 DEF WaitForConnection, WaitChecksRunning, WaitChecksFailed, WaitTurn
  <2> QED
    BY <2>1 DEF HandlerInv
<1>5. CASE Call
  BY <1>5 DEF Call, HandlerInv
<1>6. CASE UNCHANGED connection
  BY <1>6 DEF connection, HandlerInv
<1> QED
  BY <1>1, <1>2, <1>3, <1>4, <1>5, <1>6, StepCases

LEMMA RunningStep ==
  Types /\ HandleInv /\ SessionInv /\ HandlerInv /\ RunningIsCurrent /\ [Next]_vars
    => RunningIsCurrent'
<1> SUFFICES ASSUME Types, HandleInv, SessionInv, HandlerInv, RunningIsCurrent, [Next]_vars
             PROVE  RunningIsCurrent'
  OBVIOUS
<1> USE DEF Goto, Return, CallDisconnectFrom, flags, library, RunningIsCurrent, Dismantling,
            Types, CtlType
<1>1. CASE Event
  BY <1>1 DEF Event, ConnectedEvent, EndConnectedEvent, BreakEvent, EndBreakEvent, HandlerInv
<1>2. CASE Disconnect
  BY <1>2 DEF Disconnect, CheckClient, StopClient, DestroyClient, ForgetClient, Reset
<1>3. CASE Connect
  <2>1. CASE CheckConnected \/ Prepare \/ Abandon
    BY <2>1 DEF CheckConnected, Prepare, Abandon
  <2>2. CASE InitClient
    BY <2>2 DEF InitClient, HandleInv
  <2>3. CASE StartClient
    BY <2>3 DEF StartClient, SessionInv
  <2>4. CASE Unset
    <3>1. session[client] \notin Live
      BY <2>4, ClientAssumption DEF Unset, HandleInv, SessionInv, Attached, FieldTypes, Handles
    <3> QED
      BY <2>4, <3>1 DEF Unset, Live
  <2> QED
    BY <1>3, <2>1, <2>2, <2>3, <2>4 DEF Connect
<1>4. CASE WaitForConnection
  BY <1>4 DEF WaitForConnection, WaitChecksRunning, WaitChecksFailed, WaitTurn
<1>5. CASE Call
  BY <1>5 DEF Call
<1>6. CASE UNCHANGED connection
  BY <1>6 DEF connection
<1> QED
  BY <1>1, <1>2, <1>3, <1>4, <1>5, <1>6, StepCases

LEMMA FailureStep ==
  Types /\ HandleInv /\ SessionInv /\ HandlerInv /\ FailureIsCurrent /\ [Next]_vars
    => FailureIsCurrent'
<1> SUFFICES ASSUME Types, HandleInv, SessionInv, HandlerInv, FailureIsCurrent, [Next]_vars
             PROVE  FailureIsCurrent'
  OBVIOUS
<1> USE DEF Goto, Return, CallDisconnectFrom, flags, library, FailureIsCurrent, Types, FieldTypes,
            LibraryTypes, CtlType, HandleInv, SessionInv, HandlerInv, Handles, Live, Attached
<1>1. CASE Event
  BY <1>1, ClientAssumption DEF Event, ConnectedEvent, EndConnectedEvent, BreakEvent, EndBreakEvent
<1>2. CASE Disconnect
  BY <1>2, ClientAssumption
  DEF Disconnect, CheckClient, StopClient, DestroyClient, ForgetClient, Reset
<1>3. CASE Connect
  BY <1>3, ClientAssumption
  DEF Connect, CheckConnected, Prepare, InitClient, StartClient, Abandon, Unset
<1>4. CASE WaitForConnection
  BY <1>4 DEF WaitForConnection, WaitChecksRunning, WaitChecksFailed, WaitTurn
<1>5. CASE Call
  BY <1>5 DEF Call
<1>6. CASE UNCHANGED connection
  BY <1>6 DEF connection
<1> QED
  BY <1>1, <1>2, <1>3, <1>4, <1>5, <1>6, StepCases

LEMMA FieldStep == Types /\ HandleInv /\ [Next]_vars => FieldTypes'
<1> SUFFICES ASSUME Types, HandleInv, [Next]_vars PROVE FieldTypes'
  OBVIOUS
<1> USE DEF Types, FieldTypes, flags, library
<1>1. CASE Event
  BY <1>1 DEF Event, ConnectedEvent, EndConnectedEvent, BreakEvent, EndBreakEvent
<1>2. CASE Disconnect
  <2>1. /\ client' \in {client, 0} /\ strings' \in {strings, 0} /\ running' \in {running, FALSE}
        /\ UNCHANGED <<attempt, connectAttemptFailed_, handler>>
    BY <1>2 DEF Disconnect, CheckClient, StopClient, DestroyClient, ForgetClient, Reset
  <2>2. 0 \in 0 .. Attempts
    BY ClientAssumption
  <2> QED
    BY <2>1, <2>2
<1>3. CASE Connect
  <2>1. CASE Prepare
    <3>1. attempt' \in 0 .. Attempts
      BY <2>1, ClientAssumption DEF Prepare
    <3> QED
      BY <2>1, <3>1 DEF Prepare
  <2>2. CASE ~Prepare
    <3>1. /\ client' \in {client, attempt, 0}
          /\ UNCHANGED <<strings, attempt, running, connectAttemptFailed_, handler>>
      BY <1>3, <2>2 DEF Connect, CheckConnected, InitClient, StartClient, Abandon, Unset
    <3> QED
      BY <3>1, ClientAssumption
  <2> QED
    BY <2>1, <2>2
<1>4. CASE WaitForConnection
  BY <1>4 DEF WaitForConnection, WaitChecksRunning, WaitChecksFailed, WaitTurn
<1>5. CASE Call
  BY <1>5 DEF Call
<1>6. CASE UNCHANGED connection
  BY <1>6 DEF connection
<1> QED
  BY <1>1, <1>2, <1>3, <1>4, <1>5, <1>6, StepCases

LEMMA LibraryStep == Types /\ HandleInv /\ [Next]_vars => LibraryTypes'
<1> SUFFICES ASSUME Types, HandleInv, [Next]_vars PROVE LibraryTypes'
  OBVIOUS
<1>1. (alive \subseteq Handles)'
  <2>1. HandleInv' /\ FieldTypes'
    BY HandleStep, FieldStep
  <2> QED
    BY <2>1, ClientAssumption DEF HandleInv, FieldTypes, Handles
<1>2. (session \in [Handles -> Sessions])'
  <2> USE DEF Types, LibraryTypes, Sessions, flags, library
  <2>1. CASE Event
    BY <2>1 DEF Event, ConnectedEvent, EndConnectedEvent, BreakEvent, EndBreakEvent
  <2>2. CASE Disconnect
    BY <2>2 DEF Disconnect, CheckClient, StopClient, DestroyClient, ForgetClient, Reset
  <2>3. CASE Connect
    BY <2>3 DEF Connect, CheckConnected, Prepare, InitClient, StartClient, Abandon, Unset
  <2>4. CASE WaitForConnection
    BY <2>4 DEF WaitForConnection, WaitChecksRunning, WaitChecksFailed, WaitTurn
  <2>5. CASE Call
    BY <2>5 DEF Call
  <2>6. CASE UNCHANGED connection
    BY <2>6 DEF connection
  <2> QED
    BY <2>1, <2>2, <2>3, <2>4, <2>5, <2>6, StepCases
<1>3. (subscribed \subseteq Topics)'
  <2>1. \/ subscribed' = subscribed \/ subscribed' = {}
        \/ \E t \in Topics : subscribed' = subscribed \cup {t}
    <3> USE DEF library
    <3>1. CASE MqttEventHandler
      BY <3>1 DEF MqttEventHandler, ConnectedEvent, EndConnectedEvent, BreakEvent, EndBreakEvent,
                  DataEvent
    <3>2. CASE Disconnect
      BY <3>2 DEF Disconnect, CheckClient, StopClient, DestroyClient, ForgetClient, Reset
    <3>3. CASE Connect
      BY <3>3 DEF Connect, CheckConnected, Prepare, InitClient, StartClient, Abandon, Unset
    <3>4. CASE WaitForConnection \/ Call
      BY <3>4 DEF WaitForConnection, WaitChecksRunning, WaitChecksFailed, WaitTurn, Call
    <3>5. CASE SendMessage
      BY <3>5 DEF SendMessage, TakeToSend, LoadClient, Publish
    <3>6. ASSUME NEW t \in Topics, Subscribe(t) \/ GetNextReceivedMessage(t)
          PROVE  subscribed' = subscribed \/ subscribed' = subscribed \cup {t}
      BY <3>6 DEF Subscribe, GetNextReceivedMessage
    <3>7. ASSUME NEW m \in Outgoing, QueueMessageToSend(m) PROVE subscribed' = subscribed
      BY <3>7 DEF QueueMessageToSend
    <3>8. CASE UNCHANGED vars
      BY <3>8 DEF vars
    <3> QED
      BY <3>1, <3>2, <3>3, <3>4, <3>5, <3>6, <3>7, <3>8 DEF Next, Manage
  <2> QED
    BY <2>1 DEF Types, LibraryTypes
<1> QED
  BY <1>1, <1>2, <1>3 DEF LibraryTypes

\* Where the three ways to move the managing thread take it.
LEMMA GotoMoves ==
  ASSUME CtlType, NEW from, NEW to \in CtlPlaces, Goto(from, to)
  PROVE  CtlType' /\ ctl.at = from /\ ctl'.at = to
BY DEF CtlType, Goto

LEMMA ReturnMoves ==
  ASSUME CtlType, NEW from, Return(from)
  PROVE  CtlType' /\ ctl.at = from /\ ctl'.at \in {"idle", "connect", "prepare"}
<1>1. ctl.then \in CtlPlaces
  BY DEF CtlType, CtlPlaces
<1> QED
  BY <1>1 DEF CtlType, Return

LEMMA CallDisconnectMoves ==
  ASSUME CtlType, NEW from, NEW then \in {"idle", "connect", "prepare"},
         CallDisconnectFrom(from, then)
  PROVE  CtlType' /\ ctl.at = from /\ ctl'.at = "disconnect"
<1>1. "disconnect" \in CtlPlaces
  BY DEF CtlPlaces
<1> QED
  BY <1>1 DEF CtlType, CallDisconnectFrom

LEMMA CtlStep == Types /\ [Next]_vars => CtlType'
<1> SUFFICES ASSUME Types, [Next]_vars PROVE CtlType'
  OBVIOUS
<1>a. CtlType
  BY DEF Types
<1>1. ASSUME UNCHANGED ctl PROVE CtlType'
  BY <1>a, <1>1 DEF CtlType
<1>2. ASSUME NEW from, NEW to \in CtlPlaces, Goto(from, to) PROVE CtlType'
  BY <1>a, <1>2, GotoMoves
<1>3. ASSUME NEW from, Return(from) PROVE CtlType'
  BY <1>a, <1>3, ReturnMoves
<1>4. ASSUME NEW from, NEW then \in {"idle", "connect", "prepare"}, CallDisconnectFrom(from, then)
      PROVE  CtlType'
  BY <1>a, <1>4, CallDisconnectMoves
<1>5. CASE Event
  BY <1>1, <1>5 DEF Event, ConnectedEvent, EndConnectedEvent, BreakEvent, EndBreakEvent
<1>6. CASE Disconnect
  BY <1>2, <1>3, <1>6
  DEF Disconnect, CheckClient, StopClient, DestroyClient, ForgetClient, Reset, CtlPlaces
<1>7. CASE Connect
  BY <1>2, <1>4, <1>7
  DEF Connect, CheckConnected, Prepare, InitClient, StartClient, Abandon, Unset, CtlPlaces
<1>8. CASE WaitForConnection
  BY <1>2, <1>8 DEF WaitForConnection, WaitChecksRunning, WaitChecksFailed, WaitTurn, CtlPlaces
<1>9. CASE Call
  BY <1>2, <1>4, <1>9 DEF Call, CtlPlaces
<1>10. CASE UNCHANGED connection
  BY <1>1, <1>10 DEF connection
<1> QED
  BY <1>5, <1>6, <1>7, <1>8, <1>9, <1>10, StepCases

LEMMA WaitStep == Types /\ [Next]_vars => WaitType'
<1> SUFFICES ASSUME Types, [Next]_vars PROVE WaitType'
  OBVIOUS
<1>a. CtlType /\ waited \in 0 .. WaitTurns
  BY DEF Types, WaitType
<1>b. ASSUME NEW from, NEW to \in CtlPlaces, Goto(from, to) PROVE ctl.at = from /\ ctl'.at = to
  BY <1>a, <1>b, GotoMoves
<1>1. CASE WaitChecksRunning
  <2>1. ctl'.at = "wait failed" => waited # WaitTurns
    BY <1>b, <1>1 DEF WaitChecksRunning, CtlPlaces
  <2> QED
    <3>1. waited' = waited
      BY <1>1 DEF WaitChecksRunning
    <3>2. waited # WaitTurns => waited < WaitTurns
      BY <1>a, ClientAssumption
    <3> QED
      BY <1>a, <2>1, <3>1, <3>2 DEF WaitType
<1>2. CASE WaitChecksFailed
  BY <1>a, <1>b, <1>2 DEF WaitChecksFailed, WaitType, CtlPlaces
<1>3. CASE WaitTurn
  <2>1. ctl.at = "wait failed" /\ ctl'.at = "wait"
    BY <1>b, <1>3 DEF WaitTurn, CtlPlaces
  <2>2. waited' = waited + 1
    BY <1>3 DEF WaitTurn
  <2> QED
    <3>1. waited < WaitTurns
      BY <2>1 DEF Types, WaitType
    <3>2. waited' \in 0 .. WaitTurns
      BY <1>a, <2>2, <3>1, ClientAssumption
    <3> QED
      BY <2>1, <3>2 DEF WaitType
<1>4. CASE Call
  <2>1. ctl'.at # "wait failed"
    BY <1>a, <1>b, <1>4, CallDisconnectMoves DEF Call, CtlPlaces
  <2>2. waited' = 0
    BY <1>4 DEF Call
  <2>3. 0 \in 0 .. WaitTurns
    BY ClientAssumption
  <2> QED
    BY <2>1, <2>2, <2>3 DEF WaitType
<1>5. ASSUME UNCHANGED waited, ctl'.at = "wait failed" => ctl.at = "wait failed" PROVE WaitType'
  BY <1>5 DEF Types, WaitType
<1>6. CASE Disconnect
  BY <1>5, <1>6 DEF Disconnect, CheckClient, StopClient, DestroyClient, ForgetClient, Reset, Goto,
                    Return, Types, CtlType
<1>7. CASE Connect
  BY <1>a, <1>b, <1>5, <1>7, CallDisconnectMoves
  DEF Connect, CheckConnected, Prepare, InitClient, StartClient, Abandon, Unset, CtlPlaces
<1>8. CASE MqttEventHandler
  BY <1>5, <1>8 DEF MqttEventHandler, ConnectedEvent, EndConnectedEvent, BreakEvent, EndBreakEvent,
                    DataEvent
<1>9. CASE SendMessage
  BY <1>5, <1>9 DEF SendMessage, TakeToSend, LoadClient, Publish
<1>10. ASSUME NEW t \in Topics, Subscribe(t) \/ GetNextReceivedMessage(t) PROVE WaitType'
  BY <1>5, <1>10 DEF Subscribe, GetNextReceivedMessage
<1>11. ASSUME NEW m \in Outgoing, QueueMessageToSend(m) PROVE WaitType'
  BY <1>5, <1>11 DEF QueueMessageToSend
<1>12. CASE UNCHANGED vars
  BY <1>5, <1>12 DEF vars
<1> QED
  BY <1>1, <1>2, <1>3, <1>4, <1>6, <1>7, <1>8, <1>9, <1>10, <1>11, <1>12
  DEF Next, Manage, WaitForConnection

LEMMA MessageStep == Types /\ [Next]_vars => MessageTypes'
<1> SUFFICES ASSUME Types, [Next]_vars PROVE MessageTypes'
  OBVIOUS
<1> USE DEF Types, MessageTypes
<1>1. ASSUME UNCHANGED <<tx, sendBuffer_, sent, queued>>, arrived' \subseteq Incoming
      PROVE  MessageTypes'
  BY <1>1
<1>2. CASE TakeToSend
  <2>1. Head(sendBuffer_) \in queued /\ sendBuffer_' \in Seq(queued)
    BY <1>2 DEF TakeToSend
  <2>2. tx' \in [at : {"idle", "taken", "publishing"}, msg : Outgoing \cup {None},
                 via : 0 .. Attempts]
    BY <1>2, <2>1, ClientAssumption DEF TakeToSend
  <2>3. tx'.msg \in queued
    BY <1>2, <2>1 DEF TakeToSend
  <2> QED
    BY <1>2, <2>1, <2>2, <2>3 DEF TakeToSend
<1>3. CASE LoadClient
  BY <1>3 DEF LoadClient, messages, FieldTypes
<1>4. CASE Publish
  BY <1>4, ClientAssumption DEF Publish, TxIdle
<1>5. ASSUME NEW m \in Outgoing, QueueMessageToSend(m) PROVE MessageTypes'
  BY <1>5 DEF QueueMessageToSend
<1>6. CASE MqttEventHandler
  BY <1>1, <1>6 DEF MqttEventHandler, ConnectedEvent, EndConnectedEvent, BreakEvent, EndBreakEvent,
                    DataEvent, messages
<1>7. CASE Disconnect
  BY <1>1, <1>7 DEF Disconnect, CheckClient, StopClient, DestroyClient, ForgetClient, Reset,
                    messages
<1>8. CASE Connect
  BY <1>1, <1>8 DEF Connect, CheckConnected, Prepare, InitClient, StartClient, Abandon, Unset,
                    messages
<1>9. CASE WaitForConnection \/ Call
  BY <1>1, <1>9 DEF WaitForConnection, WaitChecksRunning, WaitChecksFailed, WaitTurn, Call, messages
<1>10. ASSUME NEW t \in Topics, Subscribe(t) \/ GetNextReceivedMessage(t) PROVE MessageTypes'
  BY <1>1, <1>10 DEF Subscribe, GetNextReceivedMessage, messages
<1>11. CASE UNCHANGED vars
  BY <1>1, <1>11 DEF vars, messages
<1> QED
  BY <1>2, <1>3, <1>4, <1>5, <1>6, <1>7, <1>8, <1>9, <1>10, <1>11 DEF Next, Manage, SendMessage

-----------------------------------------------------------------------------
(***************************************************************************)
(* The invariant, and what it says of the specification.                   *)
(***************************************************************************)

LEMMA IInvInit == Init => IInv
<1> SUFFICES ASSUME Init PROVE IInv
  OBVIOUS
<1>1. 0 \in 0 .. Attempts /\ 0 \in 0 .. WaitTurns
  BY ClientAssumption
<1>2. FieldTypes
  BY <1>1 DEF Init, FieldTypes
<1>3. LibraryTypes
  BY DEF Init, LibraryTypes, Sessions
<1>4. CtlType
  BY DEF Init, CtlType, CtlPlaces
<1>5. WaitType
  BY <1>1 DEF Init, WaitType
<1>6. MessageTypes
  <2>1. tx \in [at : {"idle", "taken", "publishing"}, msg : Outgoing \cup {None},
                via : 0 .. Attempts]
    BY <1>1 DEF Init, TxIdle
  <2> QED
    BY <2>1 DEF Init, TxIdle, MessageTypes
<1>7. HandleInv
  BY DEF Init, HandleInv
<1>8. SessionInv
  BY DEF Init, SessionInv, Live
<1>9. HandlerInv /\ RunningIsCurrent /\ FailureIsCurrent
  BY DEF Init, HandlerInv, RunningIsCurrent, FailureIsCurrent
<1> QED
  BY <1>2, <1>3, <1>4, <1>5, <1>6, <1>7, <1>8, <1>9 DEF IInv, Types

LEMMA IInvStep == IInv /\ [Next]_vars => IInv'
BY HandleStep, SessionStep, HandlerStep, RunningStep, FailureStep, FieldStep, LibraryStep, CtlStep,
   WaitStep, MessageStep DEF IInv, Types

LEMMA IInvAlways == Spec => []IInv
BY IInvInit, IInvStep, PTL DEF Spec

\* Every variable of the client stays in the range its C++ type and use give it.
THEOREM TypeCorrect == Spec => []TypeOK
<1>1. IInv => TypeOK
  BY TypesSuffice DEF IInv
<1> QED
  BY <1>1, IInvAlways, PTL

\* IsConnected() is about the handle there is: outside a Disconnect() that has
\* stopped the library, `running' means that the connection of `client' is up.
THEOREM RunningIsAlwaysCurrent == Spec => []RunningIsCurrent
<1>1. IInv => RunningIsCurrent
  BY DEF IInv
<1> QED
  BY <1>1, IInvAlways, PTL

\* WaitForConnection() is told only of a failure of the handle there is.
THEOREM FailureIsAlwaysCurrent == Spec => []FailureIsCurrent
<1>1. IInv => FailureIsCurrent
  BY DEF IInv
<1> QED
  BY <1>1, IInvAlways, PTL

\* The strings esp_mqtt_client_init() was given outlive the handle it made.
THEOREM ConfigAlwaysOutlivesHandle == Spec => []ConfigOutlivesHandle
<1>1. IInv => ConfigOutlivesHandle
  BY DEF IInv, HandleInv, ConfigOutlivesHandle
<1> QED
  BY <1>1, IInvAlways, PTL

\* Connect() makes a handle only where none is left, so none is ever lost.
THEOREM NoHandleEverLeaked == Spec => []NoHandleLeaked
<1>1. IInv => NoHandleLeaked
  BY DEF IInv, HandleInv, NoHandleLeaked
<1> QED
  BY <1>1, IInvAlways, PTL

-----------------------------------------------------------------------------
(***************************************************************************)
(* One loop that manages and sends.                                        *)
(***************************************************************************)

LEMMA LoopStep == IInv /\ LoopInv /\ [Next]_vars => LoopInv'
<1> SUFFICES ASSUME IInv, LoopInv, [Next]_vars, OneLoop PROVE LoopInv'
  BY DEF LoopInv
<1>1. /\ tx.at # "idle" => ctl.at = "idle"
      /\ tx.at = "publishing" => tx.via = client
  BY DEF LoopInv
<1>2. CtlType /\ MessageTypes
  BY DEF IInv, Types
<1>3. CASE tx.at = "idle" /\ tx' = tx
  BY <1>3 DEF LoopInv
<1>4. CASE UNCHANGED <<tx, client, ctl>>
  BY <1>1, <1>4 DEF LoopInv
<1>5. CASE Manage
  <2>1. tx' = tx /\ ctl.at # "idle"
    BY <1>5 DEF Manage, Connect, CheckConnected, Prepare, InitClient, StartClient, Abandon, Unset,
                Disconnect, CheckClient, StopClient, DestroyClient, ForgetClient, Reset,
                WaitForConnection, WaitChecksRunning, WaitChecksFailed, WaitTurn, Goto, Return,
                CallDisconnectFrom
  <2> QED
    BY <1>1, <1>3, <2>1
<1>6. CASE Call
  BY <1>3, <1>6 DEF Call, MayManage
<1>7. CASE TakeToSend
  BY <1>7 DEF TakeToSend, MaySend, LoopInv
<1>8. CASE LoadClient
  BY <1>1, <1>2, <1>8 DEF LoadClient, LoopInv, MessageTypes
<1>9. CASE Publish
  BY <1>9 DEF Publish, TxIdle, LoopInv
<1>10. CASE MqttEventHandler
  BY <1>4, <1>10 DEF MqttEventHandler, ConnectedEvent, EndConnectedEvent, BreakEvent, EndBreakEvent,
                     DataEvent
<1>11. ASSUME NEW t \in Topics, Subscribe(t) \/ GetNextReceivedMessage(t) PROVE LoopInv'
  BY <1>4, <1>11 DEF Subscribe, GetNextReceivedMessage
<1>12. ASSUME NEW m \in Outgoing, QueueMessageToSend(m) PROVE LoopInv'
  BY <1>4, <1>12 DEF QueueMessageToSend
<1>13. CASE UNCHANGED vars
  BY <1>4, <1>13 DEF vars
<1> QED
  BY <1>5, <1>6, <1>7, <1>8, <1>9, <1>10, <1>11, <1>12, <1>13 DEF Next, SendMessage

\* An application whose one loop both manages the connection and sends never
\* publishes on a handle that Disconnect() destroyed.
THEOREM OneLoopNeverUsesAFreedHandle == OneLoop => (Spec => []HandleInUseIsAlive)
<1> SUFFICES ASSUME OneLoop PROVE Spec => []HandleInUseIsAlive
  OBVIOUS
<1>1. Init => LoopInv
  BY DEF Init, TxIdle, LoopInv
<1>2. IInv /\ LoopInv => HandleInUseIsAlive
  <2> SUFFICES ASSUME IInv, LoopInv, tx.at = "publishing" PROVE tx.via \in alive \cup {0}
    BY DEF HandleInUseIsAlive
  <2>1. ctl.at = "idle" /\ tx.via = client
    BY DEF LoopInv
  <2> QED
    BY <2>1 DEF IInv, HandleInv
<1> QED
  BY <1>1, <1>2, LoopStep, IInvAlways, PTL DEF Spec
=============================================================================
