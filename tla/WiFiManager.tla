----------------------------- MODULE WiFiManager -----------------------------
(***************************************************************************)
(* EspidfWiFiManager: one thread calls Connect(), Disconnect() and         *)
(* WaitForConnection(); the event loop's task runs EventHandler().  Both   *)
(* write the status, without a lock.                                       *)
(***************************************************************************)
EXTENDS RadioDriver

CONSTANT Connects \* bound: how often Connect() gets to register its handlers

ASSUME WifiAssumption == Connects \in Nat

VARIABLES
  status,
  connectedBit, \* WIFI_CONNECTED_BIT
  wifi,         \* where the caller is, or "idle"
  rising,       \* EventHandler() has set the bit and not yet the status
  byCaller      \* history: the caller's thread wrote the status last

wifiState == <<status, connectedBit, wifi, rising, byCaller>>

WifiTypeOK ==
  /\ status \in {"Disconnected", "Connected", "Connecting", "Failed", "Timeout"}
  /\ {connectedBit, rising, byCaller} \subseteq BOOLEAN
  /\ wifi \in {"idle", "set up", "say connecting", "say disconnected",
               "wait", "check", "say connected", "say timeout"}

WifiInit ==
  /\ status = "Disconnected" /\ connectedBit = FALSE
  /\ wifi = "idle" /\ rising = FALSE /\ byCaller = TRUE

Goes(from, to) ==
  /\ wifi = from
  /\ wifi' = to
  /\ UNCHANGED rising

Write(s, caller) == status' = s /\ byCaller' = caller

\* A step of the caller that leaves status and bit as they are.
Moves(from, to) == Goes(from, to) /\ UNCHANGED <<status, connectedBit, byCaller>>

\* A step in which the caller writes the status and returns.
Says(from, s) ==
  /\ Goes(from, "idle")
  /\ Write(s, TRUE)
  /\ UNCHANGED <<driver, calls, registry, connectedBit>>

-----------------------------------------------------------------------------
\* Faulty variants, each substituted for its original to show that a property
\* depends on it.

\* The bit is cleared for the one that waited for it.
SeeBitAndClear ==
  /\ connectedBit
  /\ Goes("wait", "check")
  /\ connectedBit' = FALSE
  /\ UNCHANGED <<driver, calls, registry, status, byCaller>>

\* A loss is reported and the bit stays.
HandleLostKeepsBit ==
  /\ Handles("lost")
  /\ Write("Failed", FALSE)
  /\ HandlerReturns
  /\ UNCHANGED <<air, addr, registry, connectedBit, wifi, rising>>

\* A loss clears the bit and is not reported.
HandleLostKeepsStatus ==
  /\ Handles("lost")
  /\ connectedBit' = FALSE
  /\ HandlerReturns
  /\ UNCHANGED <<air, addr, registry, status, byCaller, wifi, rising>>

-----------------------------------------------------------------------------
(***************************************************************************)
(* EventHandler().                                                         *)
(***************************************************************************)

HandleStaStart ==
  /\ Handles("sta start")
  /\ Write("Connecting", FALSE)
  /\ TryLink
  /\ HandlerReturns
  /\ UNCHANGED <<mode, stations, addr, registry, connectedBit, wifi, rising>>

HandleLost ==
  /\ Handles("lost")
  /\ Write("Failed", FALSE)
  /\ connectedBit' = FALSE
  /\ HandlerReturns
  /\ UNCHANGED <<air, addr, registry, wifi, rising>>

\* The address may be gone again, with the interface.
HandleGotIp ==
  /\ Handles("got ip") /\ ~rising
  /\ IF addr THEN connectedBit' = TRUE /\ rising' = TRUE /\ UNCHANGED <<calls, queue>>
             ELSE HandlerReturns /\ UNCHANGED <<connectedBit, rising>>
  /\ UNCHANGED <<air, addr, registry, status, byCaller, wifi>>

EndGotIp ==
  /\ rising /\ rising' = FALSE
  /\ Write("Connected", FALSE)
  /\ HandlerReturns
  /\ UNCHANGED <<air, addr, registry, connectedBit, wifi>>

WifiHandler == HandleStaStart \/ HandleLost \/ HandleGotIp \/ EndGotIp

-----------------------------------------------------------------------------
(***************************************************************************)
(* Connect() and Disconnect().                                             *)
(***************************************************************************)

\* The old interface is destroyed, with its address. The driver may refuse to
\* end while it is started; the result is ignored.
Connect ==
  /\ handlers["wifi"] < Connects
  /\ Moves("idle", "set up")
  /\ MaySwitchTo("off")
  /\ addr' = FALSE
  /\ UNCHANGED <<calls, registry>>

\* Any call may fail; what was created or registered before remains.
SetUp ==
  /\ \E registered \in {{}, {"wifi"}, {"wifi", "ip"}} :
       /\ handlers' = [e \in DOMAIN handlers |->
                         handlers[e] + (IF e \in registered THEN 1 ELSE 0)]
       /\ loop' \in IF registered = {} THEN {loop, TRUE} ELSE {TRUE}
       /\ \/ Moves("set up", "idle") /\ UNCHANGED <<air, queue>>
          \/ /\ registered = {"wifi", "ip"}
             /\ Moves("set up", "say connecting")
             /\ SwitchTo("sta")
  /\ UNCHANGED <<addr, calls>>

SayConnecting == Says("say connecting", "Connecting")

Disconnect ==
  /\ Moves("idle", "say disconnected")
  /\ MaySwitchTo("off")
  /\ UNCHANGED <<addr, calls, registry>>

SayDisconnected == Says("say disconnected", "Disconnected")

-----------------------------------------------------------------------------
(***************************************************************************)
(* WaitForConnection().                                                    *)
(***************************************************************************)

\* The time that the caller allows decides how often it waits, if at all.
WaitForConnection ==
  /\ Moves("idle", "wait") \/ Moves("idle", "say timeout")
  /\ UNCHANGED <<driver, calls, registry>>

SeeBit ==
  /\ connectedBit
  /\ Moves("wait", "check")
  /\ UNCHANGED <<driver, calls, registry>>

Retry(from) ==
  /\ Moves(from, "wait") \/ Moves(from, "say timeout")
  /\ TryLink
  /\ UNCHANGED <<mode, stations, addr, queue, calls, registry>>

SleepOut == ~connectedBit /\ Retry("wait")

CheckAddress ==
  \/ ~addr /\ Retry("check")
  \/ addr /\ Moves("check", "say connected") /\ UNCHANGED <<driver, calls, registry>>

SayConnected == Says("say connected", "Connected")

SayTimeout == Says("say timeout", "Timeout")

WifiCaller ==
  \/ Connect \/ SetUp \/ SayConnecting
  \/ Disconnect \/ SayDisconnected
  \/ WaitForConnection \/ SeeBit \/ SleepOut \/ CheckAddress \/ SayConnected
  \/ SayTimeout

-----------------------------------------------------------------------------
\* The bit on which WaitForConnection() relies is set only while there is a
\* link, or a loss is queued that will clear it (41, 66).
BitMeansLink == connectedBit => link = "up" \/ "lost" \in Range(queue)

\* While nothing is queued or under way, a status that EventHandler() wrote says
\* `Connected' only with a link, and always with an address; what Connect(),
\* Disconnect() and WaitForConnection() write over it (140, 148, 173, 185) need
\* not.
StatusFollowsLink ==
  queue = <<>> /\ wifi = "idle" /\ ~byCaller =>
    /\ status = "Connected" => link = "up"
    /\ addr => status = "Connected"

\* An address that stays is noticed by every later WaitForConnection() (66, 164).
AddressIsNoticed == <>[](link = "up" /\ addr) => <>[]connectedBit
=============================================================================
