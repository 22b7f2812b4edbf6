---------------------------- MODULE HotspotManager ----------------------------
(***************************************************************************)
(* EspidfHotspotManager: one thread calls Start(), Stop(),                 *)
(* ChangeCredentials() and WaitForStart(); the event loop's task runs      *)
(* EventHandler() and the handler that WaitForStart() registers.           *)
(***************************************************************************)
EXTENDS RadioDriver

VARIABLES
  active, connectedClients,
  startedBit, \* HOTSPOT_STARTED_BIT, never cleared
  listening,  \* WaitForStart() has registered its handler
  hot,        \* where the caller is; `restart' is Stop() called by ChangeCredentials()
  zeroedEarly \* history: Stop() reset the count before all had been counted down

hotspotState == <<active, connectedClients, startedBit, listening, hot, zeroedEarly>>

HotspotTypeOK ==
  /\ {active, startedBit, listening, zeroedEarly} \subseteq BOOLEAN
  /\ connectedClients \in Int
  /\ hot \in {"idle", "start", "run", "stop", "restart"}

HotspotInit ==
  /\ active = FALSE /\ connectedClients = 0
  /\ startedBit = FALSE /\ listening = FALSE
  /\ hot = "idle" /\ zeroedEarly = FALSE

HotGoes(from, to) == hot = from /\ hot' = to

HotMoves(from, to) ==
  /\ HotGoes(from, to)
  /\ UNCHANGED <<active, connectedClients, startedBit, listening, zeroedEarly>>

Queued(event) == Cardinality({i \in DOMAIN queue : queue[i] = event})

\* What the count will be when the queue is empty.
Expected == Cardinality(stations) - Queued("joined") + Queued("left")

-----------------------------------------------------------------------------
\* Faulty variants, each substituted for its original to show that a property
\* depends on it.

\* An event loop that exists already does not matter.
MayCreateLoopAgain == TRUE

\* Only the handler that WaitForStart() registers handles a start.
HandleApStartIfAwaited ==
  /\ Handles("ap start")
  /\ active' = (active \/ listening)
  /\ startedBit' = (startedBit \/ listening)
  /\ HandlerReturns
  /\ UNCHANGED <<connectedClients, listening, hot, zeroedEarly>>

\* The stop of the access point is not handled.
HandleApStopIgnored ==
  /\ Handles("ap stop")
  /\ HandlerReturns
  /\ UNCHANGED hotspotState

-----------------------------------------------------------------------------
(***************************************************************************)
(* EventHandler(), and the handler of WaitForStart().                      *)
(***************************************************************************)

HandleApStart ==
  /\ Handles("ap start")
  /\ active' = TRUE
  /\ startedBit' = (startedBit \/ listening)
  /\ HandlerReturns
  /\ UNCHANGED <<connectedClients, listening, hot, zeroedEarly>>

HandleApStop ==
  /\ Handles("ap stop")
  /\ active' = FALSE
  /\ HandlerReturns
  /\ UNCHANGED <<connectedClients, startedBit, listening, hot, zeroedEarly>>

HandleStation ==
  /\ \/ Handles("joined") /\ connectedClients' = connectedClients + 1
     \/ Handles("left") /\ connectedClients' = connectedClients - 1
  /\ HandlerReturns
  /\ UNCHANGED <<active, startedBit, listening, hot, zeroedEarly>>

HotspotHandler ==
  /\ HandleApStart \/ HandleApStop \/ HandleStation
  /\ UNCHANGED <<air, addr, registry>>

-----------------------------------------------------------------------------
(***************************************************************************)
(* Start(), Stop(), ChangeCredentials() and WaitForStart().                *)
(***************************************************************************)

MayCreateLoop == ~loop

\* Without a new event loop Start() fails. Any later call may fail as well, and
\* leaves what was created and registered before.
Start ==
  /\ hot \in {"idle", "start"}
  /\ \/ HotMoves(hot, "idle") /\ UNCHANGED registry
     \/ /\ MayCreateLoop
        /\ loop' = TRUE
        /\ \/ HotMoves(hot, "idle") /\ UNCHANGED handlers
           \/ /\ handlers' = [handlers EXCEPT !["hotspot"] = @ + 1]
              /\ HotMoves(hot, "run")
  /\ UNCHANGED driver

StartAp ==
  /\ HotMoves("run", "idle")
  /\ MaySwitchTo("ap")
  /\ UNCHANGED <<addr, registry>>

\* The driver stops, whoever started it, or reports an error.
StopDriver(call, then) ==
  /\ \/ HotMoves("idle", call) /\ SwitchTo("off")
     \/ HotMoves("idle", then) /\ UNCHANGED <<air, queue>>
  /\ UNCHANGED <<addr, registry>>

Stop == StopDriver("stop", "idle")

ChangeCredentials == StopDriver("restart", "start")

StopResets ==
  /\ HotGoes("stop", "idle") \/ HotGoes("restart", "start")
  /\ active' = FALSE /\ connectedClients' = 0
  /\ zeroedEarly' = (zeroedEarly \/ Expected # 0)
  /\ UNCHANGED <<driver, registry, startedBit, listening>>

\* The handler is registered; what follows waits and only reads the bit.
WaitForStart ==
  /\ HotGoes("idle", "idle")
  /\ listening' = TRUE
  /\ UNCHANGED <<driver, registry, active, connectedClients, startedBit, zeroedEarly>>

HotspotCaller ==
  /\ \/ Start \/ StartAp
     \/ Stop \/ ChangeCredentials \/ StopResets \/ WaitForStart
  /\ UNCHANGED calls

-----------------------------------------------------------------------------
\* The number of clients is that of the stations, but for events that are still
\* queued, until Stop() resets it while stations are still to be counted down
\* (37, 41, 76, 116).
ClientsCounted == ~zeroedEarly => connectedClients = Expected

\* When all events are handled the hotspot is active if and only if the access
\* point runs, whichever manager stopped it (31, 34, 115).
ActiveMeansAp == queue = <<>> /\ hot = "idle" => (active <=> mode = "ap")

\* An access point that stays up, or stays down, is noticed, also while stations
\* come and go so that there are always events to handle, and whichever manager
\* switched the driver (31, 34).
ApIsNoticed ==
  /\ <>[](mode = "ap" /\ hot = "idle") => <>[]active
  /\ <>[](mode # "ap" /\ hot = "idle") => <>[]~active
=============================================================================
