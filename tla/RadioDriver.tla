----------------------------- MODULE RadioDriver -----------------------------
(***************************************************************************)
(* What WiFi manager and hotspot manager share: the WiFi driver and the    *)
(* default event loop, a task that takes events from a queue and calls     *)
(* every handler that was registered for them, one after the other.        *)
(*                                                                         *)
(* Driver and loop belong to ESP-IDF and are modelled from their use: the  *)
(* driver runs in one mode; a link or a station that comes or goes is      *)
(* reported by an event; posting waits while the queue is full; the        *)
(* network interface loses its address when the loss of the link is taken  *)
(* from the queue, and gets none while such a loss is still queued.        *)
(***************************************************************************)
EXTENDS Integers, Sequences, FiniteSets, SequencesExt

CONSTANTS
  QueueLimit, \* events in the loop's queue with which posting waits
  Stations    \* devices that may join the hotspot

ASSUME DriverAssumption == QueueLimit \in Nat \ {0} /\ IsFiniteSet(Stations)

VARIABLES
  mode,     \* what the driver runs as
  link,     \* of the station mode
  addr,     \* the station's interface has an address
  stations, \* devices on the hotspot
  queue,
  calls,    \* handler calls that the event at the head still has to get
  loop,     \* the default event loop was created
  handlers  \* registrations: for WIFI_EVENT and IP_EVENT by the WiFi manager, and by the hotspot

air == <<mode, link, stations>>
driver == <<air, addr, queue>>
registry == <<loop, handlers>>

Modes == {"off", "sta", "ap"}
WifiEvents == {"sta start", "lost"}
Events == WifiEvents \cup {"got ip", "ap start", "ap stop", "joined", "left"}

DriverTypeOK ==
  /\ mode \in Modes /\ link \in {"down", "trying", "up"}
  /\ {addr, loop} \subseteq BOOLEAN
  /\ stations \subseteq Stations
  /\ Range(queue) \subseteq Events
  /\ calls \in Nat
  /\ handlers \in [{"wifi", "ip", "hotspot"} -> Nat]

DriverInit ==
  /\ mode = "off" /\ link = "down" /\ addr = FALSE /\ stations = {}
  /\ queue = <<>> /\ calls = 0 /\ loop = FALSE
  /\ handlers = [e \in {"wifi", "ip", "hotspot"} |-> 0]

\* What is posted together finds room together.
Post(events) ==
  /\ events = <<>> \/ Len(queue) < QueueLimit
  /\ queue' = queue \o events

If(condition, event) == IF condition THEN <<event>> ELSE <<>>

\* Whatever the driver did before ends with its events.
SwitchTo(to) ==
  IF to = mode THEN UNCHANGED <<air, queue>>
  ELSE /\ mode' = to /\ link' = "down" /\ stations' = {}
       /\ Post(If(link = "up", "lost")
               \o [i \in 1 .. Cardinality(stations) |-> "left"]
               \o If(mode = "ap", "ap stop")
               \o If(to = "sta", "sta start") \o If(to = "ap", "ap start"))

\* A call that the driver may refuse.
MaySwitchTo(to) == SwitchTo(to) \/ UNCHANGED <<air, queue>>

\* esp_wifi_connect()
TryLink == link' = IF mode = "sta" /\ link = "down" THEN "trying" ELSE link

-----------------------------------------------------------------------------
(***************************************************************************)
(* The event loop's task.                                                  *)
(***************************************************************************)

CallsFor(event) ==
  CASE event \in WifiEvents -> handlers["wifi"]
    [] event = "got ip" -> handlers["ip"]
    [] OTHER -> handlers["hotspot"]

TakeEvent ==
  /\ calls = 0 /\ queue # <<>>
  /\ calls' = CallsFor(Head(queue))
  /\ queue' = IF calls' = 0 THEN Tail(queue) ELSE queue
  /\ addr' = (addr /\ Head(queue) # "lost")
  /\ UNCHANGED <<air, registry>>

Handles(event) == calls > 0 /\ Head(queue) = event

HandlerReturns ==
  /\ calls' = calls - 1
  /\ queue' = IF calls' = 0 THEN Tail(queue) ELSE queue

-----------------------------------------------------------------------------
(***************************************************************************)
(* The air.                                                                *)
(***************************************************************************)

LinkComes ==
  /\ link = "trying"
  /\ link' = "up"
  /\ UNCHANGED <<mode, stations, addr, queue>>

AddressComes ==
  /\ link = "up" /\ ~addr /\ "lost" \notin Range(queue)
  /\ addr' = TRUE
  /\ Post(<<"got ip">>)
  /\ UNCHANGED air

LinkGoes ==
  /\ link # "down"
  /\ link' = "down"
  /\ Post(<<"lost">>)
  /\ UNCHANGED <<mode, stations, addr>>

StationJoins(s) ==
  /\ mode = "ap" /\ s \notin stations
  /\ stations' = stations \cup {s}
  /\ Post(<<"joined">>)
  /\ UNCHANGED <<mode, link, addr>>

StationLeaves(s) ==
  /\ s \in stations
  /\ stations' = stations \ {s}
  /\ Post(<<"left">>)
  /\ UNCHANGED <<mode, link, addr>>

AirNext ==
  /\ \/ LinkComes \/ AddressComes \/ LinkGoes
     \/ \E s \in Stations : StationJoins(s) \/ StationLeaves(s)
  /\ UNCHANGED <<calls, registry>>
=============================================================================
