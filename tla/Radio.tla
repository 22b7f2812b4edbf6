-------------------------------- MODULE Radio --------------------------------
(***************************************************************************)
(* WiFi manager and hotspot manager on one driver and one event loop, each *)
(* called by a thread of its own.                                          *)
(***************************************************************************)
EXTENDS WiFiManager, HotspotManager

radio == <<driver, calls, registry, wifiState, hotspotState>>

RadioTypeOK == DriverTypeOK /\ WifiTypeOK /\ HotspotTypeOK

RadioInit == DriverInit /\ WifiInit /\ HotspotInit

EventLoop ==
  \/ TakeEvent /\ UNCHANGED <<wifiState, hotspotState>>
  \/ WifiHandler /\ UNCHANGED hotspotState
  \/ HotspotHandler /\ UNCHANGED wifiState

RadioNext ==
  \/ AirNext /\ UNCHANGED <<wifiState, hotspotState>>
  \/ EventLoop
  \/ WifiCaller /\ UNCHANGED hotspotState
  \/ HotspotCaller /\ UNCHANGED wifiState

\* The task of the event loop is scheduled.
RadioFairness == WF_radio(EventLoop)

RadioSpec == RadioInit /\ [][RadioNext]_radio /\ RadioFairness
=============================================================================
