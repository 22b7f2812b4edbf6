---------------------------- MODULE MCMqttClient ----------------------------
(***************************************************************************)
(* MqttClient on small instances.                                          *)
(***************************************************************************)
EXTENDS MqttClient

CONSTANTS m1, m2, i1, t1
=============================================================================
