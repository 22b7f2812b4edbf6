------------------------------ MODULE MCDevice ------------------------------
(***************************************************************************)
(* Radio, FileStore and BrokerUri on small instances.  They share nothing, *)
(* so their interleavings show nothing: one takes steps while the others   *)
(* are as they began.                                                      *)
(***************************************************************************)
EXTENDS Radio, FileStore, BrokerUri

CONSTANTS s1, c1, c2, x1, x2

RadioRests == RadioInit /\ UNCHANGED radio
FilesRest == FilesInit /\ ~mounted /\ UNCHANGED files
BrokerRests == BrokerInit /\ UNCHANGED broker

DeviceInit == RadioInit /\ FilesInit /\ BrokerInit

DeviceNext ==
  \/ FilesRest /\ BrokerRests /\ RadioNext
  \/ RadioRests /\ BrokerRests /\ FilesNext
  \/ RadioRests /\ FilesRest /\ BrokerNext

Spec == DeviceInit /\ [][DeviceNext]_<<radio, files, broker>> /\ RadioFairness
=============================================================================
