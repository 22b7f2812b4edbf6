------------------------------- MODULE MCCache -------------------------------
(***************************************************************************)
(* Cache on small instances.                                               *)
(***************************************************************************)
EXTENDS Cache

CONSTANTS k1, k2, v1, v2
=============================================================================
