---------------------------- MODULE MCThreadPool ----------------------------
(***************************************************************************)
(* ThreadPool on small instances.                                          *)
(***************************************************************************)
EXTENDS ThreadPool

CONSTANTS s1, s2, e1, w1, w2
=============================================================================
