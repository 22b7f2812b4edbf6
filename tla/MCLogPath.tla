------------------------------ MODULE MCLogPath ------------------------------
(***************************************************************************)
(* LogPath on small instances: messages of one and of two units of size.   *)
(***************************************************************************)
EXTENDS LogPath, TLC

CONSTANTS w1, w2

MCEntryBytes(message) == 1 + (message % 2)

MCSymmetry == Permutations(Writers)
=============================================================================
