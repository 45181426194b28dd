---------------------------- MODULE MCWatchtower ----------------------------
(* Small instances of Watchtower.                                          *)
EXTENDS Watchtower

CONSTANTS s1, s2, store
=============================================================================
