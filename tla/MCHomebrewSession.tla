------------------------- MODULE MCHomebrewSession -------------------------
(* Small instances of HomebrewSession for TLC. *)
EXTENDS HomebrewSession, TLC
=============================================================================
