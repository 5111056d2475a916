-------------------------- MODULE MCHomebrewClient --------------------------
(* Small instances of HomebrewClient for TLC. *)
EXTENDS HomebrewClient, TLC

\* No definition tells one host from another.
HostSymmetry == Permutations(Hosts)

\* A repeater 1200 m above the sea.
Tall == {[NewConfig EXCEPT !.height = IntLength(1200)]}
=============================================================================
