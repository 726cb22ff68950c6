--------------------------- MODULE MCSessionStore ---------------------------
(* Instances of SessionStore for TLC.  "edge core" and "edge_core" are two  *)
(* inventory names with one lock file.                                      *)
EXTENDS StoreRefinement, TLC

CONSTANTS edge_core, edge_core2, active_lock

OneDevice == {edge_core}
TwoDevices == {edge_core, edge_core2}
OneKey == {active_lock}
Colliding == [d \in Devices |-> active_lock]
Symmetric == Permutations(Procs) \cup Permutations(Ids) \cup Permutations(Changes)
=============================================================================
