--------------------------- MODULE VringPollerMC ---------------------------
(***************************************************************************)
(* Instances of VringPoller for TLC.                                       *)
(***************************************************************************)
EXTENDS VringPoller, TLC

(* Clients and tasks are interchangeable (safety runs only). *)
Symmetry == Permutations(Clients) \cup Permutations(Tasks)
=============================================================================
