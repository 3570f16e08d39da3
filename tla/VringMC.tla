------------------------------ MODULE VringMC ------------------------------
(***************************************************************************)
(* Instances of Vring for TLC.                                             *)
(***************************************************************************)
EXTENDS Vring, TLC

(* Threads and tasks are interchangeable (safety runs only). *)
Symmetry == Permutations(Threads) \cup Permutations(Tasks)
=============================================================================
