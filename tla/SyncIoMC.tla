------------------------------ MODULE SyncIoMC ------------------------------
(* Calls for the runs of SyncIo. *)
EXTENDS SyncIo

(* Every range that begins on the device or at its end, cut off or not,    *)
(* and one beyond.                                                         *)
Calls ==
  [type : {"read", "write"}, offset : 0 .. Capacity, nbytes : 0 .. Capacity]
  \cup [type : {"read", "write"}, offset : {Capacity + 1}, nbytes : {1}]
=============================================================================
