----------------------------- MODULE OutRingMC -----------------------------
(* Arguments of virtio_completed for the runs of OutRing. *)
EXTENDS OutRing

(* Forever, not at all, one and two delays. *)
SomeTimeouts == {-1, 0, 1, 2}
=============================================================================
