----------------------------- MODULE AsyncIoMC -----------------------------
(* Requests for the runs of AsyncIo. *)
EXTENDS AsyncIo

(* Begin on a boundary or inside of the first or the second block, end on  *)
(* a boundary or one byte before: nothing, parts of one block and of two,  *)
(* full blocks, with a part before and after them.                         *)
Begins == {0, 1, BlockSize + 1}
Ends == {b * BlockSize : b \in 0 .. NumBlocks}
        \cup {b * BlockSize - 1 : b \in 1 .. NumBlocks}

(* Ranges on the device, and one beyond its end. *)
Inside ==
  {q \in [type : {"read", "write"}, offset : Begins, nbytes : 0 .. Capacity] :
     q.offset + q.nbytes \in Ends}
  \cup [type : {"read", "write"}, offset : {Capacity + 1}, nbytes : {1}]

(* Ranges that reach past the end too. *)
PastEnd ==
  Inside \cup
  [type : {"read", "write"}, offset : 0 .. Capacity - 1, nbytes : 1 .. Capacity]
=============================================================================
