------------------------------ MODULE BlockDev ------------------------------
(***************************************************************************)
(* What the synchronous and the asynchronous path of virtio_dev.c share:   *)
(* the geometry of the device, the SCSI commands for whole blocks, and the *)
(* device (external), which executes a command as a whole.                 *)
(*                                                                         *)
(* Byte b of a fresh device is <<NULL, b>>; the k-th byte of the buffer of *)
(* writer w is <<w, k>>.                                                   *)
(***************************************************************************)
EXTENDS Integers

CONSTANTS
  NULL,        \* no command, no data, a byte nobody stored
  BlockSize,   \* dev->block_size
  NumBlocks,   \* dev->num_blocks
  XferMod      \* 2^16: range of the transfer length in a 10-byte CDB

ASSUME GeometryAssumption ==
  /\ BlockSize \in Nat \ {0}
  /\ NumBlocks \in Nat \ {0}
  /\ XferMod \in Nat \ {0, 1}

Least(a, b) == IF a < b THEN a ELSE b

(* dev->cap *)
Capacity == BlockSize * NumBlocks

FreshDisk == [b \in 0 .. Capacity - 1 |-> <<NULL, b>>]

(* The bytes of a request that lie on the device. *)
Clip(q) == Least(q.nbytes, Capacity - q.offset)

(* The blocks of the device that a request touches. *)
Blocks(q) ==
  {b \div BlockSize : b \in q.offset .. q.offset + Clip(q) - 1}

(* The bytes of nblk blocks. *)
Bytes(nblk) == 0 .. nblk * BlockSize - 1

(* create_rw_cdb: the transfer length is cut to the width of its field. *)
create_rw_cdb(op, blk, nblk, bytes) ==
  [op |-> op, blk |-> blk, nblk |-> nblk % XferMod, bytes |-> bytes]

ReadCmd(blk, nblk) == create_rw_cdb("read", blk, nblk, NULL)

WriteCmd(blk, nblk, bytes) == create_rw_cdb("write", blk, nblk, bytes)

-----------------------------------------------------------------------------
(* The device refuses a command that leaves it. *)
Fits(c) == c.blk + c.nblk <= NumBlocks

(* What a read command puts in the buffers. *)
Fetched(d, c) ==
  [i \in Bytes(c.nblk) |-> d[c.blk * BlockSize + i]]

(* The disk after a write command. *)
Stored(d, c) ==
  [b \in DOMAIN d |->
     IF b - c.blk * BlockSize \in Bytes(c.nblk)
       THEN c.bytes[b - c.blk * BlockSize] ELSE d[b]]
=============================================================================
