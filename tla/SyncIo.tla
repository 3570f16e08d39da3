------------------------------- MODULE SyncIo -------------------------------
(***************************************************************************)
(* Synchronous reads and writes of virtio_dev.c.  read_virtio_dev and      *)
(* write_virtio_dev cut a range of bytes into at most three parts: the end *)
(* of a first block, full blocks, the beginning of a last block.  A part   *)
(* of a block is written by reading the block, changing it and writing it  *)
(* back.                                                                   *)
(*                                                                         *)
(* Each thread makes one call.  A command is one step: the thread sleeps   *)
(* in vring_submit_task_sync while the device executes it, and other       *)
(* threads' commands come between the commands of a call.                  *)
(***************************************************************************)
EXTENDS BlockDev

CONSTANTS
  Threads,   \* callers
  Requests   \* the calls they may make

ASSUME RequestAssumption ==
  /\ Requests \subseteq [type : {"read", "write"}, offset : Nat, nbytes : Nat]
  /\ NULL \notin Requests

VARIABLES
  disk,      \* the bytes of the device
  io,        \* the arguments of each thread's call
  pc,        \* the part it works on: "new", "first", "first_back", "blocks",
             \* "last", "last_back", "done"
  n,         \* read_bytes or written_bytes
  blk_buf,   \* the copy of a block that is partly overwritten
  got,       \* what a read has put in the caller's buffer
  ret,       \* what the call returns
  failed,    \* did a command fail? (history)
  clash      \* threads whose call shared a block with a write (history)

vars == <<disk, io, pc, n, blk_buf, got, ret, failed, clash>>

Init ==
  /\ disk = FreshDisk
  /\ io = [t \in Threads |-> NULL]
  /\ pc = [t \in Threads |-> "new"]
  /\ n = [t \in Threads |-> 0]
  /\ blk_buf = [t \in Threads |-> NULL]
  /\ got = [t \in Threads |-> <<>>]
  /\ ret = [t \in Threads |-> NULL]
  /\ failed = [t \in Threads |-> FALSE]
  /\ clash = {}

-----------------------------------------------------------------------------
(* The part of request q that follows when m bytes are done. *)
NextPart(q, m) ==
  IF m = 0 /\ q.offset % BlockSize # 0 THEN "first"
  ELSE IF (Clip(q) - m) \div BlockSize > 0 THEN "blocks"
  ELSE IF (Clip(q) - m) % BlockSize # 0 THEN "last"
  ELSE "done"

(* Go on after m bytes of request q, or return m. *)
Advance(t, q, m) ==
  LET part == IF Clip(q) = 0 THEN "done" ELSE NextPart(q, m) IN
  /\ n' = [n EXCEPT ![t] = m]
  /\ pc' = [pc EXCEPT ![t] = part]
  /\ ret' = [ret EXCEPT ![t] = IF part = "done" THEN m ELSE NULL]

Returns(t, r) ==
  /\ pc' = [pc EXCEPT ![t] = "done"]
  /\ ret' = [ret EXCEPT ![t] = r]

(* Note the calls in progress that share a block with the new one, unless  *)
(* both are reads.                                                         *)
Meet(t, q) ==
  LET others == {u \in Threads : /\ pc[u] \notin {"new", "done"}
                                 /\ "write" \in {q.type, io[u].type}
                                 /\ Blocks(q) \cap Blocks(io[u]) # {}}
  IN clash' = IF others = {} THEN clash ELSE clash \cup others \cup {t}

Call(t, q) ==
  /\ pc[t] = "new"
  /\ io' = [io EXCEPT ![t] = q]
  /\ IF q.offset > Capacity
       THEN Returns(t, -1) /\ UNCHANGED n
       ELSE Advance(t, q, 0)
  /\ Meet(t, q)
  /\ UNCHANGED <<disk, blk_buf, got, failed>>

(* blk_offset: the block after the n bytes done. *)
Blk(t) == (io[t].offset + n[t]) \div BlockSize

(* off_start and nbytes of a part of a block. *)
OffStart_Zero(t) == 0    \* mutant: the part is taken from the block's start
OffStart(t) == IF n[t] = 0 THEN io[t].offset % BlockSize ELSE 0

PartLen(t) == Least(Clip(io[t]) - n[t], BlockSize - OffStart(t))

(* The blocks of the middle part. *)
NBlk(t) == (Clip(io[t]) - n[t]) \div BlockSize

(* read_partial_block *)
ReadPart(t) ==
  LET c == ReadCmd(Blk(t), 1) IN
  /\ pc[t] \in {"first", "last"} /\ io[t].type = "read"
  /\ Fits(c)
  /\ got' = [got EXCEPT ![t] = [k \in 0 .. n[t] + PartLen(t) - 1 |->
       IF k < n[t] THEN got[t][k] ELSE Fetched(disk, c)[OffStart(t) + k - n[t]]]]
  /\ Advance(t, io[t], n[t] + PartLen(t))
  /\ UNCHANGED <<disk, io, blk_buf, failed, clash>>

(* A byte of the block: the old one, or the caller's. *)
NewByte_Old(t, i, old) == old    \* mutant: copied in the wrong order
NewByte_All(t, i, old) == <<t, n[t] + i>>    \* mutant: the old one is not kept
NewByte(t, i, old) ==
  IF i - OffStart(t) \in 0 .. PartLen(t) - 1
    THEN <<t, n[t] + i - OffStart(t)>> ELSE old

(* write_partial_block: read the block and change it ... *)
WritePartRead(t) ==
  LET old == Fetched(disk, ReadCmd(Blk(t), 1)) IN
  /\ pc[t] \in {"first", "last"} /\ io[t].type = "write"
  /\ Fits(ReadCmd(Blk(t), 1))
  /\ blk_buf' = [blk_buf EXCEPT ![t] =
                   [i \in DOMAIN old |-> NewByte(t, i, old[i])]]
  /\ pc' = [pc EXCEPT ![t] = IF pc[t] = "first" THEN "first_back" ELSE "last_back"]
  /\ UNCHANGED <<disk, io, n, got, ret, failed, clash>>

(* ... and write it back. *)
WritePartBack(t) ==
  LET c == WriteCmd(Blk(t), 1, blk_buf[t]) IN
  /\ pc[t] \in {"first_back", "last_back"}
  /\ Fits(c)
  /\ disk' = Stored(disk, c)
  /\ blk_buf' = [blk_buf EXCEPT ![t] = NULL]
  /\ Advance(t, io[t], n[t] + PartLen(t))
  /\ UNCHANGED <<io, got, failed, clash>>

(* blk_read_virtio_dev for the full blocks; a short read ends the call. *)
ReadBlocks(t) ==
  LET c    == ReadCmd(Blk(t), NBlk(t))
      used == c.nblk * BlockSize
  IN
  /\ pc[t] = "blocks" /\ io[t].type = "read"
  /\ Fits(c)
  /\ got' = [got EXCEPT ![t] = [k \in 0 .. n[t] + used - 1 |->
       IF k < n[t] THEN got[t][k] ELSE Fetched(disk, c)[k - n[t]]]]
  /\ IF used < NBlk(t) * BlockSize
       THEN Returns(t, n[t] + used) /\ UNCHANGED n
       ELSE Advance(t, io[t], n[t] + used)
  /\ UNCHANGED <<disk, io, blk_buf, failed, clash>>

(* blk_write_virtio_dev for the full blocks, which always reports all of   *)
(* them.                                                                   *)
WriteBlocks(t) ==
  LET c == WriteCmd(Blk(t), NBlk(t),
                    [i \in Bytes(NBlk(t)) |-> <<t, n[t] + i>>])
  IN
  /\ pc[t] = "blocks" /\ io[t].type = "write"
  /\ Fits(c)
  /\ disk' = Stored(disk, c)
  /\ Advance(t, io[t], n[t] + NBlk(t) * BlockSize)
  /\ UNCHANGED <<io, blk_buf, got, failed, clash>>

(* A command that fails in the middle part ends the call with the bytes    *)
(* done so far, one for a part of a block with -1.                         *)
FailRet_Ignored(t) == Clip(io[t])    \* mutant: the status is not looked at
FailRet(t) == IF pc[t] = "blocks" THEN n[t] ELSE -1

(* The device reports an error, or there is no memory for the task, or the *)
(* ring is full.  The buffer of a partial block is not checked; a device   *)
(* that is handed NULL is taken to report an error.                        *)
Fail(t) ==
  /\ pc[t] \notin {"new", "done"}
  /\ Returns(t, FailRet(t))
  /\ failed' = [failed EXCEPT ![t] = TRUE]
  /\ blk_buf' = [blk_buf EXCEPT ![t] = NULL]
  /\ UNCHANGED <<disk, io, n, got, clash>>

-----------------------------------------------------------------------------
Step(t) ==
  \/ ReadPart(t) \/ WritePartRead(t) \/ WritePartBack(t)
  \/ ReadBlocks(t) \/ WriteBlocks(t) \/ Fail(t)

Next ==
  \/ \E t \in Threads, q \in Requests : Call(t, q)
  \/ \E t \in Threads : Step(t)

Spec == Init /\ [][Next]_vars

-----------------------------------------------------------------------------
(* Every variable has its type; a call never does more than was asked for. *)
TypeOK ==
  /\ DOMAIN disk = 0 .. Capacity - 1
  /\ \A t \in Threads :
       /\ pc[t] \in {"new", "first", "first_back", "blocks", "last",
                     "last_back", "done"}
       /\ pc[t] # "new" => io[t] \in Requests
       /\ pc[t] \notin {"new", "done"} => n[t] \in 0 .. Clip(io[t])
       /\ pc[t] \in {"first_back", "last_back"} <=> blk_buf[t] # NULL
       /\ pc[t] = "done" <=> ret[t] # NULL

(* The number of blocks fits into the command; create_rw_cdb cuts a larger *)
(* one without a word, and no more is promised than SyncReadReturned and   *)
(* SyncWellPlaced say.                                                     *)
FitsCdb(t) == Clip(io[t]) \div BlockSize < XferMod

(* The number returned tells the caller whether all commands succeeded,    *)
(* also for a range that is cut at the end of the device, as long as the   *)
(* transfer length of no command is cut.                                   *)
CountTellsFailure ==
  \A t \in Threads :
    pc[t] = "done" /\ io[t].offset <= Capacity /\ FitsCdb(t) =>
      (ret[t] = Clip(io[t]) <=> ~failed[t])

(* Read-modify-write of a block is not atomic: what follows is promised to *)
(* calls that were alone on their blocks.                                  *)
Finishes(t) ==
  pc[t] \notin {"new", "done"} /\ pc'[t] = "done" /\ t \notin clash

(* A write that returns m has its first m bytes on the device, also when a *)
(* later part failed, unless another call for one of its blocks came       *)
(* between or the transfer length was cut.                                 *)
SyncReported ==
  [][\A t \in Threads :
       Finishes(t) /\ io[t].type = "write" /\ FitsCdb(t) =>
         \A k \in 0 .. ret'[t] - 1 : disk'[io[t].offset + k] = <<t, k>>]_vars

(* A read that returns m has put the m bytes that the device holds at its  *)
(* offset in the caller's buffer, unless a write of one of its blocks came *)
(* between.  A read whose transfer length was cut is short but truthful.   *)
SyncReadReturned ==
  [][\A t \in Threads :
       Finishes(t) /\ io[t].type = "read" =>
         \A k \in 0 .. ret'[t] - 1 : got'[t][k] = disk[io[t].offset + k]]_vars

BelongsAt(x, b) ==
  \/ x = <<NULL, b>>
  \/ \E t \in Threads : /\ io[t] # NULL /\ io[t].type = "write"
                        /\ x = <<t, b - io[t].offset>>
                        /\ b < io[t].offset + io[t].nbytes

(* A write changes only the bytes that the call is about: writing back a   *)
(* block that was read and changed leaves the neighbours as they are.      *)
(* When another call for one of its blocks came between it may put back an *)
(* older byte, but never one that belongs elsewhere.                       *)
SyncWellPlaced ==
  [][\A b \in DOMAIN disk : disk'[b] # disk[b] =>
       \E t \in Threads :
         /\ pc'[t] # pc[t]
         /\ b \div BlockSize \in Blocks(io[t])
         /\ \/ t \in clash /\ BelongsAt(disk'[b], b)
            \/ /\ b - io[t].offset \in 0 .. io[t].nbytes - 1
               /\ disk'[b] = <<t, b - io[t].offset>>]_vars
=============================================================================
