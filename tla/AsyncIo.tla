------------------------------ MODULE AsyncIo ------------------------------
(***************************************************************************)
(* Asynchronous reads and writes of virtio_dev.c: virtio_submit cuts a     *)
(* request for a range of bytes into SCSI commands for whole blocks, and   *)
(* the callbacks of the poller thread carry it on.  A write that does not  *)
(* begin or end on a block boundary reads the block, changes it and writes *)
(* it back.                                                                *)
(*                                                                         *)
(* The bytes that request r writes are <<r, 0>>, <<r, 1>> ... (BlockDev).  *)
(* A callback is one step: callbacks run one at a time in the poller       *)
(* thread, and what they share with others is only the ring.  An           *)
(* allocation or a submission to the ring may fail at any time.            *)
(***************************************************************************)
EXTENDS BlockDev, Sequences

CONSTANTS
  Reqs,      \* async_io_desc_t objects, each submitted once
  Requests   \* the requests that may be submitted

ASSUME RequestAssumption ==
  /\ Requests \subseteq [type : {"read", "write"}, offset : Nat, nbytes : Nat]
  /\ NULL \notin Requests \cup {"ok", "error"}

VARIABLES
  disk,      \* the bytes of the device
  io,        \* the type, offset and nbytes fields of each descriptor
  retval,    \* its retval field
  stage,     \* "new", "refused", "empty", the callback it waits for, "done"
  cmd,       \* the SCSI command of its task
  resp,      \* what the device answered: NULL, "ok" or "error"
  data,      \* the contents of the data buffers of a read task
  vbufs,     \* the buffers of its task
  got,       \* what a read has put in the user's buffer
  trouble,   \* did anything go wrong on the way? (history)
  clash      \* requests that shared a block with a write in flight (history)

vars ==
  <<disk, io, retval, stage, cmd, resp, data, vbufs, got, trouble, clash>>

Init ==
  /\ disk = FreshDisk
  /\ io = [r \in Reqs |-> NULL]
  /\ retval = [r \in Reqs |-> NULL]
  /\ stage = [r \in Reqs |-> "new"]
  /\ cmd = [r \in Reqs |-> NULL]
  /\ resp = [r \in Reqs |-> NULL]
  /\ data = [r \in Reqs |-> NULL]
  /\ vbufs = [r \in Reqs |-> <<>>]
  /\ got = [r \in Reqs |-> NULL]
  /\ trouble = [r \in Reqs |-> FALSE]
  /\ clash = {}

-----------------------------------------------------------------------------
(***************************************************************************)
(* Tasks (virtio_task.c): a list of buffers; from and to delimit the bytes *)
(* of the user in a data buffer.                                           *)
(***************************************************************************)

Buf(role, size, from, to) ==
  [role |-> role, size |-> size, from |-> from, to |-> to]

REQ == Buf("req", 0, 0, 0)
RESP == Buf("resp", 0, 0, 0)

(* virtio_task_alloc_buf_part, one block. *)
AllocPart_Whole(from, to) ==    \* mutant: the range is not noted
  Buf("data", BlockSize, 0, BlockSize)
AllocPart(from, to) == Buf("data", BlockSize, from, to)

(* virtio_task_add_buf, a part of the user's buffer. *)
AddBuf(size) == Buf("data", size, 0, size)

(* The argument of virtio_task_create (4 when SubmitWriteTail makes it). *)
Limit(cb) ==
  CASE cb = "blk_read_done" -> 5 [] cb = "blk_read_last_block_done" -> 3 [] OTHER -> 4

(* Where the callbacks look for the response ... *)
RespIdx(r) == IF cmd[r].op = "read" THEN 2 ELSE Len(vbufs[r])

(* ... and for the data. *)
NData(r) == Len(vbufs[r]) - 2
Data(r) ==
  [k \in 1 .. NData(r) |-> vbufs[r][IF cmd[r].op = "read" THEN k + 2 ELSE k + 1]]

(* offset_from and offset_to of a task with one data buffer, or the first. *)
From(r) == Data(r)[1].from
To(r) == Data(r)[1].to

(* What a loop over len buffers adds up. *)
Sum(f, len) ==
  LET upto[k \in 0 .. len] == IF k = 0 THEN 0 ELSE upto[k - 1] + f[k]
  IN  upto[len]

(* The bytes of the user in all data buffers. *)
UserBytes(r) ==
  Sum([k \in 1 .. NData(r) |-> Data(r)[k].to - Data(r)[k].from], NData(r))

(* A task goes to the ring; cb is the callback it gets. *)
Send(r, cb, c, bufs) ==
  /\ stage' = [stage EXCEPT ![r] = cb]
  /\ cmd' = [cmd EXCEPT ![r] = c]
  /\ resp' = [resp EXCEPT ![r] = NULL]
  /\ vbufs' = [vbufs EXCEPT ![r] = bufs]

(* virtio_task_destroy *)
Destroy(r) ==
  /\ cmd' = [cmd EXCEPT ![r] = NULL]
  /\ vbufs' = [vbufs EXCEPT ![r] = <<>>]

(* push_to_outring, with the end of the task; what the ring does with it   *)
(* is in module OutRing.                                                   *)
Push_Success(r) ==    \* mutant: a failed request is dropped
  /\ stage' = [stage EXCEPT ![r] = IF retval'[r] = -1 THEN "refused" ELSE "done"]
  /\ Destroy(r)
Push(r) ==
  /\ stage' = [stage EXCEPT ![r] = "done"]
  /\ Destroy(r)

-----------------------------------------------------------------------------
(***************************************************************************)
(* virtio_submit                                                           *)
(***************************************************************************)

(* The callback a request waits for. *)
WriteStages == {"blk_read_first_block_done", "blk_write_full_blocks_done",
                "blk_read_last_block_done", "blk_write_last_block_done"}
InFlight == WriteStages \cup {"blk_read_done"}

(* There is something to transfer. *)
InRange(q) == q.offset <= Capacity /\ q.nbytes > 0

Accept(r, q) ==
  /\ stage[r] = "new"
  /\ io' = [io EXCEPT ![r] = q]
  /\ retval' = IF q.type = "write" /\ InRange(q)
                 THEN [retval EXCEPT ![r] = -1] ELSE retval
  /\ UNCHANGED <<disk, data, got, trouble>>

(* Note the requests in flight that share a block with the new one, unless *)
(* both are reads.                                                         *)
Meet(r, q) ==
  LET others == {s \in Reqs : /\ stage[s] \in InFlight
                              /\ "write" \in {q.type, io[s].type}
                              /\ Blocks(q) \cap Blocks(io[s]) # {}}
  IN clash' = IF others = {} THEN clash ELSE clash \cup others \cup {r}

(* -1: beyond the end, or no memory, or the ring is full. *)
Refuse(r, q) ==
  /\ q.offset > Capacity \/ q.nbytes > 0
  /\ Accept(r, q)
  /\ stage' = [stage EXCEPT ![r] = "refused"]
  /\ UNCHANGED <<cmd, resp, vbufs, clash>>

(* 0: nothing to do, and no completion will come. *)
SubmitEmpty(r, q) ==
  /\ q.offset <= Capacity
  /\ q.nbytes = 0
  /\ Accept(r, q)
  /\ stage' = [stage EXCEPT ![r] = "empty"]
  /\ UNCHANGED <<cmd, resp, vbufs, clash>>

(* Blocks that n bytes touch, resid bytes into the first of them. *)
BlocksTouched_Down(resid, n) ==    \* mutant: the last part is not counted
  (resid + n) \div BlockSize
BlocksTouched(resid, n) == (resid + n + BlockSize - 1) \div BlockSize

(* Where the request's bytes end in its first, partial block. *)
FirstEnd(q) == Least((q.offset % BlockSize) + Clip(q), BlockSize)

(* The data buffers of a read: a copy of the first block, whole blocks of  *)
(* the user's buffer, a copy of the last block, as far as there are any.   *)
ReadBufs(q) ==
  LET resid == q.offset % BlockSize
      head  == IF resid = 0 THEN 0 ELSE FirstEnd(q) - resid
      mid   == ((Clip(q) - head) \div BlockSize) * BlockSize
      tail  == Clip(q) - head - mid
  IN  (IF head > 0 THEN <<AllocPart(resid, resid + head)>> ELSE <<>>)
      \o (IF mid > 0 THEN <<AddBuf(mid)>> ELSE <<>>)
      \o (IF tail > 0 THEN <<AllocPart(0, tail)>> ELSE <<>>)

(* read_virtio_dev_async: one task for all blocks the range touches. *)
SubmitRead(r, q) ==
  LET nblk == BlocksTouched(q.offset % BlockSize, Clip(q)) IN
  /\ q.type = "read" /\ InRange(q)
  /\ Accept(r, q)
  /\ Meet(r, q)
  /\ Send(r, "blk_read_done", ReadCmd(q.offset \div BlockSize, nblk),
          <<REQ, RESP>> \o ReadBufs(q))

(* The task that reads the block a write begins or ends in. *)
ReadPartBufs(from, to) == <<REQ, RESP, AllocPart(from, to)>>

(* write_virtio_dev_async: the range begins inside a block, read it ... *)
SubmitWriteUnaligned(r, q) ==
  LET resid == q.offset % BlockSize IN
  /\ q.type = "write" /\ InRange(q)
  /\ resid # 0
  /\ Accept(r, q)
  /\ Meet(r, q)
  /\ Send(r, "blk_read_first_block_done", ReadCmd(q.offset \div BlockSize, 1),
          ReadPartBufs(resid, FirstEnd(q)))

(* ... it begins on a boundary, write the full blocks ... *)
SubmitWriteBlocks(r, q) ==
  LET nblk == Clip(q) \div BlockSize
      bytes == [i \in Bytes(nblk) |-> <<r, i>>]
  IN
  /\ q.type = "write" /\ InRange(q)
  /\ q.offset % BlockSize = 0
  /\ nblk > 0
  /\ Accept(r, q)
  /\ Meet(r, q)
  /\ Send(r, "blk_write_full_blocks_done",
          WriteCmd(q.offset \div BlockSize, nblk, bytes),
          <<REQ, AddBuf(nblk * BlockSize), RESP>>)

(* ... or it is less than one block, read that. *)
SubmitWriteTail(r, q) ==
  /\ q.type = "write" /\ InRange(q)
  /\ q.offset % BlockSize = 0
  /\ Clip(q) \div BlockSize = 0
  /\ Accept(r, q)
  /\ Meet(r, q)
  /\ Send(r, "blk_read_last_block_done", ReadCmd(q.offset \div BlockSize, 1),
          ReadPartBufs(0, Clip(q) % BlockSize))

-----------------------------------------------------------------------------
(***************************************************************************)
(* The callbacks.                                                          *)
(***************************************************************************)

Callback(r, cb) == stage[r] = cb /\ resp[r] = "ok"

(* A command of a write failed, or the callback cannot send the next one:  *)
(* complete the request with the retval it has.                            *)
GiveUp(r) ==
  /\ \/ /\ stage[r] \in WriteStages
        /\ resp[r] = "error"
        /\ UNCHANGED trouble
     \/ /\ stage[r] \in {"blk_read_first_block_done", "blk_read_last_block_done"}
        /\ resp[r] = "ok"
        /\ trouble' = [trouble EXCEPT ![r] = TRUE]
  /\ UNCHANGED retval
  /\ Push(r)
  /\ UNCHANGED <<disk, io, resp, data, got, clash>>

(* The command of a read failed. *)
ReadFails(r) ==
  /\ stage[r] = "blk_read_done"
  /\ resp[r] = "error"
  /\ retval' = [retval EXCEPT ![r] = -1]
  /\ Push(r)
  /\ UNCHANGED <<disk, io, resp, data, got, trouble, clash>>

(* The k-th byte of the range in the blocks that were read. *)
ReadByte_Front(r, k) == data[r][k]    \* mutant: offset_from is ignored
ReadByte(r, k) == data[r][From(r) + k]

(* Copy what was asked for out of the blocks; a short transfer is counted  *)
(* in bytes transferred.                                                   *)
blk_read_done(r) ==
  LET used == cmd[r].nblk * BlockSize
      n    == Least(UserBytes(r), used)
  IN
  /\ Callback(r, "blk_read_done")
  /\ retval' = [retval EXCEPT ![r] = n]
  /\ got' = [got EXCEPT ![r] = [k \in 0 .. n - 1 |->
               IF From(r) + k < used THEN ReadByte(r, k) ELSE NULL]]
  /\ Push(r)
  /\ UNCHANGED <<disk, io, resp, data, trouble, clash>>

(* The byte the user wrote, or the byte that was in the block. *)
Merged_All(r, i, k) == <<r, k>>    \* mutant: the old contents are not kept
Merged_Old(r, i, k) == data[r][i]    \* mutant: copied in the wrong order
Merged(r, i, k) == IF i \in From(r) .. To(r) - 1 THEN <<r, k>> ELSE data[r][i]

(* Merge the first bytes into the block and write it together with the     *)
(* full blocks that follow.                                                *)
blk_read_first_block_done(r) ==
  LET delta == To(r) - From(r)
      more  == (io[r].nbytes - delta) \div BlockSize
      bytes == [i \in Bytes(more + 1) |->
                  IF i < BlockSize THEN Merged(r, i, i - From(r))
                                   ELSE <<r, delta + i - BlockSize>>]
      rest  == IF delta < io[r].nbytes THEN <<AddBuf(more * BlockSize)>> ELSE <<>>
  IN
  /\ Callback(r, "blk_read_first_block_done")
  /\ Send(r, "blk_write_full_blocks_done",
          WriteCmd(io[r].offset \div BlockSize, more + 1, bytes),
          <<REQ, AllocPart(From(r), To(r))>> \o rest \o <<RESP>>)
  /\ UNCHANGED <<disk, io, retval, data, got, trouble, clash>>

(* Where the request ends. *)
End(r) == io[r].offset + io[r].nbytes

(* The full blocks are written: the request is complete ... *)
WriteFullComplete(r) ==
  /\ Callback(r, "blk_write_full_blocks_done")
  /\ UserBytes(r) = io[r].nbytes
  /\ retval' = [retval EXCEPT ![r] = UserBytes(r)]
  /\ Push(r)
  /\ UNCHANGED <<disk, io, resp, data, got, trouble, clash>>

(* ... or the rest of the last block cannot be read ... *)
WriteFullGiveUp(r) ==
  /\ Callback(r, "blk_write_full_blocks_done")
  /\ UserBytes(r) # io[r].nbytes
  /\ retval' = [retval EXCEPT ![r] = UserBytes(r)]
  /\ trouble' = [trouble EXCEPT ![r] = TRUE]
  /\ Push(r)
  /\ UNCHANGED <<disk, io, resp, data, got, clash>>

(* ... or it is read. *)
WriteFullContinue(r) ==
  /\ Callback(r, "blk_write_full_blocks_done")
  /\ UserBytes(r) # io[r].nbytes
  /\ End(r) % BlockSize # 0    \* assert(resid_offset != 0)
  /\ retval' = [retval EXCEPT ![r] = UserBytes(r)]
  /\ Send(r, "blk_read_last_block_done", ReadCmd(End(r) \div BlockSize, 1),
          ReadPartBufs(0, End(r) % BlockSize))
  /\ UNCHANGED <<disk, io, data, got, trouble, clash>>

(* Where byte i of the last block lies in the user's buffer. *)
LastByte(r, i) == io[r].nbytes - (To(r) - From(r)) + i

(* Merge the last bytes into the block and write it. *)
blk_read_last_block_done(r) ==
  LET bytes == [i \in Bytes(1) |-> Merged(r, i, LastByte(r, i))] IN
  /\ Callback(r, "blk_read_last_block_done")
  /\ Send(r, "blk_write_last_block_done",
          WriteCmd(End(r) \div BlockSize, 1, bytes),
          <<REQ, AllocPart(From(r), To(r)), RESP>>)
  /\ UNCHANGED <<disk, io, retval, data, got, trouble, clash>>

(* retval is what was written before, or -1 for nothing. *)
Total_Last(r) == To(r) - From(r)    \* mutant: the full blocks are forgotten
Total(r) == (IF retval[r] < 0 THEN 0 ELSE retval[r]) + To(r) - From(r)

blk_write_last_block_done(r) ==
  /\ Callback(r, "blk_write_last_block_done")
  /\ retval' = [retval EXCEPT ![r] = Total(r)]
  /\ Push(r)
  /\ UNCHANGED <<disk, io, resp, data, got, trouble, clash>>

-----------------------------------------------------------------------------
(***************************************************************************)
(* The device, external: executes the commands in any order and refuses    *)
(* one that leaves the device.  Any command may fail.                      *)
(***************************************************************************)

Pending(r) == cmd[r] # NULL /\ resp[r] = NULL

DevRead(r) ==
  /\ Pending(r) /\ Fits(cmd[r])
  /\ cmd[r].op = "read"
  /\ data' = [data EXCEPT ![r] = Fetched(disk, cmd[r])]
  /\ resp' = [resp EXCEPT ![r] = "ok"]
  /\ UNCHANGED <<disk, io, retval, stage, cmd, vbufs, got, trouble, clash>>

DevWrite(r) ==
  /\ Pending(r) /\ Fits(cmd[r])
  /\ cmd[r].op = "write"
  /\ disk' = Stored(disk, cmd[r])
  /\ resp' = [resp EXCEPT ![r] = "ok"]
  /\ UNCHANGED <<io, retval, stage, cmd, data, vbufs, got, trouble, clash>>

DevFail(r) ==
  /\ Pending(r)
  /\ resp' = [resp EXCEPT ![r] = "error"]
  /\ trouble' = [trouble EXCEPT ![r] = @ \/ Fits(cmd[r])]
  /\ UNCHANGED <<disk, io, retval, stage, cmd, data, vbufs, got, clash>>

-----------------------------------------------------------------------------
Submit(r, q) ==
  \/ Refuse(r, q)
  \/ SubmitEmpty(r, q)
  \/ SubmitRead(r, q)
  \/ SubmitWriteUnaligned(r, q)
  \/ SubmitWriteBlocks(r, q)
  \/ SubmitWriteTail(r, q)

Complete(r) ==
  \/ GiveUp(r)
  \/ ReadFails(r)
  \/ blk_read_done(r)
  \/ blk_read_first_block_done(r)
  \/ WriteFullComplete(r)
  \/ WriteFullGiveUp(r)
  \/ WriteFullContinue(r)
  \/ blk_read_last_block_done(r)
  \/ blk_write_last_block_done(r)

Device(r) == DevRead(r) \/ DevWrite(r) \/ DevFail(r)

Next ==
  \/ \E r \in Reqs, q \in Requests : Submit(r, q)
  \/ \E r \in Reqs : Complete(r) \/ Device(r)

Spec == Init /\ [][Next]_vars

(* The device answers every command and the poller runs every callback. *)
Fairness == \A r \in Reqs : WF_vars(Complete(r)) /\ WF_vars(Device(r))

FairSpec == Spec /\ Fairness

-----------------------------------------------------------------------------
(***************************************************************************)
(* Properties.                                                             *)
(***************************************************************************)

(* Every variable has its type; a request has a task exactly while one of  *)
(* its callbacks is due, and the range of a buffer lies inside of it.      *)
TypeOK ==
  /\ DOMAIN disk = 0 .. Capacity - 1
  /\ \A r \in Reqs :
       /\ stage[r] \in InFlight \cup {"new", "refused", "empty", "done"}
       /\ stage[r] # "new" => io[r] \in Requests
       /\ stage[r] \in InFlight <=> cmd[r] # NULL
       /\ stage[r] \in InFlight <=> vbufs[r] # <<>>
       /\ resp[r] \in {NULL, "ok", "error"}
       /\ \A k \in DOMAIN vbufs[r] :
            vbufs[r][k].from \in 0 .. vbufs[r][k].to /\ vbufs[r][k].to <= vbufs[r][k].size

(* What the code takes the task of r for. *)
LaidOut(r) ==
  /\ Len(vbufs[r]) <= Limit(stage[r])
  /\ vbufs[r][1] = REQ /\ vbufs[r][RespIdx(r)] = RESP
  /\ \A k \in 1 .. NData(r) : Data(r)[k].role = "data"
  /\ Sum([k \in 1 .. NData(r) |-> Data(r)[k].size], NData(r))
       = cmd[r].nblk * BlockSize
  /\ stage[r] \in {"blk_read_first_block_done", "blk_read_last_block_done",
                   "blk_write_last_block_done"} => Len(vbufs[r]) = 3
  /\ stage[r] = "blk_write_full_blocks_done" => Len(vbufs[r]) > 2

(* A task on the ring is what its command and its callback take it for:    *)
(* within its limit, the request first, the response where the callback    *)
(* looks for it (and what the device writes behind what it reads), and     *)
(* data buffers for just the blocks that the command transfers.            *)
TaskLayout == \A r \in Reqs : stage[r] \in InFlight => LaidOut(r)

(* When blk_write_full_blocks_done has something left to write, it lies in *)
(* a last partial block: assert(resid_offset != 0).                        *)
AssertResid ==
  \A r \in Reqs :
    Callback(r, "blk_write_full_blocks_done") /\ UserBytes(r) # io[r].nbytes
      => End(r) % BlockSize # 0

(* A request that met no failure on its way through the callbacks comes    *)
(* back with the number of bytes that was asked for and is on the device.  *)
FullResult ==
  \A r \in Reqs :
    stage[r] = "done" /\ ~trouble[r] => retval[r] = Clip(io[r])

(* Read-modify-write of a block is not atomic: what follows is promised to *)
(* requests that were alone on their blocks.                               *)
Completes(r) == stage[r] \in InFlight /\ stage'[r] = "done" /\ r \notin clash

(* A write that completes with retval n has its first n bytes on the       *)
(* device, also when a later part of it failed, unless another request for *)
(* one of its blocks was in flight with it.                                *)
Reported ==
  [][\A r \in Reqs :
       Completes(r) /\ io[r].type = "write" =>
         \A k \in 0 .. retval'[r] - 1 : disk[io[r].offset + k] = <<r, k>>]_vars

(* A read that completes with retval n has put the n bytes that the device *)
(* holds at its offset in the user's buffer, unless a write of one of its  *)
(* blocks was in flight with it.                                           *)
ReadReturned ==
  [][\A r \in Reqs :
       Completes(r) /\ io[r].type = "read" =>
         \A k \in 0 .. retval'[r] - 1 :
           got'[r][k] = disk[io[r].offset + k]]_vars

BelongsAt(x, b) ==
  \/ x = <<NULL, b>>
  \/ \E r \in Reqs : /\ io[r] # NULL /\ io[r].type = "write"
                     /\ x = <<r, b - io[r].offset>> /\ b < End(r)

(* A write command changes only the bytes that its request is about:       *)
(* writing back a block that was read and changed leaves the neighbours as *)
(* they are.  When another request for one of its blocks is in flight it   *)
(* may put back an older byte, but never one that belongs elsewhere.       *)
WellPlaced ==
  [][\A b \in DOMAIN disk : disk'[b] # disk[b] =>
       \E r \in Reqs :
         /\ stage[r] \in WriteStages /\ resp'[r] # resp[r]
         /\ b \div BlockSize \in Blocks(io[r])
         /\ \/ r \in clash /\ BelongsAt(disk'[b], b)
            \/ /\ b \in io[r].offset .. End(r) - 1
               /\ disk'[b] = <<r, b - io[r].offset>>]_vars

(* Every request that was accepted comes out of the output ring.           *)
EventuallyDone ==
  \A r \in Reqs : stage[r] \in InFlight ~> stage[r] = "done"
=============================================================================
