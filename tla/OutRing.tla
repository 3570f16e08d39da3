------------------------------ MODULE OutRing ------------------------------
(***************************************************************************)
(* The output ring of virtio_dev.c: the poller thread pushes completed     *)
(* requests (push_to_outring); one thread of the application waits for     *)
(* mincount of them (virtio_completed) and takes them out                  *)
(* (virtio_get_completed).                                                 *)
(*                                                                         *)
(* The two share the ring, the plain int event_high_wm and the eventfd     *)
(* outfd.  Every access to these is a step.  There is no fence between a   *)
(* thread's store and its next load, so a store stays in the thread's      *)
(* store buffer, where only the thread itself sees it, until a step of its *)
(* own makes it visible (x86; delaying the store is also all that the      *)
(* compiler may do here).  A locked instruction, or a system call that     *)
(* uses one, waits for the buffer to drain.                                *)
(*                                                                         *)
(* Descriptors are not told apart: the ring is its length.  Time is        *)
(* counted in units of the delay of 100 ms that virtio_completed passes to *)
(* poll.                                                                   *)
(***************************************************************************)
EXTENDS Integers, Sequences

CONSTANTS
  OUTRING_SIZE,  \* a ring of this size holds one element less
  MaxOut,        \* bound: requests submitted and not taken out yet
  MinCounts,     \* values of the argument mincount
  Timeouts,      \* values of the argument timeout, in delays
  MaxTime,       \* bound: clocks stop counting here
  StoreBuffer,   \* stores of event_high_wm that the store buffer can hold
  Signals        \* may a signal interrupt poll?

ASSUME OutRingAssumption ==
  /\ OUTRING_SIZE \in Nat \ {0}
  /\ MaxOut \in Nat
  /\ MinCounts \subseteq Nat \ {0}    \* assert(mincount > 0)
  /\ MaxTime \in Nat
  /\ StoreBuffer \in Nat \ {0}
  /\ Signals \in BOOLEAN
  /\ \A t \in Timeouts : t \in Int /\ t <= MaxTime

VARIABLES
  inflight,  \* submitted and not yet pushed
  count,     \* elements of the ring that the application sees
  unseen,    \* pushed, in the store buffer of the poller thread
  taken,     \* taken out, in the store buffer of the application
  wm,        \* event_high_wm in memory
  wmbuf,     \* its stores in the store buffer of the application
  token,     \* is the counter of outfd above zero?
  ppc,       \* where push_to_outring is
  hw,        \* event_high_wm as push_to_outring read it
  cpc,       \* where virtio_completed is
  mincount, timeout, n, total,  \* its arguments and locals
  old,       \* of unseen, what was there when poll was called (history)
  slept,     \* has this call slept a whole delay? (history)
  owed       \* elements it has announced that were not taken out (history)

pvars == <<inflight, ppc, hw>>
cvars == <<cpc, mincount, timeout, n, total, slept, owed>>
ring == <<count, unseen, taken, old>>
mark == <<wm, wmbuf>>
vars == <<pvars, cvars, ring, mark, token>>

Init ==
  /\ inflight = 0 /\ count = 0 /\ unseen = 0 /\ taken = 0 /\ old = 0
  /\ wm = 0 /\ wmbuf = <<>> /\ token = FALSE
  /\ ppc = "idle" /\ hw = 0
  /\ cpc = "idle" /\ mincount = 1 /\ timeout = 0 /\ n = 0 /\ total = 0
  /\ slept = FALSE /\ owed = 0

(* No assert has failed: the process lives. *)
Alive == ppc # "aborted"

-----------------------------------------------------------------------------
(***************************************************************************)
(* Stores become visible.                                                  *)
(***************************************************************************)

(* prod.tail, which rte_ring_sp_enqueue stores *)
FlushPush ==
  /\ Alive
  /\ unseen > 0
  /\ unseen' = unseen - 1
  /\ count' = count + 1
  /\ old' = IF old > 0 THEN old - 1 ELSE 0
  /\ UNCHANGED <<pvars, cvars, taken, mark, token>>

(* cons.tail, which rte_ring_mc_dequeue stores after its compare and set *)
FlushTake ==
  /\ Alive
  /\ taken > 0
  /\ taken' = 0
  /\ UNCHANGED <<pvars, cvars, count, unseen, old, mark, token>>

FlushMark ==
  /\ Alive
  /\ wmbuf # <<>>
  /\ wm' = Head(wmbuf)
  /\ wmbuf' = Tail(wmbuf)
  /\ UNCHANGED <<pvars, cvars, ring, token>>

Drained == wmbuf = <<>> /\ taken = 0

-----------------------------------------------------------------------------
(***************************************************************************)
(* push_to_outring, in the poller thread.                                  *)
(***************************************************************************)

(* rte_ring_count(outring) in the poller thread: it sees its own pushes at *)
(* once and what was taken out late.                                       *)
Occupied == count + unseen + taken

(* A request is submitted; its last callback starts.  Nothing throttles    *)
(* virtio_submit: MaxOut only bounds the model.                            *)
Submit ==
  /\ Alive
  /\ inflight + Occupied < MaxOut
  /\ inflight' = inflight + 1
  /\ UNCHANGED <<ppc, hw, cvars, ring, mark, token>>

Push ==
  /\ ppc = "idle" /\ inflight > 0
  /\ ppc' = "enqueue"
  /\ UNCHANGED <<inflight, hw, cvars, ring, mark, token>>

Room == Occupied < OUTRING_SIZE - 1

(* rte_ring_sp_enqueue *)
Enqueue ==
  /\ ppc = "enqueue"
  /\ Room
  /\ unseen' = unseen + 1
  /\ inflight' = inflight - 1
  /\ ppc' = "watermark"
  /\ UNCHANGED <<hw, cvars, count, taken, old, mark, token>>

(* assert(rc == 0) *)
Overflow ==
  /\ ppc = "enqueue"
  /\ ~Room
  /\ ppc' = "aborted"
  /\ UNCHANGED <<inflight, hw, cvars, ring, mark, token>>

(* event_high_wm > 0 *)
ReadWatermark ==
  /\ ppc = "watermark"
  /\ hw' = wm
  /\ ppc' = IF wm > 0 THEN "reread" ELSE "idle"
  /\ UNCHANGED <<inflight, cvars, ring, mark, token>>

(* The plain int is read a second time, or the compiler keeps the value of *)
(* the first read.                                                         *)
Reread ==
  /\ ppc = "reread"
  /\ hw' \in {hw, wm}
  /\ ppc' = "compare"
  /\ UNCHANGED <<inflight, cvars, ring, mark, token>>

(* event_high_wm <= rte_ring_count(outring) *)
Reached_Above(w) == w < Occupied    \* mutant: the watermark itself is not enough
Reached(w) == w <= Occupied

Compare ==
  /\ ppc = "compare"
  /\ ppc' = IF Reached(hw) THEN "kick" ELSE "idle"
  /\ UNCHANGED <<inflight, hw, cvars, ring, mark, token>>

(* write(outfd) *)
Kick ==
  /\ ppc = "kick"
  /\ unseen = 0
  /\ token' = TRUE
  /\ ppc' = "idle"
  /\ UNCHANGED <<inflight, hw, cvars, ring, mark>>

-----------------------------------------------------------------------------
(***************************************************************************)
(* virtio_completed and virtio_get_completed, in the application.          *)
(***************************************************************************)

(* event_high_wm = w *)
Store(w) ==
  /\ Len(wmbuf) < StoreBuffer
  /\ wmbuf' = Append(wmbuf, w)
  /\ UNCHANGED wm

Call ==
  /\ Alive
  /\ cpc = "idle"
  /\ mincount' \in MinCounts
  /\ timeout' \in Timeouts
  /\ Store(mincount')
  /\ total' = 0
  /\ slept' = FALSE
  /\ cpc' = "count"
  /\ UNCHANGED <<pvars, n, owed, ring, token>>

(* n = rte_ring_count(outring), before the loop and at its end. *)
Counted_Submitted == count + inflight    \* mutant: requests on their way count
Counted == count

Count ==
  /\ Alive
  /\ cpc = "count"
  /\ n' = Counted
  /\ cpc' = IF n' >= mincount THEN "reset" ELSE "loop"
  /\ UNCHANGED <<pvars, mincount, timeout, total, slept, owed, ring, mark, token>>

(* return (n) *)
Return ==
  /\ Alive
  /\ cpc' = "idle"
  /\ owed' = n
  /\ UNCHANGED <<pvars, mincount, timeout, n, total, slept, ring, token>>

Reset ==
  /\ cpc = "reset"
  /\ Store(0)
  /\ Return

(* timeout >= 0 && total_time >= timeout *)
Expired_Negative == total >= timeout    \* mutant: -1 is not forever
Expired == timeout >= 0 /\ total >= timeout

(* The return inside the loop leaves event_high_wm set. *)
TimeOut ==
  /\ cpc = "loop"
  /\ Expired
  /\ UNCHANGED mark
  /\ Return

(* poll is called. *)
Sleep ==
  /\ Alive
  /\ cpc = "loop"
  /\ ~Expired
  /\ Drained
  /\ old' = unseen
  /\ cpc' = "sleep"
  /\ UNCHANGED <<pvars, mincount, timeout, n, total, slept, owed>>
  /\ UNCHANGED <<count, unseen, taken, mark, token>>

Later(t) == IF t < MaxTime THEN t + 1 ELSE t

(* total_time += delay *)
Spent_Nothing == total    \* mutant: the time is not counted
Spent == Later(total)

(* poll returns.  However early it does, the whole delay is counted. *)
Wake ==
  /\ Alive
  /\ cpc = "sleep"
  /\ total' = Spent
  /\ cpc' = "count"
  /\ UNCHANGED <<pvars, mincount, timeout, n, owed, ring, mark>>

(* outfd is ready and is read. *)
PollReady ==
  /\ token
  /\ Wake
  /\ token' = FALSE
  /\ UNCHANGED slept

(* The delay is over; it is longer than any store stays in a buffer. *)
PollTimeout ==
  /\ ~token
  /\ old = 0
  /\ Wake
  /\ slept' = TRUE
  /\ UNCHANGED token

(* A signal interrupts poll. *)
PollError ==
  /\ Signals
  /\ Wake
  /\ UNCHANGED <<token, slept>>

(* rte_ring_mc_dequeue returns 0; it has a compare and set. *)
CanTake == count > 0 /\ Drained

GetCompleted ==
  /\ Alive
  /\ cpc = "idle" /\ CanTake
  /\ count' = count - 1
  /\ taken' = 1
  /\ owed' = IF owed > 0 THEN owed - 1 ELSE 0
  /\ UNCHANGED <<pvars, cpc, mincount, timeout, n, total, slept, unseen, old, mark, token>>

-----------------------------------------------------------------------------
Flush == FlushPush \/ FlushTake \/ FlushMark

Producer ==
  Push \/ Enqueue \/ Overflow \/ ReadWatermark \/ Reread \/ Compare \/ Kick

Waiting == Count \/ Reset \/ TimeOut \/ Sleep \/ PollReady \/ PollTimeout

(* An assert has failed. *)
Ended == ~Alive /\ UNCHANGED vars

Next ==
  \/ Flush \/ Submit \/ Producer
  \/ Call \/ Waiting \/ PollError \/ GetCompleted
  \/ Ended

Spec == Init /\ [][Next]_vars

(* The poller thread and the waiting thread are scheduled, store buffers   *)
(* drain, and poll ends at the latest after its delay.                     *)
FairSpec ==
  /\ Spec
  /\ WF_vars(FlushPush) /\ WF_vars(FlushTake) /\ WF_vars(FlushMark)
  /\ WF_vars(Producer) /\ WF_vars(Waiting)

-----------------------------------------------------------------------------
(***************************************************************************)
(* Properties.                                                             *)
(***************************************************************************)

(* Every variable has its type; the ring holds at most OUTRING_SIZE - 1.   *)
TypeOK ==
  /\ inflight \in 0 .. MaxOut
  /\ count \in Nat /\ unseen \in Nat /\ taken \in {0, 1} /\ old \in Nat
  /\ Occupied <= OUTRING_SIZE - 1
  /\ wm \in MinCounts \cup {0}
  /\ wmbuf \in Seq(MinCounts \cup {0})
  /\ hw \in MinCounts \cup {0}
  /\ token \in BOOLEAN /\ slept \in BOOLEAN
  /\ ppc \in {"idle", "enqueue", "watermark", "reread", "compare", "kick", "aborted"}
  /\ cpc \in {"idle", "count", "reset", "loop", "sleep"}
  /\ n \in 0 .. OUTRING_SIZE - 1
  /\ total \in 0 .. MaxTime

(* push_to_outring has still to look at the watermark or to kick. *)
Announcing == ppc \in {"watermark", "reread", "compare", "kick"}

(* virtio_completed oversleeps at most once: a wakeup may be lost, because *)
(* its store of event_high_wm and the push may pass each other, but after  *)
(* one poll of 100 ms every further poll that finds enough requests in the *)
(* ring has its kick there or on its way.                                  *)
OversleepsOnce ==
  slept /\ cpc \in {"loop", "sleep"} /\ count >= mincount => token \/ Announcing

(* What virtio_completed has announced can be taken out: a caller that     *)
(* calls virtio_get_completed that many times never gets NULL.             *)
Collectable == owed <= count

(* With a negative timeout virtio_completed returns only when mincount     *)
(* requests are completed.                                                 *)
ForeverMeansForever ==
  [][cpc # "idle" /\ cpc' = "idle" /\ timeout < 0 => n >= mincount]_vars

(* virtio_completed returns when it has a timeout or enough requests are   *)
(* completed, unless push_to_outring finds the ring full and its assert    *)
(* ends the process.                                                       *)
CompletedReturns ==
  (cpc # "idle" /\ (timeout >= 0 \/ count >= mincount)) ~> (cpc = "idle" \/ ~Alive)
=============================================================================
