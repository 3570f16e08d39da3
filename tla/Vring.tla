------------------------------- MODULE Vring -------------------------------
(***************************************************************************)
(* The virtio ring of vring.c: client threads put tasks on it with         *)
(* vring_put_task (documented as multi-producer safe), an external device  *)
(* (SPDK vhost) consumes the avail ring and fills the used ring, and one   *)
(* poller thread takes completed tasks off with vring_get_task.            *)
(*                                                                         *)
(* Atomicity.  Every access to shared memory is a step of its own, except  *)
(* where a reduction is exact: a compare-and-swap loop is the step of its  *)
(* successful iteration (a failed one changes nothing), and a read of a    *)
(* cell that only the reading thread may change is joined to the next      *)
(* step.  Memory is sequentially consistent.                               *)
(*                                                                         *)
(* Indices.  The four ring indices are kept as unbounded counts; the       *)
(* 16-bit register the code holds is Reg(i), and every comparison and      *)
(* every array access below goes through Reg, so wrap-around is modelled.  *)
(***************************************************************************)
EXTENDS Integers, Sequences, FiniteSets

CONSTANTS
  Threads,       \* client threads that may call vring_put_task
  Tasks,         \* virtio_task_t objects
  NULL,          \* the C null pointer
  Num,           \* vring->num, VHOST_VRING_SIZE: 1024, a power of two
  IdxMod,        \* 2^16: the range of a uint16_t ring index
  Counts,        \* the values task->count takes (every caller adds >= 2)
  MaxPut,        \* bound on the number of vring_put_task calls
  InOrder,       \* does the device complete in the order it fetched?
  DeviceSleeps   \* does the device ever ask for kicks and block?

ASSUME RingAssumption ==
  /\ Num \in Nat \ {0}
  /\ IdxMod \in Nat \ {0}
  /\ \E k \in 1 .. IdxMod : IdxMod = Num * k

ASSUME SizeAssumption == \E k \in 1 .. Num : Num = 2 * k

ASSUME TaskAssumption ==
  /\ NULL \notin Tasks
  /\ Counts \subseteq 2 .. Num

ASSUME ThreadAssumption ==
  /\ IsFiniteSet(Threads)
  /\ Cardinality(Threads) <= Num

ASSUME EnvAssumption ==
  /\ MaxPut \in Nat
  /\ InOrder \in BOOLEAN
  /\ DeviceSleeps \in BOOLEAN

VARIABLES
  tasks,           \* vring->tasks: the task that owns each descriptor slot
  task_idx,        \* vring->task_idx: where the next search starts
  desc,            \* the shared descriptor table
  avail_ring,      \* avail->ring
  avail_idx,       \* avail->idx, as a count
  last_avail_idx,  \* vring->last_avail_idx, as a count
  used_ring,       \* used->ring, the id of each element
  used_idx,        \* used->idx, as a count
  last_used_idx,   \* vring->last_used_idx, as a count
  no_notify,       \* VRING_USED_F_NO_NOTIFY in used->flags
  kickfd,          \* is the kickfd counter non-zero?
  phase,           \* who has each task object
  count,           \* task->count
  vring_idx,       \* task->vring_idx
  slots,           \* the slots[] array of the task's vring_put_task call
  pc,              \* where each thread is in vring_put_task / vring_flush
  cur,             \* the task it puts
  saved,           \* desc_idx_saved
  cand,            \* desc_idx
  resv,            \* the avail index reserved in vring_flush, as a count
  head,            \* the desc_idx argument of vring_flush
  get_pc,          \* where the poller is in vring_get_task
  get_task,        \* its local task
  get_idx,         \* its local idx
  dev_avail,       \* avail entries the device has fetched, as a count
  dev_held,        \* heads of the chains it is working on, oldest first
  dev_pc,          \* is the device polling, armed for a kick, or blocked?
  puts             \* calls of vring_put_task so far

tableVars  == <<tasks, task_idx, desc>>
availVars  == <<avail_ring, avail_idx, last_avail_idx>>
usedVars   == <<used_ring, used_idx, last_used_idx>>
notifyVars == <<no_notify, kickfd>>
taskVars   == <<phase, count, vring_idx, slots>>
threadVars == <<pc, cur, saved, cand, resv, head>>
getVars    == <<get_pc, get_task, get_idx>>
devVars    == <<dev_avail, dev_held, dev_pc>>

vars == <<tableVars, availVars, usedVars, notifyVars, taskVars, threadVars,
          getVars, devVars, puts>>

Slots == 0 .. Num - 1

(* The value of a count in a uint16_t register. *)
Reg(i) == i % IdxMod

(* The ring cell of an index: idx & mask with mask = num - 1. *)
Mask(i) == Reg(i) % Num

(* The slot after i on the circle: (desc_idx + 1) & mask. *)
NextSlot(i) == (i + 1) % Num

-----------------------------------------------------------------------------
(* vring_create: everything zeroed, no task owns a slot.  A device that    *)
(* only polls has set VRING_USED_F_NO_NOTIFY when the ring was given to it.*)

Init ==
  /\ tasks = [s \in Slots |-> NULL]
  /\ task_idx = 0
  /\ desc = [s \in Slots |-> [addr |-> NULL, more |-> FALSE, next |-> 0]]
  /\ avail_ring = [s \in Slots |-> 0]
  /\ avail_idx = 0
  /\ last_avail_idx = 0
  /\ used_ring = [s \in Slots |-> 0]
  /\ used_idx = 0
  /\ last_used_idx = 0
  /\ no_notify = ~DeviceSleeps
  /\ kickfd = FALSE
  /\ phase = [t \in Tasks |-> "free"]
  /\ count = [t \in Tasks |-> 0]
  /\ vring_idx = [t \in Tasks |-> 0]
  /\ slots = [t \in Tasks |-> <<>>]
  /\ pc = [p \in Threads |-> "idle"]
  /\ cur = [p \in Threads |-> NULL]
  /\ saved = [p \in Threads |-> 0]
  /\ cand = [p \in Threads |-> 0]
  /\ resv = [p \in Threads |-> 0]
  /\ head = [p \in Threads |-> 0]
  /\ get_pc = "idle"
  /\ get_task = NULL
  /\ get_idx = 0
  /\ dev_avail = 0
  /\ dev_held = <<>>
  /\ dev_pc = "poll"
  /\ puts = 0

-----------------------------------------------------------------------------
(***************************************************************************)
(* vring_put_task.  A call claims one descriptor slot per buffer, then     *)
(* hands the chain to vring_flush; when it finds no slot it gives back     *)
(* what it claimed and fails.                                              *)
(***************************************************************************)

Goto(p, from, to) ==
  /\ pc[p] = from
  /\ pc' = [pc EXCEPT ![p] = to]

(* The task object is freed. *)
Destroy(t) ==
  /\ phase' = [phase EXCEPT ![t] = "free"]
  /\ count' = [count EXCEPT ![t] = 0]
  /\ vring_idx' = [vring_idx EXCEPT ![t] = 0]
  /\ slots' = [slots EXCEPT ![t] = <<>>]

(* The locals of the search go out of scope. *)
ScanReturns(p) ==
  /\ saved' = [saved EXCEPT ![p] = 0]
  /\ cand' = [cand EXCEPT ![p] = 0]

(* A thread calls vring_put_task with a new task of c buffers. *)
Call(p, t, c) ==
  /\ puts < MaxPut
  /\ phase[t] = "free"
  /\ Goto(p, "idle", "hint")
  /\ puts' = puts + 1
  /\ phase' = [phase EXCEPT ![t] = "put"]
  /\ count' = [count EXCEPT ![t] = c]
  /\ cur' = [cur EXCEPT ![p] = t]
  /\ UNCHANGED <<tableVars, availVars, usedVars, notifyVars, vring_idx, slots,
                 saved, cand, resv, head, getVars, devVars>>

(* desc_idx = desc_idx_saved = vring->task_idx, an unsynchronised hint. *)
ReadHint(p) ==
  /\ Goto(p, "hint", "scan")
  /\ saved' = [saved EXCEPT ![p] = task_idx]
  /\ cand' = [cand EXCEPT ![p] = task_idx]
  /\ UNCHANGED <<tableVars, availVars, usedVars, notifyVars, taskVars, cur,
                 resv, head, getVars, devVars, puts>>

(* What the search and the compare-and-swap ask of a slot. *)
SlotFree_Unchecked(s) == TRUE    \* mutant: a plain store instead of the CAS
SlotFree(s) == tasks[s] = NULL

(* The inspected slot is free and the compare-and-swap takes it. *)
Claim(p) ==
  LET t == cur[p] IN
  /\ SlotFree(cand[p])
  /\ Goto(p, "scan", "store")
  /\ tasks' = [tasks EXCEPT ![cand[p]] = t]
  /\ slots' = [slots EXCEPT ![t] = Append(@, cand[p])]
  /\ UNCHANGED <<task_idx, desc, availVars, usedVars, notifyVars, phase, count,
                 vring_idx, cur, saved, cand, resv, head, getVars, devVars,
                 puts>>

(* Has the search come back to where it began? *)
FullCircle_Never(p, d) == FALSE    \* mutant: a full ring is not noticed
FullCircle(p, d) == d = saved[p]

(* The inspected slot is taken: go on, or give up after a full circle. *)
Skip(p) ==
  LET d == NextSlot(cand[p]) IN
  /\ ~SlotFree(cand[p])
  /\ Goto(p, "scan", IF FullCircle(p, d) THEN "undo" ELSE "scan")
  /\ cand' = [cand EXCEPT ![p] = d]
  /\ UNCHANGED <<tableVars, availVars, usedVars, notifyVars, taskVars, cur,
                 saved, resv, head, getVars, devVars, puts>>

(* What the failing call leaves in a slot it had claimed. *)
UndoOwner_Kept(t) == t    \* mutant: the slot is not given back
UndoOwner(t) == NULL

(* All slots occupied: free the slots claimed so far, one store each. *)
Undo(p) ==
  LET t == cur[p] IN
  /\ Goto(p, "undo", "undo")
  /\ slots[t] # <<>>
  /\ tasks' = [tasks EXCEPT ![Head(slots[t])] = UndoOwner(t)]
  /\ slots' = [slots EXCEPT ![t] = Tail(@)]
  /\ UNCHANGED <<task_idx, desc, availVars, usedVars, notifyVars, phase, count,
                 vring_idx, cur, saved, cand, resv, head, getVars, devVars,
                 puts>>

(* ... and return -1; the caller destroys the task. *)
Reject(p) ==
  LET t == cur[p] IN
  /\ Goto(p, "undo", "idle")
  /\ slots[t] = <<>>
  /\ Destroy(t)
  /\ cur' = [cur EXCEPT ![p] = NULL]
  /\ ScanReturns(p)
  /\ UNCHANGED <<tableVars, availVars, usedVars, notifyVars, resv, head,
                 getVars, devVars, puts>>

(* Move the search hint past the claimed slot. *)
StoreHint(p) ==
  /\ Goto(p, "store", "link")
  /\ task_idx' = NextSlot(cand[p])
  /\ UNCHANGED <<tasks, desc, availVars, usedVars, notifyVars, taskVars, cur,
                 saved, cand, resv, head, getVars, devVars, puts>>

(* The first slot becomes task->vring_idx, a later one the next of its     *)
(* predecessor.                                                            *)
Link(p) ==
  LET t == cur[p]
      i == Len(slots[t])
  IN
  /\ Goto(p, "link", "desc")
  /\ IF i = 1
       THEN /\ vring_idx' = [vring_idx EXCEPT ![t] = cand[p]]
            /\ UNCHANGED desc
       ELSE /\ desc' = [desc EXCEPT ![slots[t][i - 1]].next = cand[p]]
            /\ UNCHANGED vring_idx
  /\ UNCHANGED <<tasks, task_idx, availVars, usedVars, notifyVars, phase, count,
                 slots, cur, saved, cand, resv, head, getVars, devVars, puts>>

(* VIRTIO_DESC_F_NEXT: set on all buffers of a task but the last. *)
HasNext_Always(t, i) == i <= count[t]    \* mutant: off by one
HasNext(t, i) == i < count[t]

(* vring_set_desc: address, length and flags; next is left for later. *)
SetDesc(p) ==
  LET t == cur[p]
      i == Len(slots[t])
  IN
  /\ Goto(p, "desc", IF i = count[t] THEN "reserve" ELSE "hint")
  /\ desc' = [desc EXCEPT ![cand[p]].addr = <<t, i>>,
                          ![cand[p]].more = HasNext(t, i)]
  /\ UNCHANGED <<tasks, task_idx, availVars, usedVars, notifyVars, taskVars,
                 cur, saved, cand, resv, head, getVars, devVars, puts>>

-----------------------------------------------------------------------------
(***************************************************************************)
(* vring_flush.  Reserve an index of the avail ring, fill its cell, then   *)
(* spin until all earlier indices are published and publish this one.      *)
(***************************************************************************)

(* The value the first compare-and-swap stores in last_avail_idx. *)
Reserved_Twice == last_avail_idx + 2    \* mutant: an index is lost
Reserved == last_avail_idx + 1

Reserve(p) ==
  /\ Goto(p, "reserve", "fill")
  /\ head' = [head EXCEPT ![p] = vring_idx[cur[p]]]
  /\ resv' = [resv EXCEPT ![p] = last_avail_idx]
  /\ last_avail_idx' = Reserved
  /\ ScanReturns(p)
  /\ UNCHANGED <<tableVars, avail_ring, avail_idx, usedVars, notifyVars,
                 taskVars, cur, getVars, devVars, puts>>

(* The cell of the reserved index: avail->ring[idx & mask]. *)
Cell_Published(p) == Mask(avail_idx)    \* mutant: the published index
Cell(p) == Mask(resv[p])

Fill(p) ==
  /\ Goto(p, "fill", "publish")
  /\ avail_ring' = [avail_ring EXCEPT ![Cell(p)] = head[p]]
  /\ UNCHANGED <<tableVars, avail_idx, last_avail_idx, usedVars, notifyVars,
                 taskVars, cur, saved, cand, resv, head, getVars, devVars,
                 puts>>

(* The second compare-and-swap succeeds only at the reserved index. *)
MayPublish(p) == Reg(avail_idx) = Reg(resv[p])

(* From here on the device and the poller own the task. *)
Publish(p) ==
  /\ MayPublish(p)
  /\ Goto(p, "publish", "kick")
  /\ avail_idx' = avail_idx + 1
  /\ phase' = [phase EXCEPT ![cur[p]] = "sent"]
  /\ cur' = [cur EXCEPT ![p] = NULL]
  /\ resv' = [resv EXCEPT ![p] = 0]
  /\ head' = [head EXCEPT ![p] = 0]
  /\ UNCHANGED <<tableVars, avail_ring, last_avail_idx, usedVars, notifyVars,
                 count, vring_idx, slots, saved, cand, getVars, devVars, puts>>

(* Is VRING_USED_F_NO_NOTIFY clear? *)
WantsKick_Inverted == no_notify    \* mutant: the flag is read the wrong way
WantsKick == ~no_notify

(* Kick the device unless it asked not to be; vring_put_task returns 0. *)
Kick(p) ==
  /\ Goto(p, "kick", "idle")
  /\ kickfd' = (kickfd \/ WantsKick)
  /\ UNCHANGED <<tableVars, availVars, usedVars, no_notify, taskVars, cur,
                 saved, cand, resv, head, getVars, devVars, puts>>

-----------------------------------------------------------------------------
(***************************************************************************)
(* vring_get_task, called by the poller only.  The two assertions of the   *)
(* code are conjuncts of the guards (a failed one aborts the process) and  *)
(* are checked as AssertHead and AssertOwned.                              *)
(***************************************************************************)

(* The masked comparison of the two used indices. *)
UsedEmpty == Mask(last_used_idx) = Mask(used_idx)

(* The id in the next used entry. *)
UsedHead_Newest == used_ring[Mask(used_idx - 1)]    \* mutant: last in first out
UsedHead == used_ring[Mask(last_used_idx)]

(* assert(task->vring_idx == desc_idx) *)
AssertHeadCond ==
  /\ tasks[UsedHead] # NULL
  /\ vring_idx[tasks[UsedHead]] = UsedHead

(* assert(vring->tasks[idx] != NULL) *)
AssertOwnedCond == tasks[get_idx] # NULL

(* The used ring is empty: vring_get_task returns NULL. *)
GetEmpty ==
  /\ get_pc = "idle"
  /\ UsedEmpty
  /\ UNCHANGED vars

(* Look up the task of the next used entry. *)
GetTask ==
  /\ get_pc = "idle"
  /\ ~UsedEmpty
  /\ AssertHeadCond
  /\ get_task' = tasks[UsedHead]
  /\ get_idx' = UsedHead
  /\ get_pc' = "walk"
  /\ UNCHANGED <<tableVars, availVars, usedVars, notifyVars, taskVars,
                 threadVars, devVars, puts>>

(* Free a slot that is not the last of the chain ... *)
FreeSlot ==
  /\ get_pc = "walk"
  /\ desc[get_idx].more
  /\ AssertOwnedCond
  /\ tasks' = [tasks EXCEPT ![get_idx] = NULL]
  /\ get_pc' = "next"
  /\ UNCHANGED <<task_idx, desc, availVars, usedVars, notifyVars, taskVars,
                 threadVars, get_task, get_idx, devVars, puts>>

(* The slot the walk goes to: the next field as it is now. *)
WalkNext_Stuck == get_idx    \* mutant: the walk does not advance
WalkNext == desc[get_idx].next

(* ... and only then read its next field. *)
ReadNext ==
  /\ get_pc = "next"
  /\ get_idx' = WalkNext
  /\ get_pc' = "walk"
  /\ UNCHANGED <<tableVars, availVars, usedVars, notifyVars, taskVars,
                 threadVars, get_task, devVars, puts>>

(* Free the last slot and return the task, whose callback destroys it. *)
GetDone ==
  /\ get_pc = "walk"
  /\ ~desc[get_idx].more
  /\ tasks' = [tasks EXCEPT ![get_idx] = NULL]
  /\ last_used_idx' = last_used_idx + 1
  /\ Destroy(get_task)
  /\ get_pc' = "idle"
  /\ get_task' = NULL
  /\ get_idx' = 0
  /\ UNCHANGED <<task_idx, desc, availVars, used_ring, used_idx, notifyVars,
                 threadVars, devVars, puts>>

-----------------------------------------------------------------------------
(***************************************************************************)
(* The device, external: what vring.c relies on.  It fetches avail entries *)
(* in ring order and pushes each fetched head once on the used ring.       *)
(***************************************************************************)

Remove(s, i) == SubSeq(s, 1, i - 1) \o SubSeq(s, i + 1, Len(s))

DevFetch ==
  /\ dev_pc # "block"
  /\ Reg(dev_avail) # Reg(avail_idx)
  /\ dev_held' = Append(dev_held, avail_ring[Mask(dev_avail)])
  /\ dev_avail' = dev_avail + 1
  /\ dev_pc' = "poll"
  /\ no_notify' = TRUE
  /\ UNCHANGED <<tableVars, availVars, usedVars, kickfd, taskVars, threadVars,
                 getVars, puts>>

DevComplete ==
  /\ \E i \in 1 .. Len(dev_held) :
       /\ InOrder => i = 1
       /\ used_ring' = [used_ring EXCEPT ![Mask(used_idx)] = dev_held[i]]
       /\ dev_held' = Remove(dev_held, i)
  /\ used_idx' = used_idx + 1
  /\ UNCHANGED <<tableVars, availVars, last_used_idx, notifyVars, taskVars,
                 threadVars, getVars, dev_avail, dev_pc, puts>>

(* Before it blocks the device asks for kicks ... *)
DevArm ==
  /\ DeviceSleeps
  /\ dev_pc = "poll"
  /\ no_notify' = FALSE
  /\ dev_pc' = "armed"
  /\ UNCHANGED <<tableVars, availVars, usedVars, kickfd, taskVars, threadVars,
                 getVars, dev_avail, dev_held, puts>>

(* ... looks at the ring once more ... *)
DevBlock ==
  /\ dev_pc = "armed"
  /\ Reg(dev_avail) = Reg(avail_idx)
  /\ dev_pc' = "block"
  /\ UNCHANGED <<tableVars, availVars, usedVars, notifyVars, taskVars,
                 threadVars, getVars, dev_avail, dev_held, puts>>

(* ... and sleeps until a kick arrives. *)
DevWake ==
  /\ dev_pc = "block"
  /\ kickfd
  /\ kickfd' = FALSE
  /\ no_notify' = TRUE
  /\ dev_pc' = "poll"
  /\ UNCHANGED <<tableVars, availVars, usedVars, taskVars, threadVars, getVars,
                 dev_avail, dev_held, puts>>

-----------------------------------------------------------------------------
PutRest(p) ==
  \/ ReadHint(p) \/ Skip(p) \/ Undo(p) \/ Reject(p)
  \/ StoreHint(p) \/ Link(p) \/ SetDesc(p)
  \/ Reserve(p) \/ Fill(p) \/ Publish(p) \/ Kick(p)

Put(p) == Claim(p) \/ PutRest(p)

Get == GetEmpty \/ GetTask \/ FreeSlot \/ ReadNext \/ GetDone

Device == DevFetch \/ DevComplete \/ DevArm \/ DevBlock \/ DevWake

Next ==
  \/ \E p \in Threads, t \in Tasks, c \in Counts : Call(p, t, c)
  \/ \E p \in Threads : Put(p)
  \/ Get
  \/ Device

Spec == Init /\ [][Next]_vars

(***************************************************************************)
(* The environment in which vring_get_task is not disturbed: no thread     *)
(* claims the slot the poller has just released before the poller has read *)
(* its next field.  The code does not ensure this; it holds for clients    *)
(* with one request at a time (test.c) and whenever the search hint keeps  *)
(* away from the slots being released.                                     *)
(***************************************************************************)
ClaimElsewhere(p) ==
  /\ get_pc = "next" => cand[p] # get_idx
  /\ Claim(p)

SerialPut(p) == ClaimElsewhere(p) \/ PutRest(p)

SerialNext ==
  \/ \E p \in Threads, t \in Tasks, c \in Counts : Call(p, t, c)
  \/ \E p \in Threads : SerialPut(p)
  \/ Get
  \/ Device

SerialSpec == Init /\ [][SerialNext]_vars

(***************************************************************************)
(* Threads and the poller are scheduled by the operating system, and a     *)
(* device that is up works through its ring: each is weakly fair.  No      *)
(* fairness for Call (a client may stop) or DevArm (nor need the device    *)
(* ever sleep).                                                            *)
(***************************************************************************)
Fairness ==
  /\ \A p \in Threads : WF_vars(SerialPut(p))
  /\ WF_vars(Get)
  /\ WF_vars(DevFetch)
  /\ WF_vars(DevComplete)
  /\ WF_vars(DevWake)

SerialFairSpec == SerialSpec /\ Fairness

-----------------------------------------------------------------------------
(* A descriptor; its length and the write flag go with the address. *)
Desc == [addr : (Tasks \X Nat) \cup {NULL}, more : BOOLEAN, next : Slots]

(* Every variable has its type; the ring indices are counts, see above. *)
TypeOK ==
  /\ tasks \in [Slots -> Tasks \cup {NULL}]
  /\ task_idx \in Slots
  /\ desc \in [Slots -> Desc]
  /\ avail_ring \in [Slots -> Slots]
  /\ used_ring \in [Slots -> Slots]
  /\ avail_idx \in Nat /\ last_avail_idx \in Nat
  /\ used_idx \in Nat /\ last_used_idx \in Nat
  /\ no_notify \in BOOLEAN /\ kickfd \in BOOLEAN
  /\ phase \in [Tasks -> {"free", "put", "sent"}]
  /\ count \in [Tasks -> Nat]
  /\ vring_idx \in [Tasks -> Slots]
  /\ slots \in [Tasks -> Seq(Slots)]
  /\ pc \in [Threads -> {"idle", "hint", "scan", "undo", "store", "link",
                         "desc", "reserve", "fill", "publish", "kick"}]
  /\ cur \in [Threads -> Tasks \cup {NULL}]
  /\ saved \in [Threads -> Slots] /\ cand \in [Threads -> Slots]
  /\ resv \in [Threads -> Nat] /\ head \in [Threads -> Slots]
  /\ get_pc \in {"idle", "walk", "next"}
  /\ get_task \in Tasks \cup {NULL}
  /\ get_idx \in Slots
  /\ dev_avail \in Nat
  /\ dev_held \in Seq(Slots)
  /\ dev_pc \in {"poll", "armed", "block"}
  /\ puts \in Nat

(***************************************************************************)
(* Publication, vring_flush.  Hold for any number of racing threads and    *)
(* whatever happens to the descriptor table.                               *)
(***************************************************************************)

Flushing == {p \in Threads : pc[p] \in {"fill", "publish"}}

(* No other flush overwrites the avail cell a thread has filled before the *)
(* thread publishes it, so the device never fetches somebody else's head   *)
(* or a stale one ("Function is MT-safe").                                 *)
PublishedCellIsOwn ==
  \A p \in Threads :
    pc[p] = "publish" => avail_ring[Mask(resv[p])] = head[p]

(* The unbounded spin on avail->idx cannot block everybody: of the threads *)
(* inside vring_flush there is always one whose turn it is.                *)
SomeoneCanPublish ==
  Flushing # {} => \E p \in Flushing : Reg(resv[p]) = Reg(avail_idx)

(* used->flags is read after avail->idx is published, so a device that has *)
(* gone to sleep with work on the ring has a kick pending or coming.       *)
NoLostKick ==
  dev_pc = "block" /\ Reg(dev_avail) # Reg(avail_idx) =>
    kickfd \/ \E p \in Threads : pc[p] = "kick"

(***************************************************************************)
(* The descriptor table.                                                   *)
(***************************************************************************)

Chain(t) ==
  /\ Len(slots[t]) = count[t]
  /\ vring_idx[t] = slots[t][1]
  /\ \A i \in 1 .. count[t] :
       LET d == desc[slots[t][i]] IN
       /\ tasks[slots[t][i]] = t
       /\ d.addr = <<t, i>>
       /\ d.more = (i < count[t])
       /\ i < count[t] => d.next = slots[t][i + 1]

(* From its publication until the poller takes it off, a task keeps its    *)
(* slots, and the chain that starts at task->vring_idx leads through its   *)
(* buffers in order and ends with the last: what the device follows.       *)
ChainIntact ==
  \A t \in Tasks : phase[t] = "sent" /\ t # get_task => Chain(t)

(* No slot leaks: the owner of a slot is a live task whose call claimed    *)
(* that slot, after a rollback and after a completed walk too.             *)
SlotsOwned ==
  \A s \in Slots : tasks[s] # NULL =>
    /\ phase[tasks[s]] # "free"
    /\ \E i \in 1 .. Len(slots[tasks[s]]) : slots[tasks[s]][i] = s

AvailPending == dev_avail .. avail_idx - 1

UsedPending ==
  (IF get_pc = "idle" THEN last_used_idx ELSE last_used_idx + 1)
    .. used_idx - 1

Sent == {t \in Tasks : phase[t] = "sent"}

Places(t) ==
  IF t = get_task THEN {<<"get", 0>>}
  ELSE {<<"avail", k>> : k \in {j \in AvailPending :
                                 avail_ring[Mask(j)] = vring_idx[t]}}
       \cup {<<"dev", k>> : k \in {j \in DOMAIN dev_held :
                                    dev_held[j] = vring_idx[t]}}
       \cup {<<"used", k>> : k \in {j \in UsedPending :
                                     used_ring[Mask(j)] = vring_idx[t]}}

(* A task whose put succeeded is in exactly one place on its way through   *)
(* the avail ring, the device, the used ring and vring_get_task, and these *)
(* hold nothing else: neither loss nor duplication.                        *)
ExactlyOnce ==
  /\ \A t \in Sent : Cardinality(Places(t)) = 1
  /\ Cardinality(Sent) = Cardinality(AvailPending) + Len(dev_held)
                          + (used_idx - last_used_idx)

(* assert(task->vring_idx == desc_idx) *)
AssertHead == get_pc = "idle" /\ ~UsedEmpty => AssertHeadCond

(* assert(vring->tasks[idx] != NULL): the slot the poller is about to free *)
(* is still taken.                                                         *)
AssertOwned == get_pc = "walk" /\ desc[get_idx].more => AssertOwnedCond

(* Neither assertion of vring_get_task fails.  That needs SerialSpec: what *)
(* AssertOwned comes to without it, run vring_race shows.                  *)
AssertsHold == AssertHead /\ AssertOwned

(***************************************************************************)
(* Refinement of TaskQueue.                                                *)
(***************************************************************************)

(* The tasks whose completion the poller has not finished taking off. *)
Returning ==
  [i \in 1 .. used_idx - last_used_idx |->
     IF i = 1 /\ get_pc # "idle"
       THEN get_task
       ELSE tasks[used_ring[Mask(last_used_idx + i - 1)]]]

Queue == INSTANCE TaskQueue WITH
           Cap <- Num \div 2,
           accepted <- Sent \ {Returning[i] : i \in DOMAIN Returning},
           done <- Returning

(* The ring is a queue of tasks: a put either has no effect or adds one    *)
(* task, a completion moves one task, vring_get_task returns the tasks in  *)
(* the order of completion, each once.                                     *)
RefinesQueue == Queue!Spec

(***************************************************************************)
(* Liveness.                                                               *)
(***************************************************************************)

(* A task on the ring is returned by vring_get_task, also when the device  *)
(* sleeps between kicks.                                                   *)
Delivered == \A t \in Tasks : phase[t] = "sent" ~> phase[t] = "free"

(* vring_put_task returns: neither the search for slots nor the spin on    *)
(* avail->idx goes on for ever.                                            *)
PutReturns == \A p \in Threads : pc[p] # "idle" ~> pc[p] = "idle"
=============================================================================
