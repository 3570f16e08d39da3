# TLA+ specifications of the vhost-user client library

The repository is a client library in C for vhost-user SCSI devices: it lets a
process use a block device that SPDK's vhost server exports, without QEMU. A
fio plug-in and a test program are built on it. This directory holds TLA+ models
of its concurrent and error-prone parts, TLC configurations for small instances,
and proofs for TLAPS. `PROJECT.json` maps every definition to source lines and
lists runs, hazards, findings and theorems.

    tlc -workers 2 -config vring_fio.cfg VringMC      # a run: cfg and MC module
    tlapm VringProofs.tla                             # a module of proofs

## 1. The system

### Components

| Component | State | Operations | Talks to |
|---|---|---|---|
| `vring.c` | descriptor table, `tasks[]` (owner of each slot), search hint `task_idx`, avail and used ring, four 16-bit indices, kickfd, callfd | `vring_create`, `vring_put_task` (with `vring_set_desc` and `vring_flush`), `vring_get_task`, `vring_destroy` | many producers, one dequeuer, the device through shared memory and eventfds |
| `vring_poller.c` | `tid`, `end`, polling mode, `iops`, `sleep`, `sleep_delta` | `vring_poller_create/start/stop/destroy`, thread `vring_poll`, `vring_submit_task`, `vring_submit_task_sync` | the ring; callbacks of the tasks |
| `virtio_task.c` | buffers of one task, `vring_idx`, callback | create, destroy, add, alloc | `vring.c`, `virtio_dev.c` |
| `virtio_dev.c`, synchronous | none beyond the stack of the caller | `read_virtio_dev`, `write_virtio_dev` and the block and partial block helpers | `vring_submit_task_sync` |
| `virtio_dev.c`, asynchronous | `async_io_desc_t` | `virtio_submit`, five callbacks in the poller thread | `vring_submit_task`, the output ring |
| `virtio_dev.c`, output ring | `outring`, `outfd`, `event_high_wm` | `push_to_outring`, `virtio_completed`, `virtio_get_completed` | poller thread and application |
| `virtio_dev.c`, life cycle | `virtio_dev` | `open_virtio_dev` (inquiry, test unit ready, read capacity), `close_virtio_dev` | client, poller |
| `vhost_client.c`, `vhost_user.c` | socket, status of the client, features | `new/init/end_vhost_client`, `vhost_ioctl` (request, descriptors, reply) | the vhost server on a UNIX socket |
| `shm.c` | DPDK heap | start DPDK, allocate, list memory regions | DPDK |
| `fio_plugin.c` | globals `g_hdl` (one device for all jobs, without a reference count) and `g_virtio_env_initialized`, `engine_data` of every file | `virtio_fio_setup`, `queue`, `getevents`, `event`, the memory and io_u callbacks, unregister at exit | asynchronous API, life cycle |
| `test.c` | none | sequential test of the API | synchronous and asynchronous API |

Threads: any number of application threads submit; one poller thread per device
takes completed tasks off the ring and runs all callbacks; the SPDK process
works on the shared rings. Application threads and poller share the ring, the
output ring, and, for a synchronous call, a mutex and a condition variable on
the caller's stack.

### What is hard here

* the lock-free ring: slots are claimed by compare-and-swap, avail cells are
  reserved, filled and published in separate steps, indices wrap at 2^16;
* a slot is released by the poller while producers search for one;
* kicks: a flag is read after publication, the device may go to sleep in between;
* a switch of polling modes turns interrupts of the device on and off while
  completions arrive;
* stop, start and destroy of the poller against its running thread;
* a condition variable without a predicate, on a stack that goes away;
* unaligned writes in up to four commands, any of which can fail;
* ranges cut off at the end of the device, widths of CDB fields;
* a watermark that is a plain `int` shared by two threads without a fence, plus an
  eventfd whose tokens outlive the call that asked for them;
* an open that takes some forty steps, each of which may fail, and one error path
  for all of them that is also the path of close;
* a server that goes away in the middle: a send raises SIGPIPE, a receive returns
  no bytes, and nobody notices while requests are in flight;
* fio jobs that share one device, one vring and one output ring.

`PROJECT.json` lists these as hazards, each at its line, with the properties
that would catch it, or a note where the code has no answer and no property is left.

### What makes each component correct

* ring: a task on the ring keeps an intact chain of descriptors; no slot leaks;
  each accepted task is delivered exactly once; puts and deliveries terminate;
* poller: one dequeuer at a time; stop returns; a synchronous result is complete
  and its stack objects alive;
* I/O: bytes land at the right place, the returned count is true, bytes outside
  of the range are untouched, every accepted request completes;
* output ring: a wakeup that is lost costs one delay and no more, what was announced
  can be collected, the wait ends;
* life cycle: the connection goes before the rings, the thread before what it
  uses, nothing is released twice, and what leaks is known;
* fio: a job has an open device, agrees with the library on what is outstanding,
  picks up its own events and never waits for more than can come.

## 2. Modules

| Module | Models | Extends / uses |
|---|---|---|
| `TaskQueue` | abstract promise of the ring: a bag of accepted tasks and a queue of completed ones | |
| `Vring`, `VringMC` | `vring.c`, every access to shared memory a step | refines `TaskQueue` |
| `RingArith`, `VringProofs` | lemmas on `%` and `\div`, theorems about `Vring` | `Vring`, TLAPS |
| `VringChainProofs` | descriptor table, the way of a task, refinement of `TaskQueue` | `VringProofs` |
| `VringPoller`, `VringPollerMC` | `vring_poller.c` | uses `TaskQueue` as its ring |
| `VringPollerProofs` | theorems about `VringPoller` | `VringPoller`, TLAPS |
| `BlockDev` | capacity, clipping, CDBs, the SCSI device | |
| `AsyncIo`, `AsyncIoMC` | asynchronous I/O of `virtio_dev.c` | `BlockDev` |
| `AsyncIoProofs` | theorems about `AsyncIo` | `AsyncIo`, `RingArith`, TLAPS |
| `SyncIo`, `SyncIoMC` | synchronous I/O of `virtio_dev.c` | `BlockDev` |
| `SyncIoProofs` | theorems about `SyncIo` | `SyncIo`, `RingArith`, TLAPS |
| `OutRing`, `OutRingMC` | output ring of `virtio_dev.c` | |
| `OutRingProofs` | theorems about `OutRing` | `OutRing`, TLAPS |
| `Session` | open and close of a device: `virtio_dev.c`, `vhost_client.c`, `vhost_user.c`, memory of `shm.c` | |
| `SessionProofs` | theorems about `Session` and `FioPlugin` | `FioPlugin`, TLAPS |
| `FioPlugin`, `FioPluginMC` | `fio_plugin.c` | `Session` |

The composition goes through `TaskQueue`: `Vring` is shown to implement it, and
`VringPoller` is built on it. `AsyncIo` abstracts the ring and the poller to
"the device answers a command, then the callback runs", and ends where `OutRing`
begins, with a push. `FioPlugin` extends `Session`, whose steps it takes when it
opens or closes the device, and uses the asynchronous API through what `AsyncIo`
and `OutRing` promise.

Conventions: names are those of the code where TLA+ allows it. A definition
called `X_Something` just before `X`, marked "mutant", is a plausible bug in `X`
and takes no part in the specification; it shows that a property can fail.
`NULL` stands for null pointers, thread id 0 and unset memory.

### Vring

One action per shared access. `Call` starts `vring_put_task` for a task with
`count` buffers; `ReadHint`, `Claim`, `Skip` are the search; `Undo` and `Reject`
the rollback of a full ring; `StoreHint`, `Link`, `SetDesc` build the chain;
`Reserve`, `Fill`, `Publish`, `Kick` are `vring_flush`. `GetTask`, `FreeSlot`,
`ReadNext`, `GetDone`, `GetEmpty` are `vring_get_task`. Releasing a slot and
reading its `next` field are two steps, as in the code. The five `Dev...`
actions are the external device: it fetches in ring order, completes each head
once (in any order, or in order when `InOrder`), and may arm, look again, block.
Indices are kept as counts so that "newer" has a meaning; the code only ever
sees `Reg(i) = i % IdxMod`, also in every comparison of the model.

In `SerialSpec` the action `ClaimElsewhere` takes the place of `Claim`: no thread
claims the slot the poller released before it has read its `next`. The code does not ensure this
(see the finding of `vring_race`), so the properties of the descriptor table are
checked under it, and without it where use of the ring excludes the race: one
producer, a device that completes in order and room for the requests
(`vring_fio`). The publication and kick properties need no such condition and
are proved without it.

### VringPoller

Threads: the owner (`Start`, `Stop`, `StopJoin`, `Destroy`), the poller threads
(`LoopTest` ... `ThreadExit`), clients (`SubmitAsync`, `SyncSubmit` ...
`SyncDone`) and the device, which completes a task and then, in a second step, reads
the interrupt flag and signals callfd. A mode switch can therefore fall between the
two. `eval_performance` is computed with C's integer width and truncating division.
One thread calls start and stop, as in the code. A thread that has ended can be
started again. `SpuriousSpec` adds wakeups without a signal, which POSIX allows.

`Start` may fail. POSIX leaves the thread id undefined then, glibc stores one before it
creates the thread, and `vring_poller_start` does not reset it (`vring_poller.c:249`),
so `tid` may be `"stale"`: not 0, and no thread. A stop of such a poller never returns,
which `StopReturns` leaves out (`Running`). It also leaves out behaviours with callbacks
without end: the inner loop of `vring_poll` (`:193`) does not look at `end`.

The interval `sleep` is a number here. The comments at `vring_poller.c:48` and `:63` call
it milliseconds, while `:230` passes it to `usleep`, which takes microseconds.

### AsyncIo, SyncIo, BlockDev

A byte of user data is `<<r, k>>`, the k-th byte of request `r`; a byte that was
on the device at the beginning is `<<NULL, b>>`. So the model tells where every
byte came from. In `AsyncIo` each submission path and each callback is an
action named after its function; any allocation or submission may fail
(`Refuse`, `GiveUp`, `WriteFullGiveUp`) and any command may be answered with an
error (`DevFail`). `vbufs` is the task of a request in flight, its buffers in the
order in which `virtio_task_add_buf` and `virtio_task_alloc_buf` added them, each
with its role, its size and the part of the user's buffer it is; `TaskLayout` says
that it is laid out the way its CDB and its callback take it for, also after a
task was used again for the write back. In `SyncIo` each SCSI command of a call is a step, so calls
of several threads interleave between the read and the write back of a block.
`XferMod` is the range of the transfer length of a 10-byte CDB (2^16 in the
code). A command outside of the device is refused by the device. A synchronous
call whose number of blocks does not fit is cut by the conversion to 16 bits and
yet reported in full: `CountTellsFailure` and `SyncReported` are promised to calls
that fit (`FitsCdb`), `SyncReadReturned` and `SyncWellPlaced` to all of them.

Read-modify-write of a block is not atomic, so a write can undo what another one
did to the same block in between, in both paths. No comment or test promises
more; it is the caller's business to keep such requests apart. The history
variable `clash` collects requests that shared a block with a write in flight:
the strong properties (`Reported`, `ReadReturned`, the second half of
`WellPlaced`) are promised to the others, and a weaker one (no byte ever lands
where it does not belong) to all. Nothing restricts what callers may do.

### OutRing

`Push`, `Enqueue`, `Overflow`, `ReadWatermark`, `Reread`, `Compare`, `Kick` are
`push_to_outring`; `event_high_wm` is read twice by the condition, and the compiler may
reuse the first value, so `Reread` takes either. `Call`, `Count`, `TimeOut`, `Sleep`,
`PollReady`, `PollTimeout`, `PollError`, `Reset` are `virtio_completed`, one waiting
thread; the timeout return leaves the watermark up, as in the code.

Both sides store and then load without a fence: the waiter stores the watermark and
counts the ring (`virtio_dev.c:1178`, `1180`), the pusher enqueues and reads the
watermark (`633`, `637`). So the stores go through store buffers (`unseen`, `taken`,
`wmbuf`) and become visible by the steps `FlushPush`, `FlushTake` and `FlushMark`, as
x86 allows; locked instructions and `poll`, `read` and `write` wait for the buffer. Both
sides can then miss each other and a wakeup be lost until the poll of 100 ms ends.
`OversleepsOnce` says that this is all: a delay is longer than a store stays in the
buffer, so after one whole delay (`slept`) each further poll has its kick.

Nothing throttles `virtio_submit` ("XXX implement throttling", `:634`): `MaxOut` bounds
the model only, and an enqueue on a full ring fails the assert (`Overflow`). `owed`,
`slept` and `old` are history variables. Time is counted the way the code does, which
charges the full delay for every return of `poll`; no property is about real time.

### Session

`pc` is the place in `open_virtio_dev` or `close_virtio_dev`, down into
`init_vhost_client`, `set_vhost_vring` and `end_vhost_client`; the places where a
message is sent have the name of the request. `set` holds the fields of the device
that are not NULL, `held` what is really allocated, open or running, so a release
of something that is set and not held is a double one (`twice`), and what is held
when the last pointer goes away is lost (`lost`). `know` and `vq` are what the
server was told on this connection: it works on the rings when it knows the memory
table and all about each ring (`Ready`).

Constructors succeed or fail (`Create`). A message is sent, or the send fails and
its caller cleans up, or, when the server has gone (`ServerGone`, at any time),
SIGPIPE ends the process (`"killed"`). A receive delivers the reply, fails, or
returns no bytes when the connection is closed; the last is not taken for an error
and fails the assertion on the reply (`"aborted"`). `"crashed"` is the use of a
buffer of an inquiry that could not be allocated. From the label `error` on, open
does what close does: `DestroyPoller`, `end_vhost_client`, `ResetOwner`,
`DestroyRings`, `FreeDev`. A poller thread that could not be started may leave its id
in `set` (see VringPoller); `DestroyPoller` then waits for ever (`StaleThread`). The
server is taken to let go of the rings when the client closes its socket; RESET_OWNER
is not answered (`vhost_client.c:194`), so a slow server may look at them a little
longer, and `InUseIsHeld` does not speak of that. `SessionSpec` is an application that opens and closes as
it likes.

### FioPlugin

fio, external, sets the jobs up one after the other (`create_serialize`), begins
to run them when all are set up, and calls `queue`, `getevents` and `event` for
each from a thread of its own. `virtio_fio_queue` hands over a request on the device
(`"rw"`: taken on, or refused for want of memory or room on the vring), a trim or a
request for zero bytes (`"void"`: reported as queued, never completed) or one beyond
the end (`"beyond"`: refused every time). Every refusal is busy, and fio tries again
with the same unit, for ever if need be. A sync falls into the default case of the
switch, whose `assert(false)` ends the process with all its threads (`QueueSync`). The events a job picks up are the next elements of the one
output ring, whosever they are. `overlap` records that two jobs ran at once; the
properties about events are promised without it. `Hopeless` names the cases in
which a job that waits for events is stuck by design of the code; `JobGoesOn` says
there is no other. It makes no promise for a job that was told busy.

## 3. Runs

| Run | Shows | Instance | States |
|---|---|---|---|
| `vring_serial` | chains intact, no leak, asserts hold, publication in order, refinement of `TaskQueue`; the ring fills and rolls back | 2 producers, 3 tasks of 2 or 3 buffers, 4 slots, indices mod 4 | 1.85 M |
| `vring_fio` | chains intact for `Spec` too, and exactly-once delivery | 1 producer, 2 tasks of 2 or 4 buffers, 8 slots, 9 puts, in order | 0.71 M |
| `vring_live` | no kick is lost, every task is delivered, every put returns | 2 producers, tasks of 3 buffers on 4 slots, so that the ring is full with one task; sleeping device | 0.18 M |
| `vring_race` | **violation**: a put relinks the slot the poller walks over | 2 producers, 3 tasks, out of order | |
| `poller` | one dequeuer, stack objects alive, results complete, tuning sane; stop returns; a synchronous call returns across mode switches | 2 clients, 2 tasks, 2 threads started and stopped any number of times, room for one task | 472 k |
| `poller_spurious` | **violation**: return before completion | 1 client | |
| `io` | layout of the tasks, placement, results, reports, reads, the assertion of the write path, every accepted request is pushed | 2 requests, 3 blocks of 3 bytes | 157 k |
| `io_past_end` | **violation**: `assert(resid_offset != 0)` | 1 request that reaches past the end | |
| `sync` | the same for calls; the count tells failure from success | 2 threads, 3 blocks of 3 bytes, every range, also past the end and more blocks than the CDB counts | 974 k |
| `outring` | at most one overslept delay, announced is collectable, "forever", `virtio_completed` returns | ring of 3 that can overflow, 3 requests, mincount 1 or 2, timeouts -1, 0, 1, 2, store buffers, signals | 332 k |
| `fio` | connection, rings, poller and descriptors are released in a sound order and once, what leaks is known; a job has a device, its depth is true, its events are its own; open and close return, a job goes on, apart from the cases named | 3 jobs of depth 1, 2 and 1, the first with two devices, 2 requests on the vring | 121 k |
| `fio_device` | **violation**: a later job silently works on another device than it names | 3 jobs, two names | |

### Bounds, and why they are enough

* `Num = 4` or `8`, `IdxMod = Num`: index registers wrap with every turn of the
  ring, the worst case for a comparison modulo the ring size; three puts on four
  slots make the ring full, wrap the search and the hint, and reach rollback.
  `vring_fio` makes nine puts, so the avail and used indices wrap.
* Tasks of 2, 3 or 4 buffers have a first, a middle and a last descriptor. Every
  caller in `virtio_dev.c` adds at least two.
* `MaxPut` bounds calls, not concurrency; objects are reused. In `poller` nothing
  bounds calls: clients submit, and the owner starts and stops, for ever. `MaxCount`
  caps the count of I/Os of one second.
* Two requests suffice for interference, blocks of 3 bytes for "begins inside",
  "ends inside" and "strictly inside of one block", three blocks for a request
  with a first part, a full block and a last part. `sync` takes every range;
  `io`, with its many more interleavings, ranges that begin on a boundary or
  inside of the first or second block and end on a boundary or one byte before.
* `XferMod = 16` in `io` is above the number of blocks, as 2^16 is for requests
  below 65536 blocks. `XferMod = 3` in `sync` lets a call for the whole device be
  cut, to a length of zero blocks.
* Two poller threads in `poller`: a second thread can be started as soon as `tid` is
  0, so two dequeuers would show.
* A ring of 3 in `outring` holds two elements, and three requests overflow it; two
  stores of the watermark in the buffer are those of the end of one call and of the
  next.
* Three jobs: the first fails in setup after it has opened the device, and the two
  others find it open; one of these is deeper than the other. `RingCap = 2` is less
  than the depths together, so a full vring happens, and `MinLimit = 2` is not above
  the depth of one job. The device is opened again when an open has failed.
* `vring_live` never has two threads in `vring_flush` at once, for the sake of
  its size; that the spin on `avail->idx` cannot block everybody is
  `SomeoneCanPublish`, checked in `vring_serial` and proved for `Spec`.
* `MaxTime`, in delays of 100 ms, is as large as the largest timeout: the clocks
  saturate where no comparison tells them apart.
* `IntMod = 768` instead of 2^32 in `poller`: a difference of -1 overflows in `<< 9` and changes its sign.
* `IopsHigh = 1` lets both polling modes happen with two tasks.

Symmetry (threads, tasks, clients) is used in safety runs only. `vring_serial`
also checks `RefinesQueue` under symmetry: a safety property, invariant under
permutations of tasks and threads.

Deadlock is checked for the ring and the output ring, where the poller's empty
look at the ring or a new call is always possible, or the assert has failed (`Ended`). It is off where the system
really stops: the poller (destroyed), the I/O runs
(finitely many requests, each submitted once) and fio (unregistered, or ended by
SIGPIPE or an assertion).

### Fairness

Weak fairness of each thread of the process stands for the scheduler of the
operating system. The device is fair to what it was given: SPDK polls its rings
and answers every command. No fairness for clients (they may stop submitting),
for start and stop of the poller, for a device going to sleep or for signals.
`PollTimeout` is part of the waiting thread: `poll` has a finite timeout in both
places where the code uses it, and `SyncReturns` depends on it, because a
completion that falls into the switch from time based to event based polling is
not signalled. In `FioPlugin`: weak fairness of the steps inside open and close, of
completions (server and poller thread) and of `getevents` with the events it
announced. No fairness for a retry: nothing ensures that memory comes back, above all
with nothing in flight. fio need not queue, wait, finish or exit. In `OutRing`: store
buffers drain.

### Findings

`PROJECT.json` has the quotations.

1. `vring_get_task` reads `desc[idx].next` after it has released slot `idx`; a
   concurrent put can take and relink the slot (`vring_race`).
2. `vring_submit_task_sync` waits without a predicate (`poller_spurious`).
3. An asynchronous write past the end clips a local only; the callback then
   fails its assertion (`io_past_end`).
4. `virtio_fio_setup` compares file names only within the call that opened the
   device, so a later job gets the device of an earlier one whatever it names
   (`fio_device`). The README of the repository says that multiple jobs are not
   supported and the number has always to be 1; nothing enforces it.

## 4. Proofs

`VringProofs`, for any sets of threads and tasks, any ring size that divides the
index range, at most as many threads as slots (`ThreadAssumption`; SPDK's limit
of 1024 entries against threads of one process):

* `TypeCorrect`: `Spec => []TypeOK`. Strengthened by `CurInv`: a thread inside
  `vring_put_task` has a task, or the descriptors it writes would have no type.
* `PublishSafe`, `PublishProgress`: `PublishedCellIsOwn`, `SomeoneCanPublish`.
  Neither is inductive. `ResvInv` says that the threads in `vring_flush` hold
  exactly the indices from `avail_idx` to `last_avail_idx - 1`, one each. Hence
  there are no more reserved indices than threads (`FewReserved`, by
  cardinality), hence at most `Num`, hence distinct ones fall into distinct cells
  and distinct registers (`MaskInj`, `RegInj`, from `ModInj` and `ModMod` in
  `RingArith`). A thread whose register equals `avail->idx` therefore holds that
  very index (`TurnExact`), and the owner of the least index can always go on.
* `KickSafe`: `NoLostKick`, strengthened by "armed or blocked devices want kicks".

These hold for `Spec`, with the slot race and whatever it does to descriptors.
`SerialIsSpec` (`SerialSpec => Spec`) carries them over to the specification the
serial runs check.

`VringChainProofs`, for `SerialSpec` and the same constants, with a ring of an even
number of slots (`SizeAssumption`; `vring_create` asks for a power of two). The code
does not ensure `SerialSpec`, so these theorems say what the race of finding 1 spares;
`AssertsSafe` states it for `Spec`: a claim of the slot the poller stands on (`Reuse`) is
the only thing that can make an assertion of `vring_get_task` fail.
`ChainSafe`, `NoSlotLeak`, `AssertsSafe`, `OnceSafe`, `RingIsQueue`, `IndicesSafe`,
all from `RingInvariant`. None of the properties is inductive. `RingInv` adds to
the invariants above two parts:

* `TableInv`, on the table: every thread in `vring_put_task` has a task of its own
  (`TaskInv`); `tasks[]` and the slots of the tasks agree, except for slots the
  poller has already released (`OwnInv`); how much of a chain is written and linked
  at each place of the code (`StageInv`), all of it once sent (`SentInv`); and while
  the poller walks, it stands on the k-th slot, has released those before and finds
  the rest of the chain as it was (`WalkInv`). Only the last needs `SerialSpec`: a
  claim of the slot it stands on would break it.
* `FlowInv`, on the rings: what lies between the indices of the avail ring, in the
  device and between those of the used ring are heads of tasks sent and not taken
  off (`HeadsInv`), each once (`OnceInv`), and all of them (`CoverInv`).

That the cells of the rings are not overwritten before they are read is counted: a
task on the ring has at least two slots of its own (`Counts \subseteq 2 .. Num`), so
at most `Num \div 2` tasks are on it (`TwoSlotsEach`, `SentBound`), and pending
indices fall into distinct cells. The same bound makes the comparison of indices
modulo `Num` in `vring_get_task`, which cannot tell an empty used ring from a full
one, exact (`IndicesSafe`); with one-buffer tasks it would not be. `RingIsQueue` is
the refinement step by step: `Publish` is `Accept`, `DevComplete` is `Complete`,
`GetDone` is `Reap`, every other action leaves the queue alone.

`OutRingProofs`, for every ring size, all arguments, any clock bound and store buffers
of any length: `OutRingTypeCorrect`, `OversleepSafe`, `CollectSafe`, `ForeverSafe`. One
inductive invariant `IInv`: `n` stays a lower bound of the ring's length since only the
waiting thread removes elements (`CountInv`); the last store of the watermark is
`mincount` from the call on, and it is visible while the thread sleeps (`MarkInv`). A
push that read an older watermark is then one that was in the store buffer when `poll`
was called (`old`), and none of these is left after a whole delay: from then on a full
enough ring implies a token or a push that will compare with `mincount` (`WakeInv`).

`VringPollerProofs`, for any sets of submitting threads and tasks, any number of
starts of the poller and any tuning: `PollerTypeCorrect`, `OnePollerSafe`,
`SyncArgSafe`, `SyncResultSafe`, `TuningSafe`, all from `PollerInvariant`. That the
stack frame of a synchronous call is alive when the callback uses it, and complete
when the call returns, is not inductive: it depends on who owns a task. `RingOK`
says that no task is on the ring twice, `ClientOK` that a client between call and
return has a task of its own, holds its mutex until it waits and is woken only when
its task is off the ring, `ArgOK` that the submitter of a synchronous task on the
ring is waiting or about to, and `ThreadOK` that a poller thread has a task just
while it runs the callback, which takes the mutex and walks in step with the
submitter. `OneCallback` follows: two threads never work on one task. `OnePoller`
itself is inductive; the other parts need it. The ring is `TaskQueue`; its three
steps are lemmas (`AcceptRing`, `CompleteRing`, `ReapRing`). The theorems are about
`Spec`, without spurious wakeups: with them `SyncResult` is false (finding 2).

`SessionProofs`, for every sequence of opens and closes: `SessionTypeCorrect`,
`InUseSafe`, `ReleaseSafe`, `LeakSafe`, from `SessionInvariant`. The invariant says
what a successful open holds at each of its places (`OpenOK`), which fields may
dangle on the way out, the stale thread id among them (`SetOK`), that the error path finds a socket to close just
when the client is initialised (`ClientOK`: this is why `end_vhost_client` may not
close the socket of any other client), who may still use the rings (`UseOK`) and
whose fault a leak is (`LeakOK`). `FioIsSession` shows that the engine, for any
number of jobs, files and depths, implements `SessionSpec`: each of its steps is a
step of the session or leaves it alone; so the three properties hold for fio too
(`FioSafe`). `DeviceSafe` (`JobHasDevice`) adds to the invariant of the session what
open has told the server by each place (`ToldOK`), that jobs are set up in turn and
run when all are set up (`OrderOK`), and that the handle is set in between
(`HandleOK`). `DepthSafe` (`DepthTrue`): while one job runs at a time, its units
that are away are in flight, void or on the output ring, each in one place, and the
ring holds the events promised to the job (`AloneOK`), until an assertion ends all jobs.

`SyncIoProofs`, for every size of block and device, any number of calling threads,
all ranges (past the end, empty, and longer than the CDB can count too):
`CountSafe`, `ReportedSafe`, `ReadSafe`, `WellPlacedSafe`, all from `SyncInvariant`.
`SyncInv` says where a call stands by its place in the code (`CallOK`: after the
first part, `offset + n` is on a block boundary, and each helper is called with the
length it can handle), that calls which share a block with a write know of it
(`ClashOK`), that the `n` bytes done by a call without clash are in place
(`DoneOK`), and what is in the block to be written back: the caller's bytes, around
them what the device still holds, and no byte from elsewhere (`BufOK`). The last is
what a read-modify-write needs and no test sees: the block was read one step
earlier. A write changes only bytes of blocks of its own range (`BlockOf`,
`DivUnique`), so it keeps what the other calls rely on, unless they clash. That a
number of blocks is not cut in the CDB (`FitsCdb`) is a hypothesis of `CountSafe`
and `ReportedSafe` only, as in the properties.

`AsyncIoProofs`, for every size of block and device and any number of requests in
flight: `LayoutSafe`, `ResidSafe`, `ResultSafe`, `ReportedSafe`, `ReadSafe`,
`WellPlacedSafe`, all from `AsyncInvariant`. Their hypothesis is `OnDevice`: the
number of blocks of a request fits into the transfer length of its CDB, and a write
that begins on the device ends on it. The code checks neither; without the second
`AssertResid` is false (finding 3), and the ranges of the `io` run satisfy both.
Reads may reach past the end. `AsyncInv` says

* at which place of its life a request is, and that an undisturbed one comes back
  in full (`ReqOK`);
* which bytes of the device the command of a task is about, that they are on the
  device and of blocks of the request (`CoverOK`), and for each callback what the
  task it waits for is: the whole range (`ReadTask`), the first block
  (`FirstTask`), the full blocks (`FullTask`: what is left after them begins on a
  boundary and is less than a block, which is the assertion), the last block
  (`LastTask`);
* that requests which share a block with a write know of it (`ClashOK`);
* that what a callback has read is still on the device (`DataOK`), that what will
  be written is the user's bytes in their places and around them what the device
  holds (`BytesOK`), and how many bytes of a write are on the device when its next
  callback is due (`HaveOK`), unless requests clash; no byte belongs elsewhere even
  then (`PlaceOK`).

A step of one request keeps what the others rely on since it writes only blocks of
its own range (`StepOK`, `StepInv`). The arithmetic of the cut into parts is in
lemmas of its own: `FirstFacts`, `MidFacts`, `TouchFacts`, and `CoverGen`, that the
blocks around a part of the range are on the device and touched by the request; that
the buffers of a task add up to its blocks is `ReadBufsFacts` for the up to three
buffers of a read, and `FullSent`, `FirstAndFullSent` for a write.

The type invariants of `Vring`, `VringPoller`, `OutRing` and `Session` are proved
and not among the invariants of the runs.

Only model-checked: all liveness properties (fairness and ENABLED are out of the
prover's reach); the chains of `Spec` in the use fio makes of the ring
(`vring_fio`: one producer, in order, room for all requests; an argument about time
and room, and a statement about one instance). The type invariants of `AsyncIo`,
`SyncIo` and `FioPlugin` are not among the runs either; what of them the proofs need
is a part of the inductive invariants.

## 5. Assumptions and what is not modelled

* Memory of the vring and the poller is sequentially consistent. The code relies on
  x86 ordering: compiler barriers and `__sync` builtins, and in `vring_flush` on the
  locked instruction before `used->flags` is read. The output ring has no such
  instruction and is modelled with store buffers.
* Assertions are compiled in, as in the repository's build.
* The buffer of a partial block is not checked by the synchronous path
  (`virtio_dev.c:466`, `548`); a device that is handed NULL is taken to report an error.
* The device follows the virtio protocol. A misbehaving server is not modelled.
* Contents of inquiry data, debug output, statistics and byte order of the CDB
  fields are left out; widths are kept.
* The server is trusted to follow the vhost-user protocol; it may go away, but it
  does not send a wrong reply.
* Not modelled: builds with `POLL_DELAY`; the start of DPDK and the parsing of
  `/proc/self/maps` in `shm.c` (input and third-party calls, modelled as "may
  fail"); what fio makes of `retval`, which `virtio_fio_event` does not look at; the layout of vhost messages and the requests that no code sends
  (`SET_LOG_BASE`, `SET_LOG_FD`, `SET_VRING_ERR`, `GET_VRING_BASE`);
  `virtio_fio_queue_sync`, which belongs to an engine that is not built in; setup of
  fio jobs in parallel (`create_serialize=0`); `test.c`, a sequential driver whose
  assertions are quoted where they matter; headers imported from SPDK.

## 6. Plan

Every safety and action property of the passing runs is stated by a theorem; what
the runs add is liveness, the use that fio makes of the ring and the instances on
which the findings show. What is left is proof of lesser weight: the type invariants
of `AsyncIo`, `SyncIo` and `FioPlugin`.
