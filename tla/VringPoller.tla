---------------------------- MODULE VringPoller ----------------------------
(***************************************************************************)
(* The poller library of vring_poller.c on top of the ring: the thread     *)
(* that takes completed tasks off the ring and runs their callbacks, its   *)
(* start and stop, its switch between event based and time based polling,  *)
(* and the asynchronous and the synchronous submission of tasks.           *)
(*                                                                         *)
(* The ring is used through TaskQueue, which Vring implements; a put may   *)
(* also fail at any time (vring_put_task gives up when others hold the     *)
(* slots it needs).  Memory is sequentially consistent.                    *)
(***************************************************************************)
EXTENDS Integers, Sequences, FiniteSets

CONSTANTS
  Clients,            \* threads that submit tasks
  Tasks,              \* virtio_task_t objects
  Pollers,            \* thread ids, which may be used again
  NULL,               \* null pointer, thread id 0, uninitialised memory
  Cap,                \* most tasks on the ring
  MaxCount,           \* bound: iocount_per_sec stops counting here
  IopsHigh,           \* IOPS_HIGH
  SleepMin, SleepMax, \* SLEEP_MIN, SLEEP_MAX
  IntMod              \* 2^32: the range of an int

ASSUME TuningAssumption ==
  /\ SleepMin \in Nat /\ SleepMax \in Nat /\ SleepMin < SleepMax
  /\ IopsHigh \in Nat /\ MaxCount \in Nat
  /\ IntMod \in Nat /\ IntMod > 0 /\ IntMod % 2 = 0

(* Neither NULL nor the poller thread is one of the clients; "stale" is no *)
(* thread.                                                                 *)
ASSUME NullAssumption ==
  /\ NULL \notin Clients \cup Tasks \cup Pollers \cup Nat
  /\ "poller" \notin Clients \cup {NULL}
  /\ "stale" \notin Pollers \cup {NULL}

VARIABLES
  accepted, done,     \* the ring, see TaskQueue
  arg,                \* task->arg: the client whose mutex and condition
                      \* variable it points to; NULL for an asynchronous task
  c_pc,               \* where each client is in vring_submit_task_sync
  c_task,             \* its task
  mtx,                \* who holds the mutex on the client's stack
  tid,                \* poller->tid; "stale" is the id of no thread
  end,                \* poller->end
  ctl,                \* where the owner of the poller is in start/stop/destroy
  th,                 \* where each poller thread is in vring_poll
  got,                \* its local task
  iocount_per_sec,    \* its local count of callbacks in this second
  first,              \* is its local second still 0?
  iops,               \* poller->iops
  sleepy_poll,        \* poller->sleepy_poll
  sleep, sleep_delta, \* poller->sleep, poller->sleep_delta
  no_interrupt,       \* VRING_AVAIL_F_NO_INTERRUPT in avail->flags
  callfd,             \* is the callfd counter non-zero?
  dev_intr            \* has the device still to signal a completion?

ringVars == <<accepted, done>>
clientVars == <<arg, c_pc, c_task, mtx>>
ctlVars == <<tid, end, ctl>>
threadVars == <<th, got, iocount_per_sec, first>>
tuneVars == <<iops, sleepy_poll, sleep, sleep_delta, no_interrupt>>
devVars == <<callfd, dev_intr>>

vars == <<ringVars, clientVars, ctlVars, threadVars, tuneVars, devVars>>

Ring == INSTANCE TaskQueue

SLEEP_DELTA_MAX == (SleepMax - SleepMin) \div 2

-----------------------------------------------------------------------------
(* The polling mode a new poller begins with. *)
FirstMode == FALSE

(* vring_poller_create; malloc leaves iops uninitialised. *)

Init ==
  /\ Ring!Init
  /\ arg = [t \in Tasks |-> NULL]
  /\ c_pc = [c \in Clients |-> "idle"]
  /\ c_task = [c \in Clients |-> NULL]
  /\ mtx = [c \in Clients |-> NULL]
  /\ tid = NULL
  /\ end = FALSE
  /\ ctl = "idle"
  /\ th = [q \in Pollers |-> "none"]
  /\ got = [q \in Pollers |-> NULL]
  /\ iocount_per_sec = [q \in Pollers |-> 0]
  /\ first = [q \in Pollers |-> TRUE]
  /\ iops = NULL
  /\ sleepy_poll = FirstMode
  /\ sleep = (SleepMin + SleepMax) \div 2
  /\ sleep_delta = SLEEP_DELTA_MAX
  /\ no_interrupt = FALSE
  /\ callfd = FALSE
  /\ dev_intr = FALSE

-----------------------------------------------------------------------------
(***************************************************************************)
(* eval_performance: hill climbing on the sleep interval.                  *)
(***************************************************************************)

(* The value an int holds after x was computed. *)
ToInt(x) == ((x + IntMod \div 2) % IntMod) - IntMod \div 2

(* The division of C truncates towards zero. *)
CDiv(x, y) == IF x < 0 THEN -(-x \div y) ELSE x \div y

Clamp_Missing(x, lo, hi) == x    \* mutant: the bounds are not enforced
Clamp(x, lo, hi) == IF x < lo THEN lo ELSE IF x > hi THEN hi ELSE x

(* Keep the direction when IOPS grew, turn round when they fell; the step  *)
(* is proportional to the relative change.                                 *)
NewDelta(delta, old, new) ==
  LET raw  == CDiv(ToInt((new - old) * 512), old)
      step == IF raw # 0 THEN raw ELSE IF new >= old THEN 1 ELSE -1
  IN  Clamp(IF delta >= 0 THEN step ELSE -step,
            -SLEEP_DELTA_MAX, SLEEP_DELTA_MAX)

eval_performance(old, new) ==
  IF old = 0 \/ new = 0
    THEN UNCHANGED <<sleep, sleep_delta>>
    ELSE /\ sleep_delta' = NewDelta(sleep_delta, old, new)
         /\ sleep' = Clamp(sleep + NewDelta(sleep_delta, old, new),
                           SleepMin, SleepMax)

-----------------------------------------------------------------------------
(***************************************************************************)
(* The owner of the poller: vring_poller_start, _stop and _destroy.        *)
(***************************************************************************)

(* No thread yet: create one.  When pthread_create fails, what it leaves   *)
(* in poller->tid is undefined: glibc has stored the id of the thread that *)
(* it could not create, or nothing.  It is not reset, so that later starts *)
(* take the poller to be running.                                          *)
Start ==
  /\ ctl = "idle"
  /\ tid = NULL
  /\ end' = FALSE
  /\ \/ \E q \in Pollers :
          /\ th[q] = "none"
          /\ tid' = q
          /\ th' = [th EXCEPT ![q] = "test"]
     \/ tid' \in {NULL, "stale"} /\ UNCHANGED th
  /\ UNCHANGED <<ringVars, clientVars, ctl, got, iocount_per_sec,
                 first, tuneVars, devVars>>

(* Tell the thread to end and wake it up ...  (The thread may also see end *)
(* before the event; since its sleep may be over at any moment, that shows *)
(* nothing new.)                                                           *)
Stop ==
  /\ ctl = "idle"
  /\ tid # NULL
  /\ end' = TRUE
  /\ callfd' = TRUE
  /\ ctl' = "join"
  /\ UNCHANGED <<ringVars, clientVars, tid, threadVars, tuneVars, dev_intr>>

(* What the loop of vring_poller_stop waits for. *)
Joined_AtOnce == TRUE    \* mutant: stop does not wait
Joined == tid = NULL

(* ... and wait until it has ended, for ever if there is no thread to      *)
(* clear tid.  If vring_poller_destroy has called stop it frees the poller *)
(* now.                                                                    *)
StopJoin ==
  /\ ctl = "join"
  /\ Joined
  /\ ctl' \in {"idle", "freed"}
  /\ UNCHANGED <<ringVars, clientVars, tid, end, threadVars, tuneVars, devVars>>

(* vring_poller_destroy of a poller that is not running. *)
Destroy ==
  /\ ctl = "idle"
  /\ tid = NULL
  /\ ctl' = "freed"
  /\ UNCHANGED <<ringVars, clientVars, tid, end, threadVars,
                 tuneVars, devVars>>

-----------------------------------------------------------------------------
(***************************************************************************)
(* vring_poll, the poller thread.                                          *)
(***************************************************************************)

Goto(q, from, to) ==
  /\ th[q] = from
  /\ th' = [th EXCEPT ![q] = to]

(* while (!self->end) *)
LoopTest(q) ==
  /\ Goto(q, "test", IF end THEN "exit" ELSE "get")
  /\ UNCHANGED <<ringVars, clientVars, ctlVars, got, iocount_per_sec, first,
                 tuneVars, devVars>>

(* vring_get_task returns a task ... *)
GetTask(q) ==
  /\ Goto(q, "get", "callback")
  /\ Ring!Reap
  /\ got' = [got EXCEPT ![q] = Head(done)]
  /\ UNCHANGED <<clientVars, ctlVars, iocount_per_sec, first, tuneVars, devVars>>

(* ... or NULL. *)
GetNone(q) ==
  /\ Goto(q, "get", "clock")
  /\ done = <<>>
  /\ UNCHANGED <<ringVars, clientVars, ctlVars, got, iocount_per_sec, first,
                 tuneVars, devVars>>

(* The callback has run: count it and look for the next task. *)
Counted(q) ==
  /\ got' = [got EXCEPT ![q] = NULL]
  /\ iocount_per_sec' = [iocount_per_sec EXCEPT ![q] = IF @ < MaxCount THEN @ + 1 ELSE @]

(* The callback of an asynchronous task, which destroys the task. *)
AsyncCallback(q) ==
  /\ Goto(q, "callback", "get")
  /\ arg[got[q]] = NULL
  /\ Counted(q)
  /\ UNCHANGED <<ringVars, clientVars, ctlVars, first, tuneVars, devVars>>

(* vring_submit_sync_callback: lock the mutex of the submitter ... *)
CallbackLock(q) ==
  LET c == arg[got[q]] IN
  /\ Goto(q, "callback", "cb_signal")
  /\ c # NULL
  /\ mtx[c] = NULL
  /\ mtx' = [mtx EXCEPT ![c] = "poller"]
  /\ UNCHANGED <<ringVars, arg, c_pc, c_task, ctlVars, got,
                 iocount_per_sec, first, tuneVars, devVars>>

(* The clients that wait on the condition variable of client c. *)
Waiters_All(c) == Clients    \* mutant: one condition variable for everybody
Waiters(c) == {c}

(* ... signal its condition variable, which is lost if it does not wait ... *)
CallbackSignal(q) ==
  /\ Goto(q, "cb_signal", "cb_unlock")
  /\ c_pc' = [c \in Clients |->
                IF c \in Waiters(arg[got[q]]) /\ c_pc[c] = "wait"
                  THEN "wake" ELSE c_pc[c]]
  /\ UNCHANGED <<ringVars, arg, c_task, mtx, ctlVars, got,
                 iocount_per_sec, first, tuneVars, devVars>>

(* ... and unlock. *)
CallbackUnlock(q) ==
  /\ Goto(q, "cb_unlock", "get")
  /\ mtx' = [mtx EXCEPT ![arg[got[q]]] = NULL]
  /\ Counted(q)
  /\ UNCHANGED <<ringVars, arg, c_pc, c_task, ctlVars, first, tuneVars,
                 devVars>>

(* The clock still shows the second of the last pass. *)
SameSecond(q) ==
  /\ Goto(q, "clock", "sleep")
  /\ ~first[q]
  /\ UNCHANGED <<ringVars, clientVars, ctlVars, got, iocount_per_sec, first,
                 tuneVars, devVars>>

(* A new second: tune the sleep interval, then choose the kind of polling  *)
(* and tell the device whether to signal completions.                      *)
NewSecond(q) ==
  LET n == iocount_per_sec[q] IN
  /\ Goto(q, "clock", "sleep")
  /\ IF sleepy_poll
       THEN eval_performance(iops, n)
       ELSE UNCHANGED <<sleep, sleep_delta>>
  /\ iops' = n
  /\ iocount_per_sec' = [iocount_per_sec EXCEPT ![q] = 0]
  /\ first' = [first EXCEPT ![q] = FALSE]
  /\ sleepy_poll' = IF sleepy_poll THEN ~(n < IopsHigh) ELSE n > IopsHigh
  /\ no_interrupt' = IF sleepy_poll' = sleepy_poll THEN no_interrupt
                                                   ELSE sleepy_poll'
  /\ UNCHANGED <<ringVars, clientVars, ctlVars, got, devVars>>

(* do_poll, a completion was signalled: read the event. *)
PollEvent(q) ==
  /\ Goto(q, "sleep", "test")
  /\ ~sleepy_poll
  /\ callfd
  /\ callfd' = FALSE
  /\ UNCHANGED <<ringVars, clientVars, ctlVars, got, iocount_per_sec, first,
                 tuneVars, dev_intr>>

(* May the sleep end without an event?  usleep always ends, and poll has a *)
(* timeout of SLEEP_MAX.                                                   *)
TimesOut_Never == sleepy_poll    \* mutant: poll waits for an event
TimesOut == TRUE

(* do_poll or usleep, the time is over. *)
PollTimeout(q) ==
  /\ Goto(q, "sleep", "test")
  /\ TimesOut
  /\ UNCHANGED <<ringVars, clientVars, ctlVars, got, iocount_per_sec, first,
                 tuneVars, devVars>>

(* The value the thread leaves in poller->tid. *)
ExitTid_Kept == tid    \* mutant: tid is not reset
ExitTid == NULL

(* self->tid = 0, the last access of the thread to the poller.  Its locals *)
(* are gone.                                                               *)
ThreadExit(q) ==
  /\ Goto(q, "exit", "none")
  /\ tid' = ExitTid
  /\ iocount_per_sec' = [iocount_per_sec EXCEPT ![q] = 0]
  /\ first' = [first EXCEPT ![q] = TRUE]
  /\ UNCHANGED <<ringVars, clientVars, end, ctl, got, tuneVars, devVars>>

-----------------------------------------------------------------------------
(***************************************************************************)
(* Submission.                                                             *)
(***************************************************************************)

(* The task object does not exist yet or has been destroyed. *)
Unused(t) ==
  /\ t \notin Ring!OnRing
  /\ \A c \in Clients : c_task[c] # t
  /\ \A q \in Pollers : got[q] # t

(* vring_submit_task with a callback that destroys the task; when          *)
(* vring_put_task refuses the task nothing changes.                        *)
SubmitAsync(c, t) ==
  /\ ctl # "freed"
  /\ c_pc[c] = "idle"
  /\ Unused(t)
  /\ arg' = [arg EXCEPT ![t] = NULL]
  /\ Ring!Accept(t)
  /\ UNCHANGED <<c_pc, c_task, mtx, ctlVars, threadVars, tuneVars, devVars>>

(* vring_submit_task_sync: lock the mutex, which nobody else knows yet,    *)
(* and submit the task.  When vring_put_task refuses it, the mutex is      *)
(* released and -1 returned, and nothing has changed.                      *)
SyncSubmit(c, t) ==
  /\ ctl # "freed"
  /\ c_pc[c] = "idle"
  /\ Unused(t)
  /\ mtx' = [mtx EXCEPT ![c] = c]
  /\ c_task' = [c_task EXCEPT ![c] = t]
  /\ arg' = [arg EXCEPT ![t] = c]
  /\ Ring!Accept(t)
  /\ c_pc' = [c_pc EXCEPT ![c] = "submitted"]
  /\ UNCHANGED <<ctlVars, threadVars, tuneVars, devVars>>

(* ... wait on the condition variable, which releases the mutex ... *)
SyncWait(c) ==
  /\ c_pc[c] = "submitted"
  /\ mtx[c] \in {c, NULL}
  /\ mtx' = [mtx EXCEPT ![c] = NULL]
  /\ c_pc' = [c_pc EXCEPT ![c] = "wait"]
  /\ UNCHANGED <<ringVars, arg, c_task, ctlVars, threadVars, tuneVars,
                 devVars>>

(* Can the woken client lock its mutex again? *)
MutexFree_Unchecked(c) == TRUE    \* mutant: returns without the mutex
MutexFree(c) == mtx[c] = NULL

(* ... take the mutex again, release it and return 0. *)
SyncBack(c) ==
  /\ c_pc[c] = "wake"
  /\ MutexFree(c)
  /\ c_pc' = [c_pc EXCEPT ![c] = "back"]
  /\ UNCHANGED <<ringVars, arg, c_task, mtx, ctlVars, threadVars,
                 tuneVars, devVars>>

(* The caller uses the result and destroys the task. *)
SyncDone(c) ==
  /\ c_pc[c] = "back"
  /\ c_pc' = [c_pc EXCEPT ![c] = "idle"]
  /\ c_task' = [c_task EXCEPT ![c] = NULL]
  /\ arg' = [arg EXCEPT ![c_task[c]] = NULL]
  /\ UNCHANGED <<ringVars, mtx, ctlVars, threadVars, tuneVars, devVars>>

-----------------------------------------------------------------------------
(***************************************************************************)
(* The device, external: it completes a task and then, unless the client   *)
(* asked it not to, signals callfd.                                        *)
(***************************************************************************)

DevComplete(t) ==
  /\ t \in accepted
  /\ Ring!Complete(t)
  /\ dev_intr' = TRUE
  /\ UNCHANGED <<clientVars, ctlVars, threadVars, tuneVars, callfd>>

DevInterrupt ==
  /\ dev_intr
  /\ callfd' = (callfd \/ ~no_interrupt)
  /\ dev_intr' = FALSE
  /\ UNCHANGED <<ringVars, clientVars, ctlVars, threadVars, tuneVars>>

-----------------------------------------------------------------------------
Control == Start \/ Stop \/ StopJoin \/ Destroy

Poll(q) ==
  \/ LoopTest(q) \/ GetTask(q) \/ GetNone(q) \/ AsyncCallback(q)
  \/ CallbackLock(q) \/ CallbackSignal(q) \/ CallbackUnlock(q)
  \/ SameSecond(q) \/ NewSecond(q) \/ PollEvent(q) \/ PollTimeout(q)
  \/ ThreadExit(q)

Sync(c) == SyncWait(c) \/ SyncBack(c) \/ SyncDone(c)

Next ==
  \/ Control
  \/ \E q \in Pollers : Poll(q)
  \/ \E c \in Clients, t \in Tasks : SubmitAsync(c, t) \/ SyncSubmit(c, t)
  \/ \E c \in Clients : Sync(c)
  \/ \E t \in Tasks : DevComplete(t)
  \/ DevInterrupt

Spec == Init /\ [][Next]_vars

(***************************************************************************)
(* The threads of the process are scheduled by the operating system, so    *)
(* each is weakly fair; the owner, once it has begun to stop the poller,   *)
(* goes on; the device completes each task it was given, however many      *)
(* others come in between.  Nobody need start or stop the poller or submit *)
(* anything.                                                               *)
(***************************************************************************)
Fairness ==
  /\ \A q \in Pollers : WF_vars(Poll(q))
  /\ \A c \in Clients : WF_vars(Sync(c))
  /\ WF_vars(StopJoin)
  /\ \A t \in Tasks : WF_vars(DevComplete(t))
  /\ WF_vars(DevInterrupt)

FairSpec == Spec /\ Fairness

(* POSIX allows pthread_cond_wait to return although nobody signalled; the *)
(* code waits without a predicate and cannot tell.                         *)
SpuriousWakeup(c) ==
  /\ c_pc[c] = "wait"
  /\ c_pc' = [c_pc EXCEPT ![c] = "wake"]
  /\ UNCHANGED <<ringVars, arg, c_task, mtx, ctlVars, threadVars,
                 tuneVars, devVars>>

SpuriousSpec == Init /\ [][Next \/ \E c \in Clients : SpuriousWakeup(c)]_vars

-----------------------------------------------------------------------------
(* Every variable has its type. *)
TypeOK ==
  /\ accepted \in SUBSET Tasks
  /\ done \in Seq(Tasks)
  /\ arg \in [Tasks -> Clients \cup {NULL}]
  /\ c_pc \in [Clients -> {"idle", "submitted", "wait", "wake", "back"}]
  /\ c_task \in [Clients -> Tasks \cup {NULL}]
  /\ mtx \in [Clients -> Clients \cup {NULL, "poller"}]
  /\ tid \in Pollers \cup {NULL, "stale"}
  /\ end \in BOOLEAN
  /\ ctl \in {"idle", "join", "freed"}
  /\ th \in [Pollers -> {"none", "test", "get", "callback", "cb_signal",
                         "cb_unlock", "clock", "sleep", "exit"}]
  /\ got \in [Pollers -> Tasks \cup {NULL}]
  /\ iocount_per_sec \in [Pollers -> Nat]
  /\ first \in [Pollers -> BOOLEAN]
  /\ iops \in Nat \cup {NULL}
  /\ sleepy_poll \in BOOLEAN
  /\ sleep \in SleepMin .. SleepMax
  /\ sleep_delta \in -SLEEP_DELTA_MAX .. SLEEP_DELTA_MAX
  /\ no_interrupt \in BOOLEAN
  /\ callfd \in BOOLEAN /\ dev_intr \in BOOLEAN

(* A thread that may still touch the poller. *)
Live(q) == th[q] # "none"

(* Dequeuing is not multi-thread safe: however often the poller is stopped *)
(* and started, only the thread in poller->tid takes tasks off the ring,   *)
(* and none does once stop has returned or the poller is freed.            *)
OnePoller == \A q \in Pollers : Live(q) => tid = q /\ ctl # "freed"

(* "When this function returns, the result is available": the task of a    *)
(* synchronous submission that returns 0 has been completed and taken off  *)
(* the ring, and its callback has finished.                                *)
SyncResult ==
  \A c \in Clients : c_pc[c] = "back" =>
    /\ c_task[c] \notin Ring!OnRing
    /\ \A q \in Pollers : got[q] # c_task[c]

(* The callback works on a mutex and a condition variable on the stack of  *)
(* the submitter: as long as it does, the submitter has not returned from  *)
(* the call for this very task.                                            *)
SyncArgAlive ==
  \A q \in Pollers :
    got[q] # NULL /\ arg[got[q]] # NULL =>
      /\ c_task[arg[got[q]]] = got[q]
      /\ c_pc[arg[got[q]]] \notin {"idle", "back"}

(* poller->iops, which create leaves uninitialised, is set before          *)
(* eval_performance reads it.                                              *)
IopsSet == sleepy_poll => iops # NULL

(* The tuning of the time based mode never reads garbage, and whatever the *)
(* shift in eval_performance overflows to, the interval that the thread    *)
(* sleeps and the next step stay within their limits.                      *)
TuningSane ==
  /\ IopsSet
  /\ sleep \in SleepMin .. SleepMax
  /\ sleep_delta \in -SLEEP_DELTA_MAX .. SLEEP_DELTA_MAX

(* There is a thread to run callbacks and to clear poller->tid. *)
Running == \E q \in Pollers : Live(q)

(* vring_poller_stop returns if there is a thread, whatever that is doing, *)
(* unless it runs callbacks for ever: the inner loop of vring_poll does    *)
(* not look at poller->end while tasks keep being completed.               *)
StopReturns ==
  (ctl = "join" /\ Running)
    ~> (ctl \in {"idle", "freed"} \/ []<>(\E q \in Pollers : th[q] = "callback"))

(* A synchronous submission returns unless the poller is told to end: the  *)
(* signal cannot come before the wait, and a completion the device did not *)
(* signal because of a switch of polling modes is found after the timeout. *)
SyncReturns ==
  \A c \in Clients :
    (c_pc[c] \in {"submitted", "wait"} /\ Running) ~> (c_pc[c] = "back" \/ end)
=============================================================================
