------------------------- MODULE VringPollerProofs -------------------------
(***************************************************************************)
(* The poller library proved for any number of submitting threads, tasks   *)
(* and restarts of the poller: one thread dequeues at a time, and a        *)
(* synchronous submission neither returns early nor leaves the callback a  *)
(* dead stack frame.                                                       *)
(***************************************************************************)
EXTENDS VringPoller, TLAPS

-----------------------------------------------------------------------------
(***************************************************************************)
(* The ring: no task is on it twice.                                       *)
(***************************************************************************)

RingOK ==
  /\ \A i, j \in DOMAIN done : done[i] = done[j] => i = j
  /\ \A i \in DOMAIN done : done[i] \notin accepted

RingTypeOK == accepted \in SUBSET Tasks /\ done \in Seq(Tasks)

(* A put adds the task ... *)
LEMMA AcceptRing ==
  ASSUME RingTypeOK, RingOK, NEW t \in Tasks, Ring!Accept(t)
  PROVE  RingTypeOK' /\ RingOK' /\ Ring!OnRing' = Ring!OnRing \cup {t}
BY DEF RingTypeOK, RingOK, Ring!Accept, Ring!OnRing

(* ... the device only moves it ... *)
LEMMA CompleteRing ==
  ASSUME RingTypeOK, RingOK, NEW t \in accepted, Ring!Complete(t)
  PROVE  RingTypeOK' /\ RingOK' /\ Ring!OnRing' = Ring!OnRing
<1>1. RingTypeOK'
  BY DEF RingTypeOK, Ring!Complete
<1>2. /\ DOMAIN done = 1 .. Len(done)
      /\ DOMAIN done' = 1 .. Len(done) + 1
      /\ Len(done) \in Nat
      /\ \A i \in 1 .. Len(done) : done'[i] = done[i]
      /\ done'[Len(done) + 1] = t
  BY DEF RingTypeOK, Ring!Complete
<1>3. accepted' = accepted \ {t}
  BY DEF Ring!Complete
<1>4. RingOK'
  BY <1>2, <1>3 DEF RingOK
<1>5. Ring!OnRing' = Ring!OnRing
  BY <1>2, <1>3 DEF Ring!OnRing
<1> QED BY <1>1, <1>4, <1>5

(* ... and vring_get_task takes the oldest one off. *)
LEMMA ReapRing ==
  ASSUME RingTypeOK, RingOK, Ring!Reap
  PROVE  /\ RingTypeOK' /\ RingOK'
         /\ Head(done) \in Tasks
         /\ Head(done) \in Ring!OnRing
         /\ Ring!OnRing' = Ring!OnRing \ {Head(done)}
<1>1. RingTypeOK' /\ accepted' = accepted
  BY DEF RingTypeOK, Ring!Reap
<1>2. /\ Len(done) \in Nat \ {0}
      /\ DOMAIN done = 1 .. Len(done)
      /\ DOMAIN done' = 1 .. Len(done) - 1
      /\ \A i \in 1 .. Len(done) - 1 : done'[i] = done[i + 1]
      /\ Head(done) = done[1]
      /\ done[1] \in Tasks
  BY DEF RingTypeOK, Ring!Reap
<1>3. RingOK'
  <2>1. ASSUME NEW i \in 1 .. Len(done) - 1
        PROVE  i + 1 \in DOMAIN done /\ done'[i] = done[i + 1] /\ done'[i] \notin accepted'
    BY <1>1, <1>2 DEF RingOK
  <2>2. ASSUME NEW i \in 1 .. Len(done) - 1, NEW j \in 1 .. Len(done) - 1,
               done'[i] = done'[j]
        PROVE  i = j
    <3>1. i + 1 = j + 1
      BY <2>1, <2>2 DEF RingOK
    <3> QED BY <3>1
  <2> QED BY <1>2, <2>1, <2>2 DEF RingOK
<1>4. Head(done) \in Ring!OnRing
  BY <1>2 DEF Ring!OnRing
<1>5. ASSUME NEW x PROVE x \in Ring!OnRing' <=> x \in Ring!OnRing \ {Head(done)}
  <2>1. ASSUME x \in Ring!OnRing' PROVE x \in Ring!OnRing \ {Head(done)}
    <3>1. CASE x \in accepted
      BY <1>1, <1>2, <3>1 DEF Ring!OnRing, RingOK
    <3>2. CASE x \notin accepted
      <4>1. PICK i \in DOMAIN done' : x = done'[i]
        BY <1>1, <2>1, <3>2 DEF Ring!OnRing
      <4>2. i + 1 \in DOMAIN done /\ x = done[i + 1] /\ 1 \in DOMAIN done /\ i + 1 # 1
        BY <1>2, <4>1
      <4> QED BY <1>2, <4>2 DEF Ring!OnRing, RingOK
    <3> QED BY <3>1, <3>2
  <2>2. ASSUME x \in Ring!OnRing, x # Head(done) PROVE x \in Ring!OnRing'
    <3>1. CASE x \in accepted
      BY <1>1, <3>1 DEF Ring!OnRing
    <3>2. CASE x \notin accepted
      <4>1. PICK i \in DOMAIN done : x = done[i]
        BY <2>2, <3>2 DEF Ring!OnRing
      <4>2. i - 1 \in DOMAIN done' /\ done'[i - 1] = x
        BY <1>2, <2>2, <4>1
      <4> QED BY <4>2 DEF Ring!OnRing
    <3> QED BY <3>1, <3>2
  <2> QED BY <2>1, <2>2
<1> QED BY <1>1, <1>2, <1>3, <1>4, <1>5

(* Other steps leave the ring alone. *)
LEMMA SameRing ==
  ASSUME RingTypeOK, RingOK, UNCHANGED ringVars
  PROVE  RingTypeOK' /\ RingOK' /\ Ring!OnRing' = Ring!OnRing
BY DEF RingTypeOK, RingOK, Ring!OnRing, ringVars
-----------------------------------------------------------------------------
(***************************************************************************)
(* The inductive invariant: who owns a task, its mutex and its wakeup.     *)
(***************************************************************************)

(* A client between call and return has a task of its own; it holds its    *)
(* mutex until it waits; from the signal on its task is off the ring, and  *)
(* nobody works on it after the return.                                    *)
ClientOK ==
  \A c \in Clients :
    /\ c_pc[c] = "idle" <=> c_task[c] = NULL
    /\ \A d \in Clients : c_task[c] = c_task[d] => c = d \/ c_task[c] = NULL
    /\ c_pc[c] = "submitted" => mtx[c] = c
    /\ c_pc[c] \in {"wake", "back"} => c_task[c] \notin Ring!OnRing
    /\ c_pc[c] = "back" => \A q \in Pollers : got[q] # c_task[c]
    /\ c_pc[c] = "wake" =>
         \A q \in Pollers : got[q] = c_task[c] => th[q] = "cb_unlock"

(* The submitter of a synchronous task on the ring is waiting for it, or   *)
(* about to.                                                               *)
ArgOK ==
  \A t \in Ring!OnRing : arg[t] # NULL =>
    /\ c_task[arg[t]] = t
    /\ c_pc[arg[t]] \in {"submitted", "wait"}

(* A poller thread has a task just while it runs the callback, which walks *)
(* in step with the submitter.                                             *)
ThreadOK ==
  \A q \in Pollers :
    /\ got[q] # NULL <=> th[q] \in {"callback", "cb_signal", "cb_unlock"}
    /\ got[q] # NULL => got[q] \notin Ring!OnRing
    /\ th[q] \in {"cb_signal", "cb_unlock"} =>
         arg[got[q]] # NULL /\ mtx[arg[got[q]]] = "poller"
    /\ got[q] # NULL /\ arg[got[q]] # NULL =>
         /\ c_task[arg[got[q]]] = got[q]
         /\ th[q] = "callback"  => c_pc[arg[got[q]]] \in {"submitted", "wait"}
         /\ th[q] = "cb_signal" => c_pc[arg[got[q]]] = "wait"
         /\ th[q] = "cb_unlock" => c_pc[arg[got[q]]] = "wake"

Inv ==
  /\ TypeOK /\ RingOK
  /\ OnePoller /\ IopsSet
  /\ ClientOK /\ ArgOK /\ ThreadOK
-----------------------------------------------------------------------------
(***************************************************************************)
(* Type correctness.                                                       *)
(***************************************************************************)

(* Clamp does what its name says. *)
LEMMA ClampType ==
  ASSUME NEW x \in Int, NEW lo \in Int, NEW hi \in Int, lo <= hi
  PROVE  Clamp(x, lo, hi) \in lo .. hi
BY DEF Clamp

(* Whatever the shift left in an int overflows to, the step stays within   *)
(* its bounds.                                                             *)
LEMMA NewDeltaType ==
  ASSUME NEW delta \in Int, NEW old \in Nat \ {0}, NEW new \in Nat
  PROVE  NewDelta(delta, old, new) \in -SLEEP_DELTA_MAX .. SLEEP_DELTA_MAX
<1> DEFINE x == ToInt((new - old) * 512)
           raw == CDiv(x, old)
           step == IF raw # 0 THEN raw ELSE IF new >= old THEN 1 ELSE -1
           y == IF delta >= 0 THEN step ELSE -step
<1>1. /\ SLEEP_DELTA_MAX \in Int /\ -SLEEP_DELTA_MAX \in Int
      /\ -SLEEP_DELTA_MAX <= SLEEP_DELTA_MAX
  BY TuningAssumption DEF SLEEP_DELTA_MAX
<1>2. x \in Int
  BY TuningAssumption DEF ToInt
<1>3. raw \in Int
  BY <1>2 DEF CDiv
<1>4. step \in Int
  BY <1>3
<1>5. y \in Int
  BY <1>4
<1>6. NewDelta(delta, old, new) = Clamp(y, -SLEEP_DELTA_MAX, SLEEP_DELTA_MAX)
  BY DEF NewDelta
<1> HIDE DEF y
<1> QED BY <1>1, <1>5, <1>6, ClampType
(* Every step keeps the types. *)
LEMMA TypeStep ==
  ASSUME Inv, [Next]_vars
  PROVE  TypeOK'
<1> USE NullAssumption DEF Inv, TypeOK, ringVars, clientVars, ctlVars, threadVars,
      tuneVars, devVars
<1>1. CASE Start
  BY <1>1 DEF Start
<1>2. CASE Stop
  BY <1>2 DEF Stop
<1>3. CASE StopJoin
  BY <1>3 DEF StopJoin
<1>4. CASE Destroy
  BY <1>4 DEF Destroy
<1>5. ASSUME NEW q \in Pollers, LoopTest(q) PROVE TypeOK'
  BY <1>5 DEF LoopTest, Goto
<1>6. ASSUME NEW q \in Pollers, GetTask(q) PROVE TypeOK'
  <2>1. RingTypeOK' /\ Head(done) \in Tasks
    BY <1>6, ReapRing DEF RingTypeOK, GetTask
  <2> QED BY <1>6, <2>1 DEF GetTask, Goto, RingTypeOK
<1>7. ASSUME NEW q \in Pollers, GetNone(q) PROVE TypeOK'
  BY <1>7 DEF GetNone, Goto
<1>8. ASSUME NEW q \in Pollers, AsyncCallback(q) PROVE TypeOK'
  BY <1>8 DEF AsyncCallback, Goto, Counted
<1>9. ASSUME NEW q \in Pollers, CallbackLock(q) PROVE TypeOK'
  BY <1>9, ZenonT(40) DEF CallbackLock, Goto
<1>10. ASSUME NEW q \in Pollers, CallbackSignal(q) PROVE TypeOK'
  BY <1>10 DEF CallbackSignal, Goto
<1>11. ASSUME NEW q \in Pollers, CallbackUnlock(q) PROVE TypeOK'
  <2>1. mtx' \in [Clients -> Clients \cup {NULL, "poller"}]
    BY <1>11 DEF CallbackUnlock
  <2>2. /\ th' \in [Pollers -> {"none", "test", "get", "callback", "cb_signal",
                               "cb_unlock", "clock", "sleep", "exit"}]
        /\ got' \in [Pollers -> Tasks \cup {NULL}]
        /\ iocount_per_sec' \in [Pollers -> Nat]
    BY <1>11 DEF CallbackUnlock, Goto, Counted
  <2> QED BY <1>11, <2>1, <2>2 DEF CallbackUnlock
<1>12. ASSUME NEW q \in Pollers, SameSecond(q) PROVE TypeOK'
  BY <1>12 DEF SameSecond, Goto
<1>13. ASSUME NEW q \in Pollers, NewSecond(q) PROVE TypeOK'
  <2>1. iocount_per_sec[q] \in Nat
    OBVIOUS
  <2>2. sleep' \in SleepMin .. SleepMax /\ sleep_delta' \in -SLEEP_DELTA_MAX .. SLEEP_DELTA_MAX
    <3>1. CASE sleepy_poll /\ iops # 0 /\ iocount_per_sec[q] # 0
      <4> DEFINE d == NewDelta(sleep_delta, iops, iocount_per_sec[q])
      <4>1. iops \in Nat \ {0}
        BY <3>1 DEF IopsSet
      <4>2. SLEEP_DELTA_MAX \in Int
        BY TuningAssumption DEF SLEEP_DELTA_MAX
      <4>3. d \in -SLEEP_DELTA_MAX .. SLEEP_DELTA_MAX
        <5>1. sleep_delta \in Int
          BY <4>2
        <5> QED BY <2>1, <4>1, <5>1, NewDeltaType, Zenon
      <4>4. sleep_delta' = d /\ sleep' = Clamp(sleep + d, SleepMin, SleepMax)
        BY <1>13, <3>1 DEF NewSecond, eval_performance
      <4> HIDE DEF d
      <4>5. sleep + d \in Int
        BY <4>2, <4>3, TuningAssumption
      <4>6. sleep' \in SleepMin .. SleepMax
        BY <4>4, <4>5, ClampType, TuningAssumption
      <4> QED BY <4>3, <4>4, <4>6
    <3>2. CASE ~(sleepy_poll /\ iops # 0 /\ iocount_per_sec[q] # 0)
      BY <1>13, <3>2 DEF NewSecond, eval_performance
    <3> QED BY <3>1, <3>2
  <2>3. sleepy_poll' \in BOOLEAN /\ no_interrupt' \in BOOLEAN
    <3>1. \/ sleepy_poll' = ~(iocount_per_sec[q] < IopsHigh)
          \/ sleepy_poll' = (iocount_per_sec[q] > IopsHigh)
      BY <1>13, Zenon DEF NewSecond
    <3>2. sleepy_poll' \in BOOLEAN
      <4>1. (iocount_per_sec[q] > IopsHigh) \in BOOLEAN
        OBVIOUS
      <4> QED BY <3>1, <4>1, Zenon
    <3>3. no_interrupt' = no_interrupt \/ no_interrupt' = sleepy_poll'
      BY <1>13, Zenon DEF NewSecond
    <3> QED BY <3>2, <3>3, Zenon
  <2>4. /\ th' \in [Pollers -> {"none", "test", "get", "callback", "cb_signal",
                               "cb_unlock", "clock", "sleep", "exit"}]
        /\ iocount_per_sec' \in [Pollers -> Nat]
        /\ first' \in [Pollers -> BOOLEAN]
        /\ iops' \in Nat
    BY <1>13, <2>1 DEF NewSecond, Goto
  <2> QED BY <1>13, <2>2, <2>3, <2>4 DEF NewSecond
<1>14. ASSUME NEW q \in Pollers, PollEvent(q) PROVE TypeOK'
  BY <1>14 DEF PollEvent, Goto
<1>15. ASSUME NEW q \in Pollers, PollTimeout(q) PROVE TypeOK'
  BY <1>15 DEF PollTimeout, Goto
<1>16. ASSUME NEW q \in Pollers, ThreadExit(q) PROVE TypeOK'
  BY <1>16 DEF ThreadExit, Goto, ExitTid
<1>17. ASSUME NEW c \in Clients, NEW t \in Tasks, SubmitAsync(c, t) PROVE TypeOK'
  <2>1. RingTypeOK'
    BY <1>17, AcceptRing DEF SubmitAsync, RingTypeOK
  <2> QED BY <1>17, <2>1 DEF SubmitAsync, RingTypeOK
<1>18. ASSUME NEW c \in Clients, NEW t \in Tasks, SyncSubmit(c, t) PROVE TypeOK'
  <2>1. RingTypeOK'
    BY <1>18, AcceptRing DEF SyncSubmit, RingTypeOK
  <2> QED BY <1>18, <2>1 DEF SyncSubmit, RingTypeOK
<1>19. ASSUME NEW c \in Clients, SyncWait(c) PROVE TypeOK'
  BY <1>19 DEF SyncWait
<1>20. ASSUME NEW c \in Clients, SyncBack(c) PROVE TypeOK'
  BY <1>20 DEF SyncBack
<1>21. ASSUME NEW c \in Clients, SyncDone(c) PROVE TypeOK'
  <2>1. c_task[c] \in Tasks
    BY <1>21 DEF SyncDone, ClientOK
  <2> QED BY <1>21, <2>1 DEF SyncDone
<1>22. ASSUME NEW t \in Tasks, DevComplete(t) PROVE TypeOK'
  <2>1. RingTypeOK'
    BY <1>22, CompleteRing DEF DevComplete, RingTypeOK
  <2> QED BY <1>22, <2>1 DEF DevComplete, RingTypeOK
<1>23. CASE DevInterrupt
  BY <1>23 DEF DevInterrupt
<1>24. CASE UNCHANGED vars
  BY <1>24 DEF vars
<1> QED
  BY <1>1, <1>2, <1>3, <1>4, <1>5, <1>6, <1>7, <1>8, <1>9, <1>10, <1>11,
     <1>12, <1>13, <1>14, <1>15, <1>16, <1>17, <1>18, <1>19, <1>20, <1>21, <1>22, <1>23, <1>24
     DEF Next, Control, Poll, Sync
-----------------------------------------------------------------------------
(***************************************************************************)
(* One thread at a time dequeues.                                          *)
(***************************************************************************)

(* Only vring_poller_start creates a thread, when tid says there is none,  *)
(* and a thread clears tid in its last step.                               *)
LEMMA OnePollerStep ==
  ASSUME Inv, [Next]_vars
  PROVE  OnePoller'
<1> USE NullAssumption DEF Inv, TypeOK, OnePoller, Live
<1>1. CASE Start
  BY <1>1 DEF Start
<1>2. CASE Stop
  BY <1>2 DEF Stop, threadVars
<1>3. CASE StopJoin \/ Destroy
  BY <1>3 DEF StopJoin, Joined, Destroy, threadVars
<1>4. ASSUME NEW q \in Pollers, ThreadExit(q) PROVE OnePoller'
  BY <1>4 DEF ThreadExit, Goto, ExitTid
<1>5. ASSUME NEW q \in Pollers, Poll(q), ~ThreadExit(q) PROVE OnePoller'
  <2>1. /\ UNCHANGED <<tid, ctl>>
        /\ th[q] # "none"
        /\ \A r \in Pollers \ {q} : th'[r] = th[r]
    BY <1>5 DEF Poll, LoopTest, GetTask, GetNone, AsyncCallback, CallbackLock,
         CallbackSignal, CallbackUnlock, SameSecond, NewSecond, PollEvent,
         PollTimeout, Goto, ctlVars
  <2> QED BY <2>1
<1>6. ASSUME UNCHANGED <<tid, ctl, th>> PROVE OnePoller'
  BY <1>6
<1>7. ASSUME NEW c \in Clients, NEW t \in Tasks, SubmitAsync(c, t) \/ SyncSubmit(c, t)
      PROVE  UNCHANGED <<tid, ctl, th>>
  BY <1>7 DEF SubmitAsync, SyncSubmit, ctlVars, threadVars
<1>8. ASSUME NEW c \in Clients, Sync(c)
      PROVE  UNCHANGED <<tid, ctl, th>>
  BY <1>8 DEF Sync, SyncWait, SyncBack, SyncDone,
       ctlVars, threadVars
<1>9. CASE (\E t \in Tasks : DevComplete(t)) \/ DevInterrupt \/ UNCHANGED vars
  BY <1>9 DEF DevComplete, DevInterrupt, vars, ctlVars, threadVars
<1> QED
  BY <1>1, <1>2, <1>3, <1>4, <1>5, <1>6, <1>7, <1>8, <1>9 DEF Next, Control

(* The mode switches to time based polling only where iops is set. *)
LEMMA IopsStep ==
  ASSUME Inv, [Next]_vars
  PROVE  IopsSet'
<1> USE NullAssumption DEF Inv, IopsSet
<1>1. ASSUME NEW q \in Pollers, NewSecond(q) PROVE IopsSet'
  BY <1>1 DEF NewSecond, TypeOK
<1>2. ASSUME NEW q \in Pollers, Poll(q), ~NewSecond(q) PROVE IopsSet'
  BY <1>2 DEF Poll, LoopTest, GetTask, GetNone, AsyncCallback, CallbackLock,
       CallbackSignal, CallbackUnlock, SameSecond, PollEvent, PollTimeout,
       ThreadExit, tuneVars
<1>3. CASE Control
  BY <1>3 DEF Control, Start, Stop, StopJoin, Destroy, tuneVars
<1>4. ASSUME NEW c \in Clients, NEW t \in Tasks, SubmitAsync(c, t) \/ SyncSubmit(c, t)
      PROVE  IopsSet'
  BY <1>4 DEF SubmitAsync, SyncSubmit, tuneVars
<1>5. ASSUME NEW c \in Clients, Sync(c) PROVE IopsSet'
  BY <1>5 DEF Sync, SyncWait, SyncBack, SyncDone, tuneVars
<1>6. CASE (\E t \in Tasks : DevComplete(t)) \/ DevInterrupt \/ UNCHANGED vars
  BY <1>6 DEF DevComplete, DevInterrupt, vars, tuneVars
<1> QED
  BY <1>1, <1>2, <1>3, <1>4, <1>5, <1>6 DEF Next

-----------------------------------------------------------------------------
(***************************************************************************)
(* The handshake of submitter, ring and callback.                          *)
(***************************************************************************)

Handshake == RingOK /\ ClientOK /\ ArgOK /\ ThreadOK

Callbacks == {"callback", "cb_signal", "cb_unlock"}

(* A step that neither touches a task nor moves a thread into or out of a  *)
(* callback.                                                               *)
LEMMA QuietStep ==
  ASSUME Inv, UNCHANGED <<ringVars, arg, c_pc, c_task, mtx, got>>,
         \A q \in Pollers :
           \/ th'[q] = th[q]
           \/ th[q] \notin Callbacks /\ th'[q] \notin Callbacks
  PROVE  Handshake'
<1>1. RingOK' /\ Ring!OnRing' = Ring!OnRing
  BY SameRing DEF Inv, TypeOK, RingTypeOK
<1>2. ClientOK'
  BY <1>1 DEF Inv, ClientOK, Callbacks
<1>3. ArgOK'
  BY <1>1 DEF Inv, ArgOK
<1>4. ThreadOK'
  BY <1>1 DEF Inv, ThreadOK, Callbacks
<1> QED BY <1>1, <1>2, <1>3, <1>4 DEF Handshake

(* One callback runs at a time, and only its thread has a task. *)
Alone(q) ==
  /\ \A r \in Pollers : r # q => got[r] = NULL
  /\ th[q] \in Callbacks =>
       /\ got[q] \in Tasks
       /\ arg[got[q]] # NULL =>
            arg[got[q]] \in Clients /\ c_task[arg[got[q]]] = got[q]

(* Follows from OnePoller. *)
LEMMA OneCallback ==
  ASSUME Inv, NEW q \in Pollers, th[q] # "none"
  PROVE  Alone(q)
<1>1. ASSUME NEW r \in Pollers, r # q PROVE got[r] = NULL
  BY <1>1 DEF Inv, OnePoller, Live, ThreadOK
<1>2. ASSUME th[q] \in Callbacks PROVE got[q] \in Tasks
  BY <1>2 DEF Inv, ThreadOK, TypeOK, Callbacks
<1>3. ASSUME th[q] \in Callbacks, arg[got[q]] # NULL
      PROVE  arg[got[q]] \in Clients /\ c_task[arg[got[q]]] = got[q]
  BY <1>2, <1>3, NullAssumption DEF Inv, ThreadOK, TypeOK
<1> QED BY <1>1, <1>2, <1>3 DEF Alone

(* vring_get_task hands a task to the thread. *)
LEMMA GetTaskStep ==
  ASSUME Inv, NEW q \in Pollers, GetTask(q)
  PROVE  Handshake'
<1>1. RingOK' /\ Head(done) \in Tasks /\ Head(done) \in Ring!OnRing
      /\ Ring!OnRing' = Ring!OnRing \ {Head(done)}
  BY ReapRing DEF Inv, TypeOK, RingTypeOK, GetTask
<1> USE NullAssumption DEF Inv, TypeOK
<1>0. Alone(q)
  BY OneCallback DEF GetTask, Goto
<1>2. ClientOK'
  BY <1>1, <1>0 DEF ClientOK, GetTask, Goto, clientVars, Alone, Callbacks
<1>3. ArgOK'
  BY <1>1, <1>0 DEF ArgOK, ClientOK, ThreadOK, GetTask, Goto, clientVars, Alone, Callbacks
<1>4. ThreadOK'
  BY <1>1, <1>0 DEF ThreadOK, ArgOK, ClientOK, GetTask, Goto, clientVars, Alone, Callbacks
<1> QED BY <1>1, <1>2, <1>3, <1>4 DEF Handshake

(* The callback of an asynchronous task ends. *)
LEMMA AsyncCallbackStep ==
  ASSUME Inv, NEW q \in Pollers, AsyncCallback(q)
  PROVE  Handshake'
<1>1. RingOK' /\ Ring!OnRing' = Ring!OnRing
  BY SameRing DEF Inv, TypeOK, RingTypeOK, AsyncCallback
<1> USE NullAssumption DEF Inv, TypeOK
<1>0. Alone(q)
  BY OneCallback DEF AsyncCallback, Goto
<1>2. ClientOK'
  BY <1>1, <1>0 DEF ClientOK, AsyncCallback, Goto, Counted, clientVars, Alone, Callbacks
<1>3. ArgOK'
  BY <1>1, <1>0 DEF ArgOK, ClientOK, ThreadOK, AsyncCallback, Goto, Counted,
     clientVars, Alone, Callbacks
<1>4. ThreadOK'
  BY <1>1, <1>0 DEF ThreadOK, ArgOK, ClientOK, AsyncCallback, Goto, Counted,
     clientVars, Alone, Callbacks
<1> QED BY <1>1, <1>2, <1>3, <1>4 DEF Handshake

(* The synchronous callback takes the mutex: its owner sleeps by now. *)
LEMMA CallbackLockStep ==
  ASSUME Inv, NEW q \in Pollers, CallbackLock(q)
  PROVE  Handshake'
<1>1. RingOK' /\ Ring!OnRing' = Ring!OnRing
  BY SameRing DEF Inv, TypeOK, RingTypeOK, CallbackLock
<1> USE NullAssumption DEF Inv, TypeOK
<1>0. Alone(q)
  BY OneCallback DEF CallbackLock, Goto
<1>2. ClientOK'
  BY <1>1, <1>0 DEF ClientOK, CallbackLock, Goto, Alone, Callbacks
<1>3. ArgOK'
  BY <1>1, <1>0 DEF ArgOK, ClientOK, ThreadOK, CallbackLock, Goto, Alone, Callbacks
<1>4. ThreadOK'
  BY <1>1, <1>0 DEF ThreadOK, ArgOK, ClientOK, CallbackLock, Goto, Alone, Callbacks
<1> QED BY <1>1, <1>2, <1>3, <1>4 DEF Handshake

(* It wakes its owner and nobody else. *)
LEMMA CallbackSignalStep ==
  ASSUME Inv, NEW q \in Pollers, CallbackSignal(q)
  PROVE  Handshake'
<1>1. RingOK' /\ Ring!OnRing' = Ring!OnRing
  BY SameRing DEF Inv, TypeOK, RingTypeOK, CallbackSignal
<1> USE NullAssumption DEF Inv, TypeOK
<1>0. Alone(q)
  BY OneCallback DEF CallbackSignal, Goto
<1>2. ClientOK'
  BY <1>1, <1>0 DEF ClientOK, ThreadOK, CallbackSignal, Goto, Waiters, Alone, Callbacks
<1>3. ArgOK'
  <2> SUFFICES ASSUME NEW t \in Ring!OnRing, arg[t] # NULL
               PROVE  c_task[arg[t]] = t /\ c_pc'[arg[t]] \in {"submitted", "wait"}
    BY <1>1 DEF ArgOK, CallbackSignal
  <2>1. c_task[arg[t]] = t /\ c_pc[arg[t]] \in {"submitted", "wait"}
    BY DEF ArgOK
  <2>2. arg[t] \in Clients
    BY DEF Ring!OnRing
  <2>3. arg[t] # arg[got[q]]
    BY <1>0, <2>1 DEF Alone, Callbacks, ThreadOK, CallbackSignal, Goto
  <2> QED BY <2>1, <2>2, <2>3 DEF CallbackSignal, Waiters
<1>4. ThreadOK'
  BY <1>1, <1>0 DEF ThreadOK, ArgOK, ClientOK, CallbackSignal, Goto, Waiters, Alone, Callbacks
<1> QED BY <1>1, <1>2, <1>3, <1>4 DEF Handshake

(* It returns the mutex and forgets the task. *)
LEMMA CallbackUnlockStep ==
  ASSUME Inv, NEW q \in Pollers, CallbackUnlock(q)
  PROVE  Handshake'
<1>1. RingOK' /\ Ring!OnRing' = Ring!OnRing
  BY SameRing DEF Inv, TypeOK, RingTypeOK, CallbackUnlock
<1> USE NullAssumption DEF Inv, TypeOK
<1>0. Alone(q)
  BY OneCallback DEF CallbackUnlock, Goto
<1>2. ClientOK'
  BY <1>1, <1>0 DEF ClientOK, ThreadOK, CallbackUnlock, Goto, Counted, Alone, Callbacks
<1>3. ArgOK'
  BY <1>1, <1>0 DEF ArgOK, ClientOK, ThreadOK, CallbackUnlock, Goto, Counted, Alone, Callbacks
<1>4. ThreadOK'
  BY <1>1, <1>0 DEF ThreadOK, ArgOK, ClientOK, CallbackUnlock, Goto, Counted, Alone, Callbacks
<1> QED BY <1>1, <1>2, <1>3, <1>4 DEF Handshake

(* An asynchronous task is nobody's: not the one of a call, not on the     *)
(* ring, not in a callback.                                                *)
LEMMA SubmitAsyncStep ==
  ASSUME Inv, NEW c \in Clients, NEW t \in Tasks, SubmitAsync(c, t)
  PROVE  Handshake'
<1>1. RingOK' /\ Ring!OnRing' = Ring!OnRing \cup {t}
  BY AcceptRing DEF Inv, TypeOK, RingTypeOK, SubmitAsync
<1> USE NullAssumption DEF Inv, TypeOK, SubmitAsync, Unused, threadVars
<1>2. ClientOK'
  BY <1>1 DEF ClientOK
<1>3. ArgOK'
  BY <1>1 DEF ArgOK
<1>4. ThreadOK'
  BY <1>1 DEF ThreadOK
<1> QED BY <1>1, <1>2, <1>3, <1>4 DEF Handshake

(* A synchronous call takes its mutex and puts a task that nobody has on   *)
(* the ring.                                                               *)
LEMMA SyncSubmitStep ==
  ASSUME Inv, NEW c \in Clients, NEW t \in Tasks, SyncSubmit(c, t)
  PROVE  Handshake'
<1>1. RingOK' /\ Ring!OnRing' = Ring!OnRing \cup {t}
  BY AcceptRing DEF Inv, TypeOK, RingTypeOK, SyncSubmit
<1> USE NullAssumption DEF Inv, TypeOK
<1>2. ClientOK'
  BY <1>1 DEF ClientOK, SyncSubmit, Unused, threadVars
<1>3. ArgOK'
  BY <1>1 DEF ArgOK, ClientOK, ThreadOK, SyncSubmit, Unused, threadVars
<1>4. ThreadOK'
  BY <1>1 DEF ThreadOK, ArgOK, ClientOK, SyncSubmit, Unused, threadVars
<1> QED BY <1>1, <1>2, <1>3, <1>4 DEF Handshake

(* It sleeps and lets the callback have the mutex. *)
LEMMA SyncWaitStep ==
  ASSUME Inv, NEW c \in Clients, SyncWait(c)
  PROVE  Handshake'
<1>1. RingOK' /\ Ring!OnRing' = Ring!OnRing
  BY SameRing DEF Inv, TypeOK, RingTypeOK, SyncWait
<1> USE NullAssumption DEF Inv, TypeOK
<1>2. ClientOK'
  BY <1>1 DEF ClientOK, SyncWait, threadVars
<1>3. ArgOK'
  BY <1>1 DEF ArgOK, ClientOK, ThreadOK, SyncWait, threadVars
<1>4. ThreadOK'
  BY <1>1 DEF ThreadOK, ArgOK, ClientOK, SyncWait, threadVars
<1> QED BY <1>1, <1>2, <1>3, <1>4 DEF Handshake

(* It wakes up, and gets the mutex only when the callback is through. *)
LEMMA SyncBackStep ==
  ASSUME Inv, NEW c \in Clients, SyncBack(c)
  PROVE  Handshake'
<1>1. RingOK' /\ Ring!OnRing' = Ring!OnRing
  BY SameRing DEF Inv, TypeOK, RingTypeOK, SyncBack
<1> USE NullAssumption DEF Inv, TypeOK
<1>2. ClientOK'
  BY <1>1 DEF ClientOK, ThreadOK, SyncBack, MutexFree, threadVars
<1>3. ArgOK'
  BY <1>1 DEF ArgOK, ClientOK, ThreadOK, SyncBack, MutexFree, threadVars
<1>4. ThreadOK'
  BY <1>1 DEF ThreadOK, ArgOK, ClientOK, SyncBack, MutexFree, threadVars
<1> QED BY <1>1, <1>2, <1>3, <1>4 DEF Handshake

(* The caller destroys the task. *)
LEMMA SyncDoneStep ==
  ASSUME Inv, NEW c \in Clients, SyncDone(c)
  PROVE  Handshake'
<1>1. RingOK' /\ Ring!OnRing' = Ring!OnRing
  BY SameRing DEF Inv, TypeOK, RingTypeOK, SyncDone
<1> USE NullAssumption DEF Inv, TypeOK
<1>2. ClientOK'
  BY <1>1 DEF ClientOK, SyncDone, threadVars
<1>3. ArgOK'
  BY <1>1 DEF ArgOK, ClientOK, ThreadOK, SyncDone, threadVars
<1>4. ThreadOK'
  BY <1>1 DEF ThreadOK, ArgOK, ClientOK, SyncDone, threadVars
<1> QED BY <1>1, <1>2, <1>3, <1>4 DEF Handshake

(* The device only moves tasks. *)
LEMMA DevCompleteStep ==
  ASSUME Inv, NEW t \in Tasks, DevComplete(t)
  PROVE  Handshake'
<1>1. RingOK' /\ Ring!OnRing' = Ring!OnRing
  BY CompleteRing DEF Inv, TypeOK, RingTypeOK, DevComplete
<1> USE NullAssumption DEF Inv, TypeOK
<1>2. ClientOK'
  BY <1>1 DEF ClientOK, DevComplete, clientVars, threadVars
<1>3. ArgOK'
  BY <1>1 DEF ArgOK, ClientOK, ThreadOK, DevComplete, clientVars, threadVars
<1>4. ThreadOK'
  BY <1>1 DEF ThreadOK, ArgOK, ClientOK, DevComplete, clientVars, threadVars
<1> QED BY <1>1, <1>2, <1>3, <1>4 DEF Handshake
(* Every step keeps the handshake. *)
LEMMA HandshakeStep ==
  ASSUME Inv, [Next]_vars
  PROVE  Handshake'
<1>1. CASE Control
  <2>1. UNCHANGED <<ringVars, arg, c_pc, c_task, mtx, got>>
    BY <1>1 DEF Control, Start, Stop, StopJoin, Destroy,
         clientVars, threadVars
  <2>2. \A q \in Pollers : th'[q] = th[q] \/ (th[q] = "none" /\ th'[q] = "test")
    BY <1>1 DEF Control, Start, Stop, StopJoin, Destroy,
         threadVars, Inv, TypeOK
  <2> QED BY <2>1, <2>2, QuietStep DEF Callbacks
<1>2. ASSUME NEW q \in Pollers,
             \/ LoopTest(q) \/ GetNone(q) \/ SameSecond(q) \/ NewSecond(q)
             \/ PollEvent(q) \/ PollTimeout(q) \/ ThreadExit(q)
      PROVE  Handshake'
  <2>1. UNCHANGED <<ringVars, arg, c_pc, c_task, mtx, got>>
    BY <1>2 DEF LoopTest, GetNone, SameSecond, NewSecond, PollEvent, PollTimeout,
         ThreadExit, clientVars
  <2>2. /\ \A r \in Pollers \ {q} : th'[r] = th[r]
        /\ th[q] \notin Callbacks /\ th'[q] \notin Callbacks
    BY <1>2 DEF LoopTest, GetNone, SameSecond, NewSecond, PollEvent, PollTimeout,
         ThreadExit, Goto, Callbacks, Inv, TypeOK
  <2> QED BY <2>1, <2>2, QuietStep
<1>3. ASSUME NEW q \in Pollers, Poll(q) PROVE Handshake'
  BY <1>2, <1>3, GetTaskStep, AsyncCallbackStep, CallbackLockStep,
     CallbackSignalStep, CallbackUnlockStep DEF Poll
<1>4. ASSUME NEW c \in Clients, NEW t \in Tasks, SubmitAsync(c, t) \/ SyncSubmit(c, t)
      PROVE  Handshake'
  BY <1>4, SubmitAsyncStep, SyncSubmitStep
<1>5. ASSUME NEW c \in Clients, Sync(c) PROVE Handshake'
  BY <1>5, SyncWaitStep, SyncBackStep,
     SyncDoneStep DEF Sync
<1>6. CASE DevInterrupt \/ UNCHANGED vars
  BY <1>6, QuietStep DEF DevInterrupt, vars, clientVars, threadVars
<1> QED
  BY <1>1, <1>3, <1>4, <1>5, <1>6, DevCompleteStep DEF Next

-----------------------------------------------------------------------------
(***************************************************************************)
(* The theorems.                                                           *)
(***************************************************************************)

(* vring_poller_create establishes the invariant. *)
LEMMA InvInit == Init => Inv
<1> SUFFICES ASSUME Init PROVE Inv
  OBVIOUS
<1>1. Ring!OnRing = {} /\ RingOK
  BY DEF Init, Ring!Init, Ring!OnRing, RingOK
<1>2. TypeOK
  <2>1. sleep \in SleepMin .. SleepMax
    BY TuningAssumption DEF Init
  <2>2. sleep_delta \in -SLEEP_DELTA_MAX .. SLEEP_DELTA_MAX
    BY TuningAssumption DEF Init, SLEEP_DELTA_MAX
  <2>3. done \in Seq(Tasks) /\ accepted \in SUBSET Tasks
    BY DEF Init, Ring!Init
  <2> QED BY <2>1, <2>2, <2>3 DEF Init, TypeOK, FirstMode
<1>3. OnePoller /\ IopsSet
  BY DEF Init, OnePoller, Live, IopsSet, FirstMode
<1>4. ClientOK /\ ArgOK /\ ThreadOK
  BY <1>1 DEF Init, ClientOK, ArgOK, ThreadOK
<1> QED BY <1>1, <1>2, <1>3, <1>4 DEF Inv

(* The invariant is inductive. *)
THEOREM PollerInvariant == Spec => []Inv
<1>1. Inv /\ [Next]_vars => Inv'
  BY TypeStep, OnePollerStep, IopsStep, HandshakeStep DEF Inv, Handshake
<1> QED BY InvInit, <1>1, PTL DEF Spec

(* The tuning of eval_performance keeps poller->sleep and sleep_delta in   *)
(* their bounds, and everything else has its type.                         *)
THEOREM PollerTypeCorrect == Spec => []TypeOK
<1>1. Inv => TypeOK
  BY DEF Inv
<1> QED BY PollerInvariant, <1>1, PTL

(* However often the owner starts and stops the poller, one thread at a    *)
(* time takes tasks off the ring, and none after vring_poller_destroy.     *)
THEOREM OnePollerSafe == Spec => []OnePoller
<1>1. Inv => OnePoller
  BY DEF Inv
<1> QED BY PollerInvariant, <1>1, PTL

(* The callback never works on the stack frame of a submitter that has     *)
(* returned from vring_submit_task_sync.                                   *)
THEOREM SyncArgSafe == Spec => []SyncArgAlive
<1>1. Inv => SyncArgAlive
  BY DEF Inv, ThreadOK, SyncArgAlive
<1> QED BY PollerInvariant, <1>1, PTL

(* vring_submit_task_sync returns 0 only when the task is complete, if     *)
(* pthread_cond_wait has no spurious wakeups.                              *)
THEOREM SyncResultSafe == Spec => []SyncResult
<1>1. Inv => SyncResult
  BY DEF Inv, ClientOK, SyncResult
<1> QED BY PollerInvariant, <1>1, PTL

(* eval_performance never reads poller->iops before it is set, and leaves  *)
(* the sleep interval and its step within their limits.                    *)
THEOREM TuningSafe == Spec => []TuningSane
<1>1. Inv => TuningSane
  BY DEF Inv, TypeOK, TuningSane
<1> QED BY PollerInvariant, <1>1, PTL
=============================================================================
