----------------------------- MODULE FioPlugin -----------------------------
(***************************************************************************)
(* The fio engine of fio_plugin.c.  All jobs of the process share one      *)
(* device, g_hdl; its life is module Session.  fio (external) sets the     *)
(* jobs up one after the other (create_serialize), then runs each in a     *)
(* thread: it queues I/O units, waits in getevents and picks up as many    *)
(* events as it was told are there.  At exit the engine is unregistered.   *)
(*                                                                         *)
(* The asynchronous API is used through what AsyncIo and OutRing promise:  *)
(* a request that virtio_submit takes on reaches the output ring as long   *)
(* as there is a server, and virtio_completed tells how many are there, at *)
(* least mincount if it has no timeout.                                    *)
(***************************************************************************)
EXTENDS Session, FiniteSets

CONSTANTS
  NumJobs,    \* jobs, in the order of their setup
  Depth,      \* iodepth: number of I/O units of each job
  Files,      \* the file names of each job, a sequence
  RingCap,    \* requests that fit on the vring
  MinLimit,   \* 10: most events getevents waits for
  NULL        \* no handle, no name, no unit

Jobs == 1 .. NumJobs
UnitsOf(j) == {j} \X (1 .. Depth[j])
Units == UNION {UnitsOf(j) : j \in Jobs}

(* All file names. *)
Names == UNION {{Files[j][k] : k \in DOMAIN Files[j]} : j \in Jobs}

ASSUME FioAssumption ==
  /\ NumJobs \in Nat
  /\ Depth \in [Jobs -> Nat \ {0}]
  /\ Files \in [Jobs -> Seq(Names) \ {<<>>}]
  /\ NULL \notin Names
  /\ RingCap \in Nat \ {0} /\ MinLimit \in Nat \ {0}

VARIABLES
  env,       \* g_virtio_env_initialized
  g_hdl,     \* the shared handle: the file it was opened for, or NULL
  filename,  \* local of the running virtio_fio_setup
  eng,       \* engine_data of each job's files, as far as they are set up
  jpc,       \* where each job is
  out,       \* units that fio takes for queued (cur_depth counts them)
  busy,      \* unit and kind of request a job has to queue again, or NULL
  n,         \* events a job has still to pick up
  flight,    \* units on the vring or in a callback
  void,      \* units that were queued and will not complete
  ring,      \* the output ring
  overlap    \* did two jobs ever run at the same time? (history)

jobVars == <<jpc, out, busy, n>>
ioVars == <<flight, void, ring, overlap>>
setupVars == <<env, g_hdl, filename, eng>>
fioVars == <<jobVars, ioVars, setupVars>>
vars == <<fioVars, sessionVars>>

Init ==
  /\ SessionInit
  /\ env = FALSE /\ g_hdl = NULL /\ filename = NULL
  /\ eng = [j \in Jobs |-> <<>>]
  /\ jpc = [j \in Jobs |-> "new"]
  /\ out = [j \in Jobs |-> {}]
  /\ busy = [j \in Jobs |-> NULL]
  /\ n = [j \in Jobs |-> 0]
  /\ flight = {} /\ void = {} /\ ring = <<>> /\ overlap = FALSE

(* No assertion has ended the process. *)
Alive == \A j \in Jobs : jpc[j] # "aborted"

Goes(j, from, to) == jpc[j] = from /\ jpc' = [jpc EXCEPT ![j] = to]

-----------------------------------------------------------------------------
(***************************************************************************)
(* virtio_fio_setup                                                        *)
(***************************************************************************)

(* The first file that is not set up yet. *)
File(j) == Files[j][Len(eng[j]) + 1]
MoreFiles(j) == Len(eng[j]) < Len(Files[j])

(* The job does not run in a thread, or DPDK cannot be initialised. *)
SetupRefused(j) ==
  /\ \A h \in 1 .. j - 1 : jpc[h] \in {"ready", "failed"}
  /\ Goes(j, "new", "failed")
  /\ UNCHANGED <<out, busy, n, ioVars, setupVars, sessionVars>>

SetupStart(j) ==
  /\ \A h \in 1 .. j - 1 : jpc[h] \in {"ready", "failed"}
  /\ Goes(j, "new", "setup")
  /\ env' = TRUE
  /\ filename' = NULL
  /\ UNCHANGED <<out, busy, n, ioVars, g_hdl, eng, sessionVars>>

(* "Only one device is supported": filename is known only when this very   *)
(* call has opened the device.                                             *)
OtherFile(j) == filename # NULL /\ filename # File(j)

SetupOther(j) ==
  /\ MoreFiles(j) /\ OtherFile(j)
  /\ Goes(j, "setup", "failed")
  /\ UNCHANGED <<out, busy, n, ioVars, setupVars, sessionVars>>

(* The device is not open yet: open it ... *)
SetupOpen(j) ==
  /\ MoreFiles(j) /\ ~OtherFile(j)
  /\ g_hdl = NULL
  /\ Goes(j, "setup", "opening")
  /\ OpenCall
  /\ UNCHANGED <<out, busy, n, ioVars, setupVars>>

(* ... open_virtio_dev has returned. *)
Opened_Any == TRUE    \* mutant: the result is not tested
Opened == ret = "handle"
SetupOpened(j) ==
  /\ pc = "idle"
  /\ IF Opened
       THEN /\ Goes(j, "opening", "setup")
            /\ g_hdl' = File(j)
            /\ filename' = File(j)
            /\ eng' = [eng EXCEPT ![j] = Append(@, File(j))]
       ELSE Goes(j, "opening", "failed") /\ UNCHANGED <<g_hdl, filename, eng>>
  /\ UNCHANGED <<out, busy, n, ioVars, env, sessionVars>>

(* It is open: this job gets the same handle. *)
SetupShared(j) ==
  /\ jpc[j] = "setup"
  /\ MoreFiles(j) /\ ~OtherFile(j)
  /\ g_hdl # NULL
  /\ eng' = [eng EXCEPT ![j] = Append(@, g_hdl)]
  /\ UNCHANGED <<jobVars, ioVars, env, g_hdl, filename, sessionVars>>

SetupDone(j) ==
  /\ ~MoreFiles(j)
  /\ Goes(j, "setup", "ready")
  /\ UNCHANGED <<out, busy, n, ioVars, setupVars, sessionVars>>

-----------------------------------------------------------------------------
(***************************************************************************)
(* A running job.                                                          *)
(***************************************************************************)

Active == {"run", "forever", "timed", "events"}

(* iomem_alloc and io_u_init, then the thread runs, or they fail. *)
Begin(j) ==
  /\ \A h \in Jobs : jpc[h] \notin {"new", "setup", "opening"}
  /\ \/ Goes(j, "ready", "run")
     \/ Goes(j, "ready", "failed")
  /\ overlap' = (overlap \/ (jpc'[j] = "run" /\ \E h \in Jobs : jpc[h] \in Active))
  /\ UNCHANGED <<out, busy, n, flight, void, ring, setupVars, sessionVars>>

(* virtio_fio_queue: "rw" is a read or a write on the device, which may    *)
(* find no memory or no room on the vring; "void" a trim or a request for  *)
(* zero bytes; "beyond" a request behind the end of the device.            *)
Kinds == {"rw", "void", "beyond"}

(* The values of rc. *)
Outcomes(kind) ==
  CASE kind = "void"   -> {0}
    [] kind = "beyond" -> {-1}
    [] OTHER           -> IF Cardinality(flight) < RingCap THEN {0, -1} ELSE {-1}

(* FIO_Q_QUEUED or FIO_Q_BUSY *)
IsQueued_Positive(rc) == rc > 0    \* mutant: success taken for busy
IsQueued(rc) == ~(rc < 0)

virtio_fio_queue(j, u, kind, rc) ==
  /\ jpc[j] = "run"
  /\ rc \in Outcomes(kind)
  /\ flight' = IF rc = 0 /\ kind = "rw" THEN flight \cup {u} ELSE flight
  /\ void' = IF rc = 0 /\ kind = "void" THEN void \cup {u} ELSE void
  /\ out' = IF IsQueued(rc) THEN [out EXCEPT ![j] = @ \cup {u}] ELSE out
  /\ busy' = [busy EXCEPT ![j] = IF IsQueued(rc) THEN NULL ELSE <<u, kind>>]
  /\ UNCHANGED <<jpc, n, ring, overlap, setupVars, sessionVars>>

(* fio queues a free unit ... *)
Queue(j) ==
  /\ busy[j] = NULL
  /\ \E u \in UnitsOf(j), kind \in Kinds, rc \in {0, -1} :
       u \notin out[j] /\ virtio_fio_queue(j, u, kind, rc)

(* ... or tries again with one that was busy. *)
Retry(j) ==
  /\ busy[j] # NULL
  /\ \E rc \in {0, -1} : virtio_fio_queue(j, busy[j][1], busy[j][2], rc)

(* The default case: fio wants a sync, and assert(false) ends the process  *)
(* with all its threads.                                                   *)
QueueSync(j) ==
  /\ jpc[j] = "run"
  /\ busy[j] = NULL /\ out[j] # UnitsOf(j)
  /\ jpc' = [h \in Jobs |-> "aborted"]
  /\ UNCHANGED <<out, busy, n, ioVars, setupVars, sessionVars>>

(* virtio_fio_getevents, without or with a timeout. *)
GetEvents(j) ==
  /\ out[j] # {}
  /\ Goes(j, "run", "forever") \/ Goes(j, "run", "timed")
  /\ UNCHANGED <<out, busy, n, ioVars, setupVars, sessionVars>>

Min_Fixed(j) == MinLimit    \* mutant: whatever is queued
Min(j) == IF Cardinality(out[j]) < MinLimit THEN Cardinality(out[j]) ELSE MinLimit

Completed(j) ==
  /\ \/ Goes(j, "forever", "events") /\ Len(ring) >= Min(j)
     \/ Goes(j, "timed", "events")
  /\ n' = [n EXCEPT ![j] = Len(ring)]
  /\ UNCHANGED <<out, busy, ioVars, setupVars, sessionVars>>

(* virtio_fio_event: the next element of the output ring. *)
OwnEvent(j) == ring # <<>> /\ Head(ring)[1] = j

virtio_fio_event(j) ==
  /\ Goes(j, "events", "events")
  /\ n[j] > 0
  /\ OwnEvent(j)
  /\ ring' = Tail(ring)
  /\ out' = [out EXCEPT ![j] = @ \ {Head(ring)}]
  /\ n' = [n EXCEPT ![j] = @ - 1]
  /\ UNCHANGED <<busy, flight, void, overlap, setupVars, sessionVars>>

(* There is none, or it is not this job's: fio works on a null pointer or  *)
(* on a unit of another thread.                                            *)
WrongEvent(j) ==
  /\ Goes(j, "events", "broken")
  /\ n[j] > 0
  /\ ~OwnEvent(j)
  /\ ring' = IF ring = <<>> THEN ring ELSE Tail(ring)
  /\ UNCHANGED <<out, busy, n, flight, void, overlap, setupVars, sessionVars>>

EventsDone(j) ==
  /\ Goes(j, "events", "run")
  /\ n[j] = 0
  /\ UNCHANGED <<out, busy, n, ioVars, setupVars, sessionVars>>

(* The time is over, and nothing is queued any more. *)
Finish(j) ==
  /\ Goes(j, "run", "done")
  /\ out[j] = {}
  /\ UNCHANGED <<out, busy, n, ioVars, setupVars, sessionVars>>

(* The poller thread pushes a completed request. *)
Complete ==
  /\ Alive
  /\ Ready /\ "thread" \in held
  /\ \E u \in flight :
       /\ flight' = flight \ {u}
       /\ ring' = Append(ring, u)
  /\ UNCHANGED <<jobVars, void, overlap, setupVars, sessionVars>>

-----------------------------------------------------------------------------
(* virtio_fio_unregister, when all jobs have ended: close the device ...   *)
Ended == \A j \in Jobs : jpc[j] \in {"done", "failed"}

Unregister ==
  /\ Ended /\ env /\ g_hdl # NULL
  /\ CloseCall
  /\ UNCHANGED fioVars

(* ... if there is one. *)
Unregistered ==
  /\ Ended /\ env
  /\ pc = "idle" /\ (g_hdl = NULL \/ ret = "NULL")
  /\ g_hdl' = NULL
  /\ env' = FALSE
  /\ UNCHANGED <<jobVars, ioVars, filename, eng, sessionVars>>

-----------------------------------------------------------------------------
Setup(j) ==
  \/ SetupRefused(j) \/ SetupStart(j) \/ SetupOther(j) \/ SetupOpen(j)
  \/ SetupOpened(j) \/ SetupShared(j) \/ SetupDone(j)

Events(j) == Completed(j) \/ virtio_fio_event(j) \/ WrongEvent(j) \/ EventsDone(j)

Run(j) ==
  \/ Begin(j) \/ Queue(j) \/ Retry(j) \/ QueueSync(j)
  \/ GetEvents(j) \/ Events(j) \/ Finish(j)

OpenStep == Open /\ UNCHANGED fioVars
CloseStep == Close /\ UNCHANGED fioVars
ServerStep == ServerGone /\ UNCHANGED fioVars

Next ==
  \/ OpenStep \/ CloseStep \/ ServerStep
  \/ \E j \in Jobs : Setup(j) \/ Run(j)
  \/ Complete \/ Unregister \/ Unregistered

Spec == Init /\ [][Next]_vars

(* The threads are scheduled, and server and poller complete what is on    *)
(* the vring while they are there.  A job may be refused for ever: nothing *)
(* says that memory comes back.                                            *)
FairSpec ==
  /\ Spec
  /\ WF_vars(OpenStep \/ CloseStep)
  /\ WF_vars(Complete)
  /\ \A j \in Jobs : WF_vars(Events(j))

-----------------------------------------------------------------------------
(***************************************************************************)
(* Properties.                                                             *)
(***************************************************************************)

(* Every variable has its type; so have those of the session. *)
TypeOK ==
  /\ SessionTypeOK
  /\ env \in BOOLEAN /\ overlap \in BOOLEAN
  /\ \A j \in Jobs :
       /\ jpc[j] \in Active \cup {"new", "setup", "opening", "ready", "done",
                                  "failed", "broken", "aborted"}
       /\ out[j] \subseteq UnitsOf(j)
       /\ busy[j] = NULL \/ busy[j] \in Units \X Kinds
       /\ n[j] \in 0 .. Cardinality(Units)
       /\ Len(eng[j]) <= Len(Files[j])
  /\ flight \subseteq Units /\ void \subseteq Units
  /\ Cardinality(flight) <= RingCap

(* A job that runs has an open device, which the server serves as long as  *)
(* the connection stands and whose poller thread runs: a failed open never *)
(* leaves a handle behind for the jobs that come after.                    *)
JobHasDevice ==
  \A j \in Jobs : jpc[j] \in Active =>
    /\ g_hdl # NULL /\ ret = "handle" /\ pc = "idle"
    /\ {"thread", "outring", "outfd"} \subseteq held
    /\ conn = "up" => Ready

(* fio and the library agree on what is outstanding: the units fio counts  *)
(* in cur_depth are those on the vring, in the output ring, or lost as     *)
(* trims and requests for zero bytes; and a job that picks up as many      *)
(* events as getevents announced gets units of its own each time.  Both as *)
(* long as no two jobs run at the same time: they share one output ring.   *)
DepthTrue ==
  ~overlap => \A j \in Jobs :
    /\ jpc[j] # "broken"
    /\ out[j] = {u \in UnitsOf(j) : \/ u \in flight \cup void
                                    \/ \E k \in DOMAIN ring : ring[k] = u}

(* A job that waits for events without a timeout goes on: min is what is   *)
(* queued, so it never waits for more events than can come, and it picks   *)
(* up all that were announced.  The exceptions are those of the code: a    *)
(* trim or a request for zero bytes is counted and never completes,        *)
(* nothing notices that the server has gone, and jobs that run together    *)
(* take each other's events or end the process of the others.              *)
Hopeless(j) == conn # "up" \/ overlap \/ out[j] \cap void # {}

JobGoesOn == \A j \in Jobs : jpc[j] = "forever" ~> (jpc[j] = "run" \/ Hopeless(j))

(* "Only one device is supported": a job that is set up works on the       *)
(* device of the file it names.                                            *)
RightDevice ==
  \A j \in Jobs : \A k \in DOMAIN eng[j] : eng[j][k] = Files[j][k]
=============================================================================
