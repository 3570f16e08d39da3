------------------------------ MODULE Session ------------------------------
(***************************************************************************)
(* The life of a device handle: open_virtio_dev and close_virtio_dev of    *)
(* virtio_dev.c with the vhost client (vhost_client.c), its messages to    *)
(* the server (vhost_user.c) and the three SCSI commands that open sends.  *)
(*                                                                         *)
(* Anything that can fail may fail, the server may go away at any time,    *)
(* and a send to a server that is gone raises SIGPIPE, which kills the     *)
(* process unless the application ignores that signal.  What one call does *)
(* to its own memory between two of these points is one step.  Rings and   *)
(* poller are objects here; modules Vring and VringPoller look inside.     *)
(***************************************************************************)
EXTENDS Integers, Sequences

VARIABLES
  pc,        \* where the thread is in open or close, "idle" outside of them
  i,         \* index of the loops over rings and of the SCSI commands
  set,       \* the fields of virtio_dev that are not NULL (tid: "thread")
  held,      \* what is allocated or open
  twice,     \* what was closed or freed when it was not (history)
  status,    \* client->status
  conn,      \* the connection: "none", "up", or "gone" at the server's end
  know,      \* the set-up messages the server got on this connection
  vq,        \* the messages about each ring it got
  ret,       \* what the last call returned: "handle" or "NULL"
  lost,      \* kinds of objects that nobody can free any more (history)
  failed     \* has a call of open failed? (history)

callVars == <<pc, i, ret, failed>>
objVars == <<set, held, twice, lost>>
srvVars == <<conn, know, vq>>
sessionVars == <<callVars, objVars, status, srvVars>>

(* enum virtio_queue_type *)
Rings == <<"controlq", "eventq", "requestq">>
RingSet == {Rings[k] : k \in DOMAIN Rings}
REQUESTQ == Rings[Len(Rings)]

Objects == RingSet \cup
  {"dev", "client", "sock", "memfds", "outring", "outfd", "poller", "thread", "task"}

(* The requests in the order in which init_vhost_client and                *)
(* set_vhost_vring send them, and where each of them leads.                *)
InitThen == [SET_OWNER |-> "GET_FEATURES", GET_FEATURES |-> "reply",
             SET_FEATURES |-> "get_memory_fds"]
RingThen == [SET_VRING_NUM |-> "SET_VRING_BASE",
             SET_VRING_BASE |-> "SET_VRING_KICK",
             SET_VRING_KICK |-> "SET_VRING_CALL",
             SET_VRING_CALL |-> "SET_VRING_ADDR"]
InitMsgs == DOMAIN InitThen \cup {"SET_MEM_TABLE"}
RingMsgs == DOMAIN RingThen \cup {"SET_VRING_ADDR"}

SessionInit ==
  /\ pc = "idle" /\ i = 1 /\ ret = "NULL" /\ failed = FALSE
  /\ set = {} /\ held = {} /\ twice = {} /\ lost = {}
  /\ status = "CREATED"
  /\ conn = "none" /\ know = {}
  /\ vq = [q \in RingSet |-> {}]

-----------------------------------------------------------------------------
Goto(from, to) == pc = from /\ pc' = to

(* goto error: from here open and close do the same. *)
ERROR == "destroy_poller"

(* A pointer is stored in the device. *)
Acquire(X) ==
  /\ set' = set \cup X
  /\ held' = held \cup X
  /\ UNCHANGED <<twice, lost>>

(* Close or free. *)
Release(X) ==
  /\ held' = held \ X
  /\ twice' = twice \cup (X \ held)
  /\ UNCHANGED <<set, lost>>

(* The last pointer to x goes away; x itself does not. *)
Lose(X) ==
  /\ held' = held \ X
  /\ lost' = lost \cup X
  /\ UNCHANGED <<set, twice>>

(* One of the constructors that open calls in turn. *)
Create(here, x, next) ==
  /\ UNCHANGED <<i, ret, failed, status, srvVars>>
  /\ \/ Goto(here, next) /\ Acquire({x})
     \/ Goto(here, ERROR) /\ UNCHANGED objVars

-----------------------------------------------------------------------------
(***************************************************************************)
(* open_virtio_dev up to the connection.                                   *)
(***************************************************************************)

OpenCall ==
  /\ ret = "NULL"
  /\ \/ Goto("idle", "new_vhost_client") /\ Acquire({"dev"}) /\ UNCHANGED failed
     \/ Goto("idle", "idle") /\ failed' = TRUE /\ UNCHANGED objVars
  /\ UNCHANGED <<i, ret, status, srvVars>>

new_vhost_client ==
  /\ \/ Goto("new_vhost_client", "vring_create") /\ Acquire({"client"})
     \/ Goto("new_vhost_client", ERROR) /\ UNCHANGED objVars
  /\ status' = "CREATED"
  /\ i' = 1
  /\ UNCHANGED <<ret, failed, srvVars>>

(* A ring that cannot be created leaves nothing behind. *)
vring_create ==
  /\ \/ /\ Goto("vring_create", IF i = Len(Rings) THEN "socket" ELSE "vring_create")
        /\ Acquire({Rings[i]})
        /\ i' = i + 1
     \/ Goto("vring_create", ERROR) /\ UNCHANGED <<i, objVars>>
  /\ UNCHANGED <<ret, failed, status, srvVars>>

socket == Create("socket", "sock", "connect")

(* The server handles one connection after the other. *)
connect ==
  /\ \/ /\ Goto("connect", "SET_OWNER")
        /\ conn' = "up" /\ know' = {} /\ vq' = [q \in RingSet |-> {}]
        /\ UNCHANGED objVars
     \/ /\ Goto("connect", ERROR)
        /\ Release({"sock"})
        /\ UNCHANGED srvVars
  /\ UNCHANGED <<i, ret, failed, status>>

-----------------------------------------------------------------------------
(***************************************************************************)
(* vhost_ioctl: the message is sent, or it is not and the caller cleans    *)
(* up, or SIGPIPE kills the process.                                       *)
(***************************************************************************)

(* init_vhost_client *)
InitMsgSent ==
  /\ pc \in DOMAIN InitThen
  /\ conn = "up"
  /\ know' = know \cup {pc}
  /\ pc' = InitThen[pc]
  /\ UNCHANGED <<i, ret, failed, objVars, status, conn, vq>>

(* The answer to GET_FEATURES arrives, maybe from a server that has gone   *)
(* since.  The client acknowledges no feature at all: it masks the offer   *)
(* with client->features, which is still 0.                                *)
RecvReply ==
  /\ Goto("reply", "SET_FEATURES")
  /\ UNCHANGED <<i, ret, failed, objVars, status, srvVars>>

(* recvmsg or read fails, or a signal interrupts it: the socket is closed. *)
RecvFails ==
  /\ Goto("reply", ERROR)
  /\ Release({"sock"})
  /\ conn' = IF conn = "up" THEN "none" ELSE conn
  /\ UNCHANGED <<i, ret, failed, status, know, vq>>

(* The server has closed the connection: 0 bytes are not taken for an      *)
(* error, and assert(msg.request == request) fails.                        *)
RecvEof ==
  /\ Goto("reply", "aborted")
  /\ conn = "gone"
  /\ UNCHANGED <<i, ret, failed, objVars, status, srvVars>>

(* Open the files of the memory regions; if that fails none stays open. *)
get_memory_fds ==
  /\ \/ Goto("get_memory_fds", "SET_MEM_TABLE") /\ Acquire({"memfds"}) /\ UNCHANGED conn
     \/ /\ Goto("get_memory_fds", ERROR)
        /\ Release({"sock"})
        /\ conn' = IF conn = "up" THEN "none" ELSE conn
  /\ UNCHANGED <<i, ret, failed, status, know, vq>>

MemTableSent ==
  /\ Goto("SET_MEM_TABLE", "SET_VRING_NUM")
  /\ conn = "up"
  /\ know' = know \cup {pc}
  /\ Release({"memfds"})
  /\ status' = "INITIALIZED"
  /\ i' = 1
  /\ UNCHANGED <<ret, failed, conn, vq>>

(* The send fails: the socket is closed, the files of the memory regions   *)
(* are not.                                                                *)
InitMsgFails ==
  /\ pc \in InitMsgs
  /\ pc' = ERROR
  /\ held' = held \ {"sock", "memfds"}
  /\ twice' = twice \cup ({"sock"} \ held)
  /\ lost' = lost \cup ({"memfds"} \cap held)
  /\ conn' = IF conn = "up" THEN "none" ELSE conn
  /\ UNCHANGED <<i, ret, failed, set, status, know, vq>>

(* set_vhost_vring for every ring *)
AllRings_ButOne == i = Len(Rings) - 1    \* mutant: the last ring is left out
AllRings == i = Len(Rings)
RingMsgSent ==
  /\ pc \in RingMsgs
  /\ conn = "up"
  /\ vq' = [vq EXCEPT ![Rings[i]] = @ \cup {pc}]
  /\ IF pc \in DOMAIN RingThen
       THEN pc' = RingThen[pc] /\ UNCHANGED i
       ELSE pc' = (IF AllRings THEN "outring" ELSE "SET_VRING_NUM") /\ i' = i + 1
  /\ UNCHANGED <<ret, failed, objVars, status, conn, know>>

RingMsgFails ==
  /\ pc \in RingMsgs
  /\ pc' = ERROR
  /\ UNCHANGED <<i, ret, failed, objVars, status, srvVars>>

SendKills ==
  /\ pc \in InitMsgs \cup RingMsgs \cup {"RESET_OWNER"}
  /\ conn = "gone"
  /\ pc' = "killed"
  /\ UNCHANGED <<i, ret, failed, objVars, status, srvVars>>

-----------------------------------------------------------------------------
(***************************************************************************)
(* The rest of open_virtio_dev.                                            *)
(***************************************************************************)

rte_ring_create == Create("outring", "outring", "eventfd")

eventfd == Create("eventfd", "outfd", "vring_poller_create")

vring_poller_create == Create("vring_poller_create", "poller", "vring_poller_start")

(* vring_poller_start; then the first SCSI command.  A pthread_create that *)
(* fails may leave anything in poller->tid, which nobody resets.           *)
vring_poller_start ==
  /\ \/ Goto("vring_poller_start", "send") /\ Acquire({"thread"})
     \/ /\ Goto("vring_poller_start", ERROR)
        /\ set' \in {set, set \cup {"thread"}}
        /\ UNCHANGED <<held, twice, lost>>
  /\ i' = 1
  /\ UNCHANGED <<ret, failed, status, srvVars>>

(* send_inquiry (i = 1), send_test_unit_ready (2) and send_read_cap (3):   *)
(* nobody looks whether the buffers of the task could be allocated.        *)
SendCommand ==
  /\ UNCHANGED <<i, ret, failed, status, srvVars>>
  /\ \/ Goto("send", "answer") /\ Acquire({"task"})
     \/ Goto("send", ERROR) /\ UNCHANGED objVars
     \/ Goto("send", "crashed") /\ Acquire({"task"})

(* The server works on the rings once it knows all about them. *)
Ready ==
  /\ conn = "up"
  /\ "SET_MEM_TABLE" \in know
  /\ \A q \in RingSet : vq[q] = RingMsgs

(* Device and poller thread have done their part. *)
Answered == pc = "answer" /\ Ready /\ "thread" \in held

(* All is well.  The task is not destroyed. *)
CommandGood ==
  /\ Answered
  /\ Lose({"task"})
  /\ IF i = 3 THEN pc' = "idle" /\ ret' = "handle" /\ UNCHANGED i
              ELSE pc' = "send" /\ i' = i + 1 /\ UNCHANGED ret
  /\ UNCHANGED <<failed, status, srvVars>>

(* The device answers with an error, or inquiry finds no disk; in the      *)
(* latter case the task is not destroyed.                                  *)
CommandBad ==
  /\ Answered
  /\ pc' = ERROR
  /\ Release({"task"}) \/ (i = 1 /\ Lose({"task"}))
  /\ UNCHANGED <<i, ret, failed, status, srvVars>>

-----------------------------------------------------------------------------
(***************************************************************************)
(* close_virtio_dev, and the error path of open_virtio_dev.                *)
(***************************************************************************)

CloseCall ==
  /\ Goto("idle", ERROR)
  /\ ret = "handle"
  /\ UNCHANGED <<i, ret, failed, objVars, status, srvVars>>

(* vring_poller_destroy stops the thread if tid is not 0, and waits for it *)
(* to set tid to 0: when there is no such thread, for ever.                *)
AfterPoller_Rings == "destroy_vrings"    \* mutant: the connection stays
AfterPoller == "end_vhost_client"
DestroyPoller ==
  /\ Goto("destroy_poller", AfterPoller)
  /\ "thread" \in set => "thread" \in held
  /\ Release({"poller", "thread"} \cap set)
  /\ UNCHANGED <<i, ret, failed, status, srvVars>>

(* end_vhost_client does nothing to a client that is not initialised.      *)
Initialised_Any == TRUE    \* mutant: the status is not tested
Initialised == status = "INITIALIZED"
end_vhost_client ==
  /\ pc = "end_vhost_client"
  /\ pc' = IF "client" \in set /\ Initialised THEN "RESET_OWNER" ELSE "destroy_vrings"
  /\ UNCHANGED <<i, ret, failed, objVars, status, srvVars>>

(* The result of the send is ignored.  No answer is awaited: a server that *)
(* is slow to see the end of the connection may look at the rings a little *)
(* longer, which the model does not show.                                  *)
ResetOwner ==
  /\ Goto("RESET_OWNER", "destroy_vrings")
  /\ Release({"sock", "client"})
  /\ conn' = IF conn = "up" THEN "none" ELSE conn
  /\ UNCHANGED <<i, ret, failed, status, know, vq>>

DestroyRings ==
  /\ Goto("destroy_vrings", "free")
  /\ Release(RingSet \cap set)
  /\ UNCHANGED <<i, ret, failed, status, srvVars>>

(* The rest, with dev itself last: what is still held is lost. *)
Rest_NoFd == {"outring", "dev"}    \* mutant: outfd is not closed
Rest == {"outring", "outfd", "dev"}
FreeDev ==
  /\ Goto("free", "idle")
  /\ twice' = twice \cup ((Rest \cap set) \ held)
  /\ lost' = lost \cup (held \ Rest)
  /\ held' = {} /\ set' = {}
  /\ failed' = (failed \/ ret = "NULL")
  /\ ret' = "NULL"
  /\ UNCHANGED <<i, status, srvVars>>

-----------------------------------------------------------------------------
(* The server, external, stops or drops the connection. *)
ServerGone ==
  /\ conn = "up"
  /\ conn' = "gone"
  /\ UNCHANGED <<callVars, objVars, status, know, vq>>

Open ==
  \/ new_vhost_client \/ vring_create \/ socket \/ connect
  \/ InitMsgSent \/ RecvReply \/ RecvFails \/ RecvEof \/ get_memory_fds
  \/ MemTableSent \/ InitMsgFails \/ RingMsgSent \/ RingMsgFails \/ SendKills
  \/ rte_ring_create \/ eventfd \/ vring_poller_create \/ vring_poller_start
  \/ SendCommand \/ CommandGood \/ CommandBad

Close ==
  \/ DestroyPoller \/ end_vhost_client \/ ResetOwner \/ DestroyRings \/ FreeDev

SessionNext == OpenCall \/ CloseCall \/ Open \/ Close \/ ServerGone

(* An application that opens and closes a device as it likes. *)
SessionSpec == SessionInit /\ [][SessionNext]_sessionVars

-----------------------------------------------------------------------------
(***************************************************************************)
(* Properties.                                                             *)
(***************************************************************************)

Places ==
  {"idle", "new_vhost_client", "vring_create", "socket", "connect", "reply",
   "get_memory_fds", "outring", "eventfd", "vring_poller_create",
   "vring_poller_start", "send", "answer", ERROR, "end_vhost_client",
   "RESET_OWNER", "destroy_vrings", "free", "killed", "aborted", "crashed"}
  \cup InitMsgs \cup RingMsgs

(* Every variable has its type. *)
SessionTypeOK ==
  /\ pc \in Places
  /\ i \in 1 .. Len(Rings) + 1
  /\ pc \in RingMsgs \cup {"vring_create"} => i \in DOMAIN Rings
  /\ ret \in {"handle", "NULL"}
  /\ failed \in BOOLEAN
  /\ set \subseteq Objects /\ held \subseteq Objects
  /\ twice \subseteq Objects /\ lost \subseteq Objects
  /\ status \in {"CREATED", "INITIALIZED"}
  /\ conn \in {"none", "up", "gone"}
  /\ know \subseteq InitMsgs
  /\ vq \in [RingSet -> SUBSET RingMsgs]

(* Nothing in use is freed.  The server reads and writes a ring it was     *)
(* told about until the client closes its end, and the poller thread uses  *)
(* the poller and the request ring: on every path through open, its error  *)
(* exits and close, the connection and the thread end first.               *)
InUseIsHeld ==
  /\ conn = "up" => \A q \in RingSet : vq[q] # {} => q \in held
  /\ "thread" \in held => {"poller", REQUESTQ} \subseteq held

(* No path closes a descriptor or frees an object that it does not have:   *)
(* init_vhost_client closes the socket itself when it fails, and           *)
(* end_vhost_client must not do it again.                                  *)
NothingReleasedTwice == twice = {}

(* What open and close leave behind: the tasks of the three SCSI commands, *)
(* and nothing else unless an open has failed; then maybe a client that    *)
(* was not initialised and the files of a memory table that was not sent.  *)
(* After a call the handle has all of its parts, or there is nothing left. *)
OnlyKnownLeaks ==
  /\ lost \subseteq {"client", "memfds", "task"}
  /\ pc = "idle" =>
       /\ failed \/ lost \subseteq {"task"}
       /\ held = IF ret = "handle" THEN Objects \ {"memfds", "task"} ELSE {}

(* The start of the poller thread has failed and left something in tid. *)
StaleThread == pc = ERROR /\ "thread" \in set \ held

(* open and close return.  A server that stays answers every message that  *)
(* needs an answer, and with the poller thread it can execute the commands *)
(* open waits for.  When it goes the call still returns, unless open waits *)
(* for the answer to a command, or a send or the assertion on the reply    *)
(* ends the process.  The other exceptions: a task without its buffers,    *)
(* and a poller thread that could not be started but seems to be there.    *)
OpenReturns ==
  pc # "idle" ~>
    \/ pc = "idle"
    \/ pc \in {"answer", "killed", "aborted"} /\ conn = "gone"
    \/ pc = "crashed"
    \/ StaleThread
=============================================================================
