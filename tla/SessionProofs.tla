--------------------------- MODULE SessionProofs ---------------------------
(***************************************************************************)
(* The life of a device handle proved for every sequence of opens and      *)
(* closes, whatever fails and whenever the server goes away; that the fio  *)
(* engine, for any number of jobs, is such an application; that its jobs   *)
(* have a device when they run; and that what a job counts as queued is    *)
(* true while jobs run one at a time.                                      *)
(***************************************************************************)
EXTENDS FioPlugin, TLAPS

(* The rings, spelled out. *)
LEMMA RingFacts ==
  /\ Len(Rings) = 3 /\ DOMAIN Rings = 1 .. 3
  /\ Rings[1] = "controlq" /\ Rings[2] = "eventq" /\ Rings[3] = "requestq"
  /\ RingSet = {"controlq", "eventq", "requestq"}
  /\ REQUESTQ = "requestq"
<1>1. /\ Len(Rings) = 3 /\ DOMAIN Rings = 1 .. 3
      /\ Rings[1] = "controlq" /\ Rings[2] = "eventq" /\ Rings[3] = "requestq"
  BY DEF Rings
<1>2. RingSet = {"controlq", "eventq", "requestq"}
  BY <1>1 DEF RingSet
<1> QED BY <1>1, <1>2 DEF REQUESTQ

(* The messages, spelled out. *)
LEMMA MsgFacts ==
  /\ DOMAIN InitThen = {"SET_OWNER", "GET_FEATURES", "SET_FEATURES"}
  /\ InitThen["SET_OWNER"] = "GET_FEATURES"
  /\ InitThen["GET_FEATURES"] = "reply"
  /\ InitThen["SET_FEATURES"] = "get_memory_fds"
  /\ DOMAIN RingThen = {"SET_VRING_NUM", "SET_VRING_BASE", "SET_VRING_KICK",
                        "SET_VRING_CALL"}
  /\ RingThen["SET_VRING_NUM"] = "SET_VRING_BASE"
  /\ RingThen["SET_VRING_BASE"] = "SET_VRING_KICK"
  /\ RingThen["SET_VRING_KICK"] = "SET_VRING_CALL"
  /\ RingThen["SET_VRING_CALL"] = "SET_VRING_ADDR"
  /\ InitMsgs = {"SET_OWNER", "GET_FEATURES", "SET_FEATURES", "SET_MEM_TABLE"}
  /\ RingMsgs = {"SET_VRING_NUM", "SET_VRING_BASE", "SET_VRING_KICK",
                 "SET_VRING_CALL", "SET_VRING_ADDR"}
<1>1. /\ DOMAIN InitThen = {"SET_OWNER", "GET_FEATURES", "SET_FEATURES"}
      /\ InitThen["SET_OWNER"] = "GET_FEATURES"
      /\ InitThen["GET_FEATURES"] = "reply"
      /\ InitThen["SET_FEATURES"] = "get_memory_fds"
  BY DEF InitThen
<1>2. /\ DOMAIN RingThen = {"SET_VRING_NUM", "SET_VRING_BASE", "SET_VRING_KICK",
                            "SET_VRING_CALL"}
      /\ RingThen["SET_VRING_NUM"] = "SET_VRING_BASE"
      /\ RingThen["SET_VRING_BASE"] = "SET_VRING_KICK"
      /\ RingThen["SET_VRING_KICK"] = "SET_VRING_CALL"
      /\ RingThen["SET_VRING_CALL"] = "SET_VRING_ADDR"
  BY DEF RingThen
<1> QED BY <1>1, <1>2 DEF InitMsgs, RingMsgs

-----------------------------------------------------------------------------
(***************************************************************************)
(* The inductive invariant.                                                *)
(***************************************************************************)

Before == {"new_vhost_client", "vring_create", "socket", "connect"}
Negotiating == InitMsgs \cup {"reply", "get_memory_fds"}
Finishing ==
  {"outring", "eventfd", "vring_poller_create", "vring_poller_start", "send", "answer"}
Opening == Before \cup Negotiating \cup RingMsgs \cup Finishing
Closing == {ERROR, "end_vhost_client", "RESET_OWNER", "destroy_vrings", "free"}

Base == {"dev", "client"} \cup RingSet
Full == Base \cup {"sock", "outring", "outfd", "poller", "thread"}

(* What a successful open has got at each of its places. *)
OpenOK ==
  /\ pc = "idle" => held = (IF ret = "handle" THEN Full ELSE {})
  /\ pc \in Opening => ret = "NULL"
  /\ pc = "new_vhost_client" => held = {"dev"}
  /\ pc = "vring_create" => held = {"dev", "client"} \cup {Rings[k] : k \in 1 .. i - 1}
  /\ pc = "socket" => held = Base
  /\ pc \in {"connect", "outring"} \cup (Negotiating \ {"SET_MEM_TABLE"}) \cup RingMsgs
       => held = Base \cup {"sock"}
  /\ pc = "SET_MEM_TABLE" => held = Base \cup {"sock", "memfds"}
  /\ pc = "eventfd" => held = Base \cup {"sock", "outring"}
  /\ pc = "vring_poller_create" => held = Base \cup {"sock", "outring", "outfd"}
  /\ pc = "vring_poller_start" => held = Base \cup {"sock", "outring", "outfd", "poller"}
  /\ pc \in {"send", "answer"} => i \in 1 .. 3
  /\ pc = "send" => held = Full
  /\ pc = "answer" => held = Full \cup {"task"}

(* A field that is not NULL points to something, apart from the socket of  *)
(* a client that could not be initialised, a thread that could not be      *)
(* started, and what is released already.                                  *)
SetOK ==
  /\ held \subseteq set
  /\ pc \in Opening \cup {"idle"} => set \ held \subseteq {"memfds", "task"}
  /\ pc = ERROR => set \ held \subseteq {"memfds", "task", "sock", "thread"}
  /\ pc \in {"end_vhost_client", "RESET_OWNER"} =>
       set \ held \subseteq {"memfds", "task", "sock", "poller", "thread"}
  /\ pc = "destroy_vrings" =>
       set \ held \subseteq {"memfds", "task", "sock", "poller", "thread", "client"}
  /\ pc = "free" => Rest \cap set \subseteq held

(* The client is initialised from the memory table on, and the error path  *)
(* finds a socket to close just when it is.                                *)
ClientOK ==
  /\ pc \in Negotiating \cup {"vring_create", "socket", "connect"} => status = "CREATED"
  /\ pc \in RingMsgs \cup Finishing => status = "INITIALIZED"
  /\ ret = "handle" => status = "INITIALIZED"
  /\ pc \in {ERROR, "end_vhost_client"} =>
       /\ held \subseteq Full
       /\ "sock" \in held <=> "client" \in set /\ status = "INITIALIZED"
       /\ ret = "handle" => {"sock", "client"} \subseteq held
  /\ pc = "end_vhost_client" => held \cap {"poller", "thread"} = {}
  /\ pc = "RESET_OWNER" =>
       held \subseteq Full \ {"poller", "thread"} /\ {"sock", "client"} \subseteq held
  /\ pc = "destroy_vrings" => held \subseteq Rest \cup RingSet \cup {"client"}
  /\ pc = "free" => held \subseteq Rest \cup {"client"}
  /\ pc \in {"destroy_vrings", "free"} /\ ret = "handle" => "client" \notin held

(* Users of the rings: the server and the poller thread. *)
UseOK ==
  /\ conn = "up" => RingSet \subseteq held
  /\ conn = "up" /\ pc \in {ERROR, "end_vhost_client"} => "sock" \in held
  /\ pc \in Before \cup {"destroy_vrings", "free"} => conn # "up"
  /\ pc = "idle" /\ ret = "NULL" => conn # "up"
  /\ "thread" \in held => {"poller", "requestq"} \subseteq held

(* Leaks: all but the tasks belong to an open that fails. *)
LeakOK ==
  /\ lost \subseteq {"client", "memfds", "task"}
  /\ pc \in Opening \cup {"idle"} => failed \/ lost \subseteq {"task"}
  /\ pc \in Closing /\ ret = "handle" => failed \/ lost \subseteq {"task"}

Parts == OpenOK /\ SetOK /\ ClientOK /\ UseOK /\ LeakOK /\ NothingReleasedTwice

Inv == SessionTypeOK /\ Parts

(* Before the first open there is nothing. *)
LEMMA InvInit == SessionInit => Inv
<1> SUFFICES ASSUME SessionInit PROVE Inv
  OBVIOUS
<1> USE RingFacts, MsgFacts DEF SessionInit, ERROR
<1>1. vq \in [RingSet -> SUBSET RingMsgs]
  OBVIOUS
<1>2. pc \in Places /\ i \in 1 .. 4 /\ pc \notin RingMsgs \cup {"vring_create"}
  BY DEF Places
<1>3. /\ ret \in {"handle", "NULL"} /\ failed \in BOOLEAN
      /\ status \in {"CREATED", "INITIALIZED"} /\ conn \in {"none", "up", "gone"}
  OBVIOUS
<1>4. /\ set = {} /\ held = {} /\ twice = {} /\ lost = {} /\ know = {}
  OBVIOUS
<1>5. SessionTypeOK
  <2> HIDE DEF SessionInit
  <2> QED BY <1>1, <1>2, <1>3, <1>4 DEF SessionTypeOK
<1>6. OpenOK /\ SetOK /\ ClientOK /\ UseOK /\ LeakOK
  BY DEF OpenOK, SetOK, ClientOK, UseOK, LeakOK, Opening, Before, Negotiating,
         Finishing, Closing
<1> QED BY <1>5, <1>6 DEF Inv, Parts, NothingReleasedTwice

(* One step per action; first the types ... *)
LEMMA TypeStep ==
  ASSUME Inv, [SessionNext]_sessionVars
  PROVE  SessionTypeOK'
<1> USE RingFacts, MsgFacts
    DEF Inv, Parts, SessionTypeOK, OpenOK, Objects, ERROR,
        Goto, Acquire, Release, Lose, callVars, objVars, srvVars
<1>1. CASE OpenCall
  BY <1>1, ZenonT(40) DEF OpenCall, Places
<1>2. CASE CloseCall
  BY <1>2 DEF CloseCall, Places
<1>3. CASE new_vhost_client
  <2> USE <1>3 DEF new_vhost_client
  <2>1. pc' \in Places /\ i' \in 1 .. 4 /\ ret' \in {"handle", "NULL"}
    BY DEF Places
  <2>2. pc' \in RingMsgs \cup {"vring_create"} => i' \in 1 .. 3
    OBVIOUS
  <2>3. /\ failed' \in BOOLEAN /\ status' \in {"CREATED", "INITIALIZED"}
        /\ set' \subseteq Objects /\ held' \subseteq Objects
        /\ twice' \subseteq Objects /\ lost' \subseteq Objects
    OBVIOUS
  <2>4. conn' = conn /\ know' = know /\ vq' = vq
    OBVIOUS
  <2> HIDE <1>3 DEF new_vhost_client
  <2> QED BY <2>1, <2>2, <2>3, <2>4
<1>4. CASE vring_create
  <2> USE <1>4 DEF vring_create
  <2>1. pc' \in Places /\ i' \in 1 .. 4 /\ ret' \in {"handle", "NULL"}
    BY DEF Places
  <2>2. pc' \in RingMsgs \cup {"vring_create"} => i' \in 1 .. 3
    OBVIOUS
  <2>3. /\ i \in DOMAIN Rings /\ Rings[i] \in RingSet
        /\ RingSet \subseteq Objects
    BY DEF RingSet
  <2>4. /\ failed' \in BOOLEAN /\ status' \in {"CREATED", "INITIALIZED"}
        /\ set' \subseteq Objects /\ held' \subseteq Objects
        /\ twice' \subseteq Objects /\ lost' \subseteq Objects
    <3> HIDE RingFacts DEF Objects
    <3> QED BY <2>3
  <2>5. conn' = conn /\ know' = know /\ vq' = vq
    OBVIOUS
  <2> HIDE <1>4 DEF vring_create
  <2> QED BY <2>1, <2>2, <2>4, <2>5
<1>5. CASE socket
  BY <1>5 DEF socket, Create, Places
<1>6. CASE connect
  BY <1>6, ZenonT(40) DEF connect, Places
<1>7. CASE InitMsgSent
  BY <1>7, ZenonT(40) DEF InitMsgSent, Places
<1>8. CASE RecvReply
  BY <1>8 DEF RecvReply, Places
<1>9. CASE RecvFails
  BY <1>9 DEF RecvFails, Places
<1>10. CASE RecvEof
  BY <1>10 DEF RecvEof, Places
<1>11. CASE get_memory_fds
  BY <1>11, ZenonT(40) DEF get_memory_fds, Places
<1>12. CASE MemTableSent
  BY <1>12 DEF MemTableSent, Places
<1>13. CASE InitMsgFails
  BY <1>13 DEF InitMsgFails, Places
<1>14. CASE RingMsgSent
  BY <1>14 DEF RingMsgSent, AllRings, Places
<1>15. CASE RingMsgFails
  BY <1>15 DEF RingMsgFails, Places
<1>16. CASE SendKills
  BY <1>16 DEF SendKills, Places
<1>17. CASE rte_ring_create
  BY <1>17 DEF rte_ring_create, Create, Places
<1>18. CASE eventfd
  BY <1>18 DEF eventfd, Create, Places
<1>19. CASE vring_poller_create
  BY <1>19 DEF vring_poller_create, Create, Places
<1>20. CASE vring_poller_start
  <2> USE <1>20 DEF vring_poller_start
  <2>1. pc' \in Places /\ i' \in 1 .. 4 /\ ret' \in {"handle", "NULL"}
    BY DEF Places
  <2>2. pc' \in RingMsgs \cup {"vring_create"} => i' \in 1 .. 3
    OBVIOUS
  <2>3. /\ failed' \in BOOLEAN /\ status' \in {"CREATED", "INITIALIZED"}
        /\ set' \subseteq Objects /\ held' \subseteq Objects
        /\ twice' \subseteq Objects /\ lost' \subseteq Objects
    OBVIOUS
  <2>4. conn' = conn /\ know' = know /\ vq' = vq
    OBVIOUS
  <2> HIDE <1>20 DEF vring_poller_start
  <2> QED BY <2>1, <2>2, <2>3, <2>4
<1>21. CASE SendCommand
  BY <1>21 DEF SendCommand, Places
<1>22. CASE CommandGood
  <2> USE <1>22 DEF CommandGood, Answered
  <2>1. pc' \in Places /\ i' \in 1 .. 4 /\ ret' \in {"handle", "NULL"}
    BY DEF Places
  <2>2. pc' \in RingMsgs \cup {"vring_create"} => i' \in 1 .. 3
    OBVIOUS
  <2>3. /\ failed' \in BOOLEAN /\ status' \in {"CREATED", "INITIALIZED"}
        /\ set' \subseteq Objects /\ held' \subseteq Objects
        /\ twice' \subseteq Objects /\ lost' \subseteq Objects
    OBVIOUS
  <2>4. conn' = conn /\ know' = know /\ vq' = vq
    OBVIOUS
  <2> HIDE <1>22 DEF CommandGood
  <2> QED BY <2>1, <2>2, <2>3, <2>4
<1>23. CASE CommandBad
  BY <1>23 DEF CommandBad, Answered, Places
<1>24. CASE DestroyPoller
  BY <1>24 DEF DestroyPoller, AfterPoller, Places
<1>25. CASE end_vhost_client
  BY <1>25 DEF end_vhost_client, Initialised, Places
<1>26. CASE ResetOwner
  BY <1>26 DEF ResetOwner, Places
<1>27. CASE DestroyRings
  BY <1>27 DEF DestroyRings, Places
<1>28. CASE FreeDev
  BY <1>28 DEF FreeDev, Rest, Places
<1>29. CASE ServerGone
  BY <1>29 DEF ServerGone, Places
<1>30. CASE UNCHANGED sessionVars
  BY <1>30 DEF sessionVars, Places
<1> QED
  BY <1>1, <1>2, <1>3, <1>4, <1>5, <1>6, <1>7, <1>8, <1>9, <1>10, <1>11,
     <1>12, <1>13, <1>14, <1>15, <1>16, <1>17, <1>18, <1>19, <1>20, <1>21,
     <1>22, <1>23, <1>24, <1>25, <1>26, <1>27, <1>28, <1>29, <1>30 DEF
     SessionNext, Open, Close

(* ... then the other parts. *)
LEMMA PartsStep ==
  ASSUME Inv, [SessionNext]_sessionVars
  PROVE  Parts'
<1> USE RingFacts, MsgFacts
    DEF Inv, Parts, Base, Full,
        Opening, Before, Negotiating, Finishing, Closing, ERROR,
        Goto, Acquire, Release, Lose, callVars, objVars, srvVars
<1>1. CASE OpenCall
  <2> USE <1>1 DEF OpenCall
  <2>1. OpenOK'
    BY DEF SessionTypeOK, OpenOK
  <2>2. SetOK'
    BY DEF OpenOK, SetOK, ClientOK, Rest
  <2>3. ClientOK'
    BY DEF SessionTypeOK, OpenOK, SetOK, ClientOK, Rest
  <2>4. UseOK'
    BY DEF SessionTypeOK, OpenOK, SetOK, ClientOK, UseOK, Rest
  <2>5. LeakOK'
    BY DEF SessionTypeOK, OpenOK, ClientOK, LeakOK, Rest
  <2>6. NothingReleasedTwice'
    BY DEF OpenOK, SetOK, ClientOK, NothingReleasedTwice, Rest
  <2> QED BY <2>1, <2>2, <2>3, <2>4, <2>5, <2>6
<1>2. CASE CloseCall
  BY <1>2 DEF CloseCall,
    SessionTypeOK, OpenOK, SetOK, ClientOK, UseOK, LeakOK, NothingReleasedTwice, Rest
<1>3. CASE new_vhost_client
  <2> USE <1>3 DEF new_vhost_client
  <2>1. OpenOK'
    BY DEF SessionTypeOK, OpenOK
  <2>2. SetOK'
    BY DEF OpenOK, SetOK, ClientOK, Rest
  <2>3. ClientOK'
    BY DEF SessionTypeOK, OpenOK, SetOK, ClientOK, Rest
  <2>4. UseOK'
    BY DEF SessionTypeOK, OpenOK, SetOK, ClientOK, UseOK, Rest
  <2>5. LeakOK'
    BY DEF SessionTypeOK, OpenOK, ClientOK, LeakOK, Rest
  <2>6. NothingReleasedTwice'
    BY DEF OpenOK, SetOK, ClientOK, NothingReleasedTwice, Rest
  <2> QED BY <2>1, <2>2, <2>3, <2>4, <2>5, <2>6
<1>4. CASE vring_create
  <2> USE <1>4 DEF vring_create
  <2>1. OpenOK'
    BY DEF SessionTypeOK, OpenOK
  <2>2. SetOK'
    BY DEF OpenOK, SetOK, ClientOK, Rest
  <2>3. ClientOK'
    BY DEF SessionTypeOK, OpenOK, SetOK, ClientOK, Rest
  <2>4. UseOK'
    BY DEF SessionTypeOK, OpenOK, SetOK, ClientOK, UseOK, Rest
  <2>5. LeakOK'
    BY DEF SessionTypeOK, OpenOK, ClientOK, LeakOK, Rest
  <2>6. NothingReleasedTwice'
    BY DEF OpenOK, SetOK, ClientOK, NothingReleasedTwice, Rest
  <2> QED BY <2>1, <2>2, <2>3, <2>4, <2>5, <2>6
<1>5. CASE socket
  BY <1>5, ZenonT(40) DEF socket, Create,
    SessionTypeOK, OpenOK, SetOK, ClientOK, UseOK, LeakOK, NothingReleasedTwice, Rest
<1>6. CASE connect
  <2> USE <1>6 DEF connect
  <2>1. OpenOK'
    BY DEF SessionTypeOK, OpenOK
  <2>2. SetOK'
    BY DEF OpenOK, SetOK, ClientOK, Rest
  <2>3. ClientOK'
    BY DEF SessionTypeOK, OpenOK, SetOK, ClientOK, Rest
  <2>4. UseOK'
    BY DEF SessionTypeOK, OpenOK, SetOK, ClientOK, UseOK, Rest
  <2>5. LeakOK'
    BY DEF SessionTypeOK, OpenOK, ClientOK, LeakOK, Rest
  <2>6. NothingReleasedTwice'
    BY DEF OpenOK, SetOK, ClientOK, NothingReleasedTwice, Rest
  <2> QED BY <2>1, <2>2, <2>3, <2>4, <2>5, <2>6
<1>7. CASE InitMsgSent
  BY <1>7 DEF InitMsgSent,
    SessionTypeOK, OpenOK, SetOK, ClientOK, UseOK, LeakOK, NothingReleasedTwice, Rest
<1>8. CASE RecvReply
  BY <1>8 DEF RecvReply,
    SessionTypeOK, OpenOK, SetOK, ClientOK, UseOK, LeakOK, NothingReleasedTwice, Rest
<1>9. CASE RecvFails
  BY <1>9 DEF RecvFails,
    SessionTypeOK, OpenOK, SetOK, ClientOK, UseOK, LeakOK, NothingReleasedTwice, Rest
<1>10. CASE RecvEof
  BY <1>10 DEF RecvEof,
    SessionTypeOK, OpenOK, SetOK, ClientOK, UseOK, LeakOK, NothingReleasedTwice, Rest
<1>11. CASE get_memory_fds
  <2> USE <1>11 DEF get_memory_fds
  <2>1. OpenOK'
    BY DEF SessionTypeOK, OpenOK
  <2>2. SetOK'
    BY DEF OpenOK, SetOK, ClientOK, Rest
  <2>3. ClientOK'
    BY DEF SessionTypeOK, OpenOK, SetOK, ClientOK, Rest
  <2>4. UseOK'
    BY DEF SessionTypeOK, OpenOK, SetOK, ClientOK, UseOK, Rest
  <2>5. LeakOK'
    BY DEF SessionTypeOK, OpenOK, ClientOK, LeakOK, Rest
  <2>6. NothingReleasedTwice'
    BY DEF OpenOK, SetOK, ClientOK, NothingReleasedTwice, Rest
  <2> QED BY <2>1, <2>2, <2>3, <2>4, <2>5, <2>6
<1>12. CASE MemTableSent
  BY <1>12 DEF MemTableSent,
    SessionTypeOK, OpenOK, SetOK, ClientOK, UseOK, LeakOK, NothingReleasedTwice, Rest
<1>13. CASE InitMsgFails
  BY <1>13 DEF InitMsgFails,
    SessionTypeOK, OpenOK, SetOK, ClientOK, UseOK, LeakOK, NothingReleasedTwice, Rest
<1>14. CASE RingMsgSent
  BY <1>14 DEF RingMsgSent, AllRings,
    SessionTypeOK, OpenOK, SetOK, ClientOK, UseOK, LeakOK, NothingReleasedTwice, Rest
<1>15. CASE RingMsgFails
  BY <1>15 DEF RingMsgFails,
    SessionTypeOK, OpenOK, SetOK, ClientOK, UseOK, LeakOK, NothingReleasedTwice, Rest
<1>16. CASE SendKills
  BY <1>16 DEF SendKills,
    SessionTypeOK, OpenOK, SetOK, ClientOK, UseOK, LeakOK, NothingReleasedTwice, Rest
<1>17. CASE rte_ring_create
  <2> USE <1>17 DEF rte_ring_create, Create
  <2>1. OpenOK'
    BY DEF SessionTypeOK, OpenOK
  <2>2. SetOK'
    BY DEF OpenOK, SetOK, ClientOK, Rest
  <2>3. ClientOK'
    BY DEF SessionTypeOK, OpenOK, SetOK, ClientOK, Rest
  <2>4. UseOK'
    BY DEF SessionTypeOK, OpenOK, SetOK, ClientOK, UseOK, Rest
  <2>5. LeakOK'
    BY DEF SessionTypeOK, OpenOK, ClientOK, LeakOK, Rest
  <2>6. NothingReleasedTwice'
    BY DEF OpenOK, SetOK, ClientOK, NothingReleasedTwice, Rest
  <2> QED BY <2>1, <2>2, <2>3, <2>4, <2>5, <2>6
<1>18. CASE eventfd
  <2> USE <1>18 DEF eventfd, Create
  <2>1. OpenOK'
    BY DEF SessionTypeOK, OpenOK
  <2>2. SetOK'
    BY DEF OpenOK, SetOK, ClientOK, Rest
  <2>3. ClientOK'
    BY DEF SessionTypeOK, OpenOK, SetOK, ClientOK, Rest
  <2>4. UseOK'
    BY DEF SessionTypeOK, OpenOK, SetOK, ClientOK, UseOK, Rest
  <2>5. LeakOK'
    BY DEF SessionTypeOK, OpenOK, ClientOK, LeakOK, Rest
  <2>6. NothingReleasedTwice'
    BY DEF OpenOK, SetOK, ClientOK, NothingReleasedTwice, Rest
  <2> QED BY <2>1, <2>2, <2>3, <2>4, <2>5, <2>6
<1>19. CASE vring_poller_create
  <2> USE <1>19 DEF vring_poller_create, Create
  <2>1. OpenOK'
    BY DEF SessionTypeOK, OpenOK
  <2>2. SetOK'
    BY DEF OpenOK, SetOK, ClientOK, Rest
  <2>3. ClientOK'
    BY DEF SessionTypeOK, OpenOK, SetOK, ClientOK, Rest
  <2>4. UseOK'
    BY DEF SessionTypeOK, OpenOK, SetOK, ClientOK, UseOK, Rest
  <2>5. LeakOK'
    BY DEF SessionTypeOK, OpenOK, ClientOK, LeakOK, Rest
  <2>6. NothingReleasedTwice'
    BY DEF OpenOK, SetOK, ClientOK, NothingReleasedTwice, Rest
  <2> QED BY <2>1, <2>2, <2>3, <2>4, <2>5, <2>6
<1>20. CASE vring_poller_start
  <2> USE <1>20 DEF vring_poller_start
  <2>1. OpenOK'
    BY DEF SessionTypeOK, OpenOK
  <2>2. SetOK'
    BY DEF OpenOK, SetOK, ClientOK, Rest
  <2>3. ClientOK'
    BY DEF SessionTypeOK, OpenOK, SetOK, ClientOK, Rest
  <2>4. UseOK'
    BY DEF SessionTypeOK, OpenOK, SetOK, ClientOK, UseOK, Rest
  <2>5. LeakOK'
    BY DEF SessionTypeOK, OpenOK, ClientOK, LeakOK, Rest
  <2>6. NothingReleasedTwice'
    BY DEF OpenOK, SetOK, ClientOK, NothingReleasedTwice, Rest
  <2> QED BY <2>1, <2>2, <2>3, <2>4, <2>5, <2>6
<1>21. CASE SendCommand
  <2> USE <1>21 DEF SendCommand
  <2>1. OpenOK'
    BY DEF SessionTypeOK, OpenOK
  <2>2. SetOK'
    BY DEF OpenOK, SetOK, ClientOK, Rest
  <2>3. ClientOK'
    BY DEF SessionTypeOK, OpenOK, SetOK, ClientOK, Rest
  <2>4. UseOK'
    BY DEF SessionTypeOK, OpenOK, SetOK, ClientOK, UseOK, Rest
  <2>5. LeakOK'
    BY DEF SessionTypeOK, OpenOK, ClientOK, LeakOK, Rest
  <2>6. NothingReleasedTwice'
    BY DEF OpenOK, SetOK, ClientOK, NothingReleasedTwice, Rest
  <2> QED BY <2>1, <2>2, <2>3, <2>4, <2>5, <2>6
<1>22. CASE CommandGood
  BY <1>22 DEF CommandGood, Answered,
    SessionTypeOK, OpenOK, SetOK, ClientOK, UseOK, LeakOK, NothingReleasedTwice, Rest
<1>23. CASE CommandBad
  <2> USE <1>23 DEF CommandBad, Answered
  <2>1. OpenOK'
    BY DEF SessionTypeOK, OpenOK
  <2>2. SetOK'
    BY DEF OpenOK, SetOK, ClientOK, Rest
  <2>3. ClientOK'
    BY DEF SessionTypeOK, OpenOK, SetOK, ClientOK, Rest
  <2>4. UseOK'
    BY DEF SessionTypeOK, OpenOK, SetOK, ClientOK, UseOK, Rest
  <2>5. LeakOK'
    BY DEF SessionTypeOK, OpenOK, ClientOK, LeakOK, Rest
  <2>6. NothingReleasedTwice'
    BY DEF OpenOK, SetOK, ClientOK, NothingReleasedTwice, Rest
  <2> QED BY <2>1, <2>2, <2>3, <2>4, <2>5, <2>6
<1>24. CASE DestroyPoller
  BY <1>24 DEF DestroyPoller, AfterPoller,
    SessionTypeOK, OpenOK, SetOK, ClientOK, UseOK, LeakOK, NothingReleasedTwice, Rest
<1>25. CASE end_vhost_client
  BY <1>25 DEF end_vhost_client, Initialised,
    SessionTypeOK, OpenOK, SetOK, ClientOK, UseOK, LeakOK, NothingReleasedTwice, Rest
<1>26. CASE ResetOwner
  BY <1>26 DEF ResetOwner,
    SessionTypeOK, OpenOK, SetOK, ClientOK, UseOK, LeakOK, NothingReleasedTwice, Rest
<1>27. CASE DestroyRings
  BY <1>27 DEF DestroyRings,
    SessionTypeOK, OpenOK, SetOK, ClientOK, UseOK, LeakOK, NothingReleasedTwice, Rest
<1>28. CASE FreeDev
  <2> USE <1>28 DEF FreeDev, Rest
  <2>1. OpenOK'
    BY DEF SessionTypeOK, OpenOK
  <2>2. SetOK'
    BY DEF OpenOK, SetOK, ClientOK, Rest
  <2>3. ClientOK'
    BY DEF SessionTypeOK, OpenOK, SetOK, ClientOK, Rest
  <2>4. UseOK'
    BY DEF SessionTypeOK, OpenOK, SetOK, ClientOK, UseOK, Rest
  <2>5. LeakOK'
    BY ZenonT(40) DEF SessionTypeOK, OpenOK, ClientOK, LeakOK, Rest
  <2>6. NothingReleasedTwice'
    BY DEF OpenOK, SetOK, ClientOK, NothingReleasedTwice, Rest
  <2> QED BY <2>1, <2>2, <2>3, <2>4, <2>5, <2>6
<1>29. CASE ServerGone
  BY <1>29 DEF ServerGone,
    SessionTypeOK, OpenOK, SetOK, ClientOK, UseOK, LeakOK, NothingReleasedTwice, Rest
<1>30. CASE UNCHANGED sessionVars
  BY <1>30 DEF sessionVars,
    SessionTypeOK, OpenOK, SetOK, ClientOK, UseOK, LeakOK, NothingReleasedTwice, Rest
<1> QED
  BY <1>1, <1>2, <1>3, <1>4, <1>5, <1>6, <1>7, <1>8, <1>9, <1>10, <1>11,
     <1>12, <1>13, <1>14, <1>15, <1>16, <1>17, <1>18, <1>19, <1>20, <1>21,
     <1>22, <1>23, <1>24, <1>25, <1>26, <1>27, <1>28, <1>29, <1>30 DEF
     SessionNext, Open, Close

-----------------------------------------------------------------------------
(***************************************************************************)
(* Theorems about a session.                                               *)
(***************************************************************************)

(* The invariant holds for every application of the library. *)
THEOREM SessionInvariant == SessionSpec => []Inv
<1>1. Inv /\ [SessionNext]_sessionVars => Inv'
  BY TypeStep, PartsStep DEF Inv
<1> QED BY InvInit, <1>1, PTL DEF SessionSpec

(* The variables of open and close have their types. *)
THEOREM SessionTypeCorrect == SessionSpec => []SessionTypeOK
<1>1. Inv => SessionTypeOK
  BY DEF Inv
<1> QED BY SessionInvariant, <1>1, PTL

(* Server and poller thread never work on a ring that is freed. *)
THEOREM InUseSafe == SessionSpec => []InUseIsHeld
<1>1. Inv => InUseIsHeld
  BY RingFacts DEF Inv, Parts, UseOK, InUseIsHeld
<1> QED BY SessionInvariant, <1>1, PTL

(* No descriptor is closed and no object freed twice. *)
THEOREM ReleaseSafe == SessionSpec => []NothingReleasedTwice
<1>1. Inv => NothingReleasedTwice
  BY DEF Inv, Parts
<1> QED BY SessionInvariant, <1>1, PTL

(* Open and close leave nothing behind but what OnlyKnownLeaks names. *)
THEOREM LeakSafe == SessionSpec => []OnlyKnownLeaks
<1>1. Full = Objects \ {"memfds", "task"}
  BY RingFacts DEF Full, Base, Objects
<1>2. Inv => OnlyKnownLeaks
  BY <1>1 DEF Inv, Parts, OpenOK, LeakOK, OnlyKnownLeaks
<1> QED BY SessionInvariant, <1>2, PTL

-----------------------------------------------------------------------------
(***************************************************************************)
(* The fio engine.                                                         *)
(***************************************************************************)

(* Every step of the engine is a step of the session or leaves it alone. *)
LEMMA FioStep == [Next]_vars => [SessionNext]_sessionVars
<1> SUFFICES ASSUME [Next]_vars PROVE [SessionNext]_sessionVars
  OBVIOUS
<1>1. CASE OpenStep \/ CloseStep \/ ServerStep
  BY <1>1 DEF OpenStep, CloseStep, ServerStep, SessionNext
<1>2. ASSUME NEW j \in Jobs, Setup(j) PROVE [SessionNext]_sessionVars
  BY <1>2 DEF Setup, SetupRefused, SetupStart, SetupOther, SetupOpen, SetupOpened,
              SetupShared, SetupDone, SessionNext
<1>3. ASSUME NEW j \in Jobs, Run(j) PROVE UNCHANGED sessionVars
  BY <1>3 DEF Run, Begin, Queue, Retry, virtio_fio_queue, QueueSync, GetEvents, Events,
              Completed, virtio_fio_event, WrongEvent, EventsDone, Finish
<1>4. CASE Complete \/ Unregister \/ Unregistered
  BY <1>4 DEF Complete, Unregister, Unregistered, SessionNext
<1>5. CASE UNCHANGED vars
  BY <1>5 DEF vars
<1> QED BY <1>1, <1>2, <1>3, <1>4, <1>5 DEF Next

(* The engine, with any number of jobs, uses the library as a session      *)
(* allows: it implements SessionSpec.                                      *)
THEOREM FioIsSession == Spec => SessionSpec
<1>1. Init => SessionInit
  BY DEF Init
<1> QED BY <1>1, FioStep, PTL DEF Spec, SessionSpec

(* What holds for every session holds while fio runs. *)
THEOREM FioSafe ==
  Spec => [](InUseIsHeld /\ NothingReleasedTwice /\ OnlyKnownLeaks)
BY FioIsSession, InUseSafe, ReleaseSafe, LeakSafe, PTL

-----------------------------------------------------------------------------
(***************************************************************************)
(* A job that runs has a device.                                           *)
(***************************************************************************)

(* What the server has been told of a ring before the message m. *)
Told(m) ==
  CASE m = "SET_VRING_NUM"  -> {}
    [] m = "SET_VRING_BASE" -> {"SET_VRING_NUM"}
    [] m = "SET_VRING_KICK" -> {"SET_VRING_NUM", "SET_VRING_BASE"}
    [] m = "SET_VRING_CALL" -> RingMsgs \ {"SET_VRING_CALL", "SET_VRING_ADDR"}
    [] OTHER                -> RingMsgs \ {"SET_VRING_ADDR"}

(* ... and of all rings, by the progress of open. *)
ToldOK ==
  /\ pc \in RingMsgs \cup Finishing => "SET_MEM_TABLE" \in know
  /\ pc \in RingMsgs =>
       /\ \A k \in 1 .. i - 1 : vq[Rings[k]] = RingMsgs
       /\ Told(pc) \subseteq vq[Rings[i]]
  /\ pc \in Finishing => \A q \in RingSet : vq[q] = RingMsgs
  /\ pc = "idle" /\ ret = "handle" =>
       "SET_MEM_TABLE" \in know /\ \A q \in RingSet : vq[q] = RingMsgs

JobPlaces ==
  Active \cup {"new", "setup", "opening", "ready", "done", "failed", "broken", "aborted"}

FioTypeOK ==
  /\ jpc \in [Jobs -> JobPlaces]
  /\ eng \in [Jobs -> Seq(Names)]
  /\ g_hdl \in Names \cup {NULL}

(* Jobs are set up one after the other, and run when all are set up. *)
OrderOK ==
  /\ \A g, h \in Jobs :
       g < h /\ jpc[h] # "new" => jpc[g] \notin {"new", "setup", "opening"}
  /\ \A g, h \in Jobs :
       jpc[g] \in Active \cup {"done", "broken", "aborted"} =>
         jpc[h] \notin {"new", "setup", "opening"}
  /\ \A j \in Jobs : jpc[j] = "new" => eng[j] = <<>>
  /\ \A j \in Jobs : jpc[j] = "opening" => MoreFiles(j)

(* The shared handle, until the engine is unregistered: it is what the     *)
(* session has opened, and every job that was set up has it.               *)
HandleOK ==
  ~Ended =>
    /\ g_hdl # NULL => ret = "handle" /\ pc = "idle"
    /\ \A j \in Jobs :
         \/ jpc[j] \in Active \cup {"ready", "broken"}
         \/ jpc[j] = "setup" /\ eng[j] # <<>>
         => g_hdl # NULL

DeviceInv == Inv /\ ToldOK /\ FioTypeOK /\ OrderOK /\ HandleOK

(* The session: every ring is announced with all of its messages. *)
LEMMA ToldStep ==
  ASSUME Inv, ToldOK, [SessionNext]_sessionVars
  PROVE  ToldOK'
<1> USE RingFacts, MsgFacts DEF Finishing, ERROR, Goto
<1>1. CASE RingMsgSent
  <2> USE <1>1 DEF RingMsgSent
  <2>1. i \in 1 .. 3 /\ vq \in [RingSet -> SUBSET RingMsgs]
    BY DEF Inv, SessionTypeOK
  <2>2. PICK q \in RingSet : q = Rings[i]
    BY <2>1
  <2>3. /\ vq'[q] = vq[q] \cup {pc}
        /\ \A r \in RingSet : r # q => vq'[r] = vq[r]
    BY <2>1, <2>2
  <2>4. Told(pc) \subseteq vq[q] /\ vq[q] \subseteq RingMsgs /\ know' = know
    BY <2>1, <2>2 DEF ToldOK
  <2>5. \A k \in 1 .. i - 1 : /\ Rings[k] \in RingSet /\ Rings[k] # q
                              /\ vq'[Rings[k]] = RingMsgs
    <3>1. \A k \in 1 .. i - 1 : Rings[k] \in RingSet /\ Rings[k] # q
      BY <2>1, <2>2
    <3>2. \A k \in 1 .. i - 1 : vq[Rings[k]] = RingMsgs
      BY DEF ToldOK
    <3> QED BY <2>3, <3>1, <3>2
  <2>6. "SET_MEM_TABLE" \in know'
    BY <2>4 DEF ToldOK
  <2>7. CASE pc \in DOMAIN RingThen
    <3>1. pc' = RingThen[pc] /\ i' = i
      BY <2>7
    <3>2. Told(pc') \subseteq Told(pc) \cup {pc} /\ pc' \in RingMsgs
      BY <2>7, <3>1 DEF Told
    <3>3. Told(pc') \subseteq vq'[q]
      BY <2>3, <2>4, <3>2
    <3>4. pc' \notin Finishing /\ pc' # "idle"
      BY <3>2
    <3> QED BY <2>2, <2>5, <2>6, <3>1, <3>3, <3>4 DEF ToldOK
  <2>8. CASE pc = "SET_VRING_ADDR"
    <3>1. vq'[q] = RingMsgs
      BY <2>3, <2>4, <2>8 DEF Told
    <3>2. /\ pc' = IF i = 3 THEN "outring" ELSE "SET_VRING_NUM"
          /\ i' = i + 1
      BY <2>8 DEF AllRings
    <3>3. \A k \in 1 .. i : vq'[Rings[k]] = RingMsgs
      BY <2>1, <2>2, <2>5, <3>1
    <3>4. CASE i = 3
      <4>1. \A r \in RingSet : vq'[r] = RingMsgs
        BY <3>3, <3>4
      <4> QED BY <2>6, <3>2, <3>4, <4>1 DEF ToldOK
    <3>5. CASE i # 3
      <4>1. Told(pc') = {}
        BY <3>2, <3>5 DEF Told
      <4>2. \A k \in 1 .. i' - 1 : vq'[Rings[k]] = RingMsgs
        BY <2>1, <3>2, <3>3
      <4> QED BY <2>6, <3>2, <3>5, <4>1, <4>2 DEF ToldOK
    <3> QED BY <3>4, <3>5
  <2> QED BY <2>7, <2>8
<1>2. CASE MemTableSent
  BY <1>2 DEF MemTableSent, ToldOK, Told
<1>3. ASSUME pc' \notin RingMsgs \cup Finishing,
             ~(pc' = "idle" /\ ret' = "handle")
      PROVE  ToldOK'
  BY <1>3 DEF ToldOK
<1>4. ASSUME pc \in Finishing, UNCHANGED <<know, vq>>, pc' \in Finishing \cup {"idle"}
      PROVE  ToldOK'
  BY <1>4 DEF ToldOK
<1>5. CASE OpenCall \/ CloseCall \/ new_vhost_client \/ vring_create \/ socket \/ connect
  BY <1>3, <1>5 DEF OpenCall, CloseCall, new_vhost_client, vring_create, socket,
                    connect, Create
<1>6. CASE InitMsgSent \/ RecvReply \/ RecvFails \/ RecvEof \/ get_memory_fds
  BY <1>3, <1>6 DEF InitMsgSent, RecvReply, RecvFails, RecvEof, get_memory_fds
<1>7. CASE InitMsgFails \/ RingMsgFails \/ SendKills
  BY <1>3, <1>7 DEF InitMsgFails, RingMsgFails, SendKills
<1>8. CASE rte_ring_create \/ eventfd \/ vring_poller_create \/ vring_poller_start
  BY <1>3, <1>4, <1>8 DEF rte_ring_create, eventfd, vring_poller_create,
                          vring_poller_start, Create, srvVars
<1>9. CASE SendCommand \/ CommandGood \/ CommandBad
  BY <1>3, <1>4, <1>9 DEF SendCommand, CommandGood, CommandBad, Answered, srvVars
<1>10. CASE DestroyPoller \/ end_vhost_client \/ ResetOwner \/ DestroyRings \/ FreeDev
  BY <1>3, <1>10 DEF DestroyPoller, AfterPoller, end_vhost_client, ResetOwner,
                     DestroyRings, FreeDev
<1>11. CASE ServerGone \/ UNCHANGED sessionVars
  BY <1>11 DEF ServerGone, sessionVars, callVars, srvVars, ToldOK
<1> QED BY <1>1, <1>2, <1>5, <1>6, <1>7, <1>8, <1>9, <1>10, <1>11
     DEF SessionNext, Open, Close

(* The calls of the session that are under way are not idle. *)
LEMMA CallNotIdle ==
  ASSUME Open \/ Close
  PROVE  pc # "idle"
BY MsgFacts DEF Open, Close, Create, Goto,
  new_vhost_client, vring_create, socket, connect,
  InitMsgSent, RecvReply, RecvFails, RecvEof, get_memory_fds, MemTableSent,
  InitMsgFails, RingMsgSent, RingMsgFails, SendKills, rte_ring_create, eventfd,
  vring_poller_create, vring_poller_start, SendCommand, CommandGood, CommandBad,
  Answered, DestroyPoller, end_vhost_client, ResetOwner, DestroyRings, FreeDev

(* A job moves on and nothing else of the set-up changes. *)
Moves(j, from, to) ==
  /\ jpc[j] \in from /\ jpc'[j] \in to
  /\ jpc' = [jpc EXCEPT ![j] = jpc'[j]]
  /\ UNCHANGED <<setupVars, pc, ret>>

(* A running job stays one, or it ends, alone or with all the others. *)
LEMMA RunMoves ==
  ASSUME FioTypeOK, NEW j \in Jobs, Run(j)
  PROVE  \/ QueueSync(j)
         \/ Begin(j) /\ Moves(j, {"ready"}, {"run", "failed"})
         \/ Moves(j, Active, Active \cup {"done", "broken"})
<1> USE DEF Moves, Goes, sessionVars, callVars, FioTypeOK
<1>1. CASE Begin(j)
  BY <1>1 DEF Begin
<1>2. CASE Queue(j) \/ Retry(j)
  BY <1>2 DEF Queue, Retry, virtio_fio_queue, Active
<1>3. CASE GetEvents(j) \/ Finish(j)
  BY <1>3 DEF GetEvents, Finish, Active
<1>4. CASE Events(j)
  BY <1>4 DEF Events, Completed, virtio_fio_event, WrongEvent, EventsDone, Active
<1> QED BY <1>1, <1>2, <1>3, <1>4 DEF Run

(* A job has at least one file, and each has a name. *)
LEMMA FileFacts ==
  ASSUME NEW j \in Jobs
  PROVE  /\ eng[j] = <<>> => MoreFiles(j)
         /\ eng \in [Jobs -> Seq(Names)] /\ MoreFiles(j) => File(j) \in Names
         /\ NULL \notin Names
<1>1. Files[j] \in Seq(Names) /\ Files[j] # <<>> /\ NULL \notin Names
  BY FioAssumption
<1>2. Len(Files[j]) \in Nat \ {0} /\ Files[j] \in [1 .. Len(Files[j]) -> Names]
  BY <1>1
<1>3. eng[j] = <<>> => Len(eng[j]) = 0
  OBVIOUS
<1>4. ASSUME eng \in [Jobs -> Seq(Names)], MoreFiles(j) PROVE File(j) \in Names
  <2>1. Len(eng[j]) \in Nat
    BY <1>4
  <2> QED BY <1>2, <1>4, <2>1 DEF File, MoreFiles
<1> QED BY <1>1, <1>2, <1>3, <1>4 DEF MoreFiles

(* Before the first setup. *)
LEMMA FioInvInit == Init => DeviceInv
<1> SUFFICES ASSUME Init PROVE DeviceInv
  OBVIOUS
<1>1. Inv
  BY InvInit DEF Init
<1>2. ToldOK
  BY MsgFacts DEF Init, SessionInit, ToldOK, Finishing
<1>3. FioTypeOK /\ OrderOK
  BY DEF Init, FioTypeOK, OrderOK, JobPlaces, Active
<1>4. HandleOK
  BY DEF Init, HandleOK, Active
<1> QED BY <1>1, <1>2, <1>3, <1>4 DEF DeviceInv

(* Set-up, runs and the end of the jobs. *)
LEMMA FioInvNext ==
  ASSUME DeviceInv, [Next]_vars
  PROVE  FioTypeOK' /\ OrderOK' /\ HandleOK'
<1> USE DEF DeviceInv
<1>1. ASSUME UNCHANGED <<jpc, eng, g_hdl>>, Ended \/ UNCHANGED <<pc, ret>> \/ g_hdl = NULL
      PROVE  FioTypeOK' /\ OrderOK' /\ HandleOK'
  BY <1>1 DEF FioTypeOK, OrderOK, HandleOK, Ended, MoreFiles
<1>2. CASE OpenStep \/ CloseStep
  <2>1. pc # "idle" /\ UNCHANGED <<jpc, eng, g_hdl>>
    BY <1>2, CallNotIdle DEF OpenStep, CloseStep, fioVars, jobVars, setupVars
  <2>2. Ended \/ g_hdl = NULL
    BY <2>1 DEF HandleOK
  <2> QED BY <1>1, <2>1, <2>2
<1>3. CASE ServerStep \/ Complete \/ UNCHANGED vars
  BY <1>1, <1>3 DEF ServerStep, ServerGone, Complete, vars, sessionVars, callVars,
                    fioVars, jobVars, setupVars
<1>4. CASE Unregister
  BY <1>1, <1>4 DEF Unregister, fioVars, jobVars, setupVars
<1>5. CASE Unregistered
  BY <1>5 DEF Unregistered, jobVars, FioTypeOK, OrderOK, HandleOK, Ended
<1>6. ASSUME NEW j \in Jobs, Run(j)
      PROVE  FioTypeOK' /\ OrderOK' /\ HandleOK'
  <2>1. CASE Begin(j) /\ Moves(j, {"ready"}, {"run", "failed"})
    <3> USE <2>1 DEF Begin, Moves, setupVars
    <3>1. FioTypeOK'
      BY DEF FioTypeOK, JobPlaces, Active
    <3>2. OrderOK'
      BY DEF FioTypeOK, OrderOK, JobPlaces, Active
    <3>3. HandleOK'
      BY DEF FioTypeOK, HandleOK, Ended, Active
    <3> QED BY <3>1, <3>2, <3>3
  <2>2. CASE Moves(j, Active, Active \cup {"done", "broken"})
    <3> USE <2>2 DEF Moves, setupVars
    <3>1. FioTypeOK'
      BY DEF FioTypeOK, JobPlaces
    <3>2. OrderOK'
      BY DEF FioTypeOK, OrderOK, Active, MoreFiles
    <3>3. HandleOK'
      BY DEF FioTypeOK, HandleOK, Ended, Active
    <3> QED BY <3>1, <3>2, <3>3
  <2>3. CASE QueueSync(j)
    <3>1. /\ jpc' = [h \in Jobs |-> "aborted"]
          /\ jpc[j] = "run" /\ UNCHANGED <<eng, g_hdl, pc, ret>>
      BY <2>3 DEF QueueSync, setupVars, sessionVars, callVars
    <3>2. FioTypeOK' /\ OrderOK'
      BY <3>1 DEF FioTypeOK, OrderOK, JobPlaces, Active
    <3>3. HandleOK'
      <4>1. ~Ended
        BY <3>1 DEF Ended
      <4> QED BY <3>1, <4>1 DEF HandleOK, Active
    <3> QED BY <3>2, <3>3
  <2> QED BY <1>6, <2>1, <2>2, <2>3, RunMoves
<1>7. ASSUME NEW j \in Jobs, Setup(j)
      PROVE  FioTypeOK' /\ OrderOK' /\ HandleOK'
  <2> USE DEF Goes
  <2>0. Jobs \subseteq Int /\ \A x, h \in Jobs : h < x => h \in 1 .. x - 1
    BY DEF Jobs
  <2>1. CASE SetupRefused(j)
    <3> USE <2>1 DEF SetupRefused, setupVars, sessionVars, callVars
    <3>1. FioTypeOK'
      BY DEF FioTypeOK, JobPlaces
    <3>2. OrderOK'
      BY <2>0 DEF FioTypeOK, OrderOK, Active
    <3>3. HandleOK'
      BY DEF FioTypeOK, HandleOK, Ended, Active
    <3> QED BY <3>1, <3>2, <3>3
  <2>2. CASE SetupStart(j)
    <3> USE <2>2 DEF SetupStart, sessionVars, callVars
    <3>1. FioTypeOK'
      BY DEF FioTypeOK, JobPlaces
    <3>2. OrderOK'
      BY <2>0 DEF FioTypeOK, OrderOK, Active
    <3>3. eng[j] = <<>>
      BY DEF OrderOK
    <3>4. HandleOK'
      BY <3>3 DEF FioTypeOK, HandleOK, Ended, Active
    <3> QED BY <3>1, <3>2, <3>4
  <2>3. CASE SetupOther(j)
    <3> USE <2>3 DEF SetupOther, setupVars, sessionVars, callVars
    <3>1. FioTypeOK'
      BY DEF FioTypeOK, JobPlaces
    <3>2. OrderOK'
      BY DEF FioTypeOK, OrderOK, Active, MoreFiles
    <3>3. HandleOK'
      BY DEF FioTypeOK, HandleOK, Ended, Active
    <3> QED BY <3>1, <3>2, <3>3
  <2>4. CASE SetupOpen(j)
    <3> USE <2>4 DEF SetupOpen, setupVars
    <3>1. FioTypeOK'
      BY DEF FioTypeOK, JobPlaces
    <3>2. OrderOK'
      BY DEF FioTypeOK, OrderOK, Active, MoreFiles
    <3>3. HandleOK'
      BY DEF FioTypeOK, HandleOK, Ended, Active
    <3> QED BY <3>1, <3>2, <3>3
  <2>5. CASE SetupOpened(j)
    <3> USE <2>5 DEF SetupOpened, sessionVars, callVars
    <3>1. CASE Opened
      <4>1. File(j) \in Names /\ File(j) # NULL
        BY FileFacts DEF FioTypeOK, OrderOK
      <4>2. /\ jpc[j] = "opening" /\ jpc' = [jpc EXCEPT ![j] = "setup"]
            /\ g_hdl' = File(j) /\ eng' = [eng EXCEPT ![j] = Append(eng[j], File(j))]
            /\ pc' = "idle" /\ ret' = "handle"
        BY <3>1 DEF Opened
      <4> HIDE <2>5 DEF SetupOpened
      <4>3. FioTypeOK'
        BY <4>1, <4>2 DEF FioTypeOK, JobPlaces
      <4>4. OrderOK'
        BY <4>2 DEF FioTypeOK, OrderOK, Active, MoreFiles
      <4>5. HandleOK'
        BY <4>1, <4>2 DEF FioTypeOK, HandleOK, Ended, Active
      <4> QED BY <4>3, <4>4, <4>5
    <3>2. CASE ~Opened
      <4> USE <3>2
      <4>1. FioTypeOK'
        BY DEF FioTypeOK, JobPlaces
      <4>2. OrderOK'
        BY DEF FioTypeOK, OrderOK, Active, MoreFiles
      <4>3. HandleOK'
        BY DEF FioTypeOK, HandleOK, Ended, Active
      <4> QED BY <4>1, <4>2, <4>3
    <3> QED BY <3>1, <3>2
  <2>6. CASE SetupShared(j)
    <3> USE <2>6 DEF SetupShared, jobVars, sessionVars, callVars
    <3>1. FioTypeOK'
      BY DEF FioTypeOK
    <3>2. OrderOK'
      BY DEF FioTypeOK, OrderOK, MoreFiles
    <3>3. HandleOK'
      BY DEF FioTypeOK, HandleOK, Ended, Active
    <3> QED BY <3>1, <3>2, <3>3
  <2>7. CASE SetupDone(j)
    <3> USE <2>7 DEF SetupDone, setupVars, sessionVars, callVars
    <3>1. FioTypeOK'
      BY DEF FioTypeOK, JobPlaces
    <3>2. OrderOK'
      BY DEF FioTypeOK, OrderOK, Active, MoreFiles
    <3>3. eng[j] # <<>>
      BY FileFacts DEF MoreFiles
    <3>4. HandleOK'
      BY <3>3 DEF FioTypeOK, HandleOK, Ended, Active
    <3> QED BY <3>1, <3>2, <3>4
  <2> QED BY <1>7, <2>1, <2>2, <2>3, <2>4, <2>5, <2>6, <2>7 DEF Setup
<1> QED BY <1>2, <1>3, <1>4, <1>5, <1>6, <1>7 DEF Next

(* The invariant holds, with that of the session. *)
LEMMA DeviceInvariant == Spec => []DeviceInv
<1>1. DeviceInv /\ [Next]_vars => DeviceInv'
  <2> SUFFICES ASSUME DeviceInv, [Next]_vars PROVE DeviceInv'
    OBVIOUS
  <2>1. [SessionNext]_sessionVars
    BY FioStep
  <2>2. Inv'
    BY <2>1, TypeStep, PartsStep DEF DeviceInv, Inv
  <2>3. ToldOK'
    BY <2>1, ToldStep DEF DeviceInv
  <2> QED BY <2>2, <2>3, FioInvNext DEF DeviceInv
<1> QED BY <1>1, FioInvInit, PTL DEF Spec

(* A job that runs has an open device with a live poller thread, which the *)
(* server serves as long as the connection stands: no failed open, of this *)
(* job or of one before it, leaves a stale handle in g_hdl.                *)
THEOREM DeviceSafe == Spec => []JobHasDevice
<1>1. DeviceInv => JobHasDevice
  <2> SUFFICES ASSUME DeviceInv, NEW j \in Jobs, jpc[j] \in Active
               PROVE  /\ g_hdl # NULL /\ ret = "handle" /\ pc = "idle"
                      /\ {"thread", "outring", "outfd"} \subseteq held
                      /\ conn = "up" => Ready
    BY DEF JobHasDevice
  <2>1. ~Ended
    BY DEF Ended, Active
  <2>2. g_hdl # NULL /\ ret = "handle" /\ pc = "idle"
    BY <2>1 DEF DeviceInv, HandleOK
  <2>3. {"thread", "outring", "outfd"} \subseteq held
    BY <2>2 DEF DeviceInv, Inv, Parts, OpenOK, Full
  <2>4. conn = "up" => Ready
    BY <2>2 DEF DeviceInv, ToldOK, Ready
  <2> QED BY <2>2, <2>3, <2>4
<1> QED BY <1>1, DeviceInvariant, PTL

-----------------------------------------------------------------------------
(***************************************************************************)
(* What a job counts as queued.                                            *)
(***************************************************************************)

(* The types; and an assertion ends all jobs or none. *)
UnitTypeOK ==
  /\ jpc \in [Jobs -> JobPlaces]
  /\ \A g, h \in Jobs : jpc[g] = "aborted" => jpc[h] = "aborted"
  /\ out \in [Jobs -> SUBSET Units]
  /\ busy \in [Jobs -> (Units \X Kinds) \cup {NULL}]
  /\ n \in [Jobs -> Nat]
  /\ flight \subseteq Units /\ void \subseteq Units
  /\ ring \in Seq(Units)
  /\ overlap \in BOOLEAN

(* Where the units of a job are. *)
Away(j) ==
  {u \in UnitsOf(j) : u \in flight \cup void \/ \E k \in 1 .. Len(ring) : ring[k] = u}

(* One job at a time: it alone has units away until the process ends, each *)
(* in one place, and the output ring holds the events it was promised.     *)
AloneOK ==
  /\ \A g, h \in Jobs : jpc[g] \in Active /\ jpc[h] \in Active => g = h
  /\ \A j \in Jobs : jpc[j] # "broken"
  /\ \A j \in Jobs : out[j] = Away(j)
  /\ \A j \in Jobs : out[j] # {} => jpc[j] \in Active \cup {"aborted"}
  /\ \A j \in Jobs : busy[j] # NULL =>
       busy[j][1] \in UnitsOf(j) /\ busy[j][1] \notin out[j] /\ busy[j][2] \in Kinds
  /\ flight \cap void = {}
  /\ \A k \in 1 .. Len(ring) : ring[k] \notin flight \cup void
  /\ \A k, m \in 1 .. Len(ring) : ring[k] = ring[m] => k = m
  /\ \A j \in Jobs : jpc[j] = "events" => n[j] <= Len(ring)

UnitInv == UnitTypeOK /\ (~overlap => AloneOK)

(* A unit belongs to the job it names. *)
LEMMA UnitFacts ==
  /\ \A j \in Jobs : UnitsOf(j) \subseteq Units
  /\ \A u \in Units : u[1] \in Jobs /\ u \in UnitsOf(u[1])
  /\ \A j \in Jobs : \A u \in UnitsOf(j) : u[1] = j
BY DEF Units, UnitsOf

(* Only the place of one job, and what it was promised, change. *)
LEMMA UnitFrame ==
  ASSUME UnitInv, NEW j \in Jobs, NEW x \in JobPlaces \ {"aborted"},
         jpc[j] # "aborted", jpc' = [jpc EXCEPT ![j] = x], n' \in [Jobs -> Nat], overlap' \in BOOLEAN,
         UNCHANGED <<out, busy, flight, void, ring>>,
         ~overlap' =>
           /\ ~overlap
           /\ x # "broken"
           /\ x \in Active => \A h \in Jobs : h # j => jpc[h] \notin Active
           /\ x \notin Active => out[j] = {}
           /\ x = "events" => n'[j] <= Len(ring)
           /\ \A h \in Jobs : h # j => n'[h] = n[h]
  PROVE  UnitInv'
<1>1. UnitTypeOK'
  BY DEF UnitInv, UnitTypeOK
<1>2. ASSUME ~overlap' PROVE AloneOK'
  <2>1. AloneOK /\ ~overlap
    BY <1>2 DEF UnitInv
  <2>2. /\ jpc'[j] = x
        /\ \A h \in Jobs : h # j => jpc'[h] = jpc[h]
    BY DEF UnitInv, UnitTypeOK
  <2>3. \A h \in Jobs : Away(h)' = Away(h)
    BY DEF Away
  <2>4. /\ \A g, h \in Jobs : jpc'[g] \in Active /\ jpc'[h] \in Active => g = h
        /\ \A h \in Jobs : jpc'[h] # "broken"
        /\ \A h \in Jobs : out'[h] # {} => jpc'[h] \in Active \cup {"aborted"}
    BY <1>2, <2>1, <2>2 DEF AloneOK
  <2>5. \A h \in Jobs : jpc'[h] = "events" => n'[h] <= Len(ring')
    BY <1>2, <2>1, <2>2 DEF AloneOK
  <2> QED BY <2>1, <2>3, <2>4, <2>5 DEF AloneOK
<1> QED BY <1>1, <1>2 DEF UnitInv

(* fio queues a unit, or tries again. *)
LEMMA QueueUnit ==
  ASSUME UnitInv, NEW j \in Jobs, NEW u \in UnitsOf(j), NEW kind \in Kinds,
         NEW rc \in {0, -1}, virtio_fio_queue(j, u, kind, rc),
         ~overlap => u \notin out[j]
  PROVE  UnitInv'
<1>1. /\ jpc[j] = "run" /\ UNCHANGED <<jpc, n, ring, overlap>>
      /\ flight' = IF rc = 0 /\ kind = "rw" THEN flight \cup {u} ELSE flight
      /\ void' = IF rc = 0 /\ kind = "void" THEN void \cup {u} ELSE void
      /\ out' = IF rc = 0 THEN [out EXCEPT ![j] = @ \cup {u}] ELSE out
      /\ busy' = [busy EXCEPT ![j] = IF rc = 0 THEN NULL ELSE <<u, kind>>]
      /\ rc = 0 => kind \in {"rw", "void"}
  <2>1. IsQueued(rc) <=> rc = 0
    BY DEF IsQueued
  <2>2. rc = 0 => kind \in {"rw", "void"}
    <3>1. CASE kind = "beyond"
      BY <3>1 DEF virtio_fio_queue, Outcomes
    <3> QED BY <3>1 DEF Kinds
  <2> QED BY <2>1, <2>2 DEF virtio_fio_queue
<1>2. u \in Units
  BY UnitFacts
<1>3. UnitTypeOK'
  BY <1>1, <1>2 DEF UnitInv, UnitTypeOK
<1>4. ASSUME ~overlap PROVE AloneOK'
  <2>0. AloneOK /\ UnitTypeOK
    BY <1>4 DEF UnitInv
  <2>1. /\ u \notin out[j] /\ u \notin flight /\ u \notin void
        /\ \A k \in 1 .. Len(ring) : ring[k] # u
    BY <1>4, <2>0 DEF AloneOK, Away
  <2>2. \A h \in Jobs : out'[h] = Away(h)'
    <3>1. ASSUME NEW h \in Jobs, h # j PROVE out'[h] = Away(h)'
      <4>1. u \notin UnitsOf(h)
        BY <3>1, UnitFacts
      <4>2. Away(h)' = Away(h)
        BY <1>1, <4>1 DEF Away
      <4> QED BY <1>1, <2>0, <3>1, <4>2 DEF AloneOK, UnitTypeOK
    <3>2. CASE rc = 0
      <4>1. Away(j)' = Away(j) \cup {u}
        BY <1>1, <3>2 DEF Away, Kinds
      <4>2. out'[j] = out[j] \cup {u}
        BY <1>1, <2>0, <3>2 DEF UnitTypeOK
      <4> QED BY <2>0, <3>1, <4>1, <4>2 DEF AloneOK
    <3>3. CASE rc # 0
      <4>1. Away(j)' = Away(j) /\ out' = out
        BY <1>1, <3>3 DEF Away
      <4> QED BY <2>0, <3>1, <4>1 DEF AloneOK
    <3> QED BY <3>2, <3>3
  <2>3. \A h \in Jobs : out'[h] # {} => jpc'[h] \in Active \cup {"aborted"}
    BY <1>1, <2>0 DEF AloneOK, UnitTypeOK, Active
  <2>4. ASSUME NEW h \in Jobs, busy'[h] # NULL
        PROVE  /\ busy'[h][1] \in UnitsOf(h) /\ busy'[h][1] \notin out'[h]
               /\ busy'[h][2] \in Kinds
    <3>1. CASE h = j
      BY <1>1, <2>0, <2>1, <2>4, <3>1 DEF UnitTypeOK
    <3>2. CASE h # j
      BY <1>1, <2>0, <2>4, <3>2 DEF UnitTypeOK, AloneOK
    <3> QED BY <3>1, <3>2
  <2>5. /\ flight' \cap void' = {}
        /\ \A k \in 1 .. Len(ring') : ring'[k] \notin flight' \cup void'
    BY <1>1, <2>0, <2>1 DEF AloneOK
  <2> QED BY <1>1, <2>0, <2>2, <2>3, <2>4, <2>5 DEF AloneOK
<1> QED BY <1>1, <1>3, <1>4 DEF UnitInv

(* A job takes an event: it is its own, and the unit is free again. *)
LEMMA EventUnit ==
  ASSUME UnitInv, NEW j \in Jobs, virtio_fio_event(j)
  PROVE  UnitInv'
<1>0. UnitTypeOK
  BY DEF UnitInv
<1>1. /\ jpc[j] = "events" /\ n[j] > 0 /\ ring # <<>> /\ Head(ring)[1] = j
      /\ ring' = Tail(ring)
      /\ out' = [out EXCEPT ![j] = @ \ {Head(ring)}]
      /\ n' = [n EXCEPT ![j] = @ - 1]
      /\ UNCHANGED <<busy, flight, void, overlap>> /\ jpc' = [jpc EXCEPT ![j] = "events"]
  BY DEF virtio_fio_event, OwnEvent, Goes
<1>2. jpc' = jpc
  BY <1>0, <1>1 DEF UnitTypeOK
<1>3. PICK m \in Nat : Len(ring) = m + 1
  <2>1. Len(ring) \in Nat /\ Len(ring) # 0
    BY <1>0, <1>1 DEF UnitTypeOK
  <2> QED BY <2>1
<1>4. PICK u \in UnitsOf(j) : u = ring[1] /\ u = Head(ring)
  <2>1. ring[1] \in Units /\ Head(ring) = ring[1]
    BY <1>0, <1>3 DEF UnitTypeOK
  <2> QED BY <1>1, <2>1, UnitFacts
<1>5. /\ Len(ring') = m /\ ring' \in Seq(Units)
      /\ \A k \in 1 .. m : ring'[k] = ring[k + 1]
  BY <1>0, <1>1, <1>3 DEF UnitTypeOK
<1>6. UnitTypeOK'
  BY <1>0, <1>1, <1>5 DEF UnitTypeOK
<1>7. ASSUME ~overlap PROVE AloneOK'
  <2>0. AloneOK
    BY <1>7 DEF UnitInv
  <2>1. \A k \in 1 .. m + 1 : ring[k] = u => k = 1
    BY <1>3, <1>4, <2>0 DEF AloneOK
  <2>2. ASSUME NEW h \in Jobs PROVE Away(h)' = Away(h) \ {u}
    <3>1. ASSUME NEW v
          PROVE  (\E k \in 1 .. m : ring'[k] = v)
                   <=> (v # u /\ \E k \in 1 .. m + 1 : ring[k] = v)
      <4>1. ASSUME NEW k \in 1 .. m, ring'[k] = v
            PROVE  v # u /\ \E l \in 1 .. m + 1 : ring[l] = v
        <5>1. k + 1 \in 1 .. m + 1 /\ k + 1 # 1 /\ ring[k + 1] = v
          BY <1>5, <4>1
        <5> QED BY <2>1, <5>1
      <4>2. ASSUME v # u, NEW k \in 1 .. m + 1, ring[k] = v
            PROVE  \E l \in 1 .. m : ring'[l] = v
        <5>1. k # 1
          BY <1>4, <4>2
        <5>2. k - 1 \in 1 .. m /\ (k - 1) + 1 = k
          BY <5>1
        <5>3. ring'[k - 1] = v
          BY <1>5, <4>2, <5>2
        <5> QED BY <5>2, <5>3
      <4> QED BY <4>1, <4>2
    <3>2. u \notin flight \cup void
      BY <1>3, <1>4, <2>0 DEF AloneOK
    <3> QED BY <1>1, <1>3, <1>5, <3>1, <3>2 DEF Away
  <2>3. \A h \in Jobs : h # j => u \notin Away(h)
    BY <1>4, UnitFacts DEF Away
  <2>4. \A h \in Jobs : out'[h] = Away(h)'
    <3>1. out'[j] = out[j] \ {u} /\ \A h \in Jobs : h # j => out'[h] = out[h]
      BY <1>0, <1>1, <1>4 DEF UnitTypeOK
    <3>2. \A h \in Jobs : out[h] = Away(h)
      BY <2>0 DEF AloneOK
    <3>3. \A h \in Jobs : h # j => Away(h)' = Away(h)
      BY <2>2, <2>3
    <3> QED BY <2>2, <3>1, <3>2, <3>3
  <2>5. \A h \in Jobs : out'[h] \subseteq out[h]
    BY <1>0, <1>1 DEF UnitTypeOK
  <2>6. /\ \A h \in Jobs : out'[h] # {} => jpc'[h] \in Active \cup {"aborted"}
        /\ \A h \in Jobs : busy'[h] # NULL =>
             /\ busy'[h][1] \in UnitsOf(h) /\ busy'[h][1] \notin out'[h]
             /\ busy'[h][2] \in Kinds
    BY <1>1, <1>2, <2>0, <2>5 DEF AloneOK
  <2>7. /\ \A k \in 1 .. m : ring'[k] \notin flight \cup void
        /\ \A k, l \in 1 .. m : ring'[k] = ring'[l] => k = l
    <3>1. \A k \in 1 .. m : k + 1 \in 1 .. Len(ring) /\ ring'[k] = ring[k + 1]
      BY <1>3, <1>5
    <3>2. \A k, l \in 1 .. m : ring'[k] = ring'[l] => k + 1 = l + 1
      BY <2>0, <3>1 DEF AloneOK
    <3> QED BY <2>0, <3>1, <3>2 DEF AloneOK
  <2>8. ASSUME NEW h \in Jobs, jpc'[h] = "events" PROVE n'[h] <= Len(ring')
    <3>1. h = j
      BY <1>1, <1>2, <2>0, <2>8 DEF AloneOK, Active
    <3>2. n[j] \in Nat /\ n[j] <= m + 1 /\ n'[j] = n[j] - 1
      BY <1>0, <1>1, <1>3, <2>0 DEF AloneOK, UnitTypeOK
    <3> QED BY <1>5, <3>1, <3>2
  <2>9. /\ \A g, h \in Jobs : jpc'[g] \in Active /\ jpc'[h] \in Active => g = h
        /\ \A h \in Jobs : jpc'[h] # "broken"
        /\ flight' \cap void' = {}
    BY <1>1, <1>2, <2>0 DEF AloneOK
  <2> QED BY <1>1, <1>5, <2>4, <2>6, <2>7, <2>8, <2>9 DEF AloneOK
<1> QED BY <1>1, <1>6, <1>7 DEF UnitInv

(* Alone, a job finds the events it was promised and no others. *)
LEMMA NoWrongEvent ==
  ASSUME UnitInv, ~overlap, NEW j \in Jobs, jpc[j] = "events", n[j] > 0
  PROVE  OwnEvent(j)
<1>0. UnitTypeOK /\ AloneOK
  BY DEF UnitInv
<1>1. Len(ring) \in Nat \ {0} /\ ring # <<>>
  BY <1>0 DEF UnitTypeOK, AloneOK
<1>2. PICK u \in Units : u = ring[1] /\ u = Head(ring)
  BY <1>0, <1>1 DEF UnitTypeOK
<1>3. PICK h \in Jobs : u \in UnitsOf(h) /\ h = u[1]
  BY UnitFacts
<1>4. 1 \in 1 .. Len(ring)
  BY <1>1
<1>5. u \in Away(h)
  BY <1>2, <1>3, <1>4 DEF Away
<1>6. jpc[h] \in Active
  BY <1>0, <1>5 DEF AloneOK, UnitTypeOK
<1>7. h = j
  BY <1>0, <1>6 DEF AloneOK, Active
<1> QED BY <1>1, <1>2, <1>3, <1>7 DEF OwnEvent

(* The poller thread moves a unit from the vring to the output ring. *)
LEMMA CompleteUnit ==
  ASSUME UnitInv, Complete
  PROVE  UnitInv'
<1>0. UnitTypeOK
  BY DEF UnitInv
<1>1. PICK u \in flight : flight' = flight \ {u} /\ ring' = Append(ring, u)
  BY DEF Complete
<1>2. UNCHANGED <<jpc, out, busy, n, void, overlap>>
  BY DEF Complete, jobVars
<1>3. PICK m \in Nat : Len(ring) = m
  BY <1>0 DEF UnitTypeOK
<1>4. /\ Len(ring') = m + 1 /\ ring' \in Seq(Units) /\ ring'[m + 1] = u
      /\ \A k \in 1 .. m : ring'[k] = ring[k]
  BY <1>0, <1>1, <1>3 DEF UnitTypeOK
<1>5. UnitTypeOK'
  BY <1>0, <1>1, <1>2, <1>4 DEF UnitTypeOK
<1>6. ASSUME ~overlap PROVE AloneOK'
  <2>0. AloneOK
    BY <1>6 DEF UnitInv
  <2>1. /\ u \notin void
        /\ \A k \in 1 .. m : ring[k] # u
    BY <1>1, <1>3, <2>0 DEF AloneOK
  <2>2. \A k \in 1 .. m + 1 : k = m + 1 \/ k \in 1 .. m
    OBVIOUS
  <2>3. \A v : (\E k \in 1 .. m + 1 : ring'[k] = v)
                 <=> (v = u \/ \E k \in 1 .. m : ring[k] = v)
    <3>1. m + 1 \in 1 .. m + 1 /\ \A k \in 1 .. m : k \in 1 .. m + 1
      OBVIOUS
    <3> QED BY <1>4, <2>2, <3>1
  <2>4. \A h \in Jobs : Away(h)' = Away(h)
    BY <1>1, <1>2, <1>3, <1>4, <2>3 DEF Away
  <2>5. \A k \in 1 .. m + 1 : ring'[k] \notin flight' \cup void'
    BY <1>1, <1>2, <1>3, <1>4, <2>0, <2>1, <2>2 DEF AloneOK
  <2>6. \A k, l \in 1 .. m + 1 : ring'[k] = ring'[l] => k = l
    BY <1>3, <1>4, <2>0, <2>1, <2>2 DEF AloneOK
  <2>7. \A h \in Jobs : jpc'[h] = "events" => n'[h] <= Len(ring')
    BY <1>0, <1>2, <1>3, <1>4, <2>0 DEF AloneOK, UnitTypeOK
  <2> QED BY <1>1, <1>2, <1>4, <2>0, <2>4, <2>5, <2>6, <2>7 DEF AloneOK
<1> QED BY <1>2, <1>5, <1>6 DEF UnitInv

(* All steps of the engine. *)
LEMMA UnitStep ==
  ASSUME UnitInv, [Next]_vars
  PROVE  UnitInv'
<1>0. UnitTypeOK
  BY DEF UnitInv
<1>1. ASSUME UNCHANGED <<jpc, out, busy, n, flight, void, ring, overlap>>
      PROVE  UnitInv'
  BY <1>1 DEF UnitInv, UnitTypeOK, AloneOK, Away
<1>2. CASE OpenStep \/ CloseStep \/ ServerStep \/ Unregister \/ Unregistered
           \/ UNCHANGED vars
  BY <1>1, <1>2 DEF OpenStep, CloseStep, ServerStep, Unregister, Unregistered, vars,
                    fioVars, jobVars, ioVars
<1>3. CASE Complete
  BY <1>3, CompleteUnit
<1>4. ASSUME NEW j \in Jobs, NEW x \in JobPlaces \ (Active \cup {"broken", "aborted"}),
             jpc[j] \notin Active \cup {"aborted"}, jpc' = [jpc EXCEPT ![j] = x],
             UNCHANGED <<out, busy, n, flight, void, ring, overlap>>
      PROVE  UnitInv'
  <2>1. ~overlap => out[j] = {}
    BY <1>4 DEF UnitInv, AloneOK
  <2>2. x # "events"
    BY <1>4 DEF Active
  <2> QED BY <1>0, <1>4, <2>1, <2>2, UnitFrame DEF UnitTypeOK
<1>5. ASSUME NEW j \in Jobs, Setup(j) PROVE UnitInv'
  <2>1. /\ {"failed", "setup", "opening", "ready"}
             \subseteq JobPlaces \ (Active \cup {"broken", "aborted"})
        /\ {"new", "setup", "opening"} \cap Active = {}
    BY DEF JobPlaces, Active
  <2>2. CASE SetupShared(j)
    BY <1>1, <2>2 DEF SetupShared, jobVars, ioVars
  <2>3. CASE ~SetupShared(j)
    <3>1. PICK x \in {"failed", "setup", "opening", "ready"} :
            /\ jpc[j] \in {"new", "setup", "opening"} /\ jpc' = [jpc EXCEPT ![j] = x]
            /\ UNCHANGED <<out, busy, n, flight, void, ring, overlap>>
      BY <1>5, <2>3 DEF Setup, SetupRefused, SetupStart, SetupOther, SetupOpen,
                        SetupOpened, SetupDone, Goes, ioVars
    <3> QED BY <1>4, <2>1, <3>1
  <2> QED BY <2>2, <2>3
<1>6. ASSUME NEW j \in Jobs, Begin(j) PROVE UnitInv'
  <2>1. jpc[j] = "ready" /\ UNCHANGED <<out, busy, n, flight, void, ring>>
    BY <1>6 DEF Begin, Goes
  <2>2. CASE jpc' = [jpc EXCEPT ![j] = "failed"]
    <3>1. jpc'[j] = "failed"
      BY <1>0, <2>2 DEF UnitTypeOK
    <3>2. overlap' = overlap
      BY <1>0, <1>6, <3>1 DEF Begin, UnitTypeOK
    <3>3. "failed" \in JobPlaces \ (Active \cup {"broken", "aborted"}) /\ "ready" \notin Active
      BY DEF JobPlaces, Active
    <3> QED BY <1>4, <2>1, <2>2, <3>2, <3>3
  <2>3. CASE jpc' = [jpc EXCEPT ![j] = "run"]
    <3>1. jpc'[j] = "run"
      BY <1>0, <2>3 DEF UnitTypeOK
    <3>2. /\ overlap' \in BOOLEAN
          /\ ~overlap' => ~overlap /\ \A h \in Jobs : jpc[h] \notin Active
      BY <1>0, <1>6, <3>1 DEF Begin, UnitTypeOK
    <3>3. "run" \in JobPlaces /\ "run" \in Active
      BY DEF JobPlaces, Active
    <3> QED BY <1>0, <2>1, <2>3, <3>2, <3>3, UnitFrame DEF UnitTypeOK
  <2> QED BY <1>6, <2>2, <2>3 DEF Begin, Goes
<1>7. ASSUME NEW j \in Jobs, Queue(j) PROVE UnitInv'
  <2>1. PICK u \in UnitsOf(j), kind \in Kinds, rc \in {0, -1} :
          u \notin out[j] /\ virtio_fio_queue(j, u, kind, rc)
    BY <1>7 DEF Queue
  <2> QED BY <2>1, QueueUnit
<1>8. ASSUME NEW j \in Jobs, Retry(j) PROVE UnitInv'
  <2>1. PICK rc \in {0, -1} :
          busy[j] # NULL /\ virtio_fio_queue(j, busy[j][1], busy[j][2], rc)
    BY <1>8 DEF Retry
  <2>2. CASE ~overlap
    <3>1. /\ busy[j][1] \in UnitsOf(j) /\ busy[j][1] \notin out[j]
          /\ busy[j][2] \in Kinds
      BY <2>1, <2>2 DEF UnitInv, AloneOK
    <3> QED BY <2>1, <3>1, QueueUnit
  <2>3. CASE overlap
    <3>1. busy[j][1] \in Units /\ busy[j][2] \in Kinds
      BY <1>0, <2>1 DEF UnitTypeOK
    <3>2. UnitTypeOK'
      BY <1>0, <2>1, <3>1 DEF UnitTypeOK, virtio_fio_queue
    <3>3. overlap'
      BY <2>1, <2>3 DEF virtio_fio_queue
    <3> QED BY <3>2, <3>3 DEF UnitInv
  <2> QED BY <1>0, <2>2, <2>3 DEF UnitTypeOK
<1>9. ASSUME NEW j \in Jobs, NEW x \in Active, jpc[j] \in Active,
             jpc' = [jpc EXCEPT ![j] = x],
             UNCHANGED <<out, busy, flight, void, ring, overlap>>,
             x = "events" => n'[j] <= Len(ring),
             n' \in [Jobs -> Nat], \A h \in Jobs : h # j => n'[h] = n[h]
      PROVE  UnitInv'
  <2>1. x \in JobPlaces \ {"aborted"} /\ x # "broken" /\ jpc[j] # "aborted"
    BY <1>9 DEF JobPlaces, Active
  <2>2. ~overlap => \A h \in Jobs : h # j => jpc[h] \notin Active
    BY <1>9 DEF UnitInv, AloneOK
  <2> QED BY <1>0, <1>9, <2>1, <2>2, UnitFrame DEF UnitTypeOK
<1>10. ASSUME NEW j \in Jobs, GetEvents(j) \/ EventsDone(j) PROVE UnitInv'
  BY <1>0, <1>9, <1>10 DEF GetEvents, EventsDone, Goes, ioVars, Active, UnitTypeOK
<1>11. ASSUME NEW j \in Jobs, Completed(j) PROVE UnitInv'
  <2>1. /\ jpc[j] \in Active /\ jpc' = [jpc EXCEPT ![j] = "events"]
        /\ n' = [n EXCEPT ![j] = Len(ring)]
        /\ UNCHANGED <<out, busy, flight, void, ring, overlap>>
    BY <1>11 DEF Completed, Goes, ioVars, Active
  <2>2. n' \in [Jobs -> Nat] /\ n'[j] <= Len(ring) /\ "events" \in Active
    BY <1>0, <2>1 DEF UnitTypeOK, Active
  <2>3. \A h \in Jobs : h # j => n'[h] = n[h]
    BY <1>0, <2>1 DEF UnitTypeOK
  <2> QED BY <1>9, <2>1, <2>2, <2>3
<1>12. ASSUME NEW j \in Jobs, WrongEvent(j) PROVE UnitInv'
  <2>1. overlap
    BY <1>12, NoWrongEvent DEF WrongEvent, Goes
  <2>2. /\ jpc' = [jpc EXCEPT ![j] = "broken"]
        /\ ring' = IF ring = <<>> THEN ring ELSE Tail(ring)
        /\ UNCHANGED <<out, busy, n, flight, void, overlap>>
    BY <1>12 DEF WrongEvent, Goes
  <2>3. jpc[j] = "events"
    BY <1>12 DEF WrongEvent, Goes
  <2>4. /\ jpc' \in [Jobs -> JobPlaces]
        /\ \A g, h \in Jobs : jpc'[g] = "aborted" => jpc'[h] = "aborted"
    BY <1>0, <2>2, <2>3 DEF UnitTypeOK, JobPlaces
  <2>5. ring' \in Seq(Units)
    BY <1>0, <2>2 DEF UnitTypeOK
  <2>6. UnitTypeOK'
    BY <1>0, <2>2, <2>4, <2>5 DEF UnitTypeOK
  <2> QED BY <2>1, <2>2, <2>6 DEF UnitInv
<1>13. ASSUME NEW j \in Jobs, Finish(j) PROVE UnitInv'
  <2>1. "done" \in JobPlaces /\ "done" \notin Active
    BY DEF JobPlaces, Active
  <2> QED BY <1>0, <1>13, <2>1, UnitFrame DEF Finish, Goes, ioVars, UnitTypeOK
<1>14. ASSUME NEW j \in Jobs, virtio_fio_event(j) PROVE UnitInv'
  BY <1>14, EventUnit
<1>15. ASSUME NEW j \in Jobs, QueueSync(j) PROVE UnitInv'
  <2>1. /\ jpc' = [h \in Jobs |-> "aborted"]
        /\ UNCHANGED <<out, busy, n, flight, void, ring, overlap>>
    BY <1>15 DEF QueueSync, ioVars
  <2>2. UnitTypeOK'
    BY <1>0, <2>1 DEF UnitTypeOK, JobPlaces
  <2>3. ~overlap => AloneOK'
    BY <2>1 DEF UnitInv, AloneOK, Away, Active
  <2> QED BY <2>1, <2>2, <2>3 DEF UnitInv
<1> QED BY <1>2, <1>3, <1>5, <1>6, <1>7, <1>8, <1>10, <1>11, <1>12, <1>13, <1>14, <1>15
     DEF Next, Run, Events

(* As long as jobs run one at a time, what fio counts in cur_depth is what *)
(* is on the vring, in the output ring or lost, and every event a job      *)
(* picks up is there and its own.                                          *)
THEOREM DepthSafe == Spec => []DepthTrue
<1>1. Init => UnitInv
  <2> SUFFICES ASSUME Init PROVE UnitInv
    OBVIOUS
  <2>1. UnitTypeOK
    <3>1. /\ jpc \in [Jobs -> JobPlaces] /\ n \in [Jobs -> Nat]
          /\ out \in [Jobs -> SUBSET Units]
          /\ busy \in [Jobs -> (Units \X Kinds) \cup {NULL}]
      BY DEF Init, JobPlaces
    <3>2. ring = <<>> /\ overlap = FALSE /\ flight = {} /\ void = {}
      BY DEF Init
    <3>3. ring \in Seq(Units)
      BY <3>2
    <3>4. \A j \in Jobs : jpc[j] # "aborted"
      BY DEF Init
    <3> QED BY <3>1, <3>2, <3>3, <3>4 DEF UnitTypeOK
  <2>2. AloneOK
    BY DEF Init, AloneOK, Away, Active
  <2> QED BY <2>1, <2>2 DEF UnitInv
<1>2. UnitInv /\ [Next]_vars => UnitInv'
  BY UnitStep
<1>3. UnitInv => DepthTrue
  <2> SUFFICES ASSUME UnitInv, ~overlap, NEW j \in Jobs
               PROVE  /\ jpc[j] # "broken"
                      /\ out[j] = {u \in UnitsOf(j) : \/ u \in flight \cup void
                                                      \/ \E k \in DOMAIN ring : ring[k] = u}
    BY DEF DepthTrue
  <2>1. DOMAIN ring = 1 .. Len(ring)
    BY DEF UnitInv, UnitTypeOK
  <2> QED BY <2>1 DEF UnitInv, AloneOK, Away
<1> QED BY <1>1, <1>2, <1>3, PTL DEF Spec
=============================================================================
