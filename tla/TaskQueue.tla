----------------------------- MODULE TaskQueue -----------------------------
(***************************************************************************)
(* What the ring of vring.c promises the poller library: a task that       *)
(* vring_put_task accepted is completed by the device once and returned by *)
(* vring_get_task once, tasks are returned in the order they completed,    *)
(* and never more than Cap tasks are on the ring.                          *)
(***************************************************************************)
EXTENDS Integers, Sequences, FiniteSets

CONSTANTS
  Tasks,    \* task objects
  Cap       \* most tasks the ring holds at a time

VARIABLES
  accepted,   \* tasks accepted and not yet completed
  done        \* tasks completed and not yet returned, oldest first

vars == <<accepted, done>>

OnRing == accepted \cup {done[i] : i \in DOMAIN done}

Init ==
  /\ accepted = {}
  /\ done = <<>>

Accept(t) ==
  /\ t \notin OnRing
  /\ Cardinality(OnRing) < Cap
  /\ accepted' = accepted \cup {t}
  /\ UNCHANGED done

Complete(t) ==
  /\ t \in accepted
  /\ accepted' = accepted \ {t}
  /\ done' = Append(done, t)

Reap ==
  /\ done # <<>>
  /\ done' = Tail(done)
  /\ UNCHANGED accepted

Next ==
  \/ \E t \in Tasks : Accept(t) \/ Complete(t)
  \/ Reap

Spec == Init /\ [][Next]_vars
=============================================================================
