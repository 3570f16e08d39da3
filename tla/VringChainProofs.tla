-------------------------- MODULE VringChainProofs --------------------------
(***************************************************************************)
(* The descriptor table and the way of a task round the ring, proved for   *)
(* every number of threads, tasks and slots in the environment in which    *)
(* nobody takes the slot the poller is standing on (SerialSpec): chains    *)
(* stay intact, slots do not leak, the assertions of vring_get_task hold,  *)
(* every task is in one place, and the ring is a TaskQueue.                *)
(***************************************************************************)
EXTENDS VringProofs, SequenceTheorems

-----------------------------------------------------------------------------
(***************************************************************************)
(* The inductive invariant, by parts.                                      *)
(***************************************************************************)

(* A thread inside vring_put_task or vring_flush has a task of its own; a  *)
(* free task has no slots, any other has at least two buffers; the poller  *)
(* takes off a task that was sent.                                         *)
TaskInv ==
  /\ \A p \in Threads : pc[p] \in {"idle", "kick"} => cur[p] = NULL
  /\ \A p \in Threads : cur[p] # NULL => phase[cur[p]] = "put"
  /\ \A p, q \in Threads : cur[p] = cur[q] /\ cur[p] # NULL => p = q
  /\ \A t \in Tasks : phase[t] = "free" => slots[t] = <<>>
  /\ \A t \in Tasks : phase[t] # "free" => count[t] \in Counts
  /\ get_pc = "idle" <=> get_task = NULL
  /\ get_task # NULL => phase[get_task] = "sent"

(* Slots and owners agree, but for the slots the poller has released.      *)
OwnInv ==
  /\ \A s \in Slots : tasks[s] # NULL =>
       \E i \in 1 .. Len(slots[tasks[s]]) : slots[tasks[s]][i] = s
  /\ \A t \in Tasks : t # get_task =>
       \A i \in 1 .. Len(slots[t]) : tasks[slots[t][i]] = t
  /\ \A t \in Tasks : \A i, j \in 1 .. Len(slots[t]) :
       slots[t][i] = slots[t][j] => i = j

(* The first a descriptors of t are written, the first l slots linked. *)
Built(t, a, l) ==
  /\ \A i \in 1 .. a :
       /\ desc[slots[t][i]].addr = <<t, i>>
       /\ desc[slots[t][i]].more = (i < count[t])
  /\ \A i \in 1 .. l - 1 : desc[slots[t][i]].next = slots[t][i + 1]
  /\ l >= 1 => vring_idx[t] = slots[t][1]

(* How far the chain of a thread's task is built, by the place in the code.*)
Stage(p) ==
  LET t == cur[p]
      n == Len(slots[t])
  IN
  /\ pc[p] \in {"hint", "scan"} => n < count[t] /\ Built(t, n, n)
  /\ pc[p] \in {"store", "link", "desc"} =>
       n \in 1 .. count[t] /\ cand[p] = slots[t][n]
  /\ pc[p] \in {"store", "link"} => Built(t, n - 1, n - 1)
  /\ pc[p] = "desc" => Built(t, n - 1, n)
  /\ pc[p] \in {"reserve", "fill", "publish"} =>
       n = count[t] /\ Built(t, n, n)
  /\ pc[p] \in {"fill", "publish"} => head[p] = vring_idx[t]

StageInv == \A p \in Threads : Stage(p)

SentInv ==
  \A t \in Tasks : phase[t] = "sent" /\ t # get_task =>
    Len(slots[t]) = count[t] /\ Built(t, count[t], count[t])

(* The poller stands on the k-th slot of its task: it has released the     *)
(* slots before it, and the rest of the chain is as it was.                *)
WalkAt(k) ==
  LET t == get_task
      n == count[get_task]
  IN
  /\ Len(slots[t]) = n
  /\ get_idx = slots[t][k]
  /\ \A i \in k .. n : desc[slots[t][i]].more = (i < n)
  /\ \A i \in k .. n - 1 : desc[slots[t][i]].next = slots[t][i + 1]
  /\ \A i \in 1 .. n : tasks[slots[t][i]] = t <=>
                         (IF get_pc = "walk" THEN k <= i ELSE k < i)
  /\ get_pc = "next" => k < n /\ tasks[get_idx] = NULL

WalkInv == get_pc # "idle" => \E k \in 1 .. count[get_task] : WalkAt(k)

(* What the avail ring, the device and the used ring hold: heads of chains *)
(* that were sent and not yet taken off, each once, and all of them.       *)
SentHead(h) ==
  /\ tasks[h] # NULL
  /\ phase[tasks[h]] = "sent"
  /\ tasks[h] # get_task
  /\ vring_idx[tasks[h]] = h

AvailAt(j) == avail_ring[Mask(j)]
UsedAt(j) == used_ring[Mask(j)]

HeadsInv ==
  /\ dev_avail <= avail_idx
  /\ last_used_idx <= used_idx
  /\ get_pc # "idle" => last_used_idx < used_idx
  /\ \A j \in AvailPending : SentHead(AvailAt(j))
  /\ \A j \in 1 .. Len(dev_held) : SentHead(dev_held[j])
  /\ \A j \in UsedPending : SentHead(UsedAt(j))

OnceInv ==
  /\ \A i, j \in AvailPending : AvailAt(i) = AvailAt(j) => i = j
  /\ \A i, j \in 1 .. Len(dev_held) : dev_held[i] = dev_held[j] => i = j
  /\ \A i, j \in UsedPending : UsedAt(i) = UsedAt(j) => i = j
  /\ \A i \in AvailPending, j \in 1 .. Len(dev_held) : AvailAt(i) # dev_held[j]
  /\ \A i \in AvailPending, j \in UsedPending : AvailAt(i) # UsedAt(j)
  /\ \A i \in 1 .. Len(dev_held), j \in UsedPending : dev_held[i] # UsedAt(j)

CoverInv ==
  \A t \in Tasks : phase[t] = "sent" /\ t # get_task =>
    \/ \E j \in AvailPending : AvailAt(j) = vring_idx[t]
    \/ \E j \in 1 .. Len(dev_held) : dev_held[j] = vring_idx[t]
    \/ \E j \in UsedPending : UsedAt(j) = vring_idx[t]

TableInv == TaskInv /\ OwnInv /\ StageInv /\ SentInv /\ WalkInv

FlowInv == HeadsInv /\ OnceInv /\ CoverInv

-----------------------------------------------------------------------------
(* What a thread inside vring_put_task knows of its task. *)
LEMMA CurFacts ==
  ASSUME TInv, TaskInv, NEW p \in Threads, pc[p] \notin {"idle", "kick"}
  PROVE  /\ cur[p] \in Tasks /\ cur[p] # NULL /\ cur[p] # get_task
         /\ phase[cur[p]] = "put" /\ count[cur[p]] \in Counts
         /\ slots[cur[p]] \in Seq(Slots)
         /\ Len(slots[cur[p]]) \in Nat /\ count[cur[p]] \in Nat
         /\ \A q \in Threads : q # p => cur[q] # cur[p]
BY TaskAssumption DEF TInv, CurInv, TypeOK, TaskInv

(* A descriptor the code writes or follows is in the table. *)
LEMMA SlotType ==
  ASSUME TypeOK, NEW t \in Tasks, NEW i \in 1 .. Len(slots[t])
  PROVE  slots[t][i] \in Slots
BY DEF TypeOK

(***************************************************************************)
(* A step of thread p that concerns task t only: t is not on the ring, the *)
(* descriptors it writes are those of t, it takes free slots for t or      *)
(* gives slots of t back, and keeps away from the poller's slot.           *)
(***************************************************************************)
StepFor(p, t) ==
  /\ t \in Tasks /\ phase[t] # "sent"
  /\ \A q \in Threads : q # p =>
       /\ cur[q] # t
       /\ pc'[q] = pc[q] /\ cur'[q] = cur[q] /\ cand'[q] = cand[q]
       /\ head'[q] = head[q]
  /\ \A u \in Tasks : u # t =>
       /\ phase'[u] = phase[u] /\ slots'[u] = slots[u]
       /\ count'[u] = count[u] /\ vring_idx'[u] = vring_idx[u]
  /\ \A s \in Slots : desc'[s] # desc[s] => tasks[s] = t
  /\ \A s \in Slots : tasks'[s] # tasks[s] =>
       /\ tasks[s] \in {NULL, t} /\ tasks'[s] \in {NULL, t}
       /\ get_pc = "next" => s # get_idx
  /\ UNCHANGED getVars

(* A chain whose slots and descriptors are left alone stays as far built.  *)
LEMMA BuiltFrame ==
  ASSUME NEW t \in Tasks, NEW n \in Nat, NEW a \in Int, NEW l \in Int,
         a <= n, l <= n, Built(t, a, l),
         count'[t] = count[t], vring_idx'[t] = vring_idx[t],
         \A i \in 1 .. n : /\ slots'[t][i] = slots[t][i]
                           /\ desc'[slots[t][i]] = desc[slots[t][i]]
  PROVE  Built(t, a, l)'
<1>1. ASSUME NEW i \in 1 .. a
      PROVE  /\ desc'[slots'[t][i]].addr = <<t, i>>
             /\ desc'[slots'[t][i]].more = (i < count'[t])
  <2>1. i \in 1 .. n
    OBVIOUS
  <2> QED BY <2>1 DEF Built
<1>2. ASSUME NEW i \in 1 .. l - 1
      PROVE  desc'[slots'[t][i]].next = slots'[t][i + 1]
  <2>1. i \in 1 .. n /\ i + 1 \in 1 .. n
    OBVIOUS
  <2> QED BY <2>1 DEF Built
<1>3. l >= 1 => vring_idx'[t] = slots'[t][1]
  BY DEF Built
<1> QED BY <1>1, <1>2, <1>3 DEF Built

(* Such a step leaves the chains of the other threads as they were. *)
LEMMA StageFrame ==
  ASSUME TInv, TaskInv, OwnInv, StageInv, NEW p, NEW t, StepFor(p, t),
         NEW q \in Threads, q # p
  PROVE  Stage(q)'
<1>1. CASE pc[q] \in {"idle", "kick"}
  BY <1>1 DEF StepFor, Stage
<1>2. CASE pc[q] \notin {"idle", "kick"}
  <2>1. PICK u \in Tasks : u = cur[q]
    BY <1>2, CurFacts
  <2>2. PICK n \in Nat : n = Len(slots[u])
    BY DEF TInv, TypeOK
  <2>3. u # t /\ u # get_task /\ count[u] \in Nat
    BY <1>2, <2>1, CurFacts DEF StepFor
  <2>4. /\ pc'[q] = pc[q] /\ cur'[q] = u /\ cand'[q] = cand[q] /\ head'[q] = head[q]
        /\ slots'[u] = slots[u] /\ count'[u] = count[u] /\ vring_idx'[u] = vring_idx[u]
    BY <2>1, <2>3 DEF StepFor
  <2>5. \A i \in 1 .. n : /\ slots'[u][i] = slots[u][i]
                          /\ desc'[slots[u][i]] = desc[slots[u][i]]
    BY <2>2, <2>3, <2>4, SlotType DEF StepFor, OwnInv, TInv
  <2>6. \A a, l \in Int : a <= n /\ l <= n /\ Built(u, a, l) => Built(u, a, l)'
    BY <2>4, <2>5, BuiltFrame
  <2>7. Stage(q)
    BY DEF StageInv
  <2> QED BY <2>1, <2>2, <2>3, <2>4, <2>6, <2>7 DEF Stage
<1> QED BY <1>1, <1>2

(* ... and the chains on the ring, but for t if the step sends it. *)
LEMMA SentFrame ==
  ASSUME TInv, TaskInv, OwnInv, SentInv, NEW p, NEW t, StepFor(p, t),
         NEW u \in Tasks, u # t, phase'[u] = "sent", u # get_task'
  PROVE  Len(slots[u])' = count[u]' /\ Built(u, count[u], count[u])'
<1>1. /\ phase[u] = "sent" /\ u # get_task
      /\ slots'[u] = slots[u] /\ count'[u] = count[u] /\ vring_idx'[u] = vring_idx[u]
  BY DEF StepFor, getVars
<1>2. PICK n \in Nat : n = Len(slots[u])
  BY DEF TInv, TypeOK
<1>3. n = count[u] /\ Built(u, n, n)
  BY <1>1, <1>2 DEF SentInv
<1>4. \A i \in 1 .. n : /\ slots'[u][i] = slots[u][i]
                        /\ desc'[slots[u][i]] = desc[slots[u][i]]
  BY <1>1, <1>2, SlotType DEF StepFor, OwnInv, TInv
<1>5. Built(u, n, n)'
  <2>1. n \in Int /\ n <= n
    OBVIOUS
  <2> QED BY <1>1, <1>3, <1>4, <2>1, BuiltFrame, Zenon
<1> QED BY <1>1, <1>2, <1>3, <1>5

(* ... and what the poller has before it. *)
LEMMA WalkFrame ==
  ASSUME TInv, TaskInv, WalkInv, NEW p, NEW t, StepFor(p, t)
  PROVE  WalkInv'
<1> SUFFICES ASSUME get_pc' # "idle"
             PROVE  (\E k \in 1 .. count[get_task] : WalkAt(k))'
  BY DEF WalkInv
<1>1. UNCHANGED <<get_pc, get_task, get_idx>>
  BY DEF StepFor, getVars
<1>2. PICK g \in Tasks : g = get_task
  BY <1>1 DEF TInv, TypeOK, TaskInv
<1>3. PICK k \in 1 .. count[g] : WalkAt(k)
  BY <1>1, <1>2 DEF WalkInv
<1>4. g # NULL /\ g # t /\ count[g] \in Nat /\ get_pc \in {"walk", "next"}
  BY <1>1, <1>2, TaskAssumption DEF TaskInv, StepFor, TInv, TypeOK
<1>5. slots'[g] = slots[g] /\ count'[g] = count[g]
  BY <1>4 DEF StepFor
<1>6. \A i \in 1 .. count[g] : slots[g][i] \in Slots
  BY <1>2, <1>3, SlotType DEF WalkAt, TInv
<1>7. \A i \in k .. count[g] : desc'[slots[g][i]] = desc[slots[g][i]]
  <2> SUFFICES ASSUME NEW i \in k .. count[g]
               PROVE  desc'[slots[g][i]] = desc[slots[g][i]]
    OBVIOUS
  <2>1. i \in 1 .. count[g] /\ slots[g][i] \in Slots
    BY <1>4, <1>6
  <2>2. tasks[slots[g][i]] \in {g, NULL}
    BY <1>2, <1>3, <1>4, <2>1 DEF WalkAt
  <2> QED BY <1>4, <2>1, <2>2, TaskAssumption DEF StepFor
<1>8. \A i \in 1 .. count[g] : tasks'[slots[g][i]] = g <=> tasks[slots[g][i]] = g
  BY <1>4, <1>6 DEF StepFor
<1>9. get_pc = "next" => tasks'[get_idx] = NULL
  <2>1. get_idx \in Slots
    BY DEF TInv, TypeOK
  <2> QED BY <1>3, <2>1 DEF StepFor, WalkAt
<1>10. WalkAt(k)'
  <2>1. get_task' = g /\ get_pc' = get_pc /\ get_idx' = get_idx
    BY <1>1, <1>2
  <2>2. Len(slots'[g]) = count'[g] /\ get_idx' = slots'[g][k]
    BY <1>2, <1>3, <1>5, <2>1 DEF WalkAt
  <2>3. \A i \in k .. count'[g] : desc'[slots'[g][i]].more = (i < count'[g])
    BY <1>2, <1>3, <1>5, <1>7 DEF WalkAt
  <2>4. \A i \in k .. count'[g] - 1 : desc'[slots'[g][i]].next = slots'[g][i + 1]
    BY <1>2, <1>3, <1>4, <1>5, <1>7 DEF WalkAt
  <2>5. \A i \in 1 .. count'[g] : tasks'[slots'[g][i]] = g <=>
          (IF get_pc' = "walk" THEN k <= i ELSE k < i)
    BY <1>2, <1>3, <1>5, <1>8, <2>1 DEF WalkAt
  <2>6. get_pc' = "next" => k < count'[g] /\ tasks'[get_idx'] = NULL
    BY <1>2, <1>3, <1>5, <1>9, <2>1 DEF WalkAt
  <2> QED BY <2>1, <2>2, <2>3, <2>4, <2>5, <2>6 DEF WalkAt
<1> QED BY <1>1, <1>2, <1>5, <1>10

(* What remains to be shown for a step that concerns one task. *)
LEMMA ThreadStep ==
  ASSUME TInv, TableInv, NEW p \in Threads, NEW t, StepFor(p, t),
         TaskInv', OwnInv', Stage(p)',
         phase'[t] = "sent" =>
           Len(slots[t])' = count[t]' /\ Built(t, count[t], count[t])'
  PROVE  TableInv'
<1>1. StageInv'
  <2> SUFFICES ASSUME NEW q \in Threads PROVE Stage(q)'
    BY DEF StageInv
  <2>1. CASE q = p
    BY <2>1
  <2>2. CASE q # p
    BY <2>2, StageFrame DEF TableInv
  <2> QED BY <2>1, <2>2
<1>2. SentInv'
  <2> SUFFICES ASSUME NEW u \in Tasks, phase'[u] = "sent", u # get_task'
               PROVE  Len(slots[u])' = count[u]' /\ Built(u, count[u], count[u])'
    BY DEF SentInv
  <2>1. CASE u = t
    BY <2>1
  <2>2. CASE u # t
    BY <2>2, SentFrame DEF TableInv
  <2> QED BY <2>1, <2>2
<1>3. WalkInv'
  BY WalkFrame DEF TableInv
<1> QED BY <1>1, <1>2, <1>3 DEF TableInv

(* The steps that write neither tasks[] nor slots[]. *)
LEMMA OwnFrame ==
  ASSUME OwnInv, UNCHANGED <<tasks, slots, get_task>>
  PROVE  OwnInv'
BY DEF OwnInv

(* A new call has a task that nobody uses, and no slots yet. *)
LEMMA CallTable ==
  ASSUME TInv, TableInv, NEW p \in Threads, NEW t \in Tasks, NEW c \in Counts,
         Call(p, t, c)
  PROVE  TableInv' /\ \E u : StepFor(p, u) /\ phase'[u] # "sent"
<1>1. /\ phase[t] = "free" /\ pc[p] = "idle" /\ pc' = [pc EXCEPT ![p] = "hint"]
      /\ phase' = [phase EXCEPT ![t] = "put"]
      /\ count' = [count EXCEPT ![t] = c]
      /\ cur' = [cur EXCEPT ![p] = t]
      /\ UNCHANGED <<tasks, desc, vring_idx, slots, cand, head, get_pc,
                     get_task, get_idx>>
  BY DEF Call, Goto, tableVars, getVars
<1>2. c \in 2 .. Num /\ t # NULL /\ slots[t] = <<>>
  BY <1>1, TaskAssumption DEF TableInv, TaskInv
<1>3. StepFor(p, t)
  BY <1>1, <1>2 DEF StepFor, getVars, TInv, TypeOK, TableInv, TaskInv
<1>4. TaskInv'
  BY <1>1, <1>2 DEF TableInv, TaskInv, TInv, TypeOK
<1>5. OwnInv'
  BY <1>1, OwnFrame DEF TableInv
<1>6. /\ pc'[p] = "hint" /\ cur'[p] = t
      /\ slots'[t] = <<>> /\ count'[t] = c /\ phase'[t] = "put"
  BY <1>1, <1>2 DEF TInv, TypeOK
<1>7. Built(t, 0, 0)'
  BY DEF Built
<1>8. Stage(p)'
  <2>1. Len(slots'[cur'[p]]) = 0 /\ 0 < count'[cur'[p]]
    BY <1>2, <1>6, RingAssumption
  <2> QED BY <1>6, <1>7, <2>1 DEF Stage
<1> QED BY <1>3, <1>4, <1>5, <1>6, <1>8, ThreadStep

(* ReadHint and Skip move the search only. *)
LEMMA SearchTable ==
  ASSUME TInv, TableInv, NEW p \in Threads, ReadHint(p) \/ Skip(p)
  PROVE  TableInv' /\ \E u : StepFor(p, u) /\ phase'[u] # "sent"
<1>1. /\ pc[p] \in {"hint", "scan"}
      /\ pc' = [pc EXCEPT ![p] = "scan"] \/ pc' = [pc EXCEPT ![p] = "undo"]
      /\ \A q \in Threads : q # p => cand'[q] = cand[q]
      /\ UNCHANGED <<tasks, desc, phase, count, vring_idx, slots, cur, head,
                     get_pc, get_task, get_idx>>
  BY DEF ReadHint, Skip, Goto, tableVars, getVars, taskVars, TInv, TypeOK
<1>2. StepFor(p, cur[p])
  BY <1>1, CurFacts DEF StepFor, getVars, TInv, TypeOK, TableInv
<1>3. TaskInv'
  BY <1>1 DEF TableInv, TaskInv, TInv, TypeOK
<1>4. OwnInv'
  BY <1>1, OwnFrame DEF TableInv
<1>5. Stage(p)'
  <2>1. Stage(p) /\ pc'[p] \in {"scan", "undo"}
    BY <1>1 DEF TableInv, StageInv, TInv, TypeOK
  <2> QED BY <1>1, <2>1 DEF Stage, Built
<1>6. phase'[cur[p]] # "sent"
  BY <1>1, CurFacts DEF TableInv
<1> QED BY <1>2, <1>3, <1>4, <1>5, <1>6, ThreadStep

(* The compare-and-swap takes a free slot away from the poller's. *)
LEMMA ClaimTable ==
  ASSUME TInv, TableInv, NEW p \in Threads, ClaimElsewhere(p)
  PROVE  TableInv' /\ \E u : StepFor(p, u) /\ phase'[u] # "sent"
<1>1. PICK t \in Tasks : t = cur[p]
  BY CurFacts DEF ClaimElsewhere, Claim, Goto, TableInv
<1>2. PICK c \in Slots : c = cand[p]
  BY DEF TInv, TypeOK
<1>3. /\ pc[p] = "scan" /\ pc' = [pc EXCEPT ![p] = "store"]
      /\ tasks[c] = NULL /\ tasks' = [tasks EXCEPT ![c] = t]
      /\ slots' = [slots EXCEPT ![t] = Append(slots[t], c)]
      /\ get_pc = "next" => c # get_idx
      /\ UNCHANGED <<desc, phase, count, vring_idx, cur, cand, head, get_pc,
                     get_task, get_idx>>
  BY <1>1, <1>2 DEF ClaimElsewhere, Claim, SlotFree, Goto, getVars
<1>4. /\ t # NULL /\ t # get_task /\ phase[t] = "put" /\ count[t] \in Nat
      /\ \A q \in Threads : q # p => cur[q] # t
  BY <1>1, <1>3, CurFacts DEF TableInv
<1>5. PICK n \in Nat : n = Len(slots[t])
  BY DEF TInv, TypeOK
<1>6. /\ slots[t] \in Seq(Slots) /\ slots'[t] = Append(slots[t], c)
      /\ Len(slots'[t]) = n + 1 /\ slots'[t][n + 1] = c
      /\ \A i \in 1 .. n : slots'[t][i] = slots[t][i]
  BY <1>3, <1>5 DEF TInv, TypeOK
<1>7. StepFor(p, t)
  BY <1>1, <1>2, <1>3, <1>4 DEF StepFor, getVars, TInv, TypeOK
<1>8. TaskInv'
  BY <1>1, <1>3, <1>4 DEF TableInv, TaskInv, TInv, TypeOK
<1>9. OwnInv'
  <2>0. \A u \in Tasks : u # t => slots'[u] = slots[u]
    BY <1>3 DEF TInv, TypeOK
  <2>1. ASSUME NEW s \in Slots, tasks'[s] # NULL
        PROVE  \E i \in 1 .. Len(slots'[tasks'[s]]) : slots'[tasks'[s]][i] = s
    <3>1. CASE s = c
      BY <1>3, <1>6, <3>1 DEF TInv, TypeOK
    <3>2. CASE s # c
      <4>1. tasks'[s] = tasks[s] /\ tasks[s] \in Tasks
        BY <1>3, <2>1, <3>2 DEF TInv, TypeOK
      <4>2. PICK i \in 1 .. Len(slots[tasks[s]]) : slots[tasks[s]][i] = s
        BY <2>1, <4>1 DEF TableInv, OwnInv
      <4> QED BY <1>5, <1>6, <2>0, <4>1, <4>2
    <3> QED BY <3>1, <3>2
  <2>2. ASSUME NEW u \in Tasks, u # get_task, NEW i \in 1 .. Len(slots'[u])
        PROVE  tasks'[slots'[u][i]] = u
    <3>1. CASE u = t /\ i = n + 1
      BY <1>3, <1>6, <3>1 DEF TInv, TypeOK
    <3>2. CASE ~(u = t /\ i = n + 1)
      <4>1. i \in 1 .. Len(slots[u]) /\ slots'[u][i] = slots[u][i]
        BY <1>5, <1>6, <2>0, <3>2
      <4>2. tasks[slots[u][i]] = u /\ slots[u][i] \in Slots
        BY <2>2, <4>1, SlotType DEF TableInv, OwnInv, TInv
      <4>3. slots[u][i] # c
        BY <1>3, <4>2, TaskAssumption
      <4> QED BY <1>3, <4>1, <4>2, <4>3 DEF TInv, TypeOK
    <3> QED BY <3>1, <3>2
  <2>3. ASSUME NEW u \in Tasks, NEW i \in 1 .. Len(slots'[u]),
               NEW j \in 1 .. Len(slots'[u]), slots'[u][i] = slots'[u][j]
        PROVE  i = j
    <3>1. CASE u = t
      <4>1. \A k \in 1 .. n : slots[t][k] # c
        BY <1>3, <1>4, <1>5, TaskAssumption DEF TableInv, OwnInv
      <4>2. \A k, m \in 1 .. n : slots[t][k] = slots[t][m] => k = m
        BY <1>5 DEF TableInv, OwnInv
      <4>3. i \in 1 .. n + 1 /\ j \in 1 .. n + 1
        BY <1>6, <3>1
      <4>4. slots'[t][i] = slots'[t][j]
        BY <2>3, <3>1
      <4>5. CASE i = n + 1 /\ j # n + 1
        BY <1>6, <4>1, <4>3, <4>4, <4>5
      <4>6. CASE i # n + 1 /\ j = n + 1
        BY <1>6, <4>1, <4>3, <4>4, <4>6
      <4>7. CASE i # n + 1 /\ j # n + 1
        <5>1. i \in 1 .. n /\ j \in 1 .. n
          BY <4>3, <4>7
        <5> QED BY <1>6, <4>2, <4>4, <5>1
      <4> QED BY <4>5, <4>6, <4>7
    <3>2. CASE u # t
      BY <2>0, <2>3, <3>2 DEF TableInv, OwnInv
    <3> QED BY <3>1, <3>2
  <2> QED BY <1>3, <2>1, <2>2, <2>3 DEF OwnInv
<1>10. Stage(p)'
  <2>1. n < count[t] /\ Built(t, n, n)
    BY <1>1, <1>3, <1>5 DEF TableInv, StageInv, Stage
  <2>2. Built(t, n, n)'
    <3>1. n \in Int /\ n <= n /\ \A i \in 1 .. n : slots'[t][i] = slots[t][i]
                                              /\ desc'[slots[t][i]] = desc[slots[t][i]]
      BY <1>3, <1>6
    <3> QED BY <1>3, <2>1, <3>1, BuiltFrame, Zenon
  <2>3. pc'[p] = "store" /\ cur'[p] = t /\ cand'[p] = c /\ count'[t] = count[t]
    BY <1>1, <1>2, <1>3 DEF TInv, TypeOK
  <2>4. n + 1 \in 1 .. count[t] /\ (n + 1) - 1 = n
    BY <1>4, <2>1
  <2> QED BY <1>6, <2>2, <2>3, <2>4 DEF Stage
<1> QED BY <1>1, <1>3, <1>4, <1>7, <1>8, <1>9, <1>10, ThreadStep

(* A failing call gives back the first slot it still has. *)
LEMMA UndoTable ==
  ASSUME TInv, TableInv, NEW p \in Threads, Undo(p)
  PROVE  TableInv' /\ \E u : StepFor(p, u) /\ phase'[u] # "sent"
<1>1. PICK t \in Tasks : t = cur[p]
  BY CurFacts DEF Undo, Goto, TableInv
<1>2. PICK n \in Nat : n = Len(slots[t])
  BY DEF TInv, TypeOK
<1>3. /\ pc[p] = "undo" /\ pc' = [pc EXCEPT ![p] = "undo"]
      /\ slots[t] # <<>>
      /\ tasks' = [tasks EXCEPT ![Head(slots[t])] = NULL]
      /\ slots' = [slots EXCEPT ![t] = Tail(slots[t])]
      /\ UNCHANGED <<desc, phase, count, vring_idx, cur, cand, head, get_pc,
                     get_task, get_idx>>
  BY <1>1 DEF Undo, UndoOwner, Goto, getVars
<1>4. /\ t # NULL /\ t # get_task /\ phase[t] = "put"
      /\ \A q \in Threads : q # p => cur[q] # t
  BY <1>1, <1>3, CurFacts DEF TableInv
<1>5. slots[t] \in Seq(Slots) /\ n >= 1
  BY <1>2, <1>3 DEF TInv, TypeOK
<1>6. PICK h \in Slots : h = slots[t][1] /\ h = Head(slots[t])
  BY <1>2, <1>5
<1>7. /\ Len(slots'[t]) = n - 1
      /\ \A i \in 1 .. n - 1 : slots'[t][i] = slots[t][i + 1]
  <2>1. slots'[t] = Tail(slots[t])
    BY <1>3 DEF TInv, TypeOK
  <2> QED BY <1>2, <1>5, <2>1
<1>8. /\ tasks[h] = t /\ tasks'[h] = NULL
      /\ \A s \in Slots : s # h => tasks'[s] = tasks[s]
  <2>1. 1 \in 1 .. Len(slots[t])
    BY <1>2, <1>5
  <2> QED BY <1>3, <1>4, <1>6, <2>1 DEF TableInv, OwnInv, TInv, TypeOK
<1>9. StepFor(p, t)
  <2>1. get_pc = "next" => tasks[get_idx] = NULL
    BY DEF TableInv, WalkInv, WalkAt
  <2> QED BY <1>1, <1>3, <1>4, <1>8, <2>1 DEF StepFor, getVars, TInv, TypeOK
<1>10. TaskInv'
  BY <1>1, <1>3, <1>4 DEF TableInv, TaskInv, TInv, TypeOK
<1>11. OwnInv'
  <2>0. \A u \in Tasks : u # t => slots'[u] = slots[u]
    BY <1>3 DEF TInv, TypeOK
  <2>1. ASSUME NEW s \in Slots, tasks'[s] # NULL
        PROVE  \E i \in 1 .. Len(slots'[tasks'[s]]) : slots'[tasks'[s]][i] = s
    <3>1. s # h /\ tasks'[s] = tasks[s] /\ tasks[s] \in Tasks
      BY <1>8, <2>1 DEF TInv, TypeOK
    <3>2. PICK i \in 1 .. Len(slots[tasks[s]]) : slots[tasks[s]][i] = s
      BY <2>1, <3>1 DEF TableInv, OwnInv
    <3>3. CASE tasks[s] = t
      <4>1. i # 1
        BY <1>6, <3>1, <3>2, <3>3
      <4>2. i - 1 \in 1 .. n - 1 /\ (i - 1) + 1 = i
        BY <1>2, <3>2, <3>3, <4>1
      <4>3. slots'[t][i - 1] = s
        BY <1>7, <3>2, <3>3, <4>2
      <4> QED BY <1>7, <3>1, <3>3, <4>2, <4>3
    <3>4. CASE tasks[s] # t
      BY <2>0, <3>1, <3>2, <3>4
    <3> QED BY <3>3, <3>4
  <2>2. ASSUME NEW u \in Tasks, u # get_task, NEW i \in 1 .. Len(slots'[u])
        PROVE  tasks'[slots'[u][i]] = u
    <3>1. CASE u = t
      <4>1. /\ i \in 1 .. n - 1 /\ i + 1 \in 1 .. Len(slots[t])
            /\ i + 1 # 1 /\ 1 \in 1 .. Len(slots[t])
        BY <1>2, <1>5, <1>7, <3>1
      <4>2. tasks[slots[t][i + 1]] = t /\ slots[t][i + 1] \in Slots
        BY <1>4, <4>1, SlotType DEF TableInv, OwnInv, TInv
      <4>3. slots[t][i + 1] # h
        BY <1>6, <4>1 DEF TableInv, OwnInv
      <4> QED BY <1>7, <1>8, <3>1, <4>1, <4>2, <4>3
    <3>2. CASE u # t
      <4>1. slots'[u] = slots[u] /\ tasks[slots[u][i]] = u /\ slots[u][i] \in Slots
        BY <2>0, <2>2, <3>2, SlotType DEF TableInv, OwnInv, TInv
      <4>2. slots[u][i] # h
        BY <1>8, <3>2, <4>1
      <4> QED BY <1>8, <4>1, <4>2
    <3> QED BY <3>1, <3>2
  <2>3. ASSUME NEW u \in Tasks, NEW i \in 1 .. Len(slots'[u]),
               NEW j \in 1 .. Len(slots'[u]), slots'[u][i] = slots'[u][j]
        PROVE  i = j
    <3>1. CASE u = t
      <4>1. /\ i \in 1 .. n - 1 /\ i + 1 \in 1 .. Len(slots[t])
            /\ j \in 1 .. n - 1 /\ j + 1 \in 1 .. Len(slots[t])
        BY <1>2, <1>7, <3>1
      <4>2. slots[t][i + 1] = slots[t][j + 1]
        BY <1>7, <2>3, <3>1, <4>1
      <4>3. i + 1 = j + 1
        BY <4>1, <4>2 DEF TableInv, OwnInv
      <4> QED BY <4>1, <4>3
    <3>2. CASE u # t
      BY <2>0, <2>3, <3>2 DEF TableInv, OwnInv
    <3> QED BY <3>1, <3>2
  <2> QED BY <1>3, <2>1, <2>2, <2>3 DEF OwnInv
<1>12. Stage(p)'
  BY <1>3 DEF Stage, TInv, TypeOK
<1> QED BY <1>3, <1>4, <1>9, <1>10, <1>11, <1>12, ThreadStep

(* ... and when it has none it fails; its task is destroyed. *)
LEMMA RejectTable ==
  ASSUME TInv, TableInv, NEW p \in Threads, Reject(p)
  PROVE  TableInv' /\ \E u : StepFor(p, u) /\ phase'[u] # "sent"
<1>1. PICK t \in Tasks : t = cur[p]
  BY CurFacts DEF Reject, Goto, TableInv
<1>2. /\ pc[p] = "undo" /\ pc' = [pc EXCEPT ![p] = "idle"]
      /\ slots[t] = <<>>
      /\ phase' = [phase EXCEPT ![t] = "free"]
      /\ count' = [count EXCEPT ![t] = 0]
      /\ vring_idx' = [vring_idx EXCEPT ![t] = 0]
      /\ slots' = [slots EXCEPT ![t] = <<>>]
      /\ cur' = [cur EXCEPT ![p] = NULL]
      /\ cand' = [cand EXCEPT ![p] = 0]
      /\ UNCHANGED <<tasks, desc, head, get_pc, get_task, get_idx>>
  BY <1>1 DEF Reject, Destroy, ScanReturns, Goto, tableVars, getVars
<1>3. /\ t # NULL /\ t # get_task /\ phase[t] = "put"
      /\ \A q \in Threads : q # p => cur[q] # t
  BY <1>1, <1>2, CurFacts DEF TableInv
<1>4. slots' = slots
  BY <1>2 DEF TInv, TypeOK
<1>5. StepFor(p, t)
  BY <1>2, <1>3, <1>4 DEF StepFor, getVars, TInv, TypeOK
<1>6. TaskInv'
  BY <1>1, <1>2, <1>3, <1>4 DEF TableInv, TaskInv, TInv, TypeOK
<1>7. OwnInv'
  BY <1>2, <1>4, OwnFrame DEF TableInv
<1>8. Stage(p)' /\ phase'[t] # "sent"
  BY <1>2 DEF Stage, TInv, TypeOK
<1> QED BY <1>5, <1>6, <1>7, <1>8, ThreadStep

(* The hint is nobody's: only the place in the code changes. *)
LEMMA StoreHintTable ==
  ASSUME TInv, TableInv, NEW p \in Threads, StoreHint(p)
  PROVE  TableInv' /\ \E u : StepFor(p, u) /\ phase'[u] # "sent"
<1>1. /\ pc[p] = "store" /\ pc' = [pc EXCEPT ![p] = "link"]
      /\ UNCHANGED <<tasks, desc, phase, count, vring_idx, slots, cur, cand,
                     head, get_pc, get_task, get_idx>>
  BY DEF StoreHint, Goto, getVars, taskVars
<1>2. StepFor(p, cur[p]) /\ phase'[cur[p]] # "sent"
  BY <1>1, CurFacts DEF StepFor, getVars, TInv, TypeOK, TableInv
<1>3. TaskInv'
  BY <1>1 DEF TableInv, TaskInv, TInv, TypeOK
<1>4. OwnInv'
  BY <1>1, OwnFrame DEF TableInv
<1>5. Stage(p)'
  <2>1. Stage(p) /\ pc'[p] = "link"
    BY <1>1 DEF TableInv, StageInv, TInv, TypeOK
  <2> QED BY <1>1, <2>1 DEF Stage, Built
<1> QED BY <1>2, <1>3, <1>4, <1>5, ThreadStep

(* The first slot becomes the head, a later one the next of the last. *)
LEMMA LinkTable ==
  ASSUME TInv, TableInv, NEW p \in Threads, Link(p)
  PROVE  TableInv' /\ \E u : StepFor(p, u) /\ phase'[u] # "sent"
<1>1. PICK t \in Tasks : t = cur[p]
  BY CurFacts DEF Link, Goto, TableInv
<1>2. PICK n \in Nat : n = Len(slots[t])
  BY DEF TInv, TypeOK
<1>3. PICK c \in Slots : c = cand[p]
  BY DEF TInv, TypeOK
<1>4. /\ pc[p] = "link" /\ pc' = [pc EXCEPT ![p] = "desc"]
      /\ IF n = 1
           THEN vring_idx' = [vring_idx EXCEPT ![t] = c] /\ desc' = desc
           ELSE /\ desc' = [desc EXCEPT ![slots[t][n - 1]].next = c]
                /\ vring_idx' = vring_idx
      /\ UNCHANGED <<tasks, phase, count, slots, cur, cand, head, get_pc,
                     get_task, get_idx>>
  BY <1>1, <1>2, <1>3 DEF Link, Goto, getVars
<1>5. /\ t # NULL /\ t # get_task /\ phase[t] = "put" /\ count[t] \in Nat
      /\ \A q \in Threads : q # p => cur[q] # t
  BY <1>1, <1>4, CurFacts DEF TableInv
<1>6. n \in 1 .. count[t] /\ c = slots[t][n] /\ Built(t, n - 1, n - 1)
  BY <1>1, <1>2, <1>3, <1>4 DEF TableInv, StageInv, Stage
<1>7. \A s \in Slots : desc'[s] # desc[s] => n # 1 /\ s = slots[t][n - 1]
  BY <1>4 DEF TInv, TypeOK
<1>8. StepFor(p, t)
  <2>1. ASSUME NEW s \in Slots, desc'[s] # desc[s] PROVE tasks[s] = t
    <3>1. s = slots[t][n - 1] /\ n # 1
      BY <1>7, <2>1
    <3>2. n - 1 \in 1 .. Len(slots[t])
      <4>1. n >= 1
        BY <1>5, <1>6
      <4>2. n \in Nat /\ n # 1
        BY <3>1
      <4>3. n - 1 \in 1 .. n
        BY <4>1, <4>2
      <4> QED BY <1>2, <4>3
    <3> QED BY <1>5, <3>1, <3>2 DEF TableInv, OwnInv
  <2> QED BY <1>4, <1>5, <2>1 DEF StepFor, getVars, TInv, TypeOK
<1>9. TaskInv'
  BY <1>1, <1>4, <1>5 DEF TableInv, TaskInv, TInv, TypeOK
<1>10. OwnInv'
  BY <1>4, OwnFrame DEF TableInv
<1>11. Built(t, n - 1, n)'
  <2>0. /\ slots' = slots /\ count' = count
        /\ \A i \in 1 .. n : slots[t][i] \in Slots
        /\ \A i, j \in 1 .. n : slots[t][i] = slots[t][j] => i = j
    BY <1>2, <1>4, SlotType DEF TableInv, OwnInv, TInv
  <2>1. ASSUME NEW i \in 1 .. n - 1
        PROVE  /\ desc'[slots[t][i]].addr = <<t, i>>
               /\ desc'[slots[t][i]].more = (i < count[t])
    <3>1. /\ desc[slots[t][i]].addr = <<t, i>>
          /\ desc[slots[t][i]].more = (i < count[t])
          /\ slots[t][i] \in Slots
      BY <1>6, <2>0 DEF Built
    <3>2. desc[slots[t][i]] \in Desc /\ desc \in [Slots -> Desc]
      BY <3>1 DEF TInv, TypeOK
    <3>3. CASE desc' = desc
      BY <3>1, <3>3
    <3>4. CASE desc' = [desc EXCEPT ![slots[t][n - 1]].next = c]
      <4>1. CASE slots[t][i] = slots[t][n - 1]
        <5>1. desc'[slots[t][i]] = [desc[slots[t][i]] EXCEPT !.next = c]
          BY <3>1, <3>2, <3>4, <4>1
        <5> QED BY <3>1, <3>2, <5>1 DEF Desc
      <4>2. CASE slots[t][i] # slots[t][n - 1]
        BY <3>1, <3>2, <3>4, <4>2
      <4> QED BY <4>1, <4>2
    <3> QED BY <1>4, <3>3, <3>4
  <2>2. ASSUME NEW i \in 1 .. n - 1
        PROVE  desc'[slots[t][i]].next = slots[t][i + 1]
    <3>1. slots[t][i] \in Slots /\ desc[slots[t][i]] \in Desc
      BY <2>0 DEF TInv, TypeOK
    <3>2. CASE i = n - 1
      <4>1. desc' = [desc EXCEPT ![slots[t][i]].next = c] /\ c = slots[t][i + 1]
        BY <1>4, <1>6, <3>2
      <4> QED BY <3>1, <4>1 DEF Desc, TInv, TypeOK
    <3>3. CASE i # n - 1
      <4>1. i \in 1 .. (n - 1) - 1 /\ i \in 1 .. n /\ n - 1 \in 1 .. n
        BY <3>3
      <4>2. slots[t][i] # slots[t][n - 1]
        BY <2>0, <3>3, <4>1
      <4>3. desc'[slots[t][i]] = desc[slots[t][i]]
        BY <1>7, <3>1, <4>2
      <4> QED BY <1>6, <4>1, <4>3 DEF Built
    <3> QED BY <3>2, <3>3
  <2>3. vring_idx'[t] = slots[t][1]
    <3>1. CASE n = 1
      BY <1>4, <1>6, <3>1 DEF TInv, TypeOK
    <3>2. CASE n # 1
      <4>1. n - 1 >= 1
        BY <1>6, <3>2
      <4> QED BY <1>4, <1>6, <3>2, <4>1 DEF Built
    <3> QED BY <3>1, <3>2
  <2> QED BY <2>0, <2>1, <2>2, <2>3 DEF Built
<1>12. Stage(p)'
  <2>1. /\ pc'[p] = "desc" /\ cur'[p] = t /\ cand'[p] = c
        /\ slots' = slots /\ count' = count
    BY <1>1, <1>3, <1>4 DEF TInv, TypeOK
  <2> QED BY <1>2, <1>6, <1>11, <2>1 DEF Stage
<1> QED BY <1>4, <1>5, <1>8, <1>9, <1>10, <1>12, ThreadStep

(* vring_set_desc completes the descriptor of the slot just linked. *)
LEMMA SetDescTable ==
  ASSUME TInv, TableInv, NEW p \in Threads, SetDesc(p)
  PROVE  TableInv' /\ \E u : StepFor(p, u) /\ phase'[u] # "sent"
<1>1. PICK t \in Tasks : t = cur[p]
  BY CurFacts DEF SetDesc, Goto, TableInv
<1>2. PICK n \in Nat : n = Len(slots[t])
  BY DEF TInv, TypeOK
<1>3. PICK c \in Slots : c = cand[p]
  BY DEF TInv, TypeOK
<1>4. /\ pc[p] = "desc"
      /\ pc' = [pc EXCEPT ![p] = IF n = count[t] THEN "reserve" ELSE "hint"]
      /\ desc' = [desc EXCEPT ![c].addr = <<t, n>>, ![c].more = (n < count[t])]
      /\ UNCHANGED <<tasks, phase, count, vring_idx, slots, cur, cand, head,
                     get_pc, get_task, get_idx>>
  BY <1>1, <1>2, <1>3 DEF SetDesc, HasNext, Goto, getVars, taskVars
<1>5. /\ t # NULL /\ t # get_task /\ phase[t] = "put" /\ count[t] \in Nat
      /\ \A q \in Threads : q # p => cur[q] # t
  BY <1>1, <1>4, CurFacts DEF TableInv
<1>6. n \in 1 .. count[t] /\ c = slots[t][n] /\ Built(t, n - 1, n)
  BY <1>1, <1>2, <1>3, <1>4 DEF TableInv, StageInv, Stage
<1>7. /\ desc'[c].addr = <<t, n>> /\ desc'[c].more = (n < count[t])
      /\ desc'[c].next = desc[c].next
      /\ \A s \in Slots : s # c => desc'[s] = desc[s]
  <2>1. desc[c] \in Desc /\ desc \in [Slots -> Desc]
    BY DEF TInv, TypeOK
  <2> QED BY <1>4, <2>1 DEF Desc
<1>8. StepFor(p, t)
  <2>1. tasks[c] = t
    BY <1>2, <1>5, <1>6 DEF TableInv, OwnInv
  <2> QED BY <1>4, <1>5, <1>7, <2>1 DEF StepFor, getVars, TInv, TypeOK
<1>9. TaskInv'
  BY <1>1, <1>4, <1>5 DEF TableInv, TaskInv, TInv, TypeOK
<1>10. OwnInv'
  BY <1>4, OwnFrame DEF TableInv
<1>11. Built(t, n, n)'
  <2>0. /\ slots' = slots /\ count' = count /\ vring_idx' = vring_idx
        /\ \A i \in 1 .. n : slots[t][i] \in Slots
        /\ \A i, j \in 1 .. n : slots[t][i] = slots[t][j] => i = j
    BY <1>2, <1>4, SlotType DEF TableInv, OwnInv, TInv
  <2>1. ASSUME NEW i \in 1 .. n, i # n
        PROVE  i \in 1 .. n - 1 /\ desc'[slots[t][i]] = desc[slots[t][i]]
    <3>1. i \in 1 .. n - 1 /\ n \in 1 .. n
      BY <2>1
    <3> QED BY <1>6, <1>7, <2>0, <2>1, <3>1
  <2>2. ASSUME NEW i \in 1 .. n
        PROVE  /\ desc'[slots[t][i]].addr = <<t, i>>
               /\ desc'[slots[t][i]].more = (i < count[t])
    <3>1. CASE i = n
      BY <1>6, <1>7, <3>1
    <3>2. CASE i # n
      BY <1>6, <2>1, <3>2 DEF Built
    <3> QED BY <3>1, <3>2
  <2>3. ASSUME NEW i \in 1 .. n - 1
        PROVE  desc'[slots[t][i]].next = slots[t][i + 1]
    BY <1>6, <2>1 DEF Built
  <2>4. vring_idx'[t] = slots[t][1]
    BY <1>6, <2>0 DEF Built
  <2> QED BY <2>0, <2>2, <2>3, <2>4 DEF Built
<1>12. Stage(p)'
  <2>1. cur'[p] = t /\ slots' = slots /\ count' = count
    BY <1>1, <1>4
  <2>2. \/ n = count[t] /\ pc'[p] = "reserve"
        \/ n < count[t] /\ pc'[p] = "hint"
    BY <1>4, <1>5, <1>6 DEF TInv, TypeOK
  <2> QED BY <1>2, <1>11, <2>1, <2>2 DEF Stage
<1> QED BY <1>4, <1>5, <1>8, <1>9, <1>10, <1>12, ThreadStep

(* vring_flush leaves the table alone; it passes the head on. *)
LEMMA FlushTable ==
  ASSUME TInv, TableInv, NEW p \in Threads, Reserve(p) \/ Fill(p)
  PROVE  TableInv' /\ \E u : StepFor(p, u) /\ phase'[u] # "sent"
<1>1. PICK t \in Tasks : t = cur[p]
  BY CurFacts DEF Reserve, Fill, Goto, TableInv
<1>2. /\ \/ pc[p] = "reserve" /\ pc' = [pc EXCEPT ![p] = "fill"]
            /\ head' = [head EXCEPT ![p] = vring_idx[t]]
         \/ pc[p] = "fill" /\ pc' = [pc EXCEPT ![p] = "publish"]
            /\ head' = head
      /\ \A q \in Threads : q # p => cand'[q] = cand[q]
      /\ UNCHANGED <<tasks, desc, phase, count, vring_idx, slots, cur, get_pc,
                     get_task, get_idx>>
  BY <1>1
  DEF Reserve, Fill, ScanReturns, Goto, tableVars, taskVars, getVars, TInv, TypeOK
<1>3. /\ t # NULL /\ t # get_task /\ phase[t] = "put"
      /\ \A q \in Threads : q # p => cur[q] # t
  BY <1>1, <1>2, CurFacts DEF TableInv
<1>4. StepFor(p, t)
  BY <1>2, <1>3 DEF StepFor, getVars, TInv, TypeOK
<1>5. TaskInv'
  BY <1>1, <1>2, <1>3 DEF TableInv, TaskInv, TInv, TypeOK
<1>6. OwnInv'
  BY <1>2, OwnFrame DEF TableInv
<1>7. Stage(p)'
  <2>1. Len(slots[t]) = count[t] /\ Built(t, Len(slots[t]), Len(slots[t]))
    BY <1>1, <1>2 DEF TableInv, StageInv, Stage
  <2>2. pc'[p] \in {"fill", "publish"} /\ head'[p] = vring_idx[t] /\ cur'[p] = t
    <3>1. Stage(p)
      BY DEF TableInv, StageInv
    <3> QED BY <1>1, <1>2, <3>1 DEF TInv, TypeOK, Stage
  <2>3. Built(t, Len(slots[t]), Len(slots[t]))'
    BY <1>2, <2>1 DEF Built
  <2> QED BY <1>2, <2>1, <2>2, <2>3 DEF Stage
<1> QED BY <1>2, <1>3, <1>4, <1>5, <1>6, <1>7, ThreadStep

(* A published task has a complete chain. *)
LEMMA PublishTable ==
  ASSUME TInv, TableInv, NEW p \in Threads, Publish(p)
  PROVE  TableInv'
<1>1. PICK t \in Tasks : t = cur[p]
  BY CurFacts DEF Publish, Goto, TableInv
<1>2. /\ pc[p] = "publish" /\ pc' = [pc EXCEPT ![p] = "kick"]
      /\ phase' = [phase EXCEPT ![t] = "sent"]
      /\ cur' = [cur EXCEPT ![p] = NULL]
      /\ head' = [head EXCEPT ![p] = 0]
      /\ UNCHANGED <<tasks, desc, count, vring_idx, slots, cand, get_pc,
                     get_task, get_idx>>
  BY <1>1 DEF Publish, Goto, tableVars, getVars
<1>3. /\ t # NULL /\ t # get_task /\ phase[t] = "put"
      /\ \A q \in Threads : q # p => cur[q] # t
  BY <1>1, <1>2, CurFacts DEF TableInv
<1>4. StepFor(p, t)
  BY <1>2, <1>3 DEF StepFor, getVars, TInv, TypeOK
<1>5. TaskInv'
  BY <1>1, <1>2, <1>3 DEF TableInv, TaskInv, TInv, TypeOK
<1>6. OwnInv'
  BY <1>2, OwnFrame DEF TableInv
<1>7. Stage(p)'
  BY <1>2 DEF Stage, TInv, TypeOK
<1>8. Len(slots[t]) = count[t] /\ Built(t, count[t], count[t])
  BY <1>1, <1>2 DEF TableInv, StageInv, Stage
<1>9. Len(slots[t])' = count[t]' /\ Built(t, count[t], count[t])'
  BY <1>2, <1>8 DEF Built
<1> QED BY <1>4, <1>5, <1>6, <1>7, <1>9, ThreadStep

(* After the kick vring_put_task returns. *)
LEMMA KickTable ==
  ASSUME TInv, TableInv, NEW p \in Threads, Kick(p)
  PROVE  TableInv'
<1>1. /\ pc[p] = "kick" /\ pc' = [pc EXCEPT ![p] = "idle"]
      /\ UNCHANGED <<tasks, desc, phase, count, vring_idx, slots, cur, cand,
                     head, get_pc, get_task, get_idx>>
  BY DEF Kick, Goto, tableVars, taskVars, getVars
<1>2. TaskInv'
  BY <1>1 DEF TableInv, TaskInv, TInv, TypeOK
<1>3. OwnInv'
  BY <1>1, OwnFrame DEF TableInv
<1>4. StageInv'
  <2> SUFFICES ASSUME NEW q \in Threads PROVE Stage(q)'
    BY DEF StageInv
  <2>1. CASE q = p
    BY <1>1, <2>1 DEF Stage, TInv, TypeOK
  <2>2. CASE q # p
    <3>1. Stage(q) /\ pc'[q] = pc[q]
      BY <1>1, <2>2 DEF TableInv, StageInv, TInv, TypeOK
    <3> QED BY <1>1, <3>1 DEF Stage, Built
  <2> QED BY <2>1, <2>2
<1>5. SentInv' /\ WalkInv'
  BY <1>1 DEF TableInv, SentInv, Built, WalkInv, WalkAt
<1> QED BY <1>2, <1>3, <1>4, <1>5 DEF TableInv

(* The poller and the device write no descriptor: the chains that the      *)
(* threads build stay as they are, those on the ring too.                  *)
LEMMA ChainsKept ==
  ASSUME TInv, TaskInv, StageInv, SentInv, NEW g,
         UNCHANGED <<desc, pc, cur, cand, head>>,
         \A p \in Threads : cur[p] # NULL => cur[p] # g,
         \A t \in Tasks : t # g =>
           /\ slots'[t] = slots[t] /\ count'[t] = count[t]
           /\ vring_idx'[t] = vring_idx[t] /\ phase'[t] = phase[t],
         g \in Tasks => phase'[g] # "sent" \/ g = get_task',
         get_task \in {NULL, g}
  PROVE  StageInv' /\ SentInv'
<1>1. ASSUME NEW q \in Threads PROVE Stage(q)'
  <2>1. CASE pc[q] \in {"idle", "kick"}
    BY <2>1 DEF Stage
  <2>2. CASE pc[q] \notin {"idle", "kick"}
    <3>1. PICK u \in Tasks : u = cur[q]
      BY <2>2, CurFacts
    <3>2. /\ slots'[u] = slots[u] /\ count'[u] = count[u]
          /\ vring_idx'[u] = vring_idx[u] /\ u = cur'[q]
      BY <3>1, TaskAssumption
    <3>3. Stage(q)
      BY DEF StageInv
    <3>4. \A a, l : Built(u, a, l) => Built(u, a, l)'
      BY <3>2 DEF Built
    <3> QED BY <3>1, <3>2, <3>3, <3>4 DEF Stage
  <2> QED BY <2>1, <2>2
<1>2. ASSUME NEW u \in Tasks, phase'[u] = "sent", u # get_task'
      PROVE  Len(slots[u])' = count[u]' /\ Built(u, count[u], count[u])'
  <2>1. u # g
    BY <1>2
  <2>2. /\ slots'[u] = slots[u] /\ count'[u] = count[u]
        /\ vring_idx'[u] = vring_idx[u] /\ phase[u] = "sent" /\ u # get_task
    BY <1>2, <2>1, TaskAssumption
  <2>3. Len(slots[u]) = count[u] /\ Built(u, count[u], count[u])
    BY <2>2 DEF SentInv
  <2> QED BY <2>2, <2>3 DEF Built
<1> QED BY <1>1, <1>2 DEF StageInv, SentInv

(* vring_get_task starts on the head of a chain that was sent. *)
LEMMA GetTaskTable ==
  ASSUME TInv, TableInv, HeadsInv, GetTask
  PROVE  TableInv'
<1>1. /\ get_pc = "idle" /\ get_pc' = "walk"
      /\ get_task' = tasks[UsedHead] /\ get_idx' = UsedHead
      /\ Mask(last_used_idx) # Mask(used_idx)
      /\ UNCHANGED <<tasks, desc, phase, count, vring_idx, slots, pc, cur, cand,
                     head>>
  BY DEF GetTask, UsedEmpty, tableVars, taskVars, threadVars
<1>2. last_used_idx \in UsedPending
  <2>1. last_used_idx # used_idx
    BY <1>1
  <2> QED BY <1>1, <2>1 DEF UsedPending, HeadsInv, TInv, TypeOK
<1>3. SentHead(UsedHead)
  BY <1>2 DEF HeadsInv, UsedHead, UsedAt
<1>4. PICK h \in Slots : h = UsedHead
  BY MaskType DEF UsedHead, TInv, TypeOK
<1>5. PICK g \in Tasks : g = tasks[h]
  BY <1>3, <1>4 DEF SentHead, TInv, TypeOK
<1>6. g # NULL /\ phase[g] = "sent" /\ vring_idx[g] = h /\ get_task = NULL
  BY <1>1, <1>3, <1>4, <1>5, TaskAssumption DEF SentHead, TableInv, TaskInv
<1>7. /\ Len(slots[g]) = count[g] /\ Built(g, count[g], count[g])
      /\ count[g] \in Nat /\ count[g] >= 2
  BY <1>6, TaskAssumption DEF TableInv, SentInv, TaskInv, TInv, TypeOK
<1>8. get_task' = g /\ get_idx' = h
  BY <1>1, <1>4, <1>5
<1>9. TaskInv'
  BY <1>1, <1>6, <1>8 DEF TableInv, TaskInv
<1>10. OwnInv'
  BY <1>1, <1>6, TaskAssumption DEF TableInv, OwnInv
<1>11. StageInv' /\ SentInv'
  <2>1. \A p \in Threads : cur[p] # NULL => cur[p] # g
    BY <1>6 DEF TableInv, TaskInv
  <2> QED BY <1>1, <1>6, <1>8, <2>1, ChainsKept DEF TableInv
<1>12. WalkAt(1)'
  <2>1. h = slots[g][1]
    BY <1>6, <1>7 DEF Built
  <2>2. \A i \in 1 .. count[g] : tasks[slots[g][i]] = g
    BY <1>6, <1>7, TaskAssumption DEF TableInv, OwnInv
  <2>3. /\ \A i \in 1 .. count[g] : desc[slots[g][i]].more = (i < count[g])
        /\ \A i \in 1 .. count[g] - 1 : desc[slots[g][i]].next = slots[g][i + 1]
    BY <1>7 DEF Built
  <2> QED BY <1>1, <1>7, <1>8, <2>1, <2>2, <2>3 DEF WalkAt
<1>13. WalkInv'
  <2>1. 1 \in 1 .. count'[get_task']
    BY <1>1, <1>7, <1>8
  <2> QED BY <1>12, <2>1 DEF WalkInv
<1> QED BY <1>9, <1>10, <1>11, <1>13 DEF TableInv

(* Where the poller is while it walks. *)
LEMMA WalkFacts ==
  ASSUME TInv, TableInv, get_pc # "idle"
  PROVE  \E g \in Tasks, n \in Nat : \E k \in 1 .. n :
           /\ g = get_task /\ g # NULL /\ n = count[g] /\ WalkAt(k)
           /\ phase[g] = "sent"
           /\ Len(slots[g]) = n /\ get_idx = slots[g][k] /\ get_idx \in Slots
           /\ \A i \in 1 .. n : slots[g][i] \in Slots
           /\ \A i, j \in 1 .. n : slots[g][i] = slots[g][j] => i = j
           /\ \A p \in Threads : cur[p] # NULL => cur[p] # g
<1>1. PICK g \in Tasks : g = get_task
  BY DEF TInv, TypeOK, TableInv, TaskInv
<1>2. PICK n \in Nat : n = count[g]
  BY DEF TInv, TypeOK
<1>3. PICK k \in 1 .. n : WalkAt(k)
  BY <1>1, <1>2 DEF TableInv, WalkInv
<1>4. Len(slots[g]) = n /\ get_idx = slots[g][k] /\ get_idx \in Slots
  BY <1>1, <1>2, <1>3 DEF WalkAt, TInv, TypeOK
<1>5. /\ \A i \in 1 .. n : slots[g][i] \in Slots
      /\ \A i, j \in 1 .. n : slots[g][i] = slots[g][j] => i = j
  BY <1>4, SlotType DEF TableInv, OwnInv, TInv
<1>6. /\ phase[g] = "sent" /\ g # NULL
      /\ \A p \in Threads : cur[p] # NULL => cur[p] # g
  BY <1>1, TaskAssumption DEF TableInv, TaskInv
<1> QED BY <1>1, <1>2, <1>3, <1>4, <1>5, <1>6

(* It releases the slot it stands on ... *)
LEMMA FreeSlotTable ==
  ASSUME TInv, TableInv, FreeSlot
  PROVE  TableInv'
<1>1. /\ get_pc = "walk" /\ get_pc' = "next"
      /\ desc[get_idx].more
      /\ tasks' = [tasks EXCEPT ![get_idx] = NULL]
      /\ UNCHANGED <<desc, phase, count, vring_idx, slots, pc, cur, cand, head,
                     get_task, get_idx>>
  BY DEF FreeSlot, taskVars, threadVars
<1>2. PICK g \in Tasks, n \in Nat : \E k \in 1 .. n :
        /\ g = get_task /\ g # NULL /\ n = count[g] /\ WalkAt(k)
        /\ phase[g] = "sent"
        /\ Len(slots[g]) = n /\ get_idx = slots[g][k] /\ get_idx \in Slots
        /\ \A i \in 1 .. n : slots[g][i] \in Slots
        /\ \A i, j \in 1 .. n : slots[g][i] = slots[g][j] => i = j
        /\ \A p \in Threads : cur[p] # NULL => cur[p] # g
  BY <1>1, WalkFacts, Zenon
<1>3. PICK k \in 1 .. n :
        /\ g = get_task /\ g # NULL /\ n = count[g] /\ WalkAt(k)
        /\ phase[g] = "sent"
        /\ Len(slots[g]) = n /\ get_idx = slots[g][k] /\ get_idx \in Slots
        /\ \A i \in 1 .. n : slots[g][i] \in Slots
        /\ \A i, j \in 1 .. n : slots[g][i] = slots[g][j] => i = j
        /\ \A p \in Threads : cur[p] # NULL => cur[p] # g
  BY <1>2, Zenon
<1>4. k < n /\ tasks[get_idx] = g
  <2>1. k \in k .. n
    OBVIOUS
  <2>2. desc[slots[g][k]].more = (k < n)
    BY <1>3, <2>1 DEF WalkAt
  <2>3. k < n
    BY <1>1, <1>3, <2>2
  <2>4. tasks[slots[g][k]] = g
    BY <1>1, <1>3 DEF WalkAt
  <2> QED BY <1>3, <2>3, <2>4
<1>5. \A s \in Slots : tasks'[s] = IF s = get_idx THEN NULL ELSE tasks[s]
  BY <1>1 DEF TInv, TypeOK
<1>6. TaskInv'
  BY <1>1, <1>3 DEF TableInv, TaskInv
<1>7. OwnInv'
  <2>1. ASSUME NEW u \in Tasks, u # g, NEW i \in 1 .. Len(slots[u])
        PROVE  tasks'[slots[u][i]] = u
    <3>1. tasks[slots[u][i]] = u /\ slots[u][i] \in Slots
      BY <1>3, <2>1, SlotType DEF TableInv, OwnInv, TInv
    <3> QED BY <1>4, <1>5, <2>1, <3>1
  <2> QED BY <1>1, <1>3, <1>5, <2>1 DEF TableInv, OwnInv
<1>8. StageInv' /\ SentInv'
  BY <1>1, <1>3, ChainsKept DEF TableInv
<1>9. WalkAt(k)'
  <2>1. \A i \in 1 .. n : tasks'[slots[g][i]] = g <=> k < i
    <3> SUFFICES ASSUME NEW i \in 1 .. n PROVE tasks'[slots[g][i]] = g <=> k < i
      OBVIOUS
    <3>1. tasks[slots[g][i]] = g <=> k <= i
      BY <1>1, <1>3 DEF WalkAt
    <3>2. slots[g][i] = get_idx <=> i = k
      BY <1>3
    <3> QED BY <1>3, <1>5, <3>1, <3>2
  <2> QED BY <1>1, <1>3, <1>4, <1>5, <2>1 DEF WalkAt
<1>10. WalkInv'
  BY <1>1, <1>3, <1>9 DEF WalkInv
<1> QED BY <1>6, <1>7, <1>8, <1>10 DEF TableInv

(* ... follows its next field, which is still the one the thread wrote ... *)
LEMMA ReadNextTable ==
  ASSUME TInv, TableInv, ReadNext
  PROVE  TableInv'
<1>1. /\ get_pc = "next" /\ get_pc' = "walk"
      /\ get_idx' = desc[get_idx].next
      /\ UNCHANGED <<tasks, desc, phase, count, vring_idx, slots, pc, cur, cand,
                     head, get_task>>
  BY DEF ReadNext, WalkNext, tableVars, taskVars, threadVars
<1>2. PICK g \in Tasks, n \in Nat : \E k \in 1 .. n :
        /\ g = get_task /\ g # NULL /\ n = count[g] /\ WalkAt(k)
        /\ phase[g] = "sent"
        /\ Len(slots[g]) = n /\ get_idx = slots[g][k] /\ get_idx \in Slots
        /\ \A i \in 1 .. n : slots[g][i] \in Slots
        /\ \A i, j \in 1 .. n : slots[g][i] = slots[g][j] => i = j
        /\ \A p \in Threads : cur[p] # NULL => cur[p] # g
  BY <1>1, WalkFacts, Zenon
<1>3. PICK k \in 1 .. n :
        /\ g = get_task /\ g # NULL /\ n = count[g] /\ WalkAt(k)
        /\ Len(slots[g]) = n /\ get_idx = slots[g][k]
        /\ \A p \in Threads : cur[p] # NULL => cur[p] # g
  BY <1>2, Zenon
<1>4. k < n /\ get_idx' = slots[g][k + 1] /\ k + 1 \in 1 .. n
  BY <1>1, <1>3 DEF WalkAt
<1>5. TaskInv'
  BY <1>1, <1>3 DEF TableInv, TaskInv
<1>6. OwnInv'
  BY <1>1, OwnFrame DEF TableInv
<1>7. StageInv' /\ SentInv'
  BY <1>1, <1>3, ChainsKept DEF TableInv
<1>8. WalkAt(k + 1)'
  <2>1. \A i \in 1 .. n : tasks[slots[g][i]] = g <=> k + 1 <= i
    BY <1>1, <1>3 DEF WalkAt
  <2> QED BY <1>1, <1>3, <1>4, <2>1 DEF WalkAt
<1>9. WalkInv'
  BY <1>1, <1>3, <1>4, <1>8 DEF WalkInv
<1> QED BY <1>5, <1>6, <1>7, <1>9 DEF TableInv

(* ... and at the last slot has released them all. *)
LEMMA GetDoneTable ==
  ASSUME TInv, TableInv, GetDone
  PROVE  TableInv'
<1>1. /\ get_pc = "walk" /\ get_pc' = "idle" /\ get_task' = NULL
      /\ ~desc[get_idx].more
      /\ tasks' = [tasks EXCEPT ![get_idx] = NULL]
      /\ phase' = [phase EXCEPT ![get_task] = "free"]
      /\ count' = [count EXCEPT ![get_task] = 0]
      /\ vring_idx' = [vring_idx EXCEPT ![get_task] = 0]
      /\ slots' = [slots EXCEPT ![get_task] = <<>>]
      /\ UNCHANGED <<desc, pc, cur, cand, head>>
  BY DEF GetDone, Destroy, threadVars
<1>2. PICK g \in Tasks, n \in Nat : \E k \in 1 .. n :
        /\ g = get_task /\ g # NULL /\ n = count[g] /\ WalkAt(k)
        /\ phase[g] = "sent"
        /\ Len(slots[g]) = n /\ get_idx = slots[g][k] /\ get_idx \in Slots
        /\ \A i \in 1 .. n : slots[g][i] \in Slots
        /\ \A i, j \in 1 .. n : slots[g][i] = slots[g][j] => i = j
        /\ \A p \in Threads : cur[p] # NULL => cur[p] # g
  BY <1>1, WalkFacts, Zenon
<1>3. PICK k \in 1 .. n :
        /\ g = get_task /\ g # NULL /\ n = count[g] /\ WalkAt(k)
        /\ Len(slots[g]) = n /\ get_idx = slots[g][k] /\ get_idx \in Slots
        /\ \A i, j \in 1 .. n : slots[g][i] = slots[g][j] => i = j
        /\ \A p \in Threads : cur[p] # NULL => cur[p] # g
  BY <1>2, Zenon
<1>4. k = n /\ tasks[get_idx] = g
  <2>1. k \in k .. n
    OBVIOUS
  <2>2. desc[slots[g][k]].more = (k < n)
    BY <1>3, <2>1 DEF WalkAt
  <2>3. ~(k < n)
    BY <1>1, <1>3, <2>2
  <2>4. tasks[slots[g][k]] = g
    BY <1>1, <1>3 DEF WalkAt
  <2> QED BY <1>3, <2>3, <2>4
<1>5. \A s \in Slots : tasks'[s] = IF s = get_idx THEN NULL ELSE tasks[s]
  BY <1>1 DEF TInv, TypeOK
<1>6. /\ \A u \in Tasks : u # g =>
           /\ slots'[u] = slots[u] /\ count'[u] = count[u]
           /\ vring_idx'[u] = vring_idx[u] /\ phase'[u] = phase[u]
      /\ slots'[g] = <<>> /\ phase'[g] = "free"
  BY <1>1, <1>3 DEF TInv, TypeOK
<1>7. TaskInv'
  <2>1. \A p \in Threads : cur[p] # NULL => cur[p] \in Tasks /\ phase'[cur[p]] = "put"
    BY <1>3, <1>6 DEF TableInv, TaskInv, TInv, TypeOK
  <2> QED BY <1>1, <1>3, <1>6, <2>1 DEF TableInv, TaskInv
<1>8. OwnInv'
  <2>1. ASSUME NEW s \in Slots, tasks'[s] # NULL
        PROVE  \E i \in 1 .. Len(slots'[tasks'[s]]) : slots'[tasks'[s]][i] = s
    <3>1. s # get_idx /\ tasks'[s] = tasks[s] /\ tasks[s] \in Tasks
      BY <1>5, <2>1 DEF TInv, TypeOK
    <3>2. PICK i \in 1 .. Len(slots[tasks[s]]) : slots[tasks[s]][i] = s
      BY <2>1, <3>1 DEF TableInv, OwnInv
    <3>3. tasks[s] # g
      <4> SUFFICES ASSUME tasks[s] = g PROVE FALSE
        OBVIOUS
      <4>1. i \in 1 .. n /\ slots[g][i] = s /\ tasks[slots[g][i]] = g
        BY <1>3, <3>2
      <4>2. n <= i
        BY <1>1, <1>3, <1>4, <4>1 DEF WalkAt
      <4>3. i = k
        BY <1>4, <4>1, <4>2
      <4> QED BY <1>3, <3>1, <4>1, <4>3
    <3> QED BY <1>6, <3>1, <3>2, <3>3
  <2>2. ASSUME NEW u \in Tasks, NEW i \in 1 .. Len(slots'[u])
        PROVE  tasks'[slots'[u][i]] = u
    <3>1. u # g
      BY <1>6
    <3>2. slots'[u] = slots[u] /\ tasks[slots[u][i]] = u /\ slots[u][i] \in Slots
      BY <1>3, <1>6, <3>1, SlotType DEF TableInv, OwnInv, TInv
    <3> QED BY <1>4, <1>5, <3>1, <3>2
  <2>3. ASSUME NEW u \in Tasks, NEW i \in 1 .. Len(slots'[u]),
               NEW j \in 1 .. Len(slots'[u]), slots'[u][i] = slots'[u][j]
        PROVE  i = j
    <3>1. u # g
      BY <1>6
    <3>2. slots'[u] = slots[u]
      BY <1>6, <3>1
    <3>3. \A x, y \in 1 .. Len(slots[u]) : slots[u][x] = slots[u][y] => x = y
      BY DEF TableInv, OwnInv
    <3> QED BY <2>3, <3>2, <3>3
  <2> QED BY <2>1, <2>2, <2>3 DEF OwnInv
<1>9. StageInv' /\ SentInv'
  BY <1>1, <1>3, <1>6, ChainsKept DEF TableInv
<1>10. WalkInv'
  BY <1>1 DEF WalkInv
<1> QED BY <1>7, <1>8, <1>9, <1>10 DEF TableInv

-----------------------------------------------------------------------------
(***************************************************************************)
(* The way round the ring.                                                 *)
(***************************************************************************)

(* As many indices as there are different slots for them. *)
LEMMA DistinctBound ==
  ASSUME NEW a \in Int, NEW b \in Int, NEW f \in [a .. b -> Slots],
         \A i, j \in a .. b : f[i] = f[j] => i = j
  PROVE  b - a + 1 <= Num
<1>1. f \in Injection(a .. b, Slots)
  BY DEF Injection, IsInjective
<1>2. IsFiniteSet(Slots) /\ Cardinality(Slots) = Num
  BY FS_Interval, RingAssumption DEF Slots
<1>3. Cardinality(a .. b) <= Num
  BY <1>1, <1>2, FS_Injection
<1>4. Cardinality(a .. b) = IF a > b THEN 0 ELSE b - a + 1
  BY FS_Interval
<1> QED BY <1>3, <1>4, RingAssumption

(* The head of a task that is being published or was: its first slot. *)
LEMMA HeadOwner ==
  ASSUME TInv, TableInv, NEW t \in Tasks, t # get_task,
         \/ phase[t] = "sent"
         \/ \E p \in Threads : t = cur[p] /\ pc[p] \in {"reserve", "fill", "publish"}
  PROVE  /\ vring_idx[t] = slots[t][1] /\ vring_idx[t] \in Slots
         /\ tasks[vring_idx[t]] = t
         /\ Len(slots[t]) = count[t] /\ count[t] \in 2 .. Num
<1>1. phase[t] # "free"
  BY TaskAssumption DEF TableInv, TaskInv
<1>2. Len(slots[t]) = count[t] /\ Built(t, count[t], count[t])
  BY DEF TableInv, StageInv, Stage, SentInv
<1>3. count[t] \in 2 .. Num
  BY <1>1, TaskAssumption DEF TableInv, TaskInv
<1>4. vring_idx[t] = slots[t][1] /\ 1 \in 1 .. Len(slots[t])
  BY <1>2, <1>3, RingAssumption DEF Built
<1>5. tasks[slots[t][1]] = t
  BY <1>4 DEF TableInv, OwnInv
<1>6. vring_idx[t] \in Slots
  BY DEF TInv, TypeOK
<1> QED BY <1>2, <1>3, <1>4, <1>5, <1>6

(* The entries that wait for the device and those being filled are fewer   *)
(* than the cells of the avail ring.                                       *)
LEMMA AvailBound ==
  ASSUME TInv, PubInv, TableInv, FlowInv
  PROVE  last_avail_idx - dev_avail <= Num
<1> DEFINE I == dev_avail .. last_avail_idx - 1
           w(j) == CHOOSE p \in Flushing : resv[p] = j
           f == [j \in I |-> IF j < avail_idx THEN AvailAt(j) ELSE head[w(j)]]
<1>0. dev_avail \in Nat /\ avail_idx \in Nat /\ last_avail_idx \in Nat
  BY DEF TInv, TypeOK
<1>1. ASSUME NEW j \in I, j < avail_idx
      PROVE  /\ f[j] = AvailAt(j) /\ f[j] \in Slots /\ SentHead(f[j])
             /\ j \in AvailPending
  <2>1. f[j] = AvailAt(j)
    BY <1>1
  <2>2. AvailAt(j) \in Slots
    BY <1>0, MaskType DEF AvailAt, TInv, TypeOK
  <2>3. j \in AvailPending
    BY <1>0, <1>1 DEF AvailPending
  <2> HIDE DEF f
  <2> QED BY <2>1, <2>2, <2>3 DEF FlowInv, HeadsInv
<1>2. ASSUME NEW j \in I, ~(j < avail_idx)
      PROVE  /\ w(j) \in Threads /\ resv[w(j)] = j
             /\ f[j] \in Slots /\ tasks[f[j]] = cur[w(j)]
             /\ cur[w(j)] \in Tasks /\ phase[cur[w(j)]] = "put"
  <2>1. \E p \in Flushing : resv[p] = j
    BY <1>0, <1>2 DEF PubInv, ResvInv, ResvCover
  <2>2. w(j) \in Flushing /\ resv[w(j)] = j
    BY <2>1, Zenon
  <2>3. f[j] = head[w(j)]
    BY <1>2
  <2> HIDE DEF f, w
  <2>4. w(j) \in Threads /\ pc[w(j)] \in {"fill", "publish"}
    BY <2>2 DEF Flushing
  <2>5. cur[w(j)] \in Tasks /\ cur[w(j)] # get_task /\ phase[cur[w(j)]] = "put"
    BY <2>4, CurFacts DEF TableInv
  <2>6. head[w(j)] = vring_idx[cur[w(j)]]
    BY <2>4 DEF TableInv, StageInv, Stage
  <2> QED BY <2>2, <2>3, <2>4, <2>5, <2>6, HeadOwner
<1>3. f \in [I -> Slots]
  <2>1. \A j \in I : f[j] \in Slots
    BY <1>1, <1>2
  <2> QED BY <2>1
<1> HIDE DEF f, w
<1>4. ASSUME NEW i \in I, NEW j \in I, f[i] = f[j] PROVE i = j
  <2>1. CASE i < avail_idx /\ j < avail_idx
    BY <1>1, <1>4, <2>1 DEF FlowInv, OnceInv
  <2>2. CASE i < avail_idx /\ ~(j < avail_idx)
    BY <1>1, <1>2, <1>4, <2>2 DEF SentHead
  <2>3. CASE ~(i < avail_idx) /\ j < avail_idx
    BY <1>1, <1>2, <1>4, <2>3 DEF SentHead
  <2>4. CASE ~(i < avail_idx) /\ ~(j < avail_idx)
    <3>1. cur[w(i)] = cur[w(j)] /\ cur[w(i)] # NULL
      BY <1>2, <1>4, <2>4, TaskAssumption
    <3>2. w(i) = w(j)
      BY <1>2, <2>4, <3>1 DEF TableInv, TaskInv
    <3> QED BY <1>2, <2>4, <3>2
  <2> QED BY <2>1, <2>2, <2>3, <2>4
<1>5. (last_avail_idx - 1) - dev_avail + 1 <= Num
  BY <1>0, <1>3, <1>4, DistinctBound
<1> QED BY <1>0, <1>5, RingAssumption

(* A completion finds a cell of the used ring that the poller is done with.*)
LEMMA UsedBound ==
  ASSUME TInv, FlowInv, NEW d \in 1 .. Len(dev_held), NEW j \in UsedPending
  PROVE  used_idx < j + Num
<1>0. used_idx \in Nat /\ j \in Nat /\ j < used_idx /\ dev_held \in Seq(Slots)
  BY DEF TInv, TypeOK, UsedPending
<1> DEFINE f == [i \in j .. used_idx |->
                   IF i < used_idx THEN UsedAt(i) ELSE dev_held[d]]
<1>1. \A i \in j .. used_idx : i < used_idx => i \in UsedPending
  BY <1>0 DEF UsedPending, TInv, TypeOK
<1>2. f \in [j .. used_idx -> Slots]
  <2>1. \A i \in j .. used_idx : UsedAt(i) \in Slots
    BY <1>0, MaskType DEF UsedAt, TInv, TypeOK
  <2>2. dev_held[d] \in Slots
    BY <1>0
  <2> QED BY <2>1, <2>2
<1>3. ASSUME NEW i \in j .. used_idx, NEW k \in j .. used_idx, f[i] = f[k]
      PROVE  i = k
  <2>1. CASE i < used_idx /\ k < used_idx
    BY <1>1, <1>3, <2>1 DEF FlowInv, OnceInv
  <2>2. CASE i < used_idx /\ ~(k < used_idx)
    BY <1>1, <1>3, <2>2 DEF FlowInv, OnceInv
  <2>3. CASE ~(i < used_idx) /\ k < used_idx
    BY <1>1, <1>3, <2>3 DEF FlowInv, OnceInv
  <2>4. CASE ~(i < used_idx) /\ ~(k < used_idx)
    BY <1>0, <2>4
  <2> QED BY <2>1, <2>2, <2>3, <2>4
<1> HIDE DEF f
<1>4. used_idx - j + 1 <= Num
  BY <1>0, <1>2, <1>3, DistinctBound
<1> QED BY <1>0, <1>4, RingAssumption

(* The steps that move no task and overwrite no entry. *)
LEMMA FlowFrame ==
  ASSUME FlowInv, dev_held' = dev_held, AvailPending' = AvailPending,
         UsedPending' = UsedPending,
         (dev_avail <= avail_idx)', (last_used_idx <= used_idx)',
         (get_pc # "idle" => last_used_idx < used_idx)',
         \A j \in AvailPending : AvailAt(j)' = AvailAt(j) /\ AvailAt(j) \in Slots,
         \A j \in UsedPending : UsedAt(j)' = UsedAt(j) /\ UsedAt(j) \in Slots,
         \A j \in 1 .. Len(dev_held) : dev_held[j] \in Slots,
         \A h \in Slots : SentHead(h) => SentHead(h)',
         \A t \in Tasks : phase'[t] = "sent" /\ t # get_task' =>
           phase[t] = "sent" /\ t # get_task /\ vring_idx'[t] = vring_idx[t]
  PROVE  FlowInv'
<1>1. HeadsInv'
  BY DEF FlowInv, HeadsInv
<1>2. OnceInv'
  BY DEF FlowInv, OnceInv
<1>3. CoverInv'
  <2> SUFFICES ASSUME NEW t \in Tasks, phase'[t] = "sent", t # get_task'
               PROVE  (\/ \E j \in AvailPending : AvailAt(j) = vring_idx[t]
                       \/ \E j \in 1 .. Len(dev_held) : dev_held[j] = vring_idx[t]
                       \/ \E j \in UsedPending : UsedAt(j) = vring_idx[t])'
    BY DEF CoverInv
  <2>1. phase[t] = "sent" /\ t # get_task /\ vring_idx'[t] = vring_idx[t]
    OBVIOUS
  <2>2. \/ \E j \in AvailPending : AvailAt(j) = vring_idx[t]
        \/ \E j \in 1 .. Len(dev_held) : dev_held[j] = vring_idx[t]
        \/ \E j \in UsedPending : UsedAt(j) = vring_idx[t]
    BY <2>1 DEF FlowInv, CoverInv
  <2> QED BY <2>1, <2>2
<1> QED BY <1>1, <1>2, <1>3 DEF FlowInv

(* The types of the pending entries. *)
LEMMA EntryTypes ==
  ASSUME TInv
  PROVE  /\ \A j \in AvailPending : j \in Nat /\ AvailAt(j) \in Slots
         /\ \A j \in UsedPending : j \in Nat /\ UsedAt(j) \in Slots
         /\ \A j \in 1 .. Len(dev_held) : dev_held[j] \in Slots
<1>1. ASSUME NEW j \in AvailPending PROVE j \in Nat /\ AvailAt(j) \in Slots
  <2>1. j \in Nat
    BY DEF AvailPending, TInv, TypeOK
  <2> QED BY <2>1, MaskType DEF AvailAt, TInv, TypeOK
<1>2. ASSUME NEW j \in UsedPending PROVE j \in Nat /\ UsedAt(j) \in Slots
  <2>1. j \in Nat
    BY DEF UsedPending, TInv, TypeOK
  <2> QED BY <2>1, MaskType DEF UsedAt, TInv, TypeOK
<1>3. \A j \in 1 .. Len(dev_held) : dev_held[j] \in Slots
  BY DEF TInv, TypeOK
<1> QED BY <1>1, <1>2, <1>3

(* A step that concerns a task off the ring leaves the heads on it alone. *)
LEMMA HeadsKept ==
  ASSUME TInv, NEW p, NEW t, StepFor(p, t), NEW h \in Slots, SentHead(h)
  PROVE  SentHead(h)' /\ tasks'[h] = tasks[h]
<1>1. tasks[h] \in Tasks /\ tasks[h] # NULL /\ tasks[h] # t
  BY DEF SentHead, StepFor, TInv, TypeOK
<1>2. tasks'[h] = tasks[h] /\ get_task' = get_task
  BY <1>1 DEF StepFor, getVars
<1> QED BY <1>1, <1>2 DEF SentHead, StepFor

(* All steps of vring_put_task but the publication. *)
LEMMA PutFlow ==
  ASSUME TInv, FlowInv, NEW p, NEW t, StepFor(p, t), phase'[t] # "sent",
         UNCHANGED <<avail_idx, used_ring, used_idx, last_used_idx, dev_avail,
                     dev_held>>,
         \A j \in AvailPending : AvailAt(j)' = AvailAt(j)
  PROVE  FlowInv'
<1>1. UNCHANGED <<get_pc, get_task>>
  BY DEF StepFor, getVars
<1>2. AvailPending' = AvailPending /\ UsedPending' = UsedPending
  BY <1>1 DEF AvailPending, UsedPending
<1>3. \A j \in UsedPending : UsedAt(j)' = UsedAt(j)
  BY DEF UsedAt, Mask, Reg
<1>4. \A u \in Tasks : phase'[u] = "sent" /\ u # get_task' =>
        phase[u] = "sent" /\ u # get_task /\ vring_idx'[u] = vring_idx[u]
  BY <1>1 DEF StepFor
<1>5. /\ (dev_avail <= avail_idx)' /\ (last_used_idx <= used_idx)'
      /\ (get_pc # "idle" => last_used_idx < used_idx)'
  BY <1>1 DEF FlowInv, HeadsInv
<1> QED BY <1>2, <1>3, <1>4, <1>5, EntryTypes, HeadsKept, FlowFrame

(* Fill writes a cell that holds no pending entry. *)
LEMMA FillFlow ==
  ASSUME TInv, PubInv, TableInv, FlowInv, NEW p \in Threads, Fill(p)
  PROVE  FlowInv'
<1>1. /\ pc[p] = "fill"
      /\ avail_ring' = [avail_ring EXCEPT ![Mask(resv[p])] = head[p]]
      /\ UNCHANGED <<avail_idx, used_ring, used_idx, last_used_idx, dev_avail,
                     dev_held>>
  BY DEF Fill, Cell, Goto, usedVars, devVars
<1>2. ASSUME NEW j \in AvailPending PROVE AvailAt(j)' = AvailAt(j)
  <2>1. p \in Flushing /\ resv[p] \in Nat /\ j \in Nat
    BY <1>1, EntryTypes DEF Flushing, TInv, TypeOK
  <2>2. /\ avail_idx <= resv[p] /\ resv[p] < last_avail_idx
        /\ dev_avail <= j /\ j < avail_idx
    BY <2>1 DEF PubInv, ResvInv, ResvRange, AvailPending, TInv, TypeOK
  <2>3. resv[p] # j /\ resv[p] < j + Num /\ j < resv[p] + Num
    BY <2>1, <2>2, AvailBound, RingAssumption DEF TInv, TypeOK
  <2>4. Mask(resv[p]) # Mask(j) /\ Mask(j) \in Slots
    BY <2>1, <2>3, MaskInj, MaskType
  <2> QED BY <1>1, <2>4 DEF AvailAt, Mask, Reg, TInv, TypeOK
<1>3. PICK u : StepFor(p, u) /\ phase'[u] # "sent"
  BY FlushTable
<1> QED BY <1>1, <1>2, <1>3, PutFlow

(* Publish adds the head of the task to what the device may fetch. *)
LEMMA PublishFlow ==
  ASSUME TInv, PubInv, TableInv, FlowInv, NEW p \in Threads, Publish(p)
  PROVE  FlowInv'
<1>1. PICK t \in Tasks : t = cur[p]
  BY CurFacts DEF Publish, Goto, TableInv
<1>2. /\ pc[p] = "publish" /\ Reg(avail_idx) = Reg(resv[p])
      /\ avail_idx' = avail_idx + 1
      /\ phase' = [phase EXCEPT ![t] = "sent"]
      /\ UNCHANGED <<tasks, vring_idx, avail_ring, used_ring, used_idx,
                     last_used_idx,
                     dev_avail, dev_held, get_pc, get_task>>
  BY <1>1 DEF Publish, MayPublish, Goto, tableVars, usedVars, devVars, getVars
<1>3. t # NULL /\ t # get_task /\ phase[t] = "put"
  BY <1>1, <1>2, CurFacts DEF TableInv
<1>4. PICK h \in Slots : h = vring_idx[t]
  BY DEF TInv, TypeOK
<1>5. tasks[h] = t
  BY <1>1, <1>2, <1>3, <1>4, HeadOwner
<1>6. AvailAt(avail_idx) = h
  <2>1. p \in Flushing
    BY <1>2 DEF Flushing
  <2>2. resv[p] = avail_idx
    BY <1>2, <2>1, TurnExact DEF PubInv, TInv
  <2>3. avail_ring[Mask(resv[p])] = head[p]
    BY <1>2 DEF PubInv, PublishedCellIsOwn
  <2>4. head[p] = h
    BY <1>1, <1>2, <1>4 DEF TableInv, StageInv, Stage
  <2> QED BY <2>2, <2>3, <2>4 DEF AvailAt
<1>7. /\ AvailPending' = AvailPending \cup {avail_idx} /\ UsedPending' = UsedPending
      /\ avail_idx \notin AvailPending
  BY <1>2 DEF AvailPending, UsedPending, FlowInv, HeadsInv, TInv, TypeOK
<1>8. /\ \A j : AvailAt(j)' = AvailAt(j) /\ UsedAt(j)' = UsedAt(j)
      /\ dev_held' = dev_held
  BY <1>2 DEF AvailAt, UsedAt, Mask, Reg
<1>9. \A x \in Slots : SentHead(x) => x # h /\ SentHead(x)'
  BY <1>2, <1>3, <1>5 DEF SentHead, TInv, TypeOK
<1>10. SentHead(h)'
  BY <1>2, <1>3, <1>4, <1>5 DEF SentHead, TInv, TypeOK
<1>11. HeadsInv'
  <2>1. /\ (dev_avail <= avail_idx)' /\ (last_used_idx <= used_idx)'
        /\ (get_pc # "idle" => last_used_idx < used_idx)'
    BY <1>2 DEF FlowInv, HeadsInv, TInv, TypeOK
  <2>2. \A j \in AvailPending' : SentHead(AvailAt(j))'
    BY <1>6, <1>7, <1>8, <1>9, <1>10, EntryTypes DEF FlowInv, HeadsInv
  <2>3. \A j \in UsedPending' : SentHead(UsedAt(j))'
    BY <1>7, <1>8, <1>9, EntryTypes DEF FlowInv, HeadsInv
  <2>4. \A j \in 1 .. Len(dev_held') : SentHead(dev_held[j])'
    BY <1>8, <1>9, EntryTypes DEF FlowInv, HeadsInv
  <2> QED BY <2>1, <2>2, <2>3, <2>4 DEF HeadsInv
<1>12. OnceInv'
  <2>1. /\ \A j \in AvailPending : AvailAt(j) # h
        /\ \A j \in UsedPending : UsedAt(j) # h
        /\ \A j \in 1 .. Len(dev_held) : dev_held[j] # h
    BY <1>9, EntryTypes DEF FlowInv, HeadsInv
  <2> QED BY <1>6, <1>7, <1>8, <2>1 DEF FlowInv, OnceInv
<1>13. CoverInv'
  <2> SUFFICES ASSUME NEW u \in Tasks, phase'[u] = "sent", u # get_task'
               PROVE  (\/ \E j \in AvailPending : AvailAt(j) = vring_idx[u]
                       \/ \E j \in 1 .. Len(dev_held) : dev_held[j] = vring_idx[u]
                       \/ \E j \in UsedPending : UsedAt(j) = vring_idx[u])'
    BY DEF CoverInv
  <2>1. CASE u = t
    <3>1. PICK a \in Nat : a = avail_idx
      BY DEF TInv, TypeOK
    <3>2. a \in AvailPending' /\ AvailAt(a)' = h /\ vring_idx'[u] = h
      BY <1>2, <1>4, <1>6, <1>7, <1>8, <2>1, <3>1
    <3> QED BY <3>2
  <2>2. CASE u # t
    <3>1. phase[u] = "sent" /\ u # get_task /\ vring_idx'[u] = vring_idx[u]
      BY <1>2, <2>2 DEF TInv, TypeOK
    <3>2. \/ \E j \in AvailPending : AvailAt(j) = vring_idx[u]
          \/ \E j \in 1 .. Len(dev_held) : dev_held[j] = vring_idx[u]
          \/ \E j \in UsedPending : UsedAt(j) = vring_idx[u]
      BY <3>1 DEF FlowInv, CoverInv
    <3> QED BY <1>7, <1>8, <3>1, <3>2
  <2> QED BY <2>1, <2>2
<1> QED BY <1>11, <1>12, <1>13 DEF FlowInv

(* The device and the poller's own steps do not change which heads are     *)
(* those of sent tasks.                                                    *)
LEMMA SameHeads ==
  ASSUME UNCHANGED <<tasks, phase, vring_idx, get_task>>
  PROVE  \A h : SentHead(h)' <=> SentHead(h)
BY DEF SentHead

(* The device fetches the oldest entry of the avail ring. *)
LEMMA DevFetchFlow ==
  ASSUME TInv, FlowInv, DevFetch
  PROVE  FlowInv'
<1>1. /\ Reg(dev_avail) # Reg(avail_idx)
      /\ dev_held' = Append(dev_held, AvailAt(dev_avail))
      /\ dev_avail' = dev_avail + 1
      /\ UNCHANGED <<avail_ring, avail_idx, used_ring, used_idx, last_used_idx,
                     tasks, phase, vring_idx, get_pc, get_task>>
  BY DEF DevFetch, AvailAt, availVars, usedVars, tableVars, taskVars, getVars
<1>2. PICK a \in Nat : a = dev_avail
  BY DEF TInv, TypeOK
<1>3. PICK n \in Nat : n = Len(dev_held)
  BY DEF TInv, TypeOK
<1>4. a < avail_idx
  BY <1>1, <1>2 DEF FlowInv, HeadsInv, TInv, TypeOK
<1>5. /\ a \in AvailPending /\ AvailPending' = AvailPending \ {a}
      /\ UsedPending' = UsedPending
  BY <1>1, <1>2, <1>4 DEF AvailPending, UsedPending, TInv, TypeOK
<1>6. /\ \A j : AvailAt(j)' = AvailAt(j) /\ UsedAt(j)' = UsedAt(j)
      /\ \A h : SentHead(h)' <=> SentHead(h)
  BY <1>1, SameHeads DEF AvailAt, UsedAt, Mask, Reg
<1>7. /\ Len(dev_held') = n + 1 /\ dev_held'[n + 1] = AvailAt(a)
      /\ \A j \in 1 .. n : dev_held'[j] = dev_held[j]
  <2>1. dev_held \in Seq(Slots) /\ AvailAt(a) \in Slots
    BY <1>5, EntryTypes DEF TInv, TypeOK
  <2> QED BY <1>1, <1>2, <1>3, <2>1
<1>8. HeadsInv'
  <2>1. /\ (dev_avail <= avail_idx)' /\ (last_used_idx <= used_idx)'
        /\ (get_pc # "idle" => last_used_idx < used_idx)'
    BY <1>1, <1>2, <1>4 DEF FlowInv, HeadsInv, TInv, TypeOK
  <2>2. /\ \A j \in AvailPending' : SentHead(AvailAt(j))'
        /\ \A j \in UsedPending' : SentHead(UsedAt(j))'
    BY <1>5, <1>6 DEF FlowInv, HeadsInv
  <2>3. ASSUME NEW j \in 1 .. Len(dev_held') PROVE SentHead(dev_held[j])'
    <3>1. j \in 1 .. n \/ j = n + 1
      BY <1>7
    <3>2. SentHead(dev_held'[j])
      BY <1>3, <1>5, <1>7, <3>1 DEF FlowInv, HeadsInv
    <3> QED BY <1>6, <3>2
  <2> QED BY <2>1, <2>2, <2>3 DEF HeadsInv
<1>9. OnceInv'
  <2>0. \A j \in 1 .. Len(dev_held') : j \in 1 .. n \/ j = n + 1
    BY <1>7
  <2>1. \A j \in 1 .. n : dev_held[j] # AvailAt(a)
    BY <1>3, <1>5 DEF FlowInv, OnceInv
  <2>2. \A i, j \in 1 .. n : dev_held[i] = dev_held[j] => i = j
    BY <1>3 DEF FlowInv, OnceInv
  <2>3. ASSUME NEW i \in 1 .. Len(dev_held'), NEW j \in 1 .. Len(dev_held'),
               dev_held'[i] = dev_held'[j]
        PROVE  i = j
    BY <1>7, <2>0, <2>1, <2>2, <2>3
  <2>4. ASSUME NEW i \in AvailPending', NEW j \in 1 .. Len(dev_held')
        PROVE  AvailAt(i) # dev_held'[j]
    <3>1. i \in AvailPending /\ i # a
      BY <1>5
    <3>2. AvailAt(i) # AvailAt(a)
      BY <1>5, <3>1 DEF FlowInv, OnceInv
    <3>3. \A k \in 1 .. n : AvailAt(i) # dev_held[k]
      BY <1>3, <3>1 DEF FlowInv, OnceInv
    <3> QED BY <1>7, <2>0, <3>2, <3>3
  <2>5. ASSUME NEW i \in 1 .. Len(dev_held'), NEW j \in UsedPending
        PROVE  dev_held'[i] # UsedAt(j)
    <3>1. AvailAt(a) # UsedAt(j)
      BY <1>5 DEF FlowInv, OnceInv
    <3>2. \A k \in 1 .. n : dev_held[k] # UsedAt(j)
      BY <1>3 DEF FlowInv, OnceInv
    <3> QED BY <1>7, <2>0, <3>1, <3>2
  <2>6. /\ \A i, j \in AvailPending' : AvailAt(i) = AvailAt(j) => i = j
        /\ \A i, j \in UsedPending : UsedAt(i) = UsedAt(j) => i = j
        /\ \A i \in AvailPending', j \in UsedPending : AvailAt(i) # UsedAt(j)
    BY <1>5 DEF FlowInv, OnceInv
  <2> QED BY <1>5, <1>6, <2>3, <2>4, <2>5, <2>6 DEF OnceInv
<1>10. CoverInv'
  <2> SUFFICES ASSUME NEW u \in Tasks, phase[u] = "sent", u # get_task
               PROVE  (\/ \E j \in AvailPending : AvailAt(j) = vring_idx[u]
                       \/ \E j \in 1 .. Len(dev_held) : dev_held[j] = vring_idx[u]
                       \/ \E j \in UsedPending : UsedAt(j) = vring_idx[u])'
    BY <1>1 DEF CoverInv
  <2>1. CASE \E j \in AvailPending : AvailAt(j) = vring_idx[u]
    <3>1. PICK j \in AvailPending : AvailAt(j) = vring_idx[u]
      BY <2>1
    <3>2. CASE j = a
      <4>1. n + 1 \in 1 .. Len(dev_held') /\ dev_held'[n + 1] = vring_idx'[u]
        BY <1>1, <1>7, <3>1, <3>2
      <4> QED BY <4>1
    <3>3. CASE j # a
      <4>1. j \in AvailPending' /\ AvailAt(j)' = vring_idx'[u]
        BY <1>1, <1>5, <1>6, <3>1, <3>3
      <4> QED BY <4>1
    <3> QED BY <3>2, <3>3
  <2>2. CASE \E j \in 1 .. Len(dev_held) : dev_held[j] = vring_idx[u]
    <3>1. PICK j \in 1 .. n : dev_held[j] = vring_idx[u]
      BY <1>3, <2>2
    <3>2. j \in 1 .. Len(dev_held') /\ dev_held'[j] = vring_idx'[u]
      BY <1>1, <1>7, <3>1
    <3> QED BY <3>2
  <2>3. CASE \E j \in UsedPending : UsedAt(j) = vring_idx[u]
    BY <1>1, <1>5, <1>6, <2>3
  <2> QED BY <2>1, <2>2, <2>3 DEF FlowInv, CoverInv
<1> QED BY <1>8, <1>9, <1>10 DEF FlowInv

(* What is left when the device pushes the chain at position i. *)
LEMMA RemoveFacts ==
  ASSUME NEW S, NEW s \in Seq(S), NEW n \in Nat, n = Len(s), NEW i \in 1 .. n
  PROVE  /\ Len(Remove(s, i)) = n - 1
         /\ \A j \in 1 .. n - 1 : Remove(s, i)[j] = IF j < i THEN s[j] ELSE s[j + 1]
<1> DEFINE a == SubSeq(s, 1, i - 1)
           b == SubSeq(s, i + 1, n)
<1>1. /\ a \in Seq(S) /\ Len(a) = i - 1
      /\ \A j \in 1 .. i - 1 : a[j] = s[j]
  OBVIOUS
<1>2. /\ b \in Seq(S) /\ Len(b) = n - i
      /\ \A j \in 1 .. n - i : b[j] = s[j + i]
  OBVIOUS
<1>3. Remove(s, i) = a \o b
  BY DEF Remove
<1> HIDE DEF a, b
<1>4. /\ Len(a \o b) = n - 1
      /\ \A j \in 1 .. n - 1 :
           (a \o b)[j] = IF j <= i - 1 THEN a[j] ELSE b[j - (i - 1)]
  <2>1. /\ Len(a \o b) = Len(a) + Len(b)
        /\ \A j \in 1 .. Len(a) + Len(b) :
             (a \o b)[j] = IF j <= Len(a) THEN a[j] ELSE b[j - Len(a)]
    BY <1>1, <1>2, ConcatProperties
  <2>2. Len(a) + Len(b) = n - 1 /\ Len(a) = i - 1
    BY <1>1, <1>2
  <2> HIDE DEF a, b
  <2> QED BY <2>1, <2>2, Zenon
<1>5. ASSUME NEW j \in 1 .. n - 1
      PROVE  (a \o b)[j] = IF j < i THEN s[j] ELSE s[j + 1]
  <2>1. CASE j < i
    BY <1>1, <1>4, <2>1
  <2>2. CASE ~(j < i)
    <3>1. j - (i - 1) \in 1 .. n - i /\ (j - (i - 1)) + i = j + 1
      BY <2>2
    <3>2. b[j - (i - 1)] = s[j + 1]
      BY <1>2, <3>1
    <3> QED BY <1>4, <2>2, <3>2
  <2> QED BY <2>1, <2>2
<1> QED BY <1>3, <1>4, <1>5

(* The device completes one of the chains it holds. *)
LEMMA DevCompleteFlow ==
  ASSUME TInv, FlowInv, DevComplete
  PROVE  FlowInv'
<1>1. PICK d \in 1 .. Len(dev_held) :
        /\ used_ring' = [used_ring EXCEPT ![Mask(used_idx)] = dev_held[d]]
        /\ dev_held' = Remove(dev_held, d)
  BY DEF DevComplete
<1>2. /\ used_idx' = used_idx + 1
      /\ UNCHANGED <<avail_ring, avail_idx, last_used_idx, dev_avail,
                     tasks, phase, vring_idx, get_pc, get_task>>
  BY DEF DevComplete, availVars, tableVars, taskVars, getVars
<1>3. PICK n \in Nat : n = Len(dev_held)
  BY DEF TInv, TypeOK
<1>4. PICK e \in Nat : e = used_idx
  BY DEF TInv, TypeOK
<1>5. /\ Len(dev_held') = n - 1
      /\ \A j \in 1 .. n - 1 :
           dev_held'[j] = IF j < d THEN dev_held[j] ELSE dev_held[j + 1]
  <2>1. dev_held \in Seq(Slots) /\ d \in 1 .. n
    BY <1>3 DEF TInv, TypeOK
  <2> QED BY <1>1, <1>3, <2>1, RemoveFacts
<1>6. \A j \in 1 .. n - 1 : \E i \in 1 .. n :
        dev_held'[j] = dev_held[i] /\ i # d /\ i = IF j < d THEN j ELSE j + 1
  <2> SUFFICES ASSUME NEW j \in 1 .. n - 1
               PROVE  \E i \in 1 .. n : dev_held'[j] = dev_held[i] /\ i # d
                                        /\ i = IF j < d THEN j ELSE j + 1
    OBVIOUS
  <2>1. d \in Nat
    BY <1>3
  <2>2. CASE j < d
    BY <1>5, <2>1, <2>2
  <2>3. CASE ~(j < d)
    <3>1. j + 1 \in 1 .. n /\ j + 1 # d
      BY <2>1, <2>3
    <3> QED BY <1>5, <2>3, <3>1
  <2> QED BY <2>2, <2>3
<1>7. AvailPending' = AvailPending /\ UsedPending' = UsedPending \cup {e}
      /\ e \notin UsedPending
  BY <1>2, <1>4 DEF AvailPending, UsedPending, FlowInv, HeadsInv, TInv, TypeOK
<1>8. /\ \A j : AvailAt(j)' = AvailAt(j)
      /\ \A h : SentHead(h)' <=> SentHead(h)
  BY <1>2, SameHeads DEF AvailAt, Mask, Reg
<1>9. UsedAt(e)' = dev_held[d] /\ \A j \in UsedPending : UsedAt(j)' = UsedAt(j)
  <2>1. Mask(e) \in Slots
    BY MaskType
  <2>2. used_ring'[Mask(e)] = dev_held[d]
    BY <1>1, <1>4, <2>1 DEF TInv, TypeOK
  <2>3. ASSUME NEW j \in UsedPending PROVE used_ring'[Mask(j)] = used_ring[Mask(j)]
    <3>1. j \in Nat /\ j < e /\ e < j + Num
      BY <1>4, EntryTypes, UsedBound DEF UsedPending, TInv, TypeOK
    <3>2. Mask(j) # Mask(e) /\ Mask(j) \in Slots
      BY <3>1, MaskInj, MaskType, RingAssumption
    <3> QED BY <1>1, <1>4, <3>2 DEF TInv, TypeOK
  <2> QED BY <2>2, <2>3 DEF UsedAt
<1>10. HeadsInv'
  <2>1. /\ (dev_avail <= avail_idx)' /\ (last_used_idx <= used_idx)'
        /\ (get_pc # "idle" => last_used_idx < used_idx)'
    BY <1>2 DEF FlowInv, HeadsInv, TInv, TypeOK
  <2>2. \A j \in AvailPending' : SentHead(AvailAt(j))'
    BY <1>7, <1>8 DEF FlowInv, HeadsInv
  <2>3. \A j \in UsedPending' : SentHead(UsedAt(j))'
    BY <1>7, <1>8, <1>9 DEF FlowInv, HeadsInv
  <2>4. ASSUME NEW j \in 1 .. Len(dev_held') PROVE SentHead(dev_held[j])'
    <3>1. PICK i \in 1 .. n : dev_held'[j] = dev_held[i]
      BY <1>5, <1>6
    <3> QED BY <1>3, <1>8, <3>1 DEF FlowInv, HeadsInv
  <2> QED BY <2>1, <2>2, <2>3, <2>4 DEF HeadsInv
<1>11. OnceInv'
  <2>1. ASSUME NEW i \in 1 .. Len(dev_held'), NEW j \in 1 .. Len(dev_held'),
               dev_held'[i] = dev_held'[j]
        PROVE  i = j
    <3>1. PICK k \in 1 .. n : dev_held'[i] = dev_held[k]
                               /\ k = IF i < d THEN i ELSE i + 1
      BY <1>5, <1>6
    <3>2. PICK m \in 1 .. n : dev_held'[j] = dev_held[m]
                               /\ m = IF j < d THEN j ELSE j + 1
      BY <1>5, <1>6
    <3>3. k = m
      BY <1>3, <2>1, <3>1, <3>2 DEF FlowInv, OnceInv
    <3> QED BY <1>3, <1>5, <3>1, <3>2, <3>3
  <2>2. ASSUME NEW i \in AvailPending, NEW j \in 1 .. Len(dev_held')
        PROVE  AvailAt(i) # dev_held'[j]
    <3>1. PICK k \in 1 .. n : dev_held'[j] = dev_held[k]
      BY <1>5, <1>6
    <3> QED BY <1>3, <3>1 DEF FlowInv, OnceInv
  <2>3. ASSUME NEW i \in 1 .. Len(dev_held'), NEW j \in UsedPending'
        PROVE  dev_held'[i] # UsedAt(j)'
    <3>1. PICK k \in 1 .. n : dev_held'[i] = dev_held[k] /\ k # d
      BY <1>5, <1>6
    <3>2. CASE j = e
      BY <1>3, <1>9, <3>1, <3>2 DEF FlowInv, OnceInv
    <3>3. CASE j # e
      BY <1>3, <1>7, <1>9, <3>1, <3>3 DEF FlowInv, OnceInv
    <3> QED BY <3>2, <3>3
  <2>4. \A i \in AvailPending, j \in UsedPending' : AvailAt(i) # UsedAt(j)'
    BY <1>7, <1>9 DEF FlowInv, OnceInv
  <2>5. \A i, j \in UsedPending' : UsedAt(i)' = UsedAt(j)' => i = j
    BY <1>7, <1>9 DEF FlowInv, OnceInv
  <2>6. \A i, j \in AvailPending : AvailAt(i) = AvailAt(j) => i = j
    BY DEF FlowInv, OnceInv
  <2> QED BY <1>7, <1>8, <2>1, <2>2, <2>3, <2>4, <2>5, <2>6 DEF OnceInv
<1>12. CoverInv'
  <2> SUFFICES ASSUME NEW u \in Tasks, phase[u] = "sent", u # get_task
               PROVE  (\/ \E j \in AvailPending : AvailAt(j) = vring_idx[u]
                       \/ \E j \in 1 .. Len(dev_held) : dev_held[j] = vring_idx[u]
                       \/ \E j \in UsedPending : UsedAt(j) = vring_idx[u])'
    BY <1>2 DEF CoverInv
  <2>1. CASE \E j \in AvailPending : AvailAt(j) = vring_idx[u]
    BY <1>2, <1>7, <1>8, <2>1
  <2>2. CASE \E j \in 1 .. Len(dev_held) : dev_held[j] = vring_idx[u]
    <3>1. PICK j \in 1 .. n : dev_held[j] = vring_idx[u]
      BY <1>3, <2>2
    <3>2. CASE j = d
      <4>1. e \in UsedPending' /\ UsedAt(e)' = vring_idx'[u]
        BY <1>2, <1>7, <1>9, <3>1, <3>2
      <4> QED BY <4>1
    <3>3. CASE j < d
      <4>1. j \in 1 .. n - 1 /\ d \in Nat
        BY <1>3, <3>3
      <4>2. j \in 1 .. Len(dev_held') /\ dev_held'[j] = vring_idx'[u]
        BY <1>2, <1>5, <3>1, <3>3, <4>1
      <4> QED BY <4>2
    <3>4. CASE d < j
      <4>1. j - 1 \in 1 .. n - 1 /\ ~(j - 1 < d) /\ (j - 1) + 1 = j
        BY <1>3, <3>4
      <4>2. j - 1 \in 1 .. Len(dev_held') /\ dev_held'[j - 1] = vring_idx'[u]
        BY <1>2, <1>5, <3>1, <4>1
      <4> QED BY <4>2
    <3> QED BY <1>3, <3>2, <3>3, <3>4
  <2>3. CASE \E j \in UsedPending : UsedAt(j) = vring_idx[u]
    BY <1>2, <1>7, <1>9, <2>3
  <2> QED BY <2>1, <2>2, <2>3 DEF FlowInv, CoverInv
<1> QED BY <1>10, <1>11, <1>12 DEF FlowInv

(* The poller takes the oldest used entry: its task leaves the rings. *)
LEMMA GetTaskFlow ==
  ASSUME TInv, TableInv, FlowInv, GetTask
  PROVE  FlowInv'
<1>1. /\ get_pc = "idle" /\ get_pc' = "walk"
      /\ get_task' = tasks[UsedHead]
      /\ Mask(last_used_idx) # Mask(used_idx)
      /\ UNCHANGED <<tasks, phase, vring_idx, avail_ring, avail_idx, used_ring,
                     used_idx, last_used_idx, dev_avail, dev_held>>
  BY DEF GetTask, UsedEmpty, tableVars, taskVars, availVars, usedVars, devVars
<1>2. PICK e \in Nat : e = last_used_idx
  BY DEF TInv, TypeOK
<1>3. e < used_idx
  BY <1>1, <1>2 DEF FlowInv, HeadsInv, TInv, TypeOK
<1>4. /\ e \in UsedPending /\ UsedPending' = UsedPending \ {e}
      /\ AvailPending' = AvailPending
  BY <1>1, <1>2, <1>3 DEF UsedPending, AvailPending, TInv, TypeOK
<1>5. PICK h \in Slots : h = UsedAt(e) /\ h = UsedHead
  BY <1>2, <1>4, EntryTypes DEF UsedAt, UsedHead
<1>6. SentHead(h) /\ get_task' = tasks[h]
  BY <1>1, <1>4, <1>5 DEF FlowInv, HeadsInv
<1>7. \A j : AvailAt(j)' = AvailAt(j) /\ UsedAt(j)' = UsedAt(j)
  BY <1>1 DEF AvailAt, UsedAt, Mask, Reg
<1>8. \A x \in Slots : SentHead(x) /\ x # h => SentHead(x)'
  BY <1>1, <1>6 DEF SentHead
<1>9. /\ \A j \in AvailPending : AvailAt(j) # h
      /\ \A j \in 1 .. Len(dev_held) : dev_held[j] # h
      /\ \A j \in UsedPending' : UsedAt(j) # h
  BY <1>4, <1>5 DEF FlowInv, OnceInv
<1>10. HeadsInv'
  <2>1. /\ (dev_avail <= avail_idx)' /\ (last_used_idx <= used_idx)'
        /\ (get_pc # "idle" => last_used_idx < used_idx)'
    BY <1>1, <1>2, <1>3 DEF FlowInv, HeadsInv
  <2>2. \A j \in AvailPending' : SentHead(AvailAt(j))'
    BY <1>4, <1>7, <1>8, <1>9, EntryTypes DEF FlowInv, HeadsInv
  <2>3. \A j \in UsedPending' : SentHead(UsedAt(j))'
    BY <1>4, <1>7, <1>8, <1>9, EntryTypes DEF FlowInv, HeadsInv
  <2>4. \A j \in 1 .. Len(dev_held') : SentHead(dev_held[j])'
    BY <1>1, <1>8, <1>9, EntryTypes DEF FlowInv, HeadsInv
  <2> QED BY <2>1, <2>2, <2>3, <2>4 DEF HeadsInv
<1>11. OnceInv'
  BY <1>1, <1>4, <1>7 DEF FlowInv, OnceInv
<1>12. CoverInv'
  <2> SUFFICES ASSUME NEW u \in Tasks, phase[u] = "sent", u # get_task'
               PROVE  (\/ \E j \in AvailPending : AvailAt(j) = vring_idx[u]
                       \/ \E j \in 1 .. Len(dev_held) : dev_held[j] = vring_idx[u]
                       \/ \E j \in UsedPending : UsedAt(j) = vring_idx[u])'
    BY <1>1 DEF CoverInv
  <2>1. u # get_task
    BY <1>1, TaskAssumption DEF TableInv, TaskInv
  <2>2. vring_idx[u] # h
    BY <1>6, <2>1, HeadOwner
  <2>3. \/ \E j \in AvailPending : AvailAt(j) = vring_idx[u]
        \/ \E j \in 1 .. Len(dev_held) : dev_held[j] = vring_idx[u]
        \/ \E j \in UsedPending : UsedAt(j) = vring_idx[u]
    BY <2>1 DEF FlowInv, CoverInv
  <2>4. ASSUME NEW j \in UsedPending, UsedAt(j) = vring_idx[u]
        PROVE  j \in UsedPending'
    BY <1>4, <1>5, <2>2, <2>4
  <2> QED BY <1>1, <1>4, <1>7, <2>3, <2>4
<1> QED BY <1>10, <1>11, <1>12 DEF FlowInv

(* The slot the poller is about to release is still its task's. *)
LEMMA WalkOwn ==
  ASSUME TInv, TableInv, get_pc = "walk"
  PROVE  tasks[get_idx] = get_task
<1>1. get_task \in Tasks
  BY DEF TableInv, TaskInv, TInv, TypeOK
<1>2. count[get_task] \in Nat
  BY <1>1 DEF TInv, TypeOK
<1>3. PICK k \in 1 .. count[get_task] : WalkAt(k)
  BY DEF TableInv, WalkInv
<1> QED BY <1>2, <1>3 DEF WalkAt

(* While it walks and when it is done, the entries stay as they are. *)
LEMMA WalkFlow ==
  ASSUME TInv, TableInv, FlowInv, FreeSlot \/ ReadNext \/ GetDone
  PROVE  FlowInv'
<1>1. /\ get_pc \in {"walk", "next"}
      /\ UNCHANGED <<avail_ring, avail_idx, used_ring, used_idx, dev_avail,
                     dev_held>>
      /\ tasks' = tasks \/ (tasks' = [tasks EXCEPT ![get_idx] = NULL] /\ get_pc = "walk")
      /\ \/ /\ get_pc' # "idle" /\ get_task' = get_task
            /\ UNCHANGED <<phase, vring_idx, last_used_idx>>
         \/ /\ get_pc' = "idle" /\ get_task' = NULL /\ last_used_idx' = last_used_idx + 1
            /\ phase' = [phase EXCEPT ![get_task] = "free"]
            /\ vring_idx' = [vring_idx EXCEPT ![get_task] = 0]
  BY DEF FreeSlot, ReadNext, GetDone, Destroy, tableVars, taskVars, availVars,
         usedVars, devVars
<1>2. get_pc = "walk" => tasks[get_idx] = get_task
  BY WalkOwn
<1>3. AvailPending' = AvailPending /\ UsedPending' = UsedPending
  BY <1>1 DEF AvailPending, UsedPending, TInv, TypeOK
<1>4. /\ \A j \in AvailPending : AvailAt(j)' = AvailAt(j)
      /\ \A j \in UsedPending : UsedAt(j)' = UsedAt(j)
  BY <1>1 DEF AvailAt, UsedAt, Mask, Reg
<1>5. /\ (dev_avail <= avail_idx)' /\ (last_used_idx <= used_idx)'
      /\ (get_pc # "idle" => last_used_idx < used_idx)'
  BY <1>1 DEF FlowInv, HeadsInv, TInv, TypeOK
<1>6. ASSUME NEW h \in Slots, SentHead(h) PROVE SentHead(h)'
  <2>1. tasks[h] \in Tasks /\ tasks[h] # get_task /\ tasks[h] # NULL
    BY <1>6 DEF SentHead, TInv, TypeOK
  <2>2. tasks'[h] = tasks[h]
    BY <1>1, <1>2, <2>1 DEF TInv, TypeOK
  <2>3. /\ phase'[tasks[h]] = phase[tasks[h]] /\ vring_idx'[tasks[h]] = vring_idx[tasks[h]]
        /\ tasks[h] # get_task'
    BY <1>1, <2>1 DEF TInv, TypeOK
  <2> QED BY <1>6, <2>2, <2>3 DEF SentHead
<1>7. ASSUME NEW u \in Tasks, phase'[u] = "sent", u # get_task'
      PROVE  phase[u] = "sent" /\ u # get_task /\ vring_idx'[u] = vring_idx[u]
  BY <1>1, <1>7 DEF TInv, TypeOK
<1> QED BY <1>1, <1>3, <1>4, <1>5, <1>6, <1>7, EntryTypes, FlowFrame

-----------------------------------------------------------------------------
(* The parts together. *)
RingInv == TInv /\ PubInv /\ TableInv /\ FlowInv

(* An empty ring. *)
LEMMA InitRingInv == Init => RingInv
<1> SUFFICES ASSUME Init PROVE RingInv
  OBVIOUS
<1>1. TInv /\ PubInv
  BY InitTInv, InitPubInv
<1>2. TaskInv /\ OwnInv
  BY DEF Init, TaskInv, OwnInv
<1>3. StageInv /\ SentInv /\ WalkInv
  BY DEF Init, StageInv, Stage, SentInv, WalkInv
<1>4. HeadsInv /\ OnceInv /\ CoverInv
  BY DEF Init, HeadsInv, OnceInv, CoverInv, AvailPending, UsedPending
<1> QED BY <1>1, <1>2, <1>3, <1>4 DEF RingInv, TableInv, FlowInv

(* The steps of vring_put_task and vring_flush that send nothing. *)
OffRing(p) ==
  \/ \E t \in Tasks, c \in Counts : Call(p, t, c)
  \/ ReadHint(p) \/ Skip(p) \/ ClaimElsewhere(p) \/ Undo(p) \/ Reject(p)
  \/ StoreHint(p) \/ Link(p) \/ SetDesc(p) \/ Reserve(p) \/ Fill(p)

(* Each of them concerns one task, which stays off the ring. *)
LEMMA OffRingStep ==
  ASSUME TInv, TableInv, NEW p \in Threads, OffRing(p)
  PROVE  /\ TableInv'
         /\ \E u : StepFor(p, u) /\ phase'[u] # "sent"
         /\ UNCHANGED <<avail_idx, used_ring, used_idx, last_used_idx,
                        dev_avail, dev_held>>
         /\ avail_ring' = avail_ring \/ Fill(p)
<1>1. TableInv' /\ \E u : StepFor(p, u) /\ phase'[u] # "sent"
  <2>1. CASE \E t \in Tasks, c \in Counts : Call(p, t, c)
    BY <2>1, CallTable
  <2>2. CASE ReadHint(p) \/ Skip(p)
    BY <2>2, SearchTable
  <2>3. CASE ClaimElsewhere(p)
    BY <2>3, ClaimTable
  <2>4. CASE Undo(p)
    BY <2>4, UndoTable
  <2>5. CASE Reject(p)
    BY <2>5, RejectTable
  <2>6. CASE StoreHint(p)
    BY <2>6, StoreHintTable
  <2>7. CASE Link(p)
    BY <2>7, LinkTable
  <2>8. CASE SetDesc(p)
    BY <2>8, SetDescTable
  <2>9. CASE Reserve(p) \/ Fill(p)
    BY <2>9, FlushTable
  <2> QED BY <2>1, <2>2, <2>3, <2>4, <2>5, <2>6, <2>7, <2>8, <2>9 DEF OffRing
<1>2. /\ UNCHANGED <<avail_idx, used_ring, used_idx, last_used_idx,
                     dev_avail, dev_held>>
      /\ avail_ring' = avail_ring \/ Fill(p)
  BY DEF OffRing, Call, ReadHint, Skip, ClaimElsewhere, Claim, Undo, Reject,
     StoreHint, Link, SetDesc, Reserve, Fill, availVars, usedVars, devVars
<1> QED BY <1>1, <1>2

(* Every step of a thread, of the poller and of the device keeps it. *)
LEMMA NextRingInv == RingInv /\ [SerialNext]_vars => RingInv'
<1> SUFFICES ASSUME RingInv, [SerialNext]_vars PROVE RingInv'
  OBVIOUS
<1>0. TInv /\ PubInv /\ TableInv /\ FlowInv /\ HeadsInv
  BY DEF RingInv, FlowInv
<1>1. TInv' /\ PubInv'
  <2>1. [Next]_vars
    BY DEF SerialNext, Next, SerialPut, ClaimElsewhere, Put
  <2> QED BY <1>0, <2>1, NextTInv, NextPubInv
<1> SUFFICES TableInv' /\ FlowInv'
  BY <1>1 DEF RingInv
<1>2. ASSUME NEW p \in Threads, OffRing(p)
      PROVE  TableInv' /\ FlowInv'
  <2>1. PICK u : StepFor(p, u) /\ phase'[u] # "sent"
    BY <1>0, <1>2, OffRingStep
  <2>2. CASE avail_ring' = avail_ring
    <3>1. \A j \in AvailPending : AvailAt(j)' = AvailAt(j)
      BY <2>2 DEF AvailAt, Mask, Reg
    <3> QED BY <1>0, <1>2, <2>1, <3>1, OffRingStep, PutFlow
  <2>3. CASE Fill(p)
    BY <1>0, <1>2, <2>3, OffRingStep, FillFlow
  <2> QED BY <1>0, <1>2, <2>2, <2>3, OffRingStep
<1>3. ASSUME NEW p \in Threads, Publish(p)
       PROVE  TableInv' /\ FlowInv'
  BY <1>0, <1>3, PublishTable, PublishFlow
<1>4. ASSUME UNCHANGED <<tasks, desc, phase, count, vring_idx, slots, pc, cur, cand,
                          head, get_pc, get_task, get_idx>>
       PROVE  TableInv'
  <2>1. TaskInv'
    BY <1>0, <1>4 DEF TableInv, TaskInv
  <2>2. OwnInv'
    BY <1>0, <1>4 DEF TableInv, OwnInv
  <2>3. StageInv'
    BY <1>0, <1>4, ZenonT(40) DEF TableInv, StageInv, Stage, Built
  <2>4. SentInv' /\ WalkInv'
    BY <1>0, <1>4 DEF TableInv, SentInv, Built, WalkInv, WalkAt
  <2> QED BY <2>1, <2>2, <2>3, <2>4 DEF TableInv
<1>5. ASSUME UNCHANGED <<tasks, phase, vring_idx, get_pc, get_task, avail_ring,
                         avail_idx,
                          used_ring, used_idx, last_used_idx, dev_avail, dev_held>>
       PROVE  FlowInv'
  BY <1>0, <1>5 DEF FlowInv, HeadsInv, OnceInv, CoverInv, SentHead, AvailAt, UsedAt,
     AvailPending, UsedPending, Mask, Reg
<1>6. ASSUME NEW p \in Threads, Kick(p)
       PROVE  TableInv' /\ FlowInv'
  <2>1. TableInv'
    BY <1>0, <1>6, KickTable
  <2> QED BY <1>5, <1>6, <2>1 DEF Kick, tableVars, taskVars, getVars, availVars,
             usedVars, devVars
<1>7. CASE GetTask
  BY <1>0, <1>7, GetTaskTable, GetTaskFlow
<1>8. CASE FreeSlot \/ ReadNext \/ GetDone
  BY <1>0, <1>8, FreeSlotTable, ReadNextTable, GetDoneTable, WalkFlow
<1>9. CASE DevFetch \/ DevComplete
  <2>1. TableInv'
    BY <1>4, <1>9
    DEF DevFetch, DevComplete, tableVars, taskVars, threadVars, getVars
  <2> QED BY <1>0, <1>9, <2>1, DevFetchFlow, DevCompleteFlow
<1>10. CASE DevArm \/ DevBlock \/ DevWake \/ UNCHANGED vars
  <2>1. UNCHANGED <<tasks, desc, phase, count, vring_idx, slots, pc, cur, cand,
                    head,
                    get_pc, get_task, get_idx, avail_ring, avail_idx, used_ring, used_idx,
                    last_used_idx, dev_avail, dev_held>>
    BY <1>10 DEF DevArm, DevBlock, DevWake, vars, tableVars, availVars, usedVars,
       taskVars, threadVars, getVars, devVars
  <2> QED BY <1>4, <1>5, <2>1
<1> QED
  BY <1>2, <1>3, <1>6, <1>7, <1>8, <1>9, <1>10 DEF SerialNext, SerialPut, PutRest,
     OffRing, Get, GetEmpty, Device

(* The invariant of the ring. *)
LEMMA RingInvariant == SerialSpec => []RingInv
<1>1. Init => RingInv
  BY InitRingInv
<1>2. RingInv /\ [SerialNext]_vars => RingInv'
  BY NextRingInv
<1> QED BY <1>1, <1>2, PTL DEF SerialSpec

(* From publication until vring_get_task takes it, a task has its slots    *)
(* and its descriptor chain is the one the device must see, whatever other *)
(* threads put, roll back or complete meanwhile.                           *)
THEOREM ChainSafe == SerialSpec => []ChainIntact
<1>1. RingInv => ChainIntact
  <2> SUFFICES ASSUME RingInv, NEW t \in Tasks, phase[t] = "sent", t # get_task
               PROVE  Chain(t)
    BY DEF ChainIntact
  <2>1. TInv /\ TableInv
    BY DEF RingInv
  <2>2. /\ Len(slots[t]) = count[t] /\ count[t] \in Nat
        /\ vring_idx[t] = slots[t][1]
    BY <2>1, HeadOwner, RingAssumption
  <2>3. Built(t, count[t], count[t])
    BY <2>1 DEF TableInv, SentInv
  <2>4. \A i \in 1 .. count[t] : tasks[slots[t][i]] = t
    BY <2>1, <2>2 DEF TableInv, OwnInv
  <2>5. ASSUME NEW i \in 1 .. count[t]
        PROVE  LET d == desc[slots[t][i]] IN
               /\ tasks[slots[t][i]] = t
               /\ d.addr = <<t, i>>
               /\ d.more = (i < count[t])
               /\ i < count[t] => d.next = slots[t][i + 1]
    <3>1. tasks[slots[t][i]] = t
      BY <2>4
    <3>2. /\ desc[slots[t][i]].addr = <<t, i>>
          /\ desc[slots[t][i]].more = (i < count[t])
      BY <2>3 DEF Built
    <3>3. i < count[t] => desc[slots[t][i]].next = slots[t][i + 1]
      BY <2>2, <2>3 DEF Built
    <3> QED BY <3>1, <3>2, <3>3
  <2> QED BY <2>2, <2>5 DEF Chain
<1> QED BY <1>1, RingInvariant, PTL

(* No slot leaks: neither the rollback of a failed put nor the walk of     *)
(* vring_get_task leaves a slot behind that no live task accounts for.     *)
THEOREM NoSlotLeak == SerialSpec => []SlotsOwned
<1>1. RingInv => SlotsOwned
  <2> SUFFICES ASSUME RingInv, NEW s \in Slots, tasks[s] # NULL
               PROVE  /\ phase[tasks[s]] # "free"
                      /\ \E i \in 1 .. Len(slots[tasks[s]]) : slots[tasks[s]][i] = s
    BY DEF SlotsOwned
  <2>1. PICK i \in 1 .. Len(slots[tasks[s]]) : slots[tasks[s]][i] = s
    BY DEF RingInv, TableInv, OwnInv
  <2>2. tasks[s] \in Tasks
    BY DEF RingInv, TInv, TypeOK
  <2>3. slots[tasks[s]] # <<>>
    BY <2>1
  <2> QED BY <2>1, <2>2, <2>3 DEF RingInv, TableInv, TaskInv
<1> QED BY <1>1, RingInvariant, PTL

(* A put claims the slot that vring_get_task has released and whose next   *)
(* field it has still to read.                                             *)
Reuse == \E p \in Threads : get_pc = "next" /\ cand[p] = get_idx /\ Claim(p)

(* Such a claim, which nothing in the code prevents, is the only thing     *)
(* that can make one of the assertions of vring_get_task fail: as long as  *)
(* there has been none, a used entry is the head of the task that owns its *)
(* slot, and the slots of the walk are still taken.                        *)
THEOREM AssertsSafe == Spec /\ [][~Reuse]_vars => []AssertsHold
<1>1. RingInv => AssertsHold
  <2> SUFFICES ASSUME RingInv PROVE AssertHead /\ AssertOwned
    BY DEF AssertsHold
  <2>1. AssertHead
    <3> SUFFICES ASSUME get_pc = "idle", ~UsedEmpty PROVE AssertHeadCond
      BY DEF AssertHead
    <3>1. last_used_idx # used_idx
      BY DEF UsedEmpty
    <3>2. last_used_idx \in UsedPending
      BY <3>1 DEF UsedPending, RingInv, FlowInv, HeadsInv, TInv, TypeOK
    <3>3. SentHead(UsedHead)
      BY <3>2 DEF RingInv, FlowInv, HeadsInv, UsedHead, UsedAt
    <3> QED BY <3>3 DEF SentHead, AssertHeadCond
  <2>2. AssertOwned
    <3> SUFFICES ASSUME get_pc = "walk" PROVE tasks[get_idx] # NULL
      BY DEF AssertOwned, AssertOwnedCond
    <3>1. get_task \in Tasks
      BY DEF RingInv, TableInv, TaskInv, TInv, TypeOK
    <3>2. count[get_task] \in Nat
      BY <3>1 DEF RingInv, TInv, TypeOK
    <3>3. PICK k \in 1 .. count[get_task] : WalkAt(k)
      BY DEF RingInv, TableInv, WalkInv
    <3>4. tasks[get_idx] = get_task
      BY <3>2, <3>3 DEF WalkAt
    <3> QED BY <3>1, <3>4, TaskAssumption
  <2> QED BY <2>1, <2>2
<1>2. [Next]_vars /\ [~Reuse]_vars => [SerialNext]_vars
  <2> SUFFICES ASSUME Next, ~Reuse PROVE SerialNext
    OBVIOUS
  <2>1. ASSUME NEW p \in Threads, Put(p) PROVE SerialPut(p)
    BY <2>1 DEF Reuse, Put, SerialPut, ClaimElsewhere
  <2> QED BY <2>1 DEF Next, SerialNext
<1>3. Spec /\ [][~Reuse]_vars => SerialSpec
  BY <1>2, PTL DEF Spec, SerialSpec
<1> QED BY <1>1, <1>3, RingInvariant, PTL

-----------------------------------------------------------------------------
(***************************************************************************)
(* Counting the tasks on the ring.                                         *)
(***************************************************************************)

(* Sets between which there is a one-to-one map have as many elements. *)
LEMMA OneToOne ==
  ASSUME NEW S, NEW T, IsFiniteSet(S), NEW f \in [S -> T],
         \A x, y \in S : f[x] = f[y] => x = y,
         \A y \in T : \E x \in S : f[x] = y
  PROVE  IsFiniteSet(T) /\ Cardinality(T) = Cardinality(S)
<1>1. f \in Bijection(S, T)
  BY DEF Bijection, Injection, Surjection, IsInjective
<1> QED BY <1>1, FS_Bijection DEF ExistsBijection

(* A head on the rings belongs to a task that was sent ... *)
LEMMA HeadTask ==
  ASSUME TInv, TableInv, NEW h \in Slots, SentHead(h)
  PROVE  /\ tasks[h] \in Sent /\ tasks[h] # get_task
         /\ vring_idx[tasks[h]] = h
BY DEF SentHead, Sent, TInv, TypeOK

(* ... and the head of such a task is a slot it owns. *)
LEMMA TaskHead ==
  ASSUME TInv, TableInv, NEW t \in Sent, t # get_task
  PROVE  vring_idx[t] \in Slots /\ tasks[vring_idx[t]] = t
BY HeadOwner DEF Sent

(* The tasks whose heads are in the set H of slots. *)
TasksAt(H) == {t \in Sent : t # get_task /\ vring_idx[t] \in H}

(* There is one task for each of a number of different heads. *)
LEMMA HeadsCounted ==
  ASSUME TInv, TableInv, NEW I, IsFiniteSet(I), NEW e \in [I -> Slots],
         \A i \in I : SentHead(e[i]),
         \A i, j \in I : e[i] = e[j] => i = j
  PROVE  LET T == TasksAt({e[i] : i \in I}) IN
         IsFiniteSet(T) /\ Cardinality(T) = Cardinality(I)
<1> DEFINE T == TasksAt({e[i] : i \in I})
           f == [i \in I |-> tasks[e[i]]]
<1>1. \A i \in I : f[i] = tasks[e[i]] /\ f[i] \in T /\ vring_idx[f[i]] = e[i]
  BY HeadTask DEF TasksAt
<1>2. f \in [I -> T]
  BY <1>1
<1> HIDE DEF f
<1>3. \A i, j \in I : f[i] = f[j] => i = j
  <2>1. \A i \in I : vring_idx[f[i]] = e[i]
    BY <1>1
  <2> QED BY <2>1
<1>4. ASSUME NEW t \in T PROVE \E i \in I : f[i] = t
  <2>1. t \in Sent /\ t # get_task /\ \E i \in I : vring_idx[t] = e[i]
    BY DEF TasksAt
  <2>2. PICK i \in I : vring_idx[t] = e[i]
    BY <2>1
  <2>3. tasks[e[i]] = t
    BY <2>1, <2>2, TaskHead
  <2> QED BY <1>1, <2>3
<1> HIDE DEF T
<1>5. IsFiniteSet(T) /\ Cardinality(T) = Cardinality(I)
  BY <1>2, <1>3, <1>4, OneToOne
<1> QED BY <1>5 DEF T

(* Each of the three places, as a set of heads. *)
AvailHeads == {AvailAt(j) : j \in AvailPending}
DevHeads == {dev_held[j] : j \in 1 .. Len(dev_held)}
UsedHeads == {UsedAt(j) : j \in UsedPending}

(* The places are disjoint, and with the task the poller has in hand they  *)
(* hold every task that was sent.                                          *)
LEMMA PlacesPartition ==
  ASSUME RingInv
  PROVE  /\ AvailHeads \cap DevHeads = {}
         /\ AvailHeads \cap UsedHeads = {}
         /\ DevHeads \cap UsedHeads = {}
         /\ \A t \in Sent : t # get_task =>
              vring_idx[t] \in AvailHeads \cup DevHeads \cup UsedHeads
<1>1. /\ AvailHeads \cap DevHeads = {}
      /\ AvailHeads \cap UsedHeads = {}
      /\ DevHeads \cap UsedHeads = {}
  BY DEF RingInv, FlowInv, OnceInv, AvailHeads, DevHeads, UsedHeads
<1>2. \A t \in Sent : t # get_task =>
        vring_idx[t] \in AvailHeads \cup DevHeads \cup UsedHeads
  BY DEF RingInv, FlowInv, CoverInv, AvailHeads, DevHeads, UsedHeads, Sent
<1> QED BY <1>1, <1>2

(* One task for each entry. *)
LEMMA PlacesCounted ==
  ASSUME RingInv
  PROVE  /\ IsFiniteSet(TasksAt(AvailHeads))
         /\ Cardinality(TasksAt(AvailHeads)) = Cardinality(AvailPending)
         /\ IsFiniteSet(TasksAt(DevHeads))
         /\ Cardinality(TasksAt(DevHeads)) = Len(dev_held)
         /\ IsFiniteSet(TasksAt(UsedHeads))
         /\ Cardinality(TasksAt(UsedHeads)) = Cardinality(UsedPending)
<1>0. TInv /\ TableInv
  BY DEF RingInv
<1>1. IsFiniteSet(AvailPending) /\ IsFiniteSet(UsedPending)
  <2>1. \A a, b \in Int : IsFiniteSet(a .. b)
    BY FS_Interval
  <2>2. /\ dev_avail \in Int /\ avail_idx - 1 \in Int
        /\ last_used_idx \in Int /\ last_used_idx + 1 \in Int /\ used_idx - 1 \in Int
    BY <1>0 DEF TInv, TypeOK
  <2> QED BY <2>1, <2>2 DEF AvailPending, UsedPending
<1>2. /\ IsFiniteSet(TasksAt(AvailHeads))
      /\ Cardinality(TasksAt(AvailHeads)) = Cardinality(AvailPending)
  <2> DEFINE e == [j \in AvailPending |-> AvailAt(j)]
  <2>1. /\ e \in [AvailPending -> Slots]
        /\ \A j \in AvailPending : SentHead(e[j])
        /\ \A i, j \in AvailPending : e[i] = e[j] => i = j
        /\ AvailHeads = {e[j] : j \in AvailPending}
    BY <1>0, EntryTypes DEF RingInv, FlowInv, HeadsInv, OnceInv, AvailHeads
  <2> HIDE DEF e
  <2> QED BY <1>0, <1>1, <2>1, HeadsCounted
<1>3. /\ IsFiniteSet(TasksAt(UsedHeads))
      /\ Cardinality(TasksAt(UsedHeads)) = Cardinality(UsedPending)
  <2> DEFINE e == [j \in UsedPending |-> UsedAt(j)]
  <2>1. /\ e \in [UsedPending -> Slots]
        /\ \A j \in UsedPending : SentHead(e[j])
        /\ \A i, j \in UsedPending : e[i] = e[j] => i = j
        /\ UsedHeads = {e[j] : j \in UsedPending}
    BY <1>0, EntryTypes DEF RingInv, FlowInv, HeadsInv, OnceInv, UsedHeads
  <2> HIDE DEF e
  <2> QED BY <1>0, <1>1, <2>1, HeadsCounted
<1>4. /\ IsFiniteSet(TasksAt(DevHeads))
      /\ Cardinality(TasksAt(DevHeads)) = Len(dev_held)
  <2> DEFINE I == 1 .. Len(dev_held)
             e == [j \in I |-> dev_held[j]]
  <2>1. Len(dev_held) \in Nat
    BY <1>0 DEF TInv, TypeOK
  <2>2. IsFiniteSet(I) /\ Cardinality(I) = Len(dev_held)
    <3>1. 1 \in Int /\ Len(dev_held) \in Int
      BY <2>1
    <3>2. /\ IsFiniteSet(I)
          /\ Cardinality(I) = IF 1 > Len(dev_held) THEN 0 ELSE Len(dev_held) - 1 + 1
      BY <3>1, FS_Interval
    <3> HIDE DEF I
    <3> QED BY <2>1, <3>2
  <2>3. /\ e \in [I -> Slots]
        /\ \A j \in I : SentHead(e[j])
        /\ \A i, j \in I : e[i] = e[j] => i = j
        /\ DevHeads = {e[j] : j \in I}
    BY <1>0, EntryTypes DEF RingInv, FlowInv, HeadsInv, OnceInv, DevHeads
  <2> HIDE DEF e, I
  <2> QED BY <1>0, <2>2, <2>3, HeadsCounted
<1> QED BY <1>2, <1>3, <1>4

(* The tasks on the ring are as many as the entries of the avail ring, the *)
(* device and the used ring together.                                      *)
LEMMA SentCounted ==
  ASSUME RingInv
  PROVE  /\ IsFiniteSet(Sent)
         /\ Cardinality(Sent) = Cardinality(AvailPending) + Len(dev_held)
                                 + (used_idx - last_used_idx)
<1> DEFINE A == TasksAt(AvailHeads)
           D == TasksAt(DevHeads)
           U == TasksAt(UsedHeads)
           G == IF get_pc = "idle" THEN {} ELSE {get_task}
<1>0. TInv /\ TableInv /\ FlowInv
  BY DEF RingInv
<1>1. A \cap D = {} /\ (A \cup D) \cap U = {}
  BY PlacesPartition DEF TasksAt
<1>2. get_task \notin (A \cup D) \cup U
  BY DEF TasksAt
<1>3. Sent = ((A \cup D) \cup U) \cup G
  <2>1. ASSUME NEW t \in Sent PROVE t \in ((A \cup D) \cup U) \cup G
    <3>1. CASE t = get_task
      BY <1>0, <3>1, TaskAssumption DEF TableInv, TaskInv, Sent
    <3>2. CASE t # get_task
      BY <3>2, PlacesPartition DEF TasksAt
    <3> QED BY <3>1, <3>2
  <2>2. G \subseteq Sent
    BY <1>0 DEF TableInv, TaskInv, Sent, TInv, TypeOK
  <2>3. (A \cup D) \cup U \subseteq Sent
    BY DEF TasksAt
  <2> QED BY <2>1, <2>2, <2>3
<1>4. /\ IsFiniteSet(A) /\ IsFiniteSet(D) /\ IsFiniteSet(U)
      /\ Cardinality(A) = Cardinality(AvailPending)
      /\ Cardinality(D) = Len(dev_held)
      /\ Cardinality(U) = Cardinality(UsedPending)
  BY PlacesCounted
<1>5. /\ Cardinality(AvailPending) \in Nat /\ Len(dev_held) \in Nat
      /\ used_idx \in Nat /\ last_used_idx \in Nat
  <2>1. IsFiniteSet(AvailPending)
    BY <1>0, FS_Interval DEF AvailPending, TInv, TypeOK
  <2> QED BY <1>0, <2>1, FS_CardinalityType DEF TInv, TypeOK
<1>6. Cardinality(UsedPending)
        = (used_idx - last_used_idx) - (IF get_pc = "idle" THEN 0 ELSE 1)
  <2>1. CASE get_pc = "idle"
    <3>1. UsedPending = last_used_idx .. used_idx - 1 /\ last_used_idx <= used_idx
      BY <1>0, <2>1 DEF UsedPending, FlowInv, HeadsInv
    <3>2. Cardinality(last_used_idx .. used_idx - 1)
            = IF last_used_idx > used_idx - 1 THEN 0 ELSE (used_idx - 1) - last_used_idx + 1
      BY <1>5, FS_Interval
    <3> QED BY <1>5, <2>1, <3>1, <3>2
  <2>2. CASE get_pc # "idle"
    <3>1. UsedPending = last_used_idx + 1 .. used_idx - 1 /\ last_used_idx < used_idx
      BY <1>0, <2>2 DEF UsedPending, FlowInv, HeadsInv
    <3>2. Cardinality(last_used_idx + 1 .. used_idx - 1)
            = IF last_used_idx + 1 > used_idx - 1 THEN 0
              ELSE (used_idx - 1) - (last_used_idx + 1) + 1
      BY <1>5, FS_Interval
    <3> QED BY <1>5, <2>2, <3>1, <3>2
  <2> QED BY <2>1, <2>2
<1> HIDE DEF A, D, U
<1>7. /\ IsFiniteSet(A \cup D)
      /\ Cardinality(A \cup D) = Cardinality(A) + Cardinality(D)
  <2>1. /\ IsFiniteSet(A \cup D)
        /\ Cardinality(A \cup D) = Cardinality(A) + Cardinality(D) - Cardinality(A \cap D)
    BY <1>4, FS_Union
  <2>2. Cardinality(A \cap D) = 0
    BY <1>1, FS_EmptySet
  <2> QED BY <1>4, <1>5, <2>1, <2>2
<1>8. /\ IsFiniteSet((A \cup D) \cup U)
      /\ Cardinality((A \cup D) \cup U) = Cardinality(A) + Cardinality(D) + Cardinality(U)
  <2>1. Cardinality((A \cup D) \cup U)
          = Cardinality(A \cup D) + Cardinality(U) - Cardinality((A \cup D) \cap U)
    BY <1>4, <1>7, FS_Union
  <2>2. Cardinality((A \cup D) \cap U) = 0
    BY <1>1, FS_EmptySet
  <2>3. Cardinality(U) \in Nat
    BY <1>4, FS_CardinalityType
  <2> QED BY <1>4, <1>5, <1>7, <2>1, <2>2, <2>3, FS_Union
<1>9. CASE get_pc = "idle"
  <2>1. Sent = (A \cup D) \cup U
    BY <1>3, <1>9
  <2> QED BY <1>4, <1>5, <1>6, <1>8, <1>9, <2>1
<1>10. CASE get_pc # "idle"
  <2>1. Sent = ((A \cup D) \cup U) \cup {get_task}
    BY <1>3, <1>10
  <2>2. IsFiniteSet(Sent) /\ Cardinality(Sent) = Cardinality((A \cup D) \cup U) + 1
    BY <1>2, <1>8, <2>1, FS_AddElement
  <2> QED BY <1>4, <1>5, <1>6, <1>8, <1>10, <2>2
<1> QED BY <1>9, <1>10

(* Every task whose put succeeded is in exactly one place, and nothing     *)
(* else is on the ring: no task is lost or completed twice, whatever the   *)
(* order in which the device completes.                                    *)
THEOREM OnceSafe == SerialSpec => []ExactlyOnce
<1>1. RingInv => ExactlyOnce
  <2> SUFFICES ASSUME RingInv, NEW t \in Sent PROVE Cardinality(Places(t)) = 1
    BY SentCounted DEF ExactlyOnce
  <2>1. CASE t = get_task
    BY <2>1, FS_Singleton DEF Places
  <2>2. CASE t # get_task
    <3>0. PICK h : h = vring_idx[t]
      OBVIOUS
    <3>1. /\ \A j \in AvailPending : avail_ring[Mask(j)] = AvailAt(j)
          /\ \A j \in UsedPending : used_ring[Mask(j)] = UsedAt(j)
          /\ DOMAIN dev_held = 1 .. Len(dev_held)
      BY DEF AvailAt, UsedAt, RingInv, TInv, TypeOK
    <3>2. \E x : Places(t) = {x}
      <4>1. CASE \E j \in AvailPending : AvailAt(j) = h
        <5>1. PICK j \in AvailPending : AvailAt(j) = h
          BY <4>1
        <5>2. /\ \A i \in AvailPending : AvailAt(i) = h => i = j
              /\ \A i \in 1 .. Len(dev_held) : dev_held[i] # h
              /\ \A i \in UsedPending : UsedAt(i) # h
          BY <5>1 DEF RingInv, FlowInv, OnceInv
        <5>3. Places(t) = {<<"avail", j>>}
          BY <2>2, <3>0, <3>1, <5>1, <5>2 DEF Places
        <5> QED BY <5>3
      <4>2. CASE \E j \in 1 .. Len(dev_held) : dev_held[j] = h
        <5>1. PICK j \in 1 .. Len(dev_held) : dev_held[j] = h
          BY <4>2
        <5>2. /\ \A i \in AvailPending : AvailAt(i) # h
              /\ \A i \in 1 .. Len(dev_held) : dev_held[i] = h => i = j
              /\ \A i \in UsedPending : UsedAt(i) # h
          BY <5>1 DEF RingInv, FlowInv, OnceInv
        <5>3. Places(t) = {<<"dev", j>>}
          BY <2>2, <3>0, <3>1, <5>1, <5>2 DEF Places
        <5> QED BY <5>3
      <4>3. CASE \E j \in UsedPending : UsedAt(j) = h
        <5>1. PICK j \in UsedPending : UsedAt(j) = h
          BY <4>3
        <5>2. /\ \A i \in AvailPending : AvailAt(i) # h
              /\ \A i \in 1 .. Len(dev_held) : dev_held[i] # h
              /\ \A i \in UsedPending : UsedAt(i) = h => i = j
          BY <5>1 DEF RingInv, FlowInv, OnceInv
        <5>3. Places(t) = {<<"used", j>>}
          BY <2>2, <3>0, <3>1, <5>1, <5>2 DEF Places
        <5> QED BY <5>3
      <4> QED BY <2>2, <3>0, <4>1, <4>2, <4>3 DEF RingInv, FlowInv, CoverInv, Sent
    <3> QED BY <3>2, FS_Singleton
  <2> QED BY <2>1, <2>2
<1> QED BY <1>1, RingInvariant, PTL

-----------------------------------------------------------------------------
(***************************************************************************)
(* The ring is a TaskQueue of half as many places as the ring has slots.   *)
(***************************************************************************)

(* Tasks with a complete chain that the poller is not taking apart. *)
Complete ==
  {t \in Tasks :
     /\ t # get_task
     /\ \/ phase[t] = "sent"
        \/ \E p \in Threads : t = cur[p] /\ pc[p] \in {"reserve", "fill", "publish"}}

(* Each of them has two slots, the poller's task at least one. *)
LEMMA TwoSlotsEach ==
  ASSUME RingInv
  PROVE  /\ IsFiniteSet(Complete)
         /\ 2 * Cardinality(Complete) <= IF get_pc = "idle" THEN Num ELSE Num - 1
<1> DEFINE f == [t \in Complete |-> slots[t][1]]
           g == [t \in Complete |-> slots[t][2]]
           F == {f[t] : t \in Complete}
           G == {g[t] : t \in Complete}
<1>0. TInv /\ TableInv
  BY DEF RingInv
<1>1. \A t \in Complete :
        /\ t \in Tasks /\ t # get_task /\ t # NULL
        /\ f[t] = slots[t][1] /\ g[t] = slots[t][2] /\ f[t] # g[t]
        /\ f[t] \in Slots /\ g[t] \in Slots
        /\ tasks[f[t]] = t /\ tasks[g[t]] = t
  <2> SUFFICES ASSUME NEW t \in Complete
               PROVE  /\ t \in Tasks /\ t # get_task /\ t # NULL
                      /\ slots[t][1] # slots[t][2]
                      /\ slots[t][1] \in Slots /\ slots[t][2] \in Slots
                      /\ tasks[slots[t][1]] = t /\ tasks[slots[t][2]] = t
    OBVIOUS
  <2>1. t \in Tasks /\ t # get_task /\ t # NULL
    BY TaskAssumption DEF Complete
  <2>2. Len(slots[t]) = count[t] /\ count[t] \in 2 .. Num
    BY <1>0, <2>1, HeadOwner DEF Complete
  <2>3. 1 \in 1 .. Len(slots[t]) /\ 2 \in 1 .. Len(slots[t])
    BY <2>2, RingAssumption
  <2>4. slots[t][1] \in Slots /\ slots[t][2] \in Slots
    BY <1>0, <2>1, <2>3, SlotType DEF TInv
  <2>5. slots[t][1] # slots[t][2]
    BY <1>0, <2>1, <2>3 DEF TableInv, OwnInv
  <2> QED BY <1>0, <2>1, <2>3, <2>4, <2>5 DEF TableInv, OwnInv
<1>2. f \in [Complete -> F] /\ g \in [Complete -> G] /\ f \in [Complete -> Slots]
  BY <1>1
<1> HIDE DEF f, g
<1>3. /\ \A x, y \in Complete : f[x] = f[y] => x = y
      /\ \A x, y \in Complete : g[x] = g[y] => x = y
  <2>1. \A t \in Complete : tasks[f[t]] = t /\ tasks[g[t]] = t
    BY <1>1
  <2> QED BY <2>1
<1>4. IsFiniteSet(Slots) /\ Cardinality(Slots) = Num
  BY FS_Interval, RingAssumption DEF Slots
<1>5. IsFiniteSet(Complete)
  <2>1. f \in Injection(Complete, Slots)
    BY <1>2, <1>3 DEF Injection, IsInjective
  <2> QED BY <1>4, <2>1, FS_Injection
<1>6. /\ IsFiniteSet(F) /\ Cardinality(F) = Cardinality(Complete)
      /\ IsFiniteSet(G) /\ Cardinality(G) = Cardinality(Complete)
  <2>1. IsFiniteSet(F) /\ Cardinality(F) = Cardinality(Complete)
    BY <1>2, <1>3, <1>5, OneToOne
  <2>2. IsFiniteSet(G) /\ Cardinality(G) = Cardinality(Complete)
    BY <1>2, <1>3, <1>5, OneToOne
  <2> QED BY <2>1, <2>2
<1>7. F \cap G = {}
  <2> SUFFICES ASSUME NEW x \in Complete, NEW y \in Complete, f[x] = g[y] PROVE FALSE
    OBVIOUS
  <2>1. x = y
    BY <1>1
  <2> QED BY <1>1, <2>1
<1>8. Cardinality(F \cup G) = 2 * Cardinality(Complete)
  <2>1. Cardinality(F \cup G) = Cardinality(F) + Cardinality(G) - Cardinality(F \cap G)
    BY <1>6, FS_Union
  <2>2. Cardinality(F \cap G) = 0
    BY <1>7, FS_EmptySet
  <2>3. Cardinality(Complete) \in Nat
    BY <1>5, FS_CardinalityType
  <2> HIDE DEF F, G
  <2> QED BY <1>6, <2>1, <2>2, <2>3
<1>9. F \cup G \subseteq {s \in Slots : tasks[s] # get_task}
  BY <1>1
<1> HIDE DEF F, G
<1>10. CASE get_pc = "idle"
  <2>1. F \cup G \in SUBSET Slots
    BY <1>9
  <2> QED BY <1>4, <1>5, <1>8, <1>10, <2>1, FS_Subset
<1>11. CASE get_pc # "idle"
  <2>1. \E z \in Slots : tasks[z] = get_task
    <3>1. PICK u \in Tasks, n \in Nat : \E k \in 1 .. n :
            /\ u = get_task /\ u # NULL /\ n = count[u] /\ WalkAt(k)
            /\ phase[u] = "sent"
            /\ Len(slots[u]) = n /\ get_idx = slots[u][k] /\ get_idx \in Slots
            /\ \A i \in 1 .. n : slots[u][i] \in Slots
            /\ \A i, j \in 1 .. n : slots[u][i] = slots[u][j] => i = j
            /\ \A p \in Threads : cur[p] # NULL => cur[p] # u
      BY <1>0, <1>11, WalkFacts, Zenon
    <3>2. PICK k \in 1 .. n : u = get_task /\ n = count[u] /\ WalkAt(k)
                              /\ \A i \in 1 .. n : slots[u][i] \in Slots
      BY <3>1, Zenon
    <3>3. n \in 1 .. n /\ get_pc \in {"walk", "next"}
      BY <1>0, <1>11, <3>2 DEF TInv, TypeOK
    <3>4. tasks[slots[u][n]] = u
      BY <3>2, <3>3 DEF WalkAt
    <3> QED BY <3>2, <3>3, <3>4
  <2>2. PICK z \in Slots : tasks[z] = get_task
    BY <2>1
  <2>3. IsFiniteSet(Slots \ {z}) /\ Cardinality(Slots \ {z}) = Num - 1
    BY <1>4, FS_RemoveElement
  <2>4. F \cup G \in SUBSET (Slots \ {z})
    BY <1>9, <2>2
  <2> QED BY <1>5, <1>8, <1>11, <2>3, <2>4, FS_Subset
<1> QED BY <1>5, <1>10, <1>11

(* There is a place in the queue for a task about to be published. *)
LEMMA RoomForOne ==
  ASSUME RingInv, NEW p \in Threads, pc[p] = "publish"
  PROVE  IsFiniteSet(Sent) /\ Cardinality(Sent) < Num \div 2
<1>0. TInv /\ TableInv
  BY DEF RingInv
<1>1. PICK t \in Tasks : t = cur[p]
  BY <1>0, CurFacts DEF TableInv
<1>2. t \notin Sent /\ t # get_task
  BY <1>0, <1>1, CurFacts DEF Sent, TableInv
<1>3. IsFiniteSet(Sent) /\ Cardinality(Sent) \in Nat
  BY SentCounted, FS_CardinalityType
<1>4. (Sent \ {get_task}) \cup {t} \in SUBSET Complete
  BY <1>1, <1>2 DEF Complete, Sent
<1>5. /\ IsFiniteSet(Complete) /\ Cardinality(Complete) \in Nat
      /\ 2 * Cardinality(Complete) <= IF get_pc = "idle" THEN Num ELSE Num - 1
  BY TwoSlotsEach, FS_CardinalityType
<1>6. /\ IsFiniteSet(Sent \ {get_task})
      /\ Cardinality(Sent \ {get_task}) =
           IF get_task \in Sent THEN Cardinality(Sent) - 1 ELSE Cardinality(Sent)
  BY <1>3, FS_RemoveElement
<1>7. Cardinality((Sent \ {get_task}) \cup {t}) = Cardinality(Sent \ {get_task}) + 1
  BY <1>2, <1>6, FS_AddElement
<1>8. Cardinality(Sent \ {get_task}) + 1 <= Cardinality(Complete)
  BY <1>4, <1>5, <1>7, FS_Subset
<1>9. get_task \in Sent <=> get_pc # "idle"
  BY <1>0, TaskAssumption DEF TableInv, TaskInv, Sent, TInv, TypeOK
<1>10. PICK m \in 1 .. Num : Num = 2 * m
  BY SizeAssumption
<1>11. m \in Nat /\ Num \div 2 = m
  BY <1>10, RingAssumption
<1>12. Cardinality(Sent) < m
  BY <1>3, <1>5, <1>6, <1>8, <1>9, <1>10, <1>11
<1> QED BY <1>3, <1>11, <1>12

(* The completed tasks the poller has not returned, as a sequence. *)
LEMMA ReturningFacts ==
  ASSUME RingInv
  PROVE  /\ used_idx - last_used_idx \in Nat
         /\ DOMAIN Returning = 1 .. used_idx - last_used_idx
         /\ Returning \in Seq(Sent)
         /\ Len(Returning) = used_idx - last_used_idx
         /\ \A i \in DOMAIN Returning : Returning[i] \in Sent
         /\ \A i, j \in DOMAIN Returning : Returning[i] = Returning[j] => i = j
         /\ get_pc # "idle" => 1 \in DOMAIN Returning /\ Returning[1] = get_task
         /\ \A i \in DOMAIN Returning : ~(i = 1 /\ get_pc # "idle") =>
              /\ last_used_idx + i - 1 \in UsedPending
              /\ Returning[i] = tasks[UsedAt(last_used_idx + i - 1)]
<1>0. TInv /\ TableInv /\ FlowInv
  BY DEF RingInv
<1>1. PICK n \in Nat : n = used_idx - last_used_idx /\ (get_pc # "idle" => n >= 1)
  BY <1>0 DEF FlowInv, HeadsInv, TInv, TypeOK
<1>2. PICK l \in Nat : l = last_used_idx
  BY <1>0 DEF TInv, TypeOK
<1>3. DOMAIN Returning = 1 .. n
  BY <1>1 DEF Returning
<1>4. ASSUME NEW i \in 1 .. n, i = 1, get_pc # "idle"
      PROVE  Returning[i] = get_task /\ get_task \in Sent
  BY <1>0, <1>1, <1>4 DEF Returning, TableInv, TaskInv, Sent, TInv, TypeOK
<1>5. ASSUME NEW i \in 1 .. n, ~(i = 1 /\ get_pc # "idle")
      PROVE  /\ l + i - 1 \in UsedPending
             /\ Returning[i] = tasks[UsedAt(l + i - 1)]
             /\ Returning[i] \in Sent /\ Returning[i] # get_task
             /\ vring_idx[Returning[i]] = UsedAt(l + i - 1)
  <2>1. l + i - 1 \in UsedPending
    BY <1>0, <1>1, <1>2, <1>5 DEF UsedPending, TInv, TypeOK
  <2>2. Returning[i] = tasks[UsedAt(l + i - 1)]
    BY <1>1, <1>2, <1>5 DEF Returning, UsedAt
  <2>3. SentHead(UsedAt(l + i - 1)) /\ UsedAt(l + i - 1) \in Slots
    BY <1>0, <2>1, EntryTypes DEF FlowInv, HeadsInv
  <2> QED BY <1>0, <2>1, <2>2, <2>3, HeadTask
<1>6. \A i \in 1 .. n : Returning[i] \in Sent
  BY <1>4, <1>5
<1>7. ASSUME NEW i \in 1 .. n, NEW j \in 1 .. n, Returning[i] = Returning[j]
      PROVE  i = j
  <2>1. CASE i = 1 /\ get_pc # "idle"
    BY <1>4, <1>5, <1>7, <2>1
  <2>2. CASE j = 1 /\ get_pc # "idle"
    BY <1>4, <1>5, <1>7, <2>2
  <2>3. CASE ~(i = 1 /\ get_pc # "idle") /\ ~(j = 1 /\ get_pc # "idle")
    <3>1. UsedAt(l + i - 1) = UsedAt(l + j - 1)
      BY <1>5, <1>7, <2>3
    <3>2. l + i - 1 \in UsedPending /\ l + j - 1 \in UsedPending
      BY <1>5, <2>3
    <3>3. l + i - 1 = l + j - 1
      BY <1>0, <3>1, <3>2 DEF FlowInv, OnceInv
    <3> QED BY <3>3
  <2> QED BY <2>1, <2>2, <2>3
<1>8. Returning \in Seq(Sent) /\ Len(Returning) = n
  <2>1. Returning \in [1 .. n -> Sent]
    BY <1>1, <1>6 DEF Returning
  <2> QED BY <2>1
<1>9. get_pc # "idle" => 1 \in 1 .. n /\ Returning[1] = get_task
  BY <1>1, <1>4
<1> QED BY <1>1, <1>2, <1>3, <1>5, <1>6, <1>7, <1>8, <1>9

(* The tasks on the queue are the tasks on the ring. *)
LEMMA OnQueue ==
  ASSUME RingInv
  PROVE  Queue!OnRing = Sent
BY ReturningFacts DEF Queue!OnRing

(* A step that changes neither which tasks are sent nor what the poller    *)
(* has before it is no step of the queue.                                  *)
LEMMA QueueStutter ==
  ASSUME Sent' = Sent, Returning' = Returning
  PROVE  UNCHANGED Queue!vars
BY DEF Queue!vars

(* The used entries not yet returned mean the same after a step that keeps *)
(* their number, their cells and the owners of their heads.                *)
LEMMA ReturningKept ==
  ASSUME RingInv, UNCHANGED <<used_ring, used_idx, last_used_idx, get_task>>,
         get_pc' = "idle" <=> get_pc = "idle",
         \A h \in Slots : SentHead(h) => tasks'[h] = tasks[h]
  PROVE  Returning' = Returning
<1>1. PICK l \in Nat : l = last_used_idx
  BY DEF RingInv, TInv, TypeOK
<1>2. ASSUME NEW i \in 1 .. used_idx - last_used_idx, ~(i = 1 /\ get_pc # "idle")
      PROVE  tasks'[used_ring[Mask(l + i - 1)]] = tasks[used_ring[Mask(l + i - 1)]]
  <2>1. l + i - 1 \in UsedPending
    BY <1>1, <1>2, ReturningFacts
  <2>2. SentHead(UsedAt(l + i - 1)) /\ UsedAt(l + i - 1) \in Slots
    BY <2>1, EntryTypes DEF RingInv, FlowInv, HeadsInv
  <2> QED BY <2>2 DEF UsedAt
<1>3. \A i \in 1 .. used_idx - last_used_idx :
        (IF i = 1 /\ get_pc' # "idle" THEN get_task'
         ELSE tasks'[used_ring'[Mask(last_used_idx' + i - 1)]])
        = (IF i = 1 /\ get_pc # "idle" THEN get_task
           ELSE tasks[used_ring[Mask(last_used_idx + i - 1)]])
  BY <1>1, <1>2
<1> QED BY <1>3 DEF Returning, Mask, Reg

(* vring_put_task and vring_flush up to the publication. *)
LEMMA OffRingQueue ==
  ASSUME RingInv, NEW p \in Threads, OffRing(p)
  PROVE  UNCHANGED Queue!vars
<1>0. TInv /\ TableInv
  BY DEF RingInv
<1>1. PICK u : StepFor(p, u) /\ phase'[u] # "sent"
  BY <1>0, OffRingStep
<1>2. UNCHANGED <<used_ring, used_idx, last_used_idx>>
  BY <1>0, OffRingStep
<1>3. Sent' = Sent
  BY <1>1 DEF Sent, StepFor
<1>4. UNCHANGED <<get_pc, get_task>>
  BY <1>1 DEF StepFor, getVars
<1>5. \A h \in Slots : SentHead(h) => tasks'[h] = tasks[h]
  BY <1>0, <1>1, HeadsKept
<1>6. Returning' = Returning
  BY <1>2, <1>4, <1>5, ReturningKept
<1> QED BY <1>3, <1>6, QueueStutter

(* The publication accepts the task. *)
LEMMA PublishQueue ==
  ASSUME RingInv, NEW p \in Threads, Publish(p)
  PROVE  Queue!Next
<1>0. TInv /\ TableInv
  BY DEF RingInv
<1>1. PICK t \in Tasks : t = cur[p]
  BY <1>0, CurFacts DEF Publish, Goto, TableInv
<1>2. /\ pc[p] = "publish"
      /\ phase' = [phase EXCEPT ![t] = "sent"]
      /\ UNCHANGED <<tasks, used_ring, used_idx, last_used_idx, get_pc, get_task>>
  BY <1>1 DEF Publish, Goto, tableVars, usedVars, getVars
<1>3. t \notin Sent
  BY <1>0, <1>1, <1>2, CurFacts DEF Sent, TableInv
<1>4. Sent' = Sent \cup {t}
  BY <1>0, <1>2 DEF Sent, TInv, TypeOK
<1>5. Returning' = Returning
  BY <1>2, ReturningKept
<1>6. Cardinality(Queue!OnRing) < Num \div 2 /\ t \notin Queue!OnRing
  BY <1>2, <1>3, OnQueue, RoomForOne
<1>7. \A i \in DOMAIN Returning : Returning[i] # t
  BY <1>3, ReturningFacts
<1>8. (Sent \ {Returning[i] : i \in DOMAIN Returning})'
        = (Sent \ {Returning[i] : i \in DOMAIN Returning}) \cup {t}
  BY <1>4, <1>5, <1>7
<1>9. Queue!Accept(t)
  <2> HIDE DEF Returning, Sent
  <2>1. \A S : Queue!Cardinality(S) = Cardinality(S)
    BY DEF Queue!Cardinality, Cardinality
  <2> QED BY <1>5, <1>6, <1>8, <2>1, Zenon DEF Queue!Accept
<1> QED BY <1>9 DEF Queue!Next

(* A completion moves one task behind those that completed before. *)
LEMMA DevCompleteQueue ==
  ASSUME RingInv, DevComplete
  PROVE  Queue!Next
<1>0. TInv /\ TableInv /\ FlowInv
  BY DEF RingInv
<1>1. PICK d \in 1 .. Len(dev_held) :
        used_ring' = [used_ring EXCEPT ![Mask(used_idx)] = dev_held[d]]
  BY DEF DevComplete
<1>2. /\ used_idx' = used_idx + 1
      /\ UNCHANGED <<last_used_idx, tasks, phase, get_pc, get_task>>
  BY DEF DevComplete, tableVars, taskVars, getVars
<1>3. SentHead(dev_held[d]) /\ dev_held[d] \in Slots
  BY <1>0, EntryTypes DEF FlowInv, HeadsInv
<1>4. PICK t : t = tasks[dev_held[d]]
  OBVIOUS
<1>5. t \in Tasks /\ t \in Sent /\ t # get_task /\ vring_idx[t] = dev_held[d]
  BY <1>0, <1>3, <1>4, HeadTask DEF Sent
<1>6. PICK n \in Nat : n = used_idx - last_used_idx
  BY ReturningFacts
<1>7. PICK l \in Nat : l = last_used_idx /\ used_idx = l + n
  BY <1>0, <1>6 DEF TInv, TypeOK
<1>8. Sent' = Sent
  BY <1>2 DEF Sent
<1>9. ASSUME NEW i \in DOMAIN Returning PROVE Returning[i] # t
  <2>1. CASE i = 1 /\ get_pc # "idle"
    BY <1>5, <2>1, ReturningFacts
  <2>2. CASE ~(i = 1 /\ get_pc # "idle")
    <3>1. /\ l + i - 1 \in UsedPending
          /\ Returning[i] = tasks[UsedAt(l + i - 1)]
      BY <1>7, <2>2, ReturningFacts
    <3>2. SentHead(UsedAt(l + i - 1)) /\ UsedAt(l + i - 1) # dev_held[d]
      BY <1>0, <3>1 DEF FlowInv, HeadsInv, OnceInv
    <3> QED BY <1>5, <3>1, <3>2 DEF SentHead
  <2> QED BY <2>1, <2>2
<1>10. used_ring'[Mask(l + n)] = dev_held[d]
  BY <1>0, <1>1, <1>7, MaskType DEF TInv, TypeOK
<1>11. ASSUME NEW i \in 1 .. n, ~(i = 1 /\ get_pc # "idle")
       PROVE  used_ring'[Mask(l + i - 1)] = used_ring[Mask(l + i - 1)]
  <2>0. i \in DOMAIN Returning
    BY <1>6, ReturningFacts
  <2>1. PICK j \in Nat : j = l + i - 1 /\ j \in UsedPending
    <3>1. l + i - 1 \in Nat
      OBVIOUS
    <3>2. l + i - 1 \in UsedPending
      BY <1>7, <1>11, <2>0, ReturningFacts
    <3> QED BY <3>1, <3>2
  <2>2. used_idx < j + Num /\ j < used_idx /\ used_idx \in Nat
    BY <1>0, <1>7, <2>1, UsedBound
  <2>3. Mask(j) # Mask(used_idx) /\ Mask(j) \in Slots
    BY <2>1, <2>2, MaskInj, MaskType, RingAssumption
  <2> QED BY <1>0, <1>1, <2>1, <2>3 DEF TInv, TypeOK
<1>12. Returning' = Append(Returning, t)
  <2>1. Returning' = [i \in 1 .. n + 1 |->
                        IF i = 1 /\ get_pc # "idle" THEN get_task
                        ELSE tasks[used_ring'[Mask(l + i - 1)]]]
    <3>1. used_idx' - last_used_idx' = n + 1 /\ last_used_idx' = l
      BY <1>2, <1>7
    <3> QED BY <1>2, <3>1 DEF Returning, Mask, Reg
  <2>2. ASSUME NEW i \in 1 .. n PROVE Returning'[i] = Returning[i]
    <3>1. i \in 1 .. n + 1
      OBVIOUS
    <3>2. Returning[i] = IF i = 1 /\ get_pc # "idle" THEN get_task
                         ELSE tasks[used_ring[Mask(l + i - 1)]]
      BY <1>6, <1>7 DEF Returning
    <3> QED BY <1>11, <2>1, <3>1, <3>2
  <2>3. Returning'[n + 1] = t
    <3>1. get_pc # "idle" => n # 0
      BY <1>0, <1>6 DEF FlowInv, HeadsInv, TInv, TypeOK
    <3>2. /\ n + 1 \in 1 .. n + 1 /\ ~(n + 1 = 1 /\ get_pc # "idle")
          /\ l + (n + 1) - 1 = l + n
      BY <3>1
    <3> QED BY <1>4, <1>10, <2>1, <3>2
  <2>4. Returning \in Seq(Sent) /\ Len(Returning) = n /\ t \in Sent
    BY <1>5, <1>6, ReturningFacts
  <2>5. Returning' \in Seq(Sent) /\ Len(Returning') = n + 1
    <3>1. \A i \in 1 .. n + 1 : Returning'[i] \in Sent
      BY <2>2, <2>3, <2>4
    <3>2. Returning' \in [1 .. n + 1 -> Sent]
      BY <2>1, <3>1
    <3> QED BY <3>2
  <2> HIDE DEF Returning
  <2>6. /\ Append(Returning, t) \in Seq(Sent) /\ Len(Append(Returning, t)) = n + 1
        /\ \A i \in 1 .. n + 1 : Append(Returning, t)[i] = Returning'[i]
    BY <2>2, <2>3, <2>4
  <2> QED BY <2>5, <2>6, SeqEqual
<1>13. {Returning'[i] : i \in DOMAIN Returning'}
         = {Returning[i] : i \in DOMAIN Returning} \cup {t}
  <2>1. Returning \in Seq(Sent) /\ Len(Returning) = n /\ t \in Sent
    BY <1>5, <1>6, ReturningFacts
  <2> HIDE DEF Returning
  <2>2. /\ DOMAIN Append(Returning, t) = 1 .. n + 1 /\ DOMAIN Returning = 1 .. n
        /\ Append(Returning, t)[n + 1] = t
        /\ \A i \in 1 .. n : Append(Returning, t)[i] = Returning[i]
    BY <2>1
  <2> QED BY <1>12, <2>2
<1>14. Queue!Complete(t)
  BY <1>5, <1>8, <1>9, <1>12, <1>13 DEF Queue!Complete
<1> QED BY <1>5, <1>14 DEF Queue!Next

(* Entering vring_get_task: the task of the oldest entry is now get_task. *)
LEMMA GetTaskQueue ==
  ASSUME RingInv, GetTask
  PROVE  UNCHANGED Queue!vars
<1>0. TInv /\ FlowInv
  BY DEF RingInv
<1>1. /\ get_pc = "idle" /\ get_pc' = "walk"
      /\ get_task' = tasks[used_ring[Mask(last_used_idx)]]
      /\ UNCHANGED <<tasks, phase, used_ring, used_idx, last_used_idx>>
  BY DEF GetTask, UsedHead, tableVars, usedVars, taskVars
<1>2. PICK l \in Nat : l = last_used_idx
  BY <1>0 DEF TInv, TypeOK
<1>3. \A i \in 1 .. used_idx - last_used_idx :
        (IF i = 1 /\ get_pc' # "idle" THEN get_task'
         ELSE tasks'[used_ring'[Mask(last_used_idx' + i - 1)]])
        = (IF i = 1 /\ get_pc # "idle" THEN get_task
           ELSE tasks[used_ring[Mask(last_used_idx + i - 1)]])
  <2> SUFFICES ASSUME NEW i \in 1 .. used_idx - last_used_idx
               PROVE  (IF i = 1 THEN tasks[used_ring[Mask(l)]]
                       ELSE tasks[used_ring[Mask(l + i - 1)]])
                      = tasks[used_ring[Mask(l + i - 1)]]
    BY <1>1, <1>2
  <2>1. i = 1 => l + i - 1 = l
    BY <1>2
  <2> QED BY <2>1
<1>4. Returning' = Returning
  BY <1>1, <1>3 DEF Returning, Mask, Reg
<1>5. Sent' = Sent
  BY <1>1 DEF Sent
<1> QED BY <1>4, <1>5, QueueStutter

(* While the poller walks, only slots of its own task change hands. *)
LEMMA WalkQueue ==
  ASSUME RingInv, FreeSlot \/ ReadNext
  PROVE  UNCHANGED Queue!vars
<1>0. TInv /\ TableInv
  BY DEF RingInv
<1>1. /\ get_pc # "idle" /\ get_pc' # "idle"
      /\ UNCHANGED <<phase, used_ring, used_idx, last_used_idx, get_task>>
      /\ tasks' = tasks \/ (tasks' = [tasks EXCEPT ![get_idx] = NULL] /\ get_pc = "walk")
  BY DEF FreeSlot, ReadNext, tableVars, usedVars, taskVars
<1>2. \A h \in Slots : SentHead(h) => tasks'[h] = tasks[h]
  BY <1>0, <1>1, WalkOwn DEF SentHead, TInv, TypeOK
<1>3. Returning' = Returning
  BY <1>1, <1>2, ReturningKept
<1>4. Sent' = Sent
  BY <1>1 DEF Sent
<1> QED BY <1>3, <1>4, QueueStutter

(* The last slot released, vring_get_task returns the oldest task. *)
LEMMA GetDoneQueue ==
  ASSUME RingInv, GetDone
  PROVE  Queue!Next
<1>0. TInv /\ TableInv /\ FlowInv
  BY DEF RingInv
<1>1. /\ get_pc = "walk" /\ get_pc' = "idle"
      /\ tasks' = [tasks EXCEPT ![get_idx] = NULL]
      /\ phase' = [phase EXCEPT ![get_task] = "free"]
      /\ last_used_idx' = last_used_idx + 1
      /\ UNCHANGED <<used_ring, used_idx>>
  BY DEF GetDone, Destroy
<1>2. PICK g \in Tasks : g = get_task
  BY <1>0, <1>1 DEF TableInv, TaskInv, TInv, TypeOK
<1>3. PICK n \in Nat : n + 1 = used_idx - last_used_idx
  BY <1>0, <1>1 DEF FlowInv, HeadsInv, TInv, TypeOK
<1>4. PICK l \in Nat : l = last_used_idx
  BY <1>0 DEF TInv, TypeOK
<1>5. /\ Returning \in Seq(Sent) /\ Len(Returning) = n + 1
      /\ DOMAIN Returning = 1 .. n + 1 /\ Returning[1] = g
      /\ \A i, j \in 1 .. n + 1 : Returning[i] = Returning[j] => i = j
      /\ \A i \in 1 .. n + 1 : Returning[i] \in Sent
  BY <1>1, <1>2, <1>3, ReturningFacts
<1>6. Returning' = [i \in 1 .. n |-> tasks'[used_ring[Mask(l + i)]]]
  <2>1. used_idx' - last_used_idx' = n
    BY <1>0, <1>1, <1>3 DEF TInv, TypeOK
  <2>2. \A i \in 1 .. n : last_used_idx' + i - 1 = l + i
    BY <1>1, <1>4
  <2> QED BY <1>1, <2>1, <2>2 DEF Returning, Mask, Reg
<1>7. ASSUME NEW i \in 1 .. n PROVE Returning'[i] = Returning[i + 1]
  <2>1. i + 1 \in 1 .. n + 1 /\ ~(i + 1 = 1) /\ l + (i + 1) - 1 = l + i
    OBVIOUS
  <2>2. l + i \in UsedPending /\ Returning[i + 1] = tasks[UsedAt(l + i)]
    BY <1>4, <1>5, <2>1, ReturningFacts
  <2>3. SentHead(UsedAt(l + i)) /\ UsedAt(l + i) \in Slots
    BY <1>0, <2>2, EntryTypes DEF FlowInv, HeadsInv
  <2>4. tasks'[UsedAt(l + i)] = tasks[UsedAt(l + i)]
    BY <1>0, <1>1, <2>3, WalkOwn DEF SentHead, TInv, TypeOK
  <2> QED BY <1>6, <2>2, <2>4 DEF UsedAt
<1>8. Returning' = Tail(Returning)
  <2>1. Returning' \in Seq(Sent) /\ Len(Returning') = n
    <3>1. \A i \in 1 .. n : Returning'[i] \in Sent
      BY <1>5, <1>7
    <3>2. Returning' \in [1 .. n -> Sent]
      BY <1>6, <3>1
    <3> QED BY <3>2
  <2> HIDE DEF Returning
  <2>2. /\ Tail(Returning) \in Seq(Sent) /\ Len(Tail(Returning)) = n
        /\ \A i \in 1 .. n : Tail(Returning)[i] = Returning[i + 1]
    BY <1>5
  <2> QED BY <1>7, <2>1, <2>2, SeqEqual
<1>9. Sent' = Sent \ {g}
  BY <1>0, <1>1, <1>2 DEF Sent, TInv, TypeOK
<1>10. (Sent \ {Returning[i] : i \in DOMAIN Returning})'
         = Sent \ {Returning[i] : i \in DOMAIN Returning}
  <2>1. DOMAIN Returning' = 1 .. n
    BY <1>6
  <2> HIDE DEF Returning, Sent
  <2>2. {Returning[i] : i \in 1 .. n + 1} = {g} \cup {Returning[i + 1] : i \in 1 .. n}
    <3>1. \A i \in 1 .. n + 1 : i = 1 \/ (i - 1 \in 1 .. n /\ (i - 1) + 1 = i)
      OBVIOUS
    <3>2. 1 \in 1 .. n + 1 /\ \A i \in 1 .. n : i + 1 \in 1 .. n + 1
      OBVIOUS
    <3> QED BY <1>5, <3>1, <3>2
  <2>3. {Returning'[i] : i \in 1 .. n} = {Returning[i + 1] : i \in 1 .. n}
    BY <1>7
  <2> QED BY <1>5, <1>9, <2>1, <2>2, <2>3
<1>11. Returning # <<>>
  BY <1>5
<1>12. Queue!Reap
  <2> HIDE DEF Returning, Sent
  <2> QED BY <1>8, <1>10, <1>11, Zenon DEF Queue!Reap
<1> QED BY <1>12 DEF Queue!Next

(* Every step of the ring is a step of the queue or leaves it alone. *)
LEMMA QueueStep ==
  ASSUME RingInv, [SerialNext]_vars
  PROVE  [Queue!Next]_(Queue!vars)
<1>1. ASSUME NEW p \in Threads, OffRing(p) PROVE UNCHANGED Queue!vars
  BY <1>1, OffRingQueue
<1>2. ASSUME NEW p \in Threads, Publish(p) PROVE Queue!Next
  BY <1>2, PublishQueue
<1>3. CASE DevComplete
  BY <1>3, DevCompleteQueue
<1>4. CASE GetTask
  BY <1>4, GetTaskQueue
<1>5. CASE FreeSlot \/ ReadNext
  BY <1>5, WalkQueue
<1>6. CASE GetDone
  BY <1>6, GetDoneQueue
<1>7. ASSUME UNCHANGED <<tasks, phase, used_ring, used_idx, last_used_idx,
                         get_pc, get_task>>
      PROVE  UNCHANGED Queue!vars
  <2>1. Sent' = Sent
    BY <1>7 DEF Sent
  <2>2. Returning' = Returning
    BY <1>7, ReturningKept
  <2> QED BY <2>1, <2>2, QueueStutter
<1>8. ASSUME NEW p \in Threads, Kick(p) PROVE UNCHANGED Queue!vars
  BY <1>7, <1>8 DEF Kick, tableVars, taskVars, usedVars, getVars
<1>9. CASE DevFetch \/ DevArm \/ DevBlock \/ DevWake
  BY <1>7, <1>9 DEF DevFetch, DevArm, DevBlock, DevWake,
                    tableVars, taskVars, usedVars, getVars
<1>10. CASE GetEmpty \/ UNCHANGED vars
  BY <1>7, <1>10 DEF GetEmpty, vars, tableVars, taskVars, usedVars, getVars
<1> QED BY <1>1, <1>2, <1>3, <1>4, <1>5, <1>6, <1>8, <1>9, <1>10
     DEF SerialNext, SerialPut, PutRest, Get, Device, OffRing

(* The ring is a queue: a put that succeeds adds one task, which the       *)
(* device completes once and vring_get_task returns once, in the order of  *)
(* completion; never more than half as many tasks as slots are on it.      *)
THEOREM RingIsQueue == SerialSpec => RefinesQueue
<1>1. Init => Queue!Init
  <2> SUFFICES ASSUME Init PROVE Queue!Init
    OBVIOUS
  <2>1. Sent = {}
    BY DEF Init, Sent
  <2>2. Returning = <<>>
    BY DEF Init, Returning
  <2> QED BY <2>1, <2>2 DEF Queue!Init
<1> QED BY <1>1, RingInvariant, QueueStep, PTL
        DEF SerialSpec, RefinesQueue, Queue!Spec

-----------------------------------------------------------------------------
(* The comparisons of truncated indices tell the truth: the masked one of  *)
(* vring_get_task ("is the used ring empty") does not take a ring that is  *)
(* one full turn ahead for an empty one, nor does the device's look at the *)
(* 16-bit avail->idx.                                                      *)
IndicesTold ==
  /\ UsedEmpty <=> last_used_idx = used_idx
  /\ Reg(dev_avail) = Reg(avail_idx) <=> dev_avail = avail_idx

(* At most every other slot is the head of a task on the ring. *)
LEMMA SentBound ==
  ASSUME RingInv
  PROVE  Cardinality(Sent) < Num
<1>0. TInv /\ TableInv
  BY DEF RingInv
<1>1. IsFiniteSet(Sent) /\ Cardinality(Sent) \in Nat
  BY SentCounted, FS_CardinalityType
<1>2. Sent \ {get_task} \in SUBSET Complete
  BY DEF Complete, Sent
<1>3. /\ IsFiniteSet(Complete) /\ Cardinality(Complete) \in Nat
      /\ 2 * Cardinality(Complete) <= IF get_pc = "idle" THEN Num ELSE Num - 1
  BY TwoSlotsEach, FS_CardinalityType
<1>4. /\ IsFiniteSet(Sent \ {get_task})
      /\ Cardinality(Sent \ {get_task}) =
           IF get_task \in Sent THEN Cardinality(Sent) - 1 ELSE Cardinality(Sent)
  BY <1>1, FS_RemoveElement
<1>5. Cardinality(Sent \ {get_task}) <= Cardinality(Complete)
  BY <1>2, <1>3, FS_Subset
<1>6. get_task \in Sent <=> get_pc # "idle"
  BY <1>0, TaskAssumption DEF TableInv, TaskInv, Sent, TInv, TypeOK
<1>7. PICK m \in 1 .. Num : Num = 2 * m
  BY SizeAssumption
<1> QED BY <1>1, <1>3, <1>4, <1>5, <1>6, <1>7, RingAssumption

(* The index comparisons of both ends of the ring are exact although the   *)
(* indices wrap and vring_get_task compares them modulo the ring size.     *)
THEOREM IndicesSafe == SerialSpec => []IndicesTold
<1>1. RingInv => IndicesTold
  <2> SUFFICES ASSUME RingInv PROVE IndicesTold
    OBVIOUS
  <2>0. TInv /\ FlowInv
    BY DEF RingInv
  <2>1. PICK a \in Nat, b \in Nat, u \in Nat, v \in Nat, m \in Nat :
          /\ a = dev_avail /\ b = avail_idx /\ a <= b
          /\ u = last_used_idx /\ v = used_idx /\ u <= v
          /\ m = Len(dev_held)
    <3>1. /\ dev_avail \in Nat /\ avail_idx \in Nat
          /\ last_used_idx \in Nat /\ used_idx \in Nat /\ Len(dev_held) \in Nat
          /\ dev_avail <= avail_idx /\ last_used_idx <= used_idx
      BY <2>0 DEF TInv, TypeOK, FlowInv, HeadsInv
    <3> QED BY <3>1, Zenon
  <2>2. Cardinality(AvailPending) = b - a
    <3>1. Cardinality(a .. b - 1) = IF a > b - 1 THEN 0 ELSE (b - 1) - a + 1
      BY <2>1, FS_Interval
    <3>2. AvailPending = a .. b - 1
      BY <2>1 DEF AvailPending
    <3> QED BY <2>1, <3>1, <3>2
  <2>3. b - a < Num /\ v - u < Num
    BY <2>1, <2>2, SentBound, SentCounted, RingAssumption
  <2>4. a # b => Reg(a) # Reg(b)
    BY <2>1, <2>3, RegInj, RingAssumption
  <2>5. u # v => Mask(u) # Mask(v)
    BY <2>1, <2>3, MaskInj, RingAssumption
  <2> QED BY <2>1, <2>4, <2>5 DEF IndicesTold, UsedEmpty
<1> QED BY <1>1, RingInvariant, PTL
=============================================================================
