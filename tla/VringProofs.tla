---------------------------- MODULE VringProofs ----------------------------
(***************************************************************************)
(* The publication protocol of vring_flush, proved for every number of     *)
(* threads up to the size of the ring, every ring size and every device.   *)
(***************************************************************************)
EXTENDS Vring, RingArith, FiniteSetTheorems, TLAPS

-----------------------------------------------------------------------------
(* idx & mask is a cell of the ring. *)
LEMMA MaskType ==
  ASSUME NEW a \in Nat
  PROVE  Mask(a) \in Slots
<1>1. Num \in Nat \ {0} /\ IdxMod \in Nat \ {0}
  BY RingAssumption
<1>2. a % IdxMod \in Nat
  BY <1>1, ModDef
<1>3. (a % IdxMod) % Num \in 0 .. Num - 1
  BY <1>1, <1>2, ModDef
<1> QED BY <1>3 DEF Mask, Reg, Slots

(* The step of the search stays on the circle. *)
LEMMA NextSlotType ==
  ASSUME NEW s \in Slots
  PROVE  NextSlot(s) \in Slots
<1>1. Num \in Nat \ {0} /\ s + 1 \in Nat
  BY RingAssumption DEF Slots
<1>2. (s + 1) % Num \in 0 .. Num - 1
  BY <1>1, ModDef
<1> QED BY <1>2 DEF NextSlot, Slots

(* Indices less than Num apart have different cells. *)
LEMMA MaskInj ==
  ASSUME NEW a \in Nat, NEW b \in Nat, a # b, a < b + Num, b < a + Num
  PROVE  Mask(a) # Mask(b)
<1>1. Num \in Nat \ {0} /\ IdxMod \in Nat \ {0}
  BY RingAssumption
<1>2. Multiple(IdxMod, Num)
  BY RingAssumption DEF Multiple
<1>3. Mask(a) = a % Num /\ Mask(b) = b % Num
  BY <1>1, <1>2, ModMod DEF Mask, Reg
<1>4. a % Num # b % Num
  <2>1. CASE a < b
    BY <1>1, <2>1, ModInj
  <2>2. CASE b < a
    BY <1>1, <2>2, ModInj
  <2> QED BY <2>1, <2>2
<1> QED BY <1>3, <1>4

(* ... and different 16-bit values. *)
LEMMA RegInj ==
  ASSUME NEW a \in Nat, NEW b \in Nat, a # b, a < b + Num, b < a + Num
  PROVE  Reg(a) # Reg(b)
BY MaskInj DEF Mask

-----------------------------------------------------------------------------
(* A thread inside vring_put_task has a task. *)
CurInv ==
  \A p \in Threads : pc[p] \notin {"idle", "kick"} => cur[p] \in Tasks

TInv == TypeOK /\ CurInv

(* The two ways descriptors are written keep their type. *)
LEMMA SetNextType ==
  ASSUME desc \in [Slots -> Desc], NEW x, NEW n \in Slots
  PROVE  [desc EXCEPT ![x].next = n] \in [Slots -> Desc]
<1> DEFINE d == [desc EXCEPT ![x].next = n]
<1>1. ASSUME NEW s \in Slots PROVE d[s] \in Desc
  <2>1. CASE s = x
    BY <2>1 DEF Desc
  <2>2. CASE s # x
    BY <2>2
  <2> QED BY <2>1, <2>2
<1> QED BY <1>1

(* vring_set_desc: address and flags of a slot. *)
LEMMA SetBufferType ==
  ASSUME desc \in [Slots -> Desc], NEW x \in Slots,
         NEW a \in (Tasks \X Nat) \cup {NULL}, NEW m \in BOOLEAN
  PROVE  [desc EXCEPT ![x].addr = a, ![x].more = m] \in [Slots -> Desc]
<1> DEFINE d == [desc EXCEPT ![x].addr = a]
           e == [d EXCEPT ![x].more = m]
<1>1. d \in [Slots -> Desc]
  <2>1. [desc[x] EXCEPT !.addr = a] \in Desc
    BY DEF Desc
  <2> QED BY <2>1
<1> HIDE DEF d
<1>2. [d[x] EXCEPT !.more = m] \in Desc
  BY <1>1 DEF Desc
<1>3. e \in [Slots -> Desc]
  BY <1>1, <1>2
<1> QED BY <1>3 DEF d

(* vring_create establishes the types. *)
LEMMA InitTInv == Init => TInv
<1> SUFFICES ASSUME Init PROVE TInv
  OBVIOUS
<1>1. 0 \in Slots
  BY RingAssumption DEF Slots
<1>2. TypeOK
  <2>1. desc \in [Slots -> Desc]
    BY <1>1 DEF Init, Desc
  <2>2. slots \in [Tasks -> Seq(Slots)] /\ dev_held \in Seq(Slots)
    BY DEF Init
  <2>3. no_notify \in BOOLEAN /\ kickfd \in BOOLEAN
    BY DEF Init
  <2> QED BY <1>1, <2>1, <2>2, <2>3 DEF Init, TypeOK
<1>3. CurInv
  BY DEF Init, CurInv
<1> QED BY <1>2, <1>3 DEF TInv

(* Every step of a producer, the poller or the device keeps the types. *)
LEMMA NextTInv == TInv /\ [Next]_vars => TInv'
<1> SUFFICES ASSUME TInv, [Next]_vars PROVE TInv'
  OBVIOUS
<1> USE DEF TInv, TypeOK, CurInv, Goto
<1>0. 0 \in Slots
  BY RingAssumption DEF Slots
<1>1. ASSUME NEW p \in Threads, NEW t \in Tasks, NEW c \in Counts, Call(p, t, c)
      PROVE TInv'
  <2>1. c \in Nat
    BY TaskAssumption, RingAssumption
  <2> QED BY <1>1, <2>1 DEF Call, tableVars, availVars, usedVars, notifyVars,
             getVars, devVars
<1>2. ASSUME NEW p \in Threads, ReadHint(p)
      PROVE TInv'
  BY <1>2 DEF ReadHint, tableVars, availVars, usedVars, notifyVars, taskVars,
     getVars, devVars
<1>3. ASSUME NEW p \in Threads, Claim(p)
      PROVE TInv'
  <2>1. cur[p] \in Tasks /\ cand[p] \in Slots
    BY <1>3 DEF Claim
  <2>2. slots' \in [Tasks -> Seq(Slots)]
    BY <1>3, <2>1 DEF Claim
  <2>3. tasks' \in [Slots -> Tasks \cup {NULL}]
    BY <1>3, <2>1 DEF Claim
  <2>4. CurInv'
    BY <1>3 DEF Claim
  <2> QED BY <1>3, <2>2, <2>3, <2>4 DEF Claim, availVars, usedVars, notifyVars,
             getVars, devVars
<1>4. ASSUME NEW p \in Threads, Skip(p)
      PROVE TInv'
  BY <1>4, NextSlotType DEF Skip, tableVars, availVars, usedVars, notifyVars,
     taskVars, getVars, devVars
<1>5. ASSUME NEW p \in Threads, Undo(p)
      PROVE TInv'
  <2>1. cur[p] \in Tasks
    BY <1>5 DEF Undo
  <2>2. slots' \in [Tasks -> Seq(Slots)]
    BY <1>5, <2>1 DEF Undo
  <2>3. tasks' \in [Slots -> Tasks \cup {NULL}]
    BY <1>5 DEF Undo, UndoOwner
  <2>4. CurInv'
    BY <1>5 DEF Undo
  <2> QED BY <1>5, <2>2, <2>3, <2>4 DEF Undo, availVars, usedVars, notifyVars,
             getVars, devVars
<1>6. ASSUME NEW p \in Threads, Reject(p)
      PROVE TInv'
  BY <1>0, <1>6 DEF Reject, Destroy, ScanReturns, tableVars, availVars, usedVars,
     notifyVars, getVars, devVars
<1>7. ASSUME NEW p \in Threads, StoreHint(p)
      PROVE TInv'
  BY <1>7, NextSlotType DEF StoreHint, availVars, usedVars, notifyVars,
     taskVars, getVars, devVars
<1>8. ASSUME NEW p \in Threads, Link(p)
      PROVE TInv'
  <2>1. cand[p] \in Slots
    OBVIOUS
  <2>2. vring_idx' \in [Tasks -> Slots]
    BY <1>8, <2>1 DEF Link
  <2>3. desc' \in [Slots -> Desc]
    <3> DEFINE x == slots[cur[p]][Len(slots[cur[p]]) - 1]
    <3>1. desc' = desc \/ desc' = [desc EXCEPT ![x].next = cand[p]]
      BY <1>8 DEF Link
    <3> HIDE DEF x
    <3>2. [desc EXCEPT ![x].next = cand[p]] \in [Slots -> Desc]
      BY <2>1, SetNextType, Zenon
    <3> QED BY <3>1, <3>2
  <2>4. CurInv'
    BY <1>8 DEF Link
  <2> QED BY <1>8, <2>2, <2>3, <2>4 DEF Link, availVars, usedVars, notifyVars,
             getVars, devVars
<1>9. ASSUME NEW p \in Threads, SetDesc(p)
      PROVE TInv'
  <2>1. cur[p] \in Tasks /\ cand[p] \in Slots
    BY <1>9 DEF SetDesc
  <2>2. Len(slots[cur[p]]) \in Nat /\ count[cur[p]] \in Nat
    BY <2>1
  <2>3. desc' \in [Slots -> Desc]
    <3> DEFINE i == Len(slots[cur[p]])
               a == <<cur[p], i>>
               m == HasNext(cur[p], i)
    <3>1. a \in (Tasks \X Nat) \cup {NULL} /\ m \in BOOLEAN
      BY <2>1, <2>2 DEF HasNext
    <3>2. desc' = [desc EXCEPT ![cand[p]].addr = a, ![cand[p]].more = m]
      BY <1>9 DEF SetDesc
    <3> HIDE DEF a, m
    <3> QED BY <2>1, <3>1, <3>2, SetBufferType
  <2>4. CurInv'
    BY <1>9 DEF SetDesc
  <2> QED BY <1>9, <2>3, <2>4 DEF SetDesc, availVars, usedVars, notifyVars,
             taskVars, getVars, devVars
<1>10. ASSUME NEW p \in Threads, Reserve(p)
       PROVE TInv'
  <2>1. cur[p] \in Tasks
    BY <1>10 DEF Reserve
  <2>2. head' \in [Threads -> Slots] /\ resv' \in [Threads -> Nat]
    BY <1>10, <2>1 DEF Reserve
  <2>3. saved' \in [Threads -> Slots] /\ cand' \in [Threads -> Slots]
    BY <1>0, <1>10 DEF Reserve, ScanReturns
  <2>4. CurInv'
    BY <1>10 DEF Reserve
  <2> QED BY <1>10, <2>2, <2>3, <2>4 DEF Reserve, Reserved, tableVars, usedVars,
             notifyVars, taskVars, getVars, devVars
<1>11. ASSUME NEW p \in Threads, Fill(p)
       PROVE TInv'
  BY <1>11, MaskType DEF Fill, Cell, tableVars, usedVars, notifyVars, taskVars,
     getVars, devVars
<1>12. ASSUME NEW p \in Threads, Publish(p)
       PROVE TInv'
  <2>1. phase' \in [Tasks -> {"free", "put", "sent"}]
    BY <1>12 DEF Publish
  <2>2. head' \in [Threads -> Slots] /\ resv' \in [Threads -> Nat]
    BY <1>0, <1>12 DEF Publish
  <2>3. CurInv'
    BY <1>12 DEF Publish
  <2> QED BY <1>12, <2>1, <2>2, <2>3 DEF Publish, tableVars, usedVars,
             notifyVars, getVars, devVars
<1>13. ASSUME NEW p \in Threads, Kick(p)
       PROVE TInv'
  BY <1>13 DEF Kick, WantsKick, tableVars, availVars, usedVars, taskVars,
     getVars, devVars
<1>14. CASE GetTask
  BY <1>14, MaskType DEF GetTask, UsedHead, tableVars, availVars, usedVars,
     notifyVars, taskVars, threadVars, devVars
<1>15. CASE FreeSlot
  BY <1>15 DEF FreeSlot, availVars, usedVars, notifyVars, taskVars, threadVars,
     devVars
<1>16. CASE ReadNext
  <2>1. desc[get_idx].next \in Slots
    BY DEF Desc
  <2> QED BY <1>16, <2>1 DEF ReadNext, WalkNext, tableVars, availVars, usedVars,
             notifyVars, taskVars, threadVars, devVars
<1>17. CASE GetDone
  <2>1. /\ phase' \in [Tasks -> {"free", "put", "sent"}]
        /\ count' \in [Tasks -> Nat]
        /\ vring_idx' \in [Tasks -> Slots]
    BY <1>0, <1>17 DEF GetDone, Destroy
  <2>2. slots' \in [Tasks -> Seq(Slots)]
    <3>1. <<>> \in Seq(Slots)
      OBVIOUS
    <3> QED BY <1>17, <3>1 DEF GetDone, Destroy
  <2>3. tasks' \in [Slots -> Tasks \cup {NULL}]
    BY <1>17 DEF GetDone
  <2>4. CurInv'
    BY <1>17 DEF GetDone, threadVars
  <2> QED BY <1>0, <1>17, <2>1, <2>2, <2>3, <2>4 DEF GetDone, availVars,
             notifyVars, threadVars, devVars
<1>18. CASE DevFetch
  BY <1>18, MaskType DEF DevFetch, tableVars, availVars, usedVars, taskVars,
     threadVars, getVars
<1>19. CASE DevComplete
  BY <1>19, MaskType DEF DevComplete, Remove, tableVars, availVars, notifyVars,
     taskVars, threadVars, getVars
<1>20. CASE DevArm \/ DevBlock \/ DevWake
  BY <1>20 DEF DevArm, DevBlock, DevWake, tableVars, availVars, usedVars,
     notifyVars, taskVars, threadVars, getVars
<1>21. CASE UNCHANGED vars
  BY <1>21 DEF vars, tableVars, availVars, usedVars, notifyVars, taskVars,
     threadVars, getVars, devVars
<1> QED
  BY <1>1, <1>2, <1>3, <1>4, <1>5, <1>6, <1>7, <1>8, <1>9, <1>10, <1>11, <1>12,
     <1>13, <1>14, <1>15, <1>16, <1>17, <1>18, <1>19, <1>20, <1>21
     DEF Next, Put, PutRest, Get, GetEmpty, Device

(* Every variable keeps its type in every behaviour of the ring: no index  *)
(* leaves the ring, even when producers race with the poller.              *)
THEOREM TypeCorrect == Spec => []TypeOK
<1>1. Init => TInv
  BY InitTInv
<1>2. TInv /\ [Next]_vars => TInv'
  BY NextTInv
<1>3. TInv => TypeOK
  BY DEF TInv
<1> QED BY <1>1, <1>2, <1>3, PTL DEF Spec

-----------------------------------------------------------------------------
(***************************************************************************)
(* The inductive invariant of vring_flush: the threads inside it hold the  *)
(* indices from avail->idx up to last_avail_idx, one each, and the cell of *)
(* a thread that has filled it still holds its head.                       *)
(***************************************************************************)

ResvRange ==
  /\ avail_idx <= last_avail_idx
  /\ \A p \in Flushing : avail_idx <= resv[p] /\ resv[p] < last_avail_idx

ResvDistinct ==
  \A p, q \in Flushing : resv[p] = resv[q] => p = q

ResvCover ==
  \A k \in avail_idx .. last_avail_idx - 1 : \E p \in Flushing : resv[p] = k

ResvInv == ResvRange /\ ResvDistinct /\ ResvCover

PubInv == ResvInv /\ PublishedCellIsOwn

(* There are no more reserved indices than threads, so fewer than the ring *)
(* has cells.                                                              *)
LEMMA FewReserved ==
  ASSUME TypeOK, ResvInv
  PROVE  last_avail_idx - avail_idx <= Num
<1> DEFINE I == avail_idx .. last_avail_idx - 1
           f == [k \in I |-> CHOOSE p \in Flushing : resv[p] = k]
<1>1. \A k \in I : f[k] \in Flushing /\ resv[f[k]] = k
  <2> SUFFICES ASSUME NEW k \in I
               PROVE  f[k] \in Flushing /\ resv[f[k]] = k
    OBVIOUS
  <2>1. \E p \in Flushing : resv[p] = k
    BY DEF ResvInv, ResvCover
  <2>2. f[k] = CHOOSE p \in Flushing : resv[p] = k
    BY Zenon
  <2> HIDE DEF f
  <2> QED BY <2>1, <2>2, Zenon
<1>2. Flushing \subseteq Threads
  BY DEF Flushing
<1>3. f \in Injection(I, Threads)
  <2>1. f \in [I -> Threads]
    BY <1>1, <1>2
  <2> HIDE DEF f
  <2>2. \A j, k \in I : f[j] = f[k] => j = k
    BY <1>1
  <2> QED BY <2>1, <2>2 DEF Injection, IsInjective
<1>4. Cardinality(I) <= Cardinality(Threads)
  BY <1>3, FS_Injection, ThreadAssumption
<1>5. Cardinality(I) = IF avail_idx > last_avail_idx - 1
                         THEN 0 ELSE last_avail_idx - 1 - avail_idx + 1
  BY FS_Interval DEF TypeOK
<1>6. Cardinality(Threads) \in Nat
  BY FS_CardinalityType, ThreadAssumption
<1> HIDE DEF I
<1> QED BY <1>4, <1>5, <1>6, ThreadAssumption, RingAssumption
        DEF TypeOK, ResvInv, ResvRange

(* Two threads inside vring_flush use different cells. *)
LEMMA CellsDistinct ==
  ASSUME TypeOK, ResvInv, NEW p \in Flushing, NEW q \in Flushing, p # q
  PROVE  Mask(resv[p]) # Mask(resv[q])
<1>1. resv[p] \in Nat /\ resv[q] \in Nat
  BY DEF TypeOK, Flushing
<1>2. resv[p] # resv[q]
  BY DEF ResvInv, ResvDistinct
<1>3. resv[p] < resv[q] + Num /\ resv[q] < resv[p] + Num
  BY <1>1, FewReserved, RingAssumption DEF TypeOK, ResvInv, ResvRange
<1> QED BY <1>1, <1>2, <1>3, MaskInj

(* The 16-bit comparison succeeds only for the thread whose turn it is. *)
LEMMA TurnExact ==
  ASSUME TypeOK, ResvInv, NEW p \in Flushing, Reg(avail_idx) = Reg(resv[p])
  PROVE  resv[p] = avail_idx
<1>1. resv[p] \in Nat /\ avail_idx \in Nat
  BY DEF TypeOK, Flushing
<1>2. resv[p] < avail_idx + Num /\ avail_idx < resv[p] + Num
  BY <1>1, FewReserved, RingAssumption DEF TypeOK, ResvInv, ResvRange
<1> QED BY <1>1, <1>2, RegInj

(* Nobody is inside vring_flush at first. *)
LEMMA InitPubInv == Init => PubInv
BY DEF Init, PubInv, ResvInv, ResvRange, ResvDistinct, ResvCover, Flushing,
   PublishedCellIsOwn

(* The steps that leave the state of vring_flush alone. *)
LEMMA OtherSteps ==
  ASSUME TypeOK, PubInv,
         UNCHANGED <<avail_ring, avail_idx, last_avail_idx, resv, head>>,
         Flushing' = Flushing,
         \A p \in Threads : pc'[p] = "publish" => pc[p] = "publish"
  PROVE  PubInv'
BY DEF PubInv, ResvInv, ResvRange, ResvDistinct, ResvCover, PublishedCellIsOwn

(* Every step keeps the order of publication; only Reserve, Fill and       *)
(* Publish touch it.                                                       *)
LEMMA NextPubInv == TInv /\ PubInv /\ [Next]_vars => PubInv'
<1> SUFFICES ASSUME TInv, PubInv, [Next]_vars PROVE PubInv'
  OBVIOUS
<1>0. TypeOK /\ ResvInv
  BY DEF TInv, PubInv
<1>1. ASSUME NEW p \in Threads, Reserve(p)
      PROVE PubInv'
  <2>1. /\ resv' = [resv EXCEPT ![p] = last_avail_idx]
        /\ last_avail_idx' = last_avail_idx + 1
        /\ UNCHANGED <<avail_idx, avail_ring>>
        /\ pc[p] = "reserve" /\ pc' = [pc EXCEPT ![p] = "fill"]
        /\ head' = [head EXCEPT ![p] = vring_idx[cur[p]]]
    BY <1>1 DEF Reserve, Reserved, Goto
  <2>2. Flushing' = Flushing \cup {p} /\ p \notin Flushing
    BY <1>0, <2>1 DEF Flushing, TypeOK
  <2>3. ResvRange'
    BY <1>0, <2>1, <2>2 DEF ResvInv, ResvRange, TypeOK, Flushing
  <2>4. ResvDistinct'
    BY <1>0, <2>1, <2>2 DEF ResvInv, ResvRange, ResvDistinct, TypeOK, Flushing
  <2>5. ResvCover'
    <3>0. avail_idx' .. last_avail_idx' - 1 = avail_idx .. last_avail_idx
      BY <1>0, <2>1 DEF TypeOK
    <3> SUFFICES ASSUME NEW k \in avail_idx .. last_avail_idx
                 PROVE  \E q \in Flushing' : resv'[q] = k
      BY <3>0 DEF ResvCover
    <3>1. CASE k = last_avail_idx
      <4>1. p \in Flushing'
        BY <2>2
      <4>2. resv'[p] = k
        BY <1>0, <2>1, <3>1 DEF TypeOK
      <4> QED BY <4>1, <4>2
    <3>2. CASE k # last_avail_idx
      <4>1. k \in avail_idx .. last_avail_idx - 1
        BY <1>0, <3>2 DEF TypeOK
      <4>2. PICK q \in Flushing : resv[q] = k
        BY <1>0, <4>1 DEF ResvInv, ResvCover
      <4>3. q # p /\ resv'[q] = resv[q]
        BY <1>0, <2>1, <2>2 DEF TypeOK, Flushing
      <4> QED BY <2>2, <4>2, <4>3
    <3> QED BY <3>1, <3>2
  <2>6. PublishedCellIsOwn'
    BY <1>0, <2>1 DEF PubInv, PublishedCellIsOwn, TypeOK
  <2> QED BY <2>3, <2>4, <2>5, <2>6 DEF PubInv, ResvInv
<1>2. ASSUME NEW p \in Threads, Fill(p)
      PROVE PubInv'
  <2>1. /\ UNCHANGED <<avail_idx, last_avail_idx, resv, head>>
        /\ pc[p] = "fill" /\ pc' = [pc EXCEPT ![p] = "publish"]
        /\ avail_ring' = [avail_ring EXCEPT ![Mask(resv[p])] = head[p]]
    BY <1>2 DEF Fill, Cell, Goto
  <2>2. Flushing' = Flushing /\ p \in Flushing
    BY <1>0, <2>1 DEF Flushing, TypeOK
  <2>3. ResvInv'
    BY <1>0, <2>1, <2>2 DEF ResvInv, ResvRange, ResvDistinct, ResvCover
  <2>4. PublishedCellIsOwn'
    <3> SUFFICES ASSUME NEW q \in Threads, pc'[q] = "publish"
                 PROVE  avail_ring'[Mask(resv[q])] = head[q]
      BY <2>1 DEF PublishedCellIsOwn, Mask, Reg
    <3>1. Mask(resv[q]) \in Slots /\ Mask(resv[p]) \in Slots
      BY <1>0, MaskType DEF TypeOK
    <3>2. CASE q = p
      BY <1>0, <2>1, <3>1, <3>2 DEF TypeOK
    <3>3. CASE q # p
      <4>1. pc[q] = "publish" /\ q \in Flushing
        BY <1>0, <2>1, <3>3 DEF TypeOK, Flushing
      <4>2. Mask(resv[q]) # Mask(resv[p])
        BY <1>0, <2>2, <3>3, <4>1, CellsDistinct
      <4>3. avail_ring[Mask(resv[q])] = head[q]
        BY <4>1 DEF PubInv, PublishedCellIsOwn
      <4> QED BY <1>0, <2>1, <3>1, <4>2, <4>3 DEF TypeOK
    <3> QED BY <3>2, <3>3
  <2> QED BY <2>3, <2>4 DEF PubInv
<1>3. ASSUME NEW p \in Threads, Publish(p)
      PROVE PubInv'
  <2>1. /\ UNCHANGED <<avail_ring, last_avail_idx>>
        /\ avail_idx' = avail_idx + 1
        /\ pc[p] = "publish" /\ pc' = [pc EXCEPT ![p] = "kick"]
        /\ resv' = [resv EXCEPT ![p] = 0]
        /\ head' = [head EXCEPT ![p] = 0]
        /\ Reg(avail_idx) = Reg(resv[p])
    BY <1>3 DEF Publish, MayPublish, Goto
  <2>2. Flushing' = Flushing \ {p} /\ p \in Flushing
    BY <1>0, <2>1 DEF Flushing, TypeOK
  <2>3. resv[p] = avail_idx
    BY <1>0, <2>1, <2>2, TurnExact
  <2>4. \A q \in Flushing' : resv'[q] = resv[q] /\ head'[q] = head[q] /\ q # p
    BY <1>0, <2>1, <2>2 DEF TypeOK, Flushing
  <2>5. ResvRange'
    <3>1. avail_idx + 1 <= last_avail_idx
      BY <1>0, <2>2, <2>3 DEF ResvInv, ResvRange, TypeOK
    <3>2. ASSUME NEW q \in Flushing'
          PROVE  avail_idx + 1 <= resv'[q] /\ resv'[q] < last_avail_idx
      <4>1. q \in Flushing /\ resv[q] # resv[p] /\ resv'[q] = resv[q]
        BY <1>0, <2>2, <2>4 DEF ResvInv, ResvDistinct
      <4>2. resv[q] \in Nat /\ avail_idx \in Nat
        BY <1>0, <4>1 DEF TypeOK, Flushing
      <4> QED BY <1>0, <2>3, <4>1, <4>2 DEF ResvInv, ResvRange
    <3> QED BY <2>1, <3>1, <3>2 DEF ResvRange
  <2>6. ResvDistinct'
    BY <1>0, <2>2, <2>4 DEF ResvInv, ResvDistinct
  <2>7. ResvCover'
    <3> SUFFICES ASSUME NEW k \in avail_idx + 1 .. last_avail_idx - 1
                 PROVE  \E q \in Flushing' : resv'[q] = k
      BY <1>0, <2>1 DEF ResvCover, TypeOK
    <3>1. k \in avail_idx .. last_avail_idx - 1 /\ k # avail_idx
      BY <1>0 DEF TypeOK
    <3>2. PICK q \in Flushing : resv[q] = k
      BY <1>0, <3>1 DEF ResvInv, ResvCover
    <3>3. q \in Flushing'
      BY <2>2, <2>3, <3>1, <3>2
    <3> QED BY <2>4, <3>2, <3>3
  <2>8. PublishedCellIsOwn'
    <3> SUFFICES ASSUME NEW q \in Threads, pc'[q] = "publish"
                 PROVE  avail_ring[Mask(resv'[q])] = head'[q]
      BY <2>1 DEF PublishedCellIsOwn, Mask, Reg
    <3>1. pc[q] = "publish" /\ q # p
      BY <1>0, <2>1 DEF TypeOK
    <3>2. q \in Flushing'
      BY <2>2, <3>1 DEF Flushing
    <3> QED BY <2>4, <3>1, <3>2 DEF PubInv, PublishedCellIsOwn
  <2> QED BY <2>5, <2>6, <2>7, <2>8 DEF PubInv, ResvInv
<1>4. ASSUME NEW p \in Threads,
             \/ \E t \in Tasks, c \in Counts : Call(p, t, c)
             \/ ReadHint(p) \/ Claim(p) \/ Skip(p) \/ Undo(p) \/ Reject(p)
             \/ StoreHint(p) \/ Link(p) \/ SetDesc(p) \/ Kick(p)
      PROVE PubInv'
  <2>1. /\ UNCHANGED <<avail_ring, avail_idx, last_avail_idx, resv, head>>
        /\ pc[p] \notin {"fill", "publish"}
        /\ \E to \in {"hint", "scan", "undo", "store", "idle", "link", "desc",
                      "reserve"} : pc' = [pc EXCEPT ![p] = to]
    BY <1>4 DEF Call, ReadHint, Claim, Skip, Undo, Reject, StoreHint, Link,
       SetDesc, Kick, Goto, availVars
  <2>2. /\ Flushing' = Flushing
        /\ \A q \in Threads : pc'[q] = "publish" => pc[q] = "publish"
    BY <1>0, <2>1 DEF Flushing, TypeOK
  <2> QED BY <1>0, <2>1, <2>2, OtherSteps
<1>5. CASE Get \/ Device \/ UNCHANGED vars
  <2>1. UNCHANGED <<avail_ring, avail_idx, last_avail_idx, resv, head, pc>>
    BY <1>5 DEF Get, GetEmpty, GetTask, FreeSlot, ReadNext, GetDone, Device,
       DevFetch, DevComplete, DevArm, DevBlock, DevWake, vars, availVars,
       threadVars
  <2>2. Flushing' = Flushing
    BY <2>1 DEF Flushing
  <2> QED BY <1>0, <2>1, <2>2, OtherSteps
<1> QED BY <1>1, <1>2, <1>3, <1>4, <1>5 DEF Next, Put, PutRest

(* The cell a thread is about to publish holds the head of its own chain:  *)
(* concurrent flushes never mix up the avail ring.                         *)
THEOREM PublishSafe == Spec => []PublishedCellIsOwn
<1>1. Init => TInv /\ PubInv
  BY InitTInv, InitPubInv
<1>2. TInv /\ PubInv /\ [Next]_vars => (TInv /\ PubInv)'
  BY NextTInv, NextPubInv
<1>3. PubInv => PublishedCellIsOwn
  BY DEF PubInv
<1> QED BY <1>1, <1>2, <1>3, PTL DEF Spec

(* The ordered publication cannot deadlock: whenever threads are inside    *)
(* vring_flush, the next index to be published was reserved by one of them.*)
THEOREM PublishProgress == Spec => []SomeoneCanPublish
<1>1. Init => TInv /\ PubInv
  BY InitTInv, InitPubInv
<1>2. TInv /\ PubInv /\ [Next]_vars => (TInv /\ PubInv)'
  BY NextTInv, NextPubInv
<1>3. TInv /\ PubInv => SomeoneCanPublish
  <2> SUFFICES ASSUME TInv, PubInv, NEW p \in Flushing
               PROVE  \E q \in Flushing : Reg(resv[q]) = Reg(avail_idx)
    BY DEF SomeoneCanPublish
  <2>1. avail_idx \in avail_idx .. last_avail_idx - 1
    BY DEF TInv, TypeOK, PubInv, ResvInv, ResvRange, Flushing
  <2>2. PICK q \in Flushing : resv[q] = avail_idx
    BY <2>1 DEF PubInv, ResvInv, ResvCover
  <2> QED BY <2>2
<1> QED BY <1>1, <1>2, <1>3, PTL DEF Spec

-----------------------------------------------------------------------------
(***************************************************************************)
(* Notification: while the device is armed or asleep it wants kicks, so    *)
(* the flag a producer reads after publishing tells it to kick.            *)
(***************************************************************************)

KickInv ==
  /\ dev_pc # "poll" => ~no_notify
  /\ NoLostKick

(* Every step keeps the kick promise; Publish and the device touch it. *)
LEMMA NextKickInv == TInv /\ KickInv /\ [Next]_vars => KickInv'
<1> SUFFICES ASSUME TInv, KickInv, [Next]_vars PROVE KickInv'
  OBVIOUS
<1>0. DOMAIN pc = Threads /\ dev_pc \in {"poll", "armed", "block"}
  BY DEF TInv, TypeOK
<1> USE DEF KickInv, NoLostKick
<1>1. ASSUME NEW p \in Threads, Publish(p)
      PROVE KickInv'
  <2>1. pc'[p] = "kick" /\ UNCHANGED <<dev_pc, no_notify>>
    BY <1>0, <1>1 DEF Publish, Goto, devVars, notifyVars
  <2> QED BY <2>1
<1>2. ASSUME NEW p \in Threads, Kick(p)
      PROVE KickInv'
  <2>1. /\ UNCHANGED <<dev_pc, dev_avail, no_notify, avail_idx>>
        /\ kickfd' = (kickfd \/ ~no_notify)
    BY <1>2 DEF Kick, WantsKick, devVars, availVars
  <2>2. dev_pc = "block" => kickfd'
    BY <2>1
  <2> QED BY <2>1, <2>2
<1>3. ASSUME NEW p \in Threads,
             \/ \E t \in Tasks, c \in Counts : Call(p, t, c)
             \/ ReadHint(p) \/ Claim(p) \/ Skip(p) \/ Undo(p) \/ Reject(p)
             \/ StoreHint(p) \/ Link(p) \/ SetDesc(p) \/ Reserve(p) \/ Fill(p)
      PROVE KickInv'
  <2>1. /\ UNCHANGED <<avail_idx, dev_pc, dev_avail, no_notify, kickfd>>
        /\ pc[p] # "kick"
        /\ \E to : pc' = [pc EXCEPT ![p] = to]
    BY <1>3 DEF Call, ReadHint, Claim, Skip, Undo, Reject, StoreHint, Link,
       SetDesc, Reserve, Fill, Goto, availVars, devVars, notifyVars
  <2>2. \A q \in Threads : pc[q] = "kick" => pc'[q] = "kick"
    BY <2>1 DEF TInv, TypeOK
  <2> QED BY <2>1, <2>2 DEF Reg
<1>4. CASE DevFetch \/ DevWake
  BY <1>4 DEF DevFetch, DevWake
<1>5. CASE DevArm
  BY <1>5 DEF DevArm
<1>6. CASE DevBlock
  BY <1>6 DEF DevBlock, availVars, notifyVars, Reg
<1>7. CASE Get \/ DevComplete \/ UNCHANGED vars
  <2>1. UNCHANGED <<avail_idx, dev_pc, dev_avail, no_notify, kickfd, pc>>
    BY <1>7 DEF Get, GetEmpty, GetTask, FreeSlot, ReadNext, GetDone,
       DevComplete, vars, availVars, devVars, notifyVars, threadVars
  <2> QED BY <2>1 DEF Reg
<1> QED BY <1>1, <1>2, <1>3, <1>4, <1>5, <1>6, <1>7 DEF Next, Put, PutRest, Device

(* A device that sleeps on a non-empty avail ring is about to be woken, in *)
(* every interleaving of producers with the device's arming sequence.      *)
THEOREM KickSafe == Spec => []NoLostKick
<1>1. Init => TInv /\ KickInv
  BY InitTInv DEF Init, KickInv, NoLostKick
<1>2. TInv /\ KickInv /\ [Next]_vars => (TInv /\ KickInv)'
  BY NextTInv, NextKickInv
<1>3. KickInv => NoLostKick
  BY DEF KickInv
<1> QED BY <1>1, <1>2, <1>3, PTL DEF Spec

(* The environment that does not disturb vring_get_task is one of the      *)
(* environments of Spec: the theorems above hold in the runs of SerialSpec *)
(* too.                                                                    *)
THEOREM SerialIsSpec == SerialSpec => Spec
<1>1. [SerialNext]_vars => [Next]_vars
  BY DEF SerialNext, Next, SerialPut, ClaimElsewhere, Put
<1> QED BY <1>1, PTL DEF SerialSpec, Spec
=============================================================================
