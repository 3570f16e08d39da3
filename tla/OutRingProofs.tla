--------------------------- MODULE OutRingProofs ---------------------------
(***************************************************************************)
(* Proofs about the output ring, for every size of the ring and all        *)
(* arguments of virtio_completed.                                          *)
(***************************************************************************)
EXTENDS OutRing, TLAPS

(* TypeOK and what is always true of the counters; mincount and timeout    *)
(* hold the arguments of a call.                                           *)
TInv ==
  /\ TypeOK
  /\ mincount \in Nat \ {0}
  /\ timeout \in Int
  /\ owed \in Nat
  /\ ppc = "enqueue" => inflight > 0

(* n was counted by the thread that alone takes elements out: it stays a   *)
(* lower bound of the count.                                               *)
CountInv ==
  /\ cpc \in {"reset", "loop", "sleep"} => n <= count
  /\ cpc = "reset" => n >= mincount
  /\ Collectable

(* The last value that the application stored in event_high_wm. *)
Newest == IF wmbuf = <<>> THEN wm ELSE wmbuf[Len(wmbuf)]

(* The push under way will compare with the watermark of this call. *)
Heeded ==
  \/ ppc \in {"watermark", "kick"}
  \/ ppc \in {"reread", "compare"} /\ hw = mincount

Due == count + unseen >= mincount

(* The watermark is stored when virtio_completed counts and visible when   *)
(* it sleeps.  A push that did not see it was in the store buffer when     *)
(* poll was called, so that a poll that lasts its whole delay leaves none. *)
MarkInv ==
  /\ cpc \in {"count", "loop"} => Newest = mincount
  /\ cpc = "sleep" \/ (slept /\ cpc \in {"count", "loop"}) => wmbuf = <<>> /\ wm = mincount

WakeInv ==
  /\ cpc = "sleep" /\ Due => Heeded \/ unseen <= old
  /\ slept /\ cpc = "count" /\ Due => Heeded \/ unseen = 0
  /\ slept /\ cpc \in {"loop", "sleep"} /\ Due => Heeded \/ (unseen = 0 /\ token)

IInv == TInv /\ CountInv /\ MarkInv /\ WakeInv

(* A clock that stops at its bound stays within it. *)
LEMMA LaterType ==
  ASSUME NEW t \in 0 .. MaxTime
  PROVE  Later(t) \in 0 .. MaxTime
BY OutRingAssumption DEF Later

(* Taking the first of several stores leaves the last one. *)
LEMMA TailKeepsLast ==
  ASSUME NEW S, NEW s \in Seq(S), Len(s) > 1
  PROVE  Tail(s) # <<>> /\ Tail(s)[Len(Tail(s))] = s[Len(s)]
<1>1. Tail(s) \in Seq(S) /\ Len(Tail(s)) = Len(s) - 1
  OBVIOUS
<1>2. \A i \in 1 .. Len(s) - 1 : Tail(s)[i] = s[i + 1]
  OBVIOUS
<1>3. Len(s) \in Nat
  OBVIOUS
<1>4. Tail(s)[Len(s) - 1] = s[Len(s)]
  BY <1>2, <1>3
<1>5. Len(Tail(s)) # 0
  BY <1>1, <1>3
<1>6. Len(<<>>) = 0
  OBVIOUS
<1>7. Tail(s) # <<>>
  BY <1>5, <1>6, Zenon
<1> QED
  BY <1>1, <1>4, <1>7

(* The initial state satisfies the invariant.                              *)
LEMMA InitIInv == Init => IInv
<1> SUFFICES ASSUME Init PROVE IInv
  OBVIOUS
<1> USE OutRingAssumption DEF Init
<1>1. TypeOK
  <2>1. inflight \in 0 .. MaxOut
    OBVIOUS
  <2>2. count \in Nat /\ unseen \in Nat /\ taken \in {0, 1} /\ old \in Nat
    OBVIOUS
  <2>3. Occupied <= OUTRING_SIZE - 1
    BY DEF Occupied
  <2>4. n \in 0 .. OUTRING_SIZE - 1 /\ total \in 0 .. MaxTime
    OBVIOUS
  <2>5. token \in BOOLEAN /\ slept \in BOOLEAN
    OBVIOUS
  <2>6. wm \in MinCounts \cup {0} /\ hw \in MinCounts \cup {0}
    OBVIOUS
  <2>7. wmbuf \in Seq(MinCounts \cup {0})
    OBVIOUS
  <2> QED
    BY <2>1, <2>2, <2>3, <2>4, <2>5, <2>6, <2>7 DEF TypeOK
<1>2. TInv
  BY <1>1 DEF TInv
<1>3. CountInv
  BY DEF CountInv, Collectable
<1>4. MarkInv
  BY DEF MarkInv
<1>5. WakeInv
  BY DEF WakeInv
<1> QED
  BY <1>2, <1>3, <1>4, <1>5 DEF IInv

(* The steps of both threads keep the types.                               *)
LEMMA NextTInv == IInv /\ [Next]_vars => TInv'
<1> SUFFICES ASSUME IInv, [Next]_vars PROVE TInv'
  OBVIOUS
<1> USE OutRingAssumption
    DEF IInv, TInv, TypeOK, CountInv, Occupied, pvars, cvars, ring, mark, vars
<1>1. CASE FlushPush
  BY <1>1 DEF FlushPush
<1>2. CASE FlushTake
  BY <1>2 DEF FlushTake
<1>3. CASE FlushMark
  <2>1. wm' \in MinCounts \cup {0} /\ wmbuf' \in Seq(MinCounts \cup {0})
    BY <1>3 DEF FlushMark
  <2> QED
    BY <1>3, <2>1 DEF FlushMark
<1>4. CASE Submit
  BY <1>4 DEF Submit
<1>5. CASE Push
  BY <1>5 DEF Push
<1>6. CASE Enqueue
  BY <1>6 DEF Enqueue, Room
<1>7. CASE Overflow
  BY <1>7 DEF Overflow
<1>8. CASE ReadWatermark
  BY <1>8 DEF ReadWatermark
<1>9. CASE Reread
  BY <1>9 DEF Reread
<1>10. CASE Compare
  BY <1>10 DEF Compare
<1>11. CASE Kick
  BY <1>11 DEF Kick
<1>12. CASE Call
  <2>1. mincount' \in MinCounts /\ wmbuf' = Append(wmbuf, mincount')
    BY <1>12 DEF Call, Store
  <2>2. wmbuf' \in Seq(MinCounts \cup {0})
    BY <2>1
  <2>3. timeout' \in Int /\ mincount' \in Nat \ {0} /\ total' \in 0 .. MaxTime
    BY <1>12 DEF Call
  <2>4. /\ UNCHANGED <<inflight, ppc, hw, count, unseen, taken, old, wm, token, n, owed>>
        /\ cpc' = "count" /\ slept' = FALSE
    BY <1>12 DEF Call, Store
  <2>5. TypeOK'
    BY <2>2, <2>3, <2>4
  <2> QED
    BY <2>3, <2>4, <2>5
<1>13. CASE Count
  BY <1>13 DEF Count, Counted
<1>14. CASE Reset
  BY <1>14 DEF Reset, Return, Store
<1>15. CASE TimeOut
  BY <1>15 DEF TimeOut, Return
<1>16. CASE Sleep
  BY <1>16 DEF Sleep
<1>17. CASE PollReady
  BY <1>17, LaterType DEF PollReady, Wake, Spent
<1>18. CASE PollTimeout
  BY <1>18, LaterType DEF PollTimeout, Wake, Spent
<1>19. CASE PollError
  BY <1>19, LaterType DEF PollError, Wake, Spent
<1>20. CASE GetCompleted
  BY <1>20 DEF GetCompleted, CanTake, Drained
<1>21. CASE UNCHANGED vars
  BY <1>21
<1> QED
  BY <1>1, <1>2, <1>3, <1>4, <1>5, <1>6, <1>7, <1>8, <1>9, <1>10, <1>11,
     <1>12, <1>13, <1>14, <1>15, <1>16, <1>17, <1>18, <1>19, <1>20, <1>21
  DEF Next, Flush, Producer, Waiting, Ended

(* Only virtio_get_completed lowers the count, and never inside a call of  *)
(* virtio_completed.                                                       *)
LEMMA NextCountInv == IInv /\ [Next]_vars => CountInv'
<1> SUFFICES ASSUME IInv, [Next]_vars PROVE CountInv'
  OBVIOUS
<1> USE OutRingAssumption
    DEF IInv, TInv, TypeOK, CountInv, Collectable, pvars, cvars, ring, mark, vars
<1>1. CASE FlushPush
  BY <1>1 DEF FlushPush
<1>2. CASE FlushTake \/ FlushMark
  BY <1>2 DEF FlushTake, FlushMark
<1>3. CASE Submit \/ Producer
  BY <1>3 DEF Submit, Producer, Push, Enqueue, Overflow, ReadWatermark, Reread, Compare, Kick
<1>4. CASE Call
  BY <1>4 DEF Call
<1>5. CASE Count
  BY <1>5 DEF Count, Counted
<1>6. CASE Reset
  BY <1>6 DEF Reset, Return
<1>7. CASE TimeOut
  BY <1>7 DEF TimeOut, Return
<1>8. CASE Sleep
  BY <1>8 DEF Sleep
<1>9. CASE PollReady \/ PollTimeout \/ PollError
  BY <1>9 DEF PollReady, PollTimeout, PollError, Wake
<1>10. CASE GetCompleted
  BY <1>10 DEF GetCompleted, CanTake
<1>11. CASE UNCHANGED vars
  BY <1>11
<1> QED
  BY <1>1, <1>2, <1>3, <1>4, <1>5, <1>6, <1>7, <1>8, <1>9, <1>10, <1>11
  DEF Next, Flush, Waiting, Ended

(* The store of the watermark reaches memory in its turn.                  *)
LEMMA NextMarkInv == IInv /\ [Next]_vars => MarkInv'
<1> SUFFICES ASSUME IInv, [Next]_vars PROVE MarkInv'
  OBVIOUS
<1> USE DEF IInv, TInv, TypeOK, MarkInv, Newest, pvars, cvars, ring, mark, vars
<1>1. CASE FlushPush \/ FlushTake
  BY <1>1 DEF FlushPush, FlushTake
<1>2. CASE FlushMark
  <2>1. cpc' = cpc /\ slept' = slept /\ mincount' = mincount
    BY <1>2 DEF FlushMark
  <2>2. ~(cpc = "sleep" \/ (slept /\ cpc \in {"count", "loop"}))
    BY <1>2 DEF FlushMark
  <2>3. Newest' = Newest
    <3>1. wmbuf # <<>> /\ wm' = Head(wmbuf) /\ wmbuf' = Tail(wmbuf)
      BY <1>2 DEF FlushMark
    <3>2. CASE Len(wmbuf) = 1
      <4>1. wmbuf' = <<>>
        BY <3>1, <3>2
      <4> QED
        BY <3>1, <3>2, <4>1
    <3>3. CASE Len(wmbuf) > 1
      <4>1. wmbuf' # <<>> /\ wmbuf'[Len(wmbuf')] = wmbuf[Len(wmbuf)]
        BY <3>1, <3>3, TailKeepsLast
      <4> QED
        BY <3>1, <4>1
    <3> QED
      BY <3>1, <3>2, <3>3
  <2> QED
    BY <2>1, <2>2, <2>3 DEF MarkInv
<1>3. CASE Submit \/ Producer
  BY <1>3 DEF Submit, Producer, Push, Enqueue, Overflow, ReadWatermark, Reread, Compare, Kick
<1>4. CASE Call
  <2>1. cpc' = "count" /\ slept' = FALSE /\ wmbuf' = Append(wmbuf, mincount')
    BY <1>4 DEF Call, Store
  <2>2. Newest' = mincount'
    BY <2>1
  <2> QED
    BY <2>1, <2>2 DEF MarkInv
<1>5. CASE Count
  BY <1>5 DEF Count
<1>6. CASE Reset \/ TimeOut
  BY <1>6 DEF Reset, TimeOut, Return
<1>7. CASE Sleep
  BY <1>7 DEF Sleep, Drained
<1>8. CASE PollReady \/ PollTimeout \/ PollError
  BY <1>8 DEF PollReady, PollTimeout, PollError, Wake
<1>9. CASE GetCompleted
  BY <1>9 DEF GetCompleted
<1>10. CASE UNCHANGED vars
  BY <1>10
<1> QED
  BY <1>1, <1>2, <1>3, <1>4, <1>5, <1>6, <1>7, <1>8, <1>9, <1>10
  DEF Next, Flush, Waiting, Ended

(* A push that is not seen when poll was called becomes visible before the *)
(* delay is over, and one that comes later finds the watermark.            *)
LEMMA NextWakeInv == IInv /\ [Next]_vars => WakeInv'
<1> SUFFICES ASSUME IInv, [Next]_vars PROVE WakeInv'
  OBVIOUS
<1> USE OutRingAssumption
    DEF IInv, TInv, TypeOK, MarkInv, WakeInv, Due, Heeded, Occupied, pvars, cvars, ring, mark, vars
<1>1. CASE FlushPush
  BY <1>1 DEF FlushPush
<1>2. CASE FlushTake \/ FlushMark
  BY <1>2 DEF FlushTake, FlushMark
<1>3. CASE Submit
  BY <1>3 DEF Submit
<1>4. CASE Push \/ Overflow
  BY <1>4 DEF Push, Overflow
<1>5. CASE Enqueue
  BY <1>5 DEF Enqueue
<1>6. CASE ReadWatermark
  BY <1>6 DEF ReadWatermark
<1>7. CASE Reread
  BY <1>7 DEF Reread
<1>8. CASE Compare
  BY <1>8 DEF Compare, Reached
<1>9. CASE Kick
  BY <1>9 DEF Kick
<1>10. CASE Call
  BY <1>10 DEF Call
<1>11. CASE Count
  BY <1>11 DEF Count, Counted
<1>12. CASE Reset \/ TimeOut
  BY <1>12 DEF Reset, TimeOut, Return
<1>13. CASE Sleep
  BY <1>13 DEF Sleep
<1>14. CASE PollReady \/ PollError
  BY <1>14 DEF PollReady, PollError, Wake
<1>15. CASE PollTimeout
  BY <1>15 DEF PollTimeout, Wake
<1>16. CASE GetCompleted
  BY <1>16 DEF GetCompleted
<1>17. CASE UNCHANGED vars
  BY <1>17
<1> QED
  BY <1>1, <1>2, <1>3, <1>4, <1>5, <1>6, <1>7, <1>8, <1>9, <1>10, <1>11,
     <1>12, <1>13, <1>14, <1>15, <1>16, <1>17
  DEF Next, Flush, Producer, Waiting, Ended

(* The inductive invariant holds in every state. *)
LEMMA Inductive == Spec => []IInv
<1>1. IInv /\ [Next]_vars => IInv'
  BY NextTInv, NextCountInv, NextMarkInv, NextWakeInv DEF IInv
<1> QED
  BY InitIInv, <1>1, PTL DEF Spec

(* Type correctness of the output ring. *)
THEOREM OutRingTypeCorrect == Spec => []TypeOK
<1>1. IInv => TypeOK
  BY DEF IInv, TInv
<1> QED
  BY Inductive, <1>1, PTL

(* After one whole delay virtio_completed does not sleep while enough      *)
(* requests are in the ring and no kick is there or on its way, however    *)
(* long stores stay in the store buffers before and whichever of its two   *)
(* reads of event_high_wm push_to_outring uses.                            *)
THEOREM OversleepSafe == Spec => []OversleepsOnce
<1>1. IInv => OversleepsOnce
  BY DEF IInv, TInv, TypeOK, WakeInv, Due, Heeded, OversleepsOnce, Announcing
<1> QED
  BY Inductive, <1>1, PTL

(* As many requests as virtio_completed returned can be taken out.         *)
THEOREM CollectSafe == Spec => []Collectable
<1>1. IInv => Collectable
  BY DEF IInv, CountInv
<1> QED
  BY Inductive, <1>1, PTL

(* A call of virtio_completed with a negative timeout does not return      *)
(* before mincount requests are completed.                                 *)
THEOREM ForeverSafe == Spec => ForeverMeansForever
<1>1. IInv /\ [Next]_vars =>
        [cpc # "idle" /\ cpc' = "idle" /\ timeout < 0 => n >= mincount]_vars
  <2> SUFFICES ASSUME IInv, Next, cpc # "idle", cpc' = "idle", timeout < 0
               PROVE  n >= mincount
    OBVIOUS
  <2> USE DEF IInv, TInv, CountInv
  <2>1. CASE Flush \/ Submit \/ Producer
    BY <2>1 DEF Flush, FlushPush, FlushTake, FlushMark, Submit, Producer, Push, Enqueue,
                Overflow, ReadWatermark, Reread, Compare, Kick, cvars
  <2>2. CASE Call \/ Count \/ Sleep \/ GetCompleted \/ Ended
    BY <2>2 DEF Call, Count, Sleep, GetCompleted, Ended, vars, cvars
  <2>3. CASE Reset
    BY <2>3 DEF Reset
  <2>4. CASE TimeOut
    BY <2>4 DEF TimeOut, Expired
  <2>5. CASE PollReady \/ PollTimeout \/ PollError
    BY <2>5 DEF PollReady, PollTimeout, PollError, Wake
  <2> QED
    BY <2>1, <2>2, <2>3, <2>4, <2>5 DEF Next, Waiting
<1> QED
  BY Inductive, <1>1, PTL DEF Spec, ForeverMeansForever
=============================================================================
