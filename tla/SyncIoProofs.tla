---------------------------- MODULE SyncIoProofs ----------------------------
(***************************************************************************)
(* The synchronous path proved for every device geometry, every number of  *)
(* callers and every range: the number returned tells whether a command    *)
(* failed, it counts bytes that are really on the device or in the buffer, *)
(* and a write touches nothing but its own bytes.                          *)
(***************************************************************************)
EXTENDS SyncIo, RingArith

-----------------------------------------------------------------------------
(***************************************************************************)
(* The inductive invariant, by parts.                                      *)
(***************************************************************************)

Busy(t) == pc[t] \notin {"new", "done"}

FcnOK ==
  /\ DOMAIN disk = 0 .. Capacity - 1
  /\ DOMAIN io = Threads /\ DOMAIN pc = Threads /\ DOMAIN n = Threads
  /\ DOMAIN blk_buf = Threads /\ DOMAIN got = Threads /\ DOMAIN ret = Threads
  /\ failed \in [Threads -> BOOLEAN]

(* Where request q stands at a place of the code, with m bytes done. *)
At(q, m, place) ==
  /\ q.offset <= Capacity
  /\ m \in Nat /\ m < Clip(q)
  /\ place \in {"first", "first_back"} => m = 0
  /\ place = "blocks" =>
       (q.offset + m) % BlockSize = 0 /\ Clip(q) - m >= BlockSize
  /\ place \in {"last", "last_back"} =>
       (q.offset + m) % BlockSize = 0 /\ Clip(q) - m < BlockSize

(* One call, by itself. *)
CallOK(t) ==
  /\ pc[t] \in {"new", "first", "first_back", "blocks", "last", "last_back",
                "done"}
  /\ pc[t] = "new" => n[t] = 0 /\ io[t] = NULL
  /\ pc[t] # "new" => io[t] \in Requests
  /\ Busy(t) => At(io[t], n[t], pc[t])
  /\ pc[t] \in {"first_back", "last_back"} => io[t].type = "write"
  /\ pc[t] # "done" => failed[t] = FALSE
  /\ pc[t] = "done" /\ io[t].offset <= Capacity /\ FitsCdb(t) =>
       (ret[t] = Clip(io[t]) <=> failed[t] = FALSE)

(* Calls that share a block, one of them a write, know of it. *)
ClashOK ==
  \A t, u \in Threads :
    t # u /\ Busy(t) /\ Busy(u) /\ "write" \in {io[t].type, io[u].type}
      => t \in clash \/ Blocks(io[t]) \cap Blocks(io[u]) = {}

(* The first m bytes of a call that is alone on its blocks are in place. *)
Placed(t, m) ==
  t \notin clash =>
    \A k \in 0 .. m - 1 :
      /\ io[t].type = "read" => got[t][k] = disk[io[t].offset + k]
      /\ io[t].type = "write" /\ FitsCdb(t) => disk[io[t].offset + k] = <<t, k>>

DoneOK(t) == Busy(t) => Placed(t, n[t])

(* The block to be written back: the caller's bytes, and what the device   *)
(* holds around them.                                                      *)
BufOK(t) ==
  pc[t] \in {"first_back", "last_back"} =>
    \A i \in 0 .. BlockSize - 1 :
      IF i - OffStart(t) \in 0 .. PartLen(t) - 1
        THEN blk_buf[t][i] = <<t, n[t] + i - OffStart(t)>>
        ELSE /\ t \notin clash => blk_buf[t][i] = disk[Blk(t) * BlockSize + i]
             /\ BelongsAt(blk_buf[t][i], Blk(t) * BlockSize + i)

(* No byte of the device belongs elsewhere. *)
PlaceOK == \A b \in 0 .. Capacity - 1 : BelongsAt(disk[b], b)

SyncInv ==
  /\ FcnOK /\ ClashOK /\ PlaceOK
  /\ \A t \in Threads : CallOK(t) /\ DoneOK(t) /\ BufOK(t)

-----------------------------------------------------------------------------
(***************************************************************************)
(* The arithmetic of a call.                                               *)
(***************************************************************************)

(* The size of a block and of the device as the provers need them. *)
LEMMA Geometry ==
  /\ BlockSize \in Nat /\ BlockSize > 0
  /\ NumBlocks \in Nat /\ NumBlocks > 0
  /\ XferMod \in Nat /\ XferMod > 1
  /\ Capacity \in Nat
<1>1. BlockSize \in Nat /\ NumBlocks \in Nat
  BY GeometryAssumption
<1>2. BlockSize * NumBlocks \in Nat
  BY <1>1
<1> QED BY <1>1, <1>2, GeometryAssumption DEF Capacity

(* A request and the bytes of it that lie on the device. *)
LEMMA RequestFacts ==
  ASSUME NEW q \in Requests, q.offset <= Capacity
  PROVE  /\ q.offset \in Nat /\ q.nbytes \in Nat
         /\ q.type \in {"read", "write"}
         /\ Clip(q) \in Nat /\ Clip(q) <= q.nbytes
         /\ q.offset + Clip(q) <= Capacity
<1>1. q \in [type : {"read", "write"}, offset : Nat, nbytes : Nat]
  BY RequestAssumption
<1>2. q.offset \in Nat /\ q.nbytes \in Nat /\ q.type \in {"read", "write"}
  BY <1>1
<1> QED BY <1>2, Geometry DEF Clip, Least

(* A byte of a request lies in a block of it. *)
LEMMA BlockOf ==
  ASSUME NEW q \in Requests, q.offset <= Capacity,
         NEW b \in Nat, q.offset <= b, b < q.offset + Clip(q)
  PROVE  b \div BlockSize \in Blocks(q)
<1>1. b \in q.offset .. q.offset + Clip(q) - 1
  BY RequestFacts
<1> QED BY <1>1 DEF Blocks

(* The part that follows is the right one, and the call only ends when     *)
(* there is none.                                                          *)
LEMMA NextFacts ==
  ASSUME NEW q \in Requests, q.offset <= Capacity,
         NEW m \in Nat, m <= Clip(q),
         m = 0 \/ m = Clip(q) \/ (q.offset + m) % BlockSize = 0,
         NEW p, p = IF Clip(q) = 0 THEN "done" ELSE NextPart(q, m)
  PROVE  /\ p \in {"first", "blocks", "last", "done"}
         /\ p = "done" => m = Clip(q)
         /\ p # "done" => At(q, m, p)
         /\ p = "first" => m = 0
         /\ p = "blocks" => Clip(q) - m >= BlockSize
<1>1. PICK o \in Nat, c \in Nat : o = q.offset /\ c = Clip(q)
  BY RequestFacts
<1>2. PICK x \in Nat : x = c - m
  BY <1>1
<1> DEFINE d == x \div BlockSize
           r == x % BlockSize
<1>3. r \in 0 .. BlockSize - 1 /\ d \in Nat /\ x = BlockSize * d + r
  <2>1. BlockSize \in Nat \ {0}
    BY Geometry
  <2> QED BY <2>1, ModDef, Zenon
<1>4. d > 0 => x >= BlockSize
  <2> HIDE DEF d, r
  <2> HAVE d > 0
  <2>1. BlockSize * 0 + BlockSize <= BlockSize * d
    BY <1>3, Geometry, MulBound
  <2> QED BY <1>3, <2>1, Geometry
<1>5. d = 0 => x = r
  BY <1>3, Geometry
<1>6. p = IF c = 0 THEN "done"
          ELSE IF m = 0 /\ o % BlockSize # 0 THEN "first"
          ELSE IF d > 0 THEN "blocks"
          ELSE IF r # 0 THEN "last" ELSE "done"
  <2>1. Clip(q) - m = x /\ q.offset = o /\ Clip(q) = c
    BY <1>1, <1>2
  <2>2. NextPart(q, m) = IF m = 0 /\ o % BlockSize # 0 THEN "first"
                         ELSE IF d > 0 THEN "blocks"
                         ELSE IF r # 0 THEN "last" ELSE "done"
    BY <2>1 DEF NextPart
  <2> QED BY <2>1, <2>2
<1> HIDE DEF d, r
<1>7. /\ m <= c /\ o <= Capacity
      /\ m = 0 \/ m = c \/ (o + m) % BlockSize = 0
  BY <1>1
<1>8. m = 0 => (o + m) % BlockSize = o % BlockSize
  BY <1>1
<1>9. CASE c = 0
  BY <1>1, <1>6, <1>7, <1>9
<1>10. CASE c # 0 /\ m = 0 /\ o % BlockSize # 0
  <2>1. p = "first" /\ m < c
    BY <1>6, <1>10
  <2> QED BY <1>1, <1>7, <1>10, <2>1 DEF At
<1>11. CASE c # 0 /\ ~(m = 0 /\ o % BlockSize # 0) /\ d > 0
  <2>1. p = "blocks" /\ x >= BlockSize
    BY <1>4, <1>6, <1>11
  <2>2. m < c /\ c - m >= BlockSize
    BY <1>2, <1>7, <2>1, Geometry
  <2>3. (o + m) % BlockSize = 0
    BY <1>7, <1>8, <1>11, <2>2
  <2> QED BY <1>1, <1>7, <2>1, <2>2, <2>3 DEF At
<1>12. CASE c # 0 /\ ~(m = 0 /\ o % BlockSize # 0) /\ ~(d > 0)
  <2>1. d = 0 /\ x = r /\ r < BlockSize
    BY <1>3, <1>5, <1>12, Geometry
  <2>2. CASE r = 0
    <3>1. p = "done" /\ m = c
      BY <1>2, <1>6, <1>12, <2>1, <2>2
    <3> QED BY <1>1, <3>1
  <2>3. CASE r # 0
    <3>1. p = "last" /\ m < c /\ c - m < BlockSize
      BY <1>2, <1>3, <1>6, <1>12, <2>1, <2>3
    <3>2. (o + m) % BlockSize = 0
      BY <1>7, <1>8, <1>12, <3>1
    <3> QED BY <1>1, <1>7, <3>1, <3>2 DEF At
  <2> QED BY <2>2, <2>3
<1> QED BY <1>9, <1>10, <1>11, <1>12

(* The part of a block at hand: m bytes of c are done, the next l begin at *)
(* byte s of block k, whose first byte is S.                               *)
LEMMA PartFacts ==
  ASSUME NEW t \in Threads, io[t] \in Requests, At(io[t], n[t], pc[t]),
         pc[t] \in {"first", "first_back", "last", "last_back"}
  PROVE  \E o, c, m, s, l, k, S \in Nat :
           /\ o = io[t].offset /\ c = Clip(io[t]) /\ m = n[t]
           /\ s = OffStart(t) /\ l = PartLen(t) /\ k = Blk(t)
           /\ S = k * BlockSize
           /\ o + m = S + s /\ l > 0 /\ s + l <= BlockSize /\ m + l <= c
           /\ m > 0 => s = 0
           /\ m + l = c \/ (o + m + l) % BlockSize = 0
           /\ o + c <= Capacity /\ S + BlockSize <= Capacity
<1>1. PICK o \in Nat, c \in Nat, m \in Nat :
        o = io[t].offset /\ c = Clip(io[t]) /\ m = n[t]
  BY RequestFacts DEF At
<1>2. /\ o + c <= Capacity /\ m < c
      /\ m = 0 \/ (o + m) % BlockSize = 0
  BY <1>1, RequestFacts DEF At
<1> DEFINE k == (o + m) \div BlockSize
           r == (o + m) % BlockSize
           s == OffStart(t)
           l == PartLen(t)
           S == k * BlockSize
<1>3. BlockSize \in Nat \ {0} /\ o + m \in Nat
  BY Geometry
<1>4. r \in 0 .. BlockSize - 1 /\ k \in Nat /\ o + m = BlockSize * k + r
  BY <1>3, ModDef, Zenon
<1>5. s = r
  <2>1. CASE m = 0
    BY <1>1, <2>1 DEF OffStart
  <2>2. CASE m # 0
    <3>1. r = 0
      BY <1>2, <2>2
    <3>2. s = 0
      BY <1>1, <2>2 DEF OffStart
    <3> QED BY <3>1, <3>2
  <2> QED BY <2>1, <2>2
<1>6. l = IF c - m < BlockSize - s THEN c - m ELSE BlockSize - s
  BY <1>1 DEF PartLen, Least
<1>7. k = Blk(t)
  BY <1>1 DEF Blk
<1>8. m > 0 => s = 0
  BY <1>2, <1>5
<1> HIDE DEF s, l, r, k
<1>9. S \in Nat /\ o + m = S + s
  BY <1>3, <1>4, <1>5
<1>10. S + BlockSize = BlockSize * (k + 1)
  BY <1>3, <1>4
<1> HIDE DEF S
<1>11. s \in Nat /\ l \in Nat /\ l > 0 /\ s + l <= BlockSize /\ m + l <= c
  BY <1>2, <1>3, <1>4, <1>5, <1>6
<1>12. m + l = c \/ (o + m + l) % BlockSize = 0
  <2>1. CASE c - m < BlockSize - s
    BY <1>6, <1>11, <2>1
  <2>2. CASE ~(c - m < BlockSize - s)
    <3>1. o + m + l = BlockSize * (k + 1) + 0
      BY <1>3, <1>6, <1>9, <1>10, <1>11, <2>2
    <3>2. k + 1 \in Int /\ 0 \in 0 .. BlockSize - 1 /\ o + m + l \in Nat
      BY <1>3, <1>4, <1>11
    <3> QED BY <1>3, <3>1, <3>2, ModUnique
  <2> QED BY <2>1, <2>2
<1>13. S + BlockSize <= Capacity
  <2>1. NumBlocks \in Nat /\ Capacity = BlockSize * NumBlocks /\ S = BlockSize * k
    BY <1>3, <1>4, Geometry DEF Capacity, S
  <2>2. k < NumBlocks
    <3> SUFFICES ASSUME NumBlocks <= k PROVE FALSE
      BY <1>4, <2>1
    <3>1. NumBlocks = k \/ BlockSize * NumBlocks + BlockSize <= BlockSize * k
      BY <1>3, <1>4, <2>1, MulBound
    <3> QED BY <1>2, <1>3, <1>9, <1>11, <2>1, <3>1
  <2>3. BlockSize * k + BlockSize <= BlockSize * NumBlocks
    BY <1>3, <1>4, <2>1, <2>2, MulBound
  <2> QED BY <2>1, <2>3
<1>14. /\ o = io[t].offset /\ c = Clip(io[t]) /\ m = n[t]
       /\ s = OffStart(t) /\ l = PartLen(t) /\ k = Blk(t)
       /\ S = k * BlockSize
       /\ o + m = S + s /\ l > 0 /\ s + l <= BlockSize /\ m + l <= c
       /\ m > 0 => s = 0
       /\ m + l = c \/ (o + m + l) % BlockSize = 0
       /\ o + c <= Capacity /\ S + BlockSize <= Capacity
  <2>1. s = OffStart(t) /\ l = PartLen(t) /\ S = k * BlockSize
    BY DEF s, l, S
  <2> QED BY <1>1, <1>2, <1>7, <1>8, <1>9, <1>11, <1>12, <1>13, <2>1, Zenon
<1>15. s \in Nat /\ l \in Nat /\ k \in Nat /\ S \in Nat
  BY <1>4, <1>9, <1>11
<1> QED BY <1>14, <1>15, Zenon

(* The full blocks at hand: b of them, of which a command moves e; they    *)
(* begin at byte S of the device.                                          *)
LEMMA BlockFacts ==
  ASSUME NEW t \in Threads, io[t] \in Requests, At(io[t], n[t], pc[t]),
         pc[t] = "blocks"
  PROVE  \E o, c, m, b, e, k, S, B, E \in Nat :
           /\ o = io[t].offset /\ c = Clip(io[t]) /\ m = n[t]
           /\ b = NBlk(t) /\ e = b % XferMod /\ k = Blk(t)
           /\ S = k * BlockSize /\ B = b * BlockSize /\ E = e * BlockSize
           /\ o + m = S /\ B > 0 /\ E <= B /\ m + B <= c
           /\ c - (m + B) < BlockSize
           /\ (o + m + B) % BlockSize = 0
           /\ o + c <= Capacity
           /\ FitsCdb(t) => E = B
           /\ E < B \/ e = b
<1>1. PICK o \in Nat, c \in Nat, m \in Nat :
        o = io[t].offset /\ c = Clip(io[t]) /\ m = n[t]
  BY RequestFacts DEF At
<1>2. /\ o + c <= Capacity /\ m < c
      /\ (o + m) % BlockSize = 0 /\ c - m >= BlockSize
  BY <1>1, RequestFacts DEF At
<1> DEFINE k == (o + m) \div BlockSize
           x == c - m
           b == x \div BlockSize
           r == x % BlockSize
           e == b % XferMod
           S == k * BlockSize
           B == b * BlockSize
           E == e * BlockSize
<1>3. /\ BlockSize \in Nat \ {0} /\ o + m \in Nat /\ x \in Nat
      /\ XferMod \in Nat \ {0}
  BY <1>2, Geometry
<1>4. k \in Nat /\ o + m = BlockSize * k
  <2>1. k \in Nat /\ o + m = BlockSize * k + ((o + m) % BlockSize)
    BY <1>3, ModDef, Zenon
  <2> QED BY <1>2, <1>3, <2>1
<1>5. r \in 0 .. BlockSize - 1 /\ b \in Nat /\ x = BlockSize * b + r
  <2> HIDE DEF x
  <2> QED BY <1>3, ModDef, Zenon
<1>6. k = Blk(t) /\ b = NBlk(t)
  BY <1>1 DEF Blk, NBlk
<1>7. FitsCdb(t) = (c \div BlockSize < XferMod)
  BY <1>1 DEF FitsCdb
<1> HIDE DEF b, r, k
<1>8. e \in Nat /\ e <= b /\ (b < XferMod => e = b)
  <2>1. /\ e \in 0 .. XferMod - 1 /\ b \div XferMod \in Nat
        /\ b = XferMod * (b \div XferMod) + e
    BY <1>3, <1>5, ModDef, Zenon
  <2>2. XferMod * (b \div XferMod) \in Nat
    BY <1>3, <2>1
  <2>3. b < XferMod => e = b
    BY <1>3, <1>5
  <2> HIDE DEF e
  <2> QED BY <2>1, <2>2, <2>3, <1>5
<1> HIDE DEF e
<1>9. FitsCdb(t) => e = b
  <2> DEFINE d == c \div BlockSize
  <2>1. /\ c % BlockSize \in 0 .. BlockSize - 1 /\ d \in Nat
        /\ c = BlockSize * d + (c % BlockSize)
    BY <1>3, ModDef, Zenon
  <2> HIDE DEF d
  <2>2. b <= d
    <3> SUFFICES ASSUME d < b PROVE FALSE
      BY <1>5, <2>1
    <3>1. BlockSize * d + BlockSize <= BlockSize * b
      BY <1>3, <1>5, <2>1, MulBound
    <3> QED BY <1>3, <1>5, <2>1, <3>1
  <2>3. FitsCdb(t) => d < XferMod
    BY <1>7 DEF d
  <2> QED BY <1>3, <1>5, <1>8, <2>1, <2>2, <2>3
<1>10. S \in Nat /\ B \in Nat /\ E \in Nat /\ o + m = S /\ x = B + r
  BY <1>3, <1>4, <1>5, <1>8
<1>11. b > 0
  BY <1>2, <1>3, <1>5
<1>12. B >= BlockSize
  <2>1. BlockSize * 0 + BlockSize <= BlockSize * b
    BY <1>3, <1>5, <1>11, MulBound
  <2> QED BY <1>3, <1>5, <2>1
<1>13. /\ e < b => E < B
       /\ e = b => E = B
  <2>1. e < b => BlockSize * e + BlockSize <= BlockSize * b
    BY <1>3, <1>5, <1>8, MulBound
  <2>2. BlockSize * e = E /\ BlockSize * b = B
    BY <1>3, <1>5, <1>8
  <2> HIDE DEF B, E
  <2> QED BY <1>3, <1>10, <2>1, <2>2
<1>14. S + B = BlockSize * (k + b) + 0
  BY <1>3, <1>4, <1>5
<1>15. S = k * BlockSize /\ B = b * BlockSize /\ E = e * BlockSize
  OBVIOUS
<1> HIDE DEF S, B, E
<1>16. (o + m + B) % BlockSize = 0
  <2>1. k + b \in Int /\ 0 \in 0 .. BlockSize - 1 /\ S + B \in Nat
    BY <1>3, <1>4, <1>5, <1>10
  <2>2. (S + B) % BlockSize = 0
    BY <1>3, <1>14, <2>1, ModUnique
  <2> QED BY <1>10, <2>2
<1>17. B > 0 /\ E <= B /\ m + B <= c /\ c - (m + B) < BlockSize
  BY <1>2, <1>3, <1>5, <1>8, <1>10, <1>12, <1>13
<1>18. FitsCdb(t) => E = B
  BY <1>9, <1>13
<1>19. E < B \/ e = b
  BY <1>5, <1>8, <1>13
<1>20. e = b % XferMod
  BY DEF e
<1>21. /\ o = io[t].offset /\ c = Clip(io[t]) /\ m = n[t]
       /\ b = NBlk(t) /\ e = b % XferMod /\ k = Blk(t)
       /\ S = k * BlockSize /\ B = b * BlockSize /\ E = e * BlockSize
       /\ o + m = S /\ B > 0 /\ E <= B /\ m + B <= c
       /\ c - (m + B) < BlockSize
       /\ (o + m + B) % BlockSize = 0
       /\ o + c <= Capacity
       /\ FitsCdb(t) => E = B
       /\ E < B \/ e = b
  BY <1>1, <1>2, <1>6, <1>10, <1>15, <1>16, <1>17, <1>18, <1>19, <1>20, Zenon
<1>22. /\ b \in Nat /\ e \in Nat /\ k \in Nat /\ S \in Nat /\ B \in Nat /\ E \in Nat
  BY <1>4, <1>5, <1>8, <1>10
<1> QED BY <1>21, <1>22, ZenonT(30)

-----------------------------------------------------------------------------
(***************************************************************************)
(* What a step of one call does to that call, and to the others.           *)
(***************************************************************************)

(* The bytes a step of t may change, and how. *)
MayChange(t, b) ==
  /\ io[t].type = "write" /\ pc'[t] # pc[t]
  /\ b \div BlockSize \in Blocks(io[t])
  /\ \/ t \in clash /\ BelongsAt(disk'[b], b)
     \/ b - io[t].offset \in 0 .. io[t].nbytes - 1
        /\ disk'[b] = <<t, b - io[t].offset>>

(* A step of t leaves the other calls alone. *)
Alone(t) ==
  /\ io' = io /\ clash' = clash
  /\ io[t].type = "read" => disk' = disk
  /\ \A b \in 0 .. Capacity - 1 : disk'[b] = disk[b] \/ MayChange(t, b)
  /\ \A u \in Threads \ {t} :
       /\ pc'[u] = pc[u] /\ n'[u] = n[u] /\ blk_buf'[u] = blk_buf[u]
       /\ got'[u] = got[u] /\ ret'[u] = ret[u] /\ failed'[u] = failed[u]

(* A call that has ended has in place what it reports. *)
EndOK(t) == pc[t] = "done" => Placed(t, ret[t])

(* What is shown of every step of a call in progress. *)
StepOK(t) ==
  /\ Busy(t) /\ Alone(t)
  /\ FcnOK' /\ CallOK(t)' /\ DoneOK(t)' /\ BufOK(t)' /\ EndOK(t)'

(* Going on with the next part, or returning. *)
LEMMA AdvanceStep ==
  ASSUME NEW t \in Threads, NEW q \in Requests, q.offset <= Capacity,
         NEW m \in Nat, m <= Clip(q),
         m = 0 \/ m = Clip(q) \/ (q.offset + m) % BlockSize = 0,
         FcnOK, Advance(t, q, m)
  PROVE  /\ n'[t] = m
         /\ pc'[t] \in {"first", "blocks", "last", "done"}
         /\ pc'[t] = "done" => m = Clip(q) /\ ret'[t] = m
         /\ pc'[t] # "done" => At(q, m, pc'[t])
         /\ pc'[t] = "first" => m = 0
         /\ pc'[t] = "blocks" => Clip(q) - m >= BlockSize
         /\ DOMAIN pc' = Threads /\ DOMAIN n' = Threads /\ DOMAIN ret' = Threads
         /\ \A u \in Threads \ {t} :
              pc'[u] = pc[u] /\ n'[u] = n[u] /\ ret'[u] = ret[u]
<1> DEFINE p == IF Clip(q) = 0 THEN "done" ELSE NextPart(q, m)
<1>1. /\ n' = [n EXCEPT ![t] = m]
      /\ pc' = [pc EXCEPT ![t] = p]
      /\ ret' = [ret EXCEPT ![t] = IF p = "done" THEN m ELSE NULL]
  BY DEF Advance
<1>2. /\ p \in {"first", "blocks", "last", "done"}
      /\ p = "done" => m = Clip(q)
      /\ p # "done" => At(q, m, p)
      /\ p = "first" => m = 0
      /\ p = "blocks" => Clip(q) - m >= BlockSize
  BY NextFacts
<1> HIDE DEF p
<1>3. DOMAIN pc = Threads /\ DOMAIN n = Threads /\ DOMAIN ret = Threads
  BY DEF FcnOK
<1>4. n'[t] = m /\ pc'[t] = p /\ (p = "done" => ret'[t] = m)
  BY <1>1, <1>3
<1>5. /\ DOMAIN pc' = Threads /\ DOMAIN n' = Threads /\ DOMAIN ret' = Threads
      /\ \A u \in Threads \ {t} :
           pc'[u] = pc[u] /\ n'[u] = n[u] /\ ret'[u] = ret[u]
  BY <1>1, <1>3
<1> QED BY <1>2, <1>4, <1>5

(* A part that is done takes the call to a place where all is well. *)
LEMMA AdvanceOK ==
  ASSUME NEW t \in Threads, NEW M \in Nat, io'[t] \in Requests,
         io'[t].offset <= Capacity,
         n'[t] = M, pc'[t] \in {"first", "blocks", "last", "done"},
         pc'[t] = "done" => M = Clip(io'[t]) /\ ret'[t] = M,
         pc'[t] # "done" => At(io'[t], M, pc'[t]),
         failed'[t] = FALSE, Placed(t, M)'
  PROVE  CallOK(t)' /\ DoneOK(t)' /\ BufOK(t)' /\ EndOK(t)'
<1>1. CallOK(t)'
  BY DEF CallOK, Busy
<1>2. DoneOK(t)'
  BY DEF DoneOK, Placed
<1>3. BufOK(t)'
  BY DEF BufOK
<1>4. EndOK(t)'
  BY DEF EndOK, Placed
<1> QED BY <1>1, <1>2, <1>3, <1>4

(* A call in progress. *)
LEMMA BusyFacts ==
  ASSUME SyncInv, NEW t \in Threads, Busy(t)
  PROVE  /\ FcnOK /\ io[t] \in Requests /\ At(io[t], n[t], pc[t])
         /\ io[t].offset <= Capacity
         /\ failed[t] = FALSE /\ Placed(t, n[t])
BY DEF SyncInv, CallOK, DoneOK, Busy, At

(* A command that reads one block. *)
LEMMA FetchOne ==
  ASSUME NEW k, NEW S, S = k * BlockSize, NEW d
  PROVE  Fetched(d, ReadCmd(k, 1)) = [i \in 0 .. BlockSize - 1 |-> d[S + i]]
<1>1. 1 % XferMod = 1 /\ 1 * BlockSize = BlockSize
  BY GeometryAssumption
<1>2. ReadCmd(k, 1).nblk = 1 /\ ReadCmd(k, 1).blk = k
  BY <1>1 DEF ReadCmd, create_rw_cdb
<1> QED BY <1>1, <1>2 DEF Fetched, Bytes

(* A command that writes one block. *)
LEMMA StoreOne ==
  ASSUME NEW k, NEW S, S = k * BlockSize, NEW d, NEW bytes
  PROVE  Stored(d, WriteCmd(k, 1, bytes)) =
           [b \in DOMAIN d |-> IF b - S \in 0 .. BlockSize - 1
                                 THEN bytes[b - S] ELSE d[b]]
<1>1. 1 % XferMod = 1 /\ 1 * BlockSize = BlockSize
  BY GeometryAssumption
<1>2. /\ WriteCmd(k, 1, bytes).nblk = 1 /\ WriteCmd(k, 1, bytes).blk = k
      /\ WriteCmd(k, 1, bytes).bytes = bytes
  BY <1>1 DEF WriteCmd, create_rw_cdb
<1> QED BY <1>1, <1>2 DEF Stored, Bytes

(* read_partial_block leaves the device alone and counts the bytes it has  *)
(* put in the caller's buffer.                                             *)
LEMMA ReadPartOK ==
  ASSUME SyncInv, NEW t \in Threads, ReadPart(t)
  PROVE  StepOK(t)
<1>1. Busy(t) /\ pc[t] \in {"first", "first_back", "last", "last_back"}
  BY DEF ReadPart, Busy
<1>2. /\ FcnOK /\ io[t] \in Requests /\ At(io[t], n[t], pc[t])
      /\ io[t].offset <= Capacity
      /\ failed[t] = FALSE /\ Placed(t, n[t])
  BY <1>1, BusyFacts
<1>3. PICK o, c, m, s, l, k, S \in Nat :
           /\ o = io[t].offset /\ c = Clip(io[t]) /\ m = n[t]
           /\ s = OffStart(t) /\ l = PartLen(t) /\ k = Blk(t)
           /\ S = k * BlockSize
           /\ o + m = S + s /\ l > 0 /\ s + l <= BlockSize /\ m + l <= c
           /\ m > 0 => s = 0
           /\ m + l = c \/ (o + m + l) % BlockSize = 0
           /\ o + c <= Capacity /\ S + BlockSize <= Capacity
  BY <1>1, <1>2, PartFacts
<1> DEFINE F == Fetched(disk, ReadCmd(k, 1))
<1>4. /\ io[t].type = "read"
      /\ got' = [got EXCEPT ![t] = [x \in 0 .. m + l - 1 |->
                   IF x < m THEN got[t][x] ELSE F[s + x - m]]]
      /\ Advance(t, io[t], m + l)
      /\ UNCHANGED <<disk, io, blk_buf, failed, clash>>
  BY <1>3 DEF ReadPart
<1>5. F = [i \in 0 .. BlockSize - 1 |-> disk[S + i]]
  <2>1. S = k * BlockSize
    BY <1>3
  <2> QED BY <2>1, FetchOne
<1> HIDE DEF F
<1>6. (o + m + l) = o + (m + l)
  OBVIOUS
<1>7. /\ n'[t] = m + l
      /\ pc'[t] \in {"first", "blocks", "last", "done"}
      /\ pc'[t] = "done" => m + l = Clip(io[t]) /\ ret'[t] = m + l
      /\ pc'[t] # "done" => At(io[t], m + l, pc'[t])
      /\ DOMAIN pc' = Threads /\ DOMAIN n' = Threads /\ DOMAIN ret' = Threads
      /\ \A u \in Threads \ {t} :
           pc'[u] = pc[u] /\ n'[u] = n[u] /\ ret'[u] = ret[u]
  <2>1. m + l \in Nat /\ m + l <= Clip(io[t])
    BY <1>3
  <2>2. m + l = Clip(io[t]) \/ (io[t].offset + (m + l)) % BlockSize = 0
    BY <1>3, <1>6
  <2> QED BY <1>2, <1>4, <2>1, <2>2, AdvanceStep
<1>8. Placed(t, m + l)'
  <2> SUFFICES ASSUME t \notin clash, NEW x \in 0 .. m + l - 1
               PROVE  got'[t][x] = disk[o + x]
    <3>1. /\ io'[t].type = "read" /\ io'[t].offset = o
          /\ clash' = clash /\ disk' = disk
      BY <1>3, <1>4
    <3> QED BY <3>1 DEF Placed
  <2>1. got'[t][x] = IF x < m THEN got[t][x] ELSE F[s + x - m]
    BY <1>2, <1>4 DEF FcnOK
  <2>2. CASE x < m
    <3>1. x \in 0 .. n[t] - 1
      BY <1>3, <2>2
    <3> QED BY <1>2, <1>3, <1>4, <2>1, <2>2, <3>1 DEF Placed
  <2>3. CASE ~(x < m)
    <3>1. s + x - m \in 0 .. BlockSize - 1 /\ S + (s + x - m) = o + x
      BY <1>3, <2>3, Geometry
    <3> QED BY <1>5, <2>1, <2>3, <3>1
  <2> QED BY <2>2, <2>3
<1>9. FcnOK'
  BY <1>2, <1>4, <1>7 DEF FcnOK
<1>10. Alone(t)
  BY <1>2, <1>4, <1>7 DEF Alone, FcnOK
<1>11. CallOK(t)' /\ DoneOK(t)' /\ BufOK(t)' /\ EndOK(t)'
  <2>1. m + l \in Nat
    BY <1>3
  <2> QED BY <1>2, <1>4, <1>7, <1>8, <2>1, AdvanceOK
<1> QED BY <1>1, <1>9, <1>10, <1>11 DEF StepOK

(* The first half of write_partial_block: the copy of the block has the    *)
(* caller's bytes and the device's around them.                            *)
LEMMA WritePartReadOK ==
  ASSUME SyncInv, NEW t \in Threads, WritePartRead(t)
  PROVE  StepOK(t)
<1>1. Busy(t) /\ pc[t] \in {"first", "first_back", "last", "last_back"}
  BY DEF WritePartRead, Busy
<1>2. /\ FcnOK /\ io[t] \in Requests /\ At(io[t], n[t], pc[t])
      /\ io[t].offset <= Capacity
      /\ failed[t] = FALSE /\ Placed(t, n[t])
  BY <1>1, BusyFacts
<1>3. PICK o, c, m, s, l, k, S \in Nat :
           /\ o = io[t].offset /\ c = Clip(io[t]) /\ m = n[t]
           /\ s = OffStart(t) /\ l = PartLen(t) /\ k = Blk(t)
           /\ S = k * BlockSize
           /\ o + m = S + s /\ l > 0 /\ s + l <= BlockSize /\ m + l <= c
           /\ m > 0 => s = 0
           /\ m + l = c \/ (o + m + l) % BlockSize = 0
           /\ o + c <= Capacity /\ S + BlockSize <= Capacity
  BY <1>1, <1>2, PartFacts
<1> DEFINE F == Fetched(disk, ReadCmd(k, 1))
<1>4. /\ io[t].type = "write"
      /\ blk_buf' = [blk_buf EXCEPT ![t] =
                       [i \in DOMAIN F |-> NewByte(t, i, F[i])]]
      /\ pc[t] \in {"first", "last"}
      /\ pc' = [pc EXCEPT ![t] =
                  IF pc[t] = "first" THEN "first_back" ELSE "last_back"]
      /\ UNCHANGED <<disk, io, n, got, ret, failed, clash>>
  BY <1>3 DEF WritePartRead
<1>5. F = [i \in 0 .. BlockSize - 1 |-> disk[S + i]]
  <2>1. S = k * BlockSize
    BY <1>3
  <2> QED BY <2>1, FetchOne
<1> HIDE DEF F
<1>6. /\ pc[t] = "first" => pc'[t] = "first_back"
      /\ pc[t] = "last" => pc'[t] = "last_back"
      /\ DOMAIN pc' = Threads /\ DOMAIN blk_buf' = Threads
      /\ \A u \in Threads \ {t} : pc'[u] = pc[u] /\ blk_buf'[u] = blk_buf[u]
  BY <1>2, <1>4 DEF FcnOK
<1>7. CallOK(t)'
  <2>1. At(io[t], n[t], pc'[t]) /\ pc'[t] \in {"first_back", "last_back"}
    BY <1>2, <1>4, <1>6 DEF At
  <2>2. io'[t] = io[t] /\ n'[t] = n[t] /\ failed'[t] = failed[t]
    BY <1>4
  <2>3. At(io'[t], n'[t], pc'[t])
    BY <2>1, <2>2
  <2> QED BY <1>2, <1>4, <2>1, <2>2, <2>3 DEF CallOK, Busy
<1>8. DoneOK(t)' /\ EndOK(t)'
  <2>1. Placed(t, n[t])'
    BY <1>2, <1>4 DEF Placed, FitsCdb
  <2> QED BY <1>4, <1>6, <2>1 DEF DoneOK, EndOK
<1>9. BufOK(t)'
  <2>1. /\ OffStart(t)' = s /\ PartLen(t)' = l /\ Blk(t)' = k /\ n'[t] = m
    BY <1>3, <1>4 DEF OffStart, PartLen, Blk
  <2> SUFFICES ASSUME NEW i \in 0 .. BlockSize - 1
               PROVE  IF i - s \in 0 .. l - 1
                        THEN blk_buf'[t][i] = <<t, m + i - s>>
                        ELSE /\ blk_buf'[t][i] = disk[S + i]
                             /\ BelongsAt(blk_buf'[t][i], S + i)
    <3>1. io' = io /\ clash' = clash /\ disk' = disk /\ k * BlockSize = S
      BY <1>3, <1>4
    <3> QED BY <2>1, <3>1 DEF BufOK, BelongsAt
  <2>2. blk_buf'[t][i] = NewByte(t, i, disk[S + i])
    BY <1>2, <1>4, <1>5 DEF FcnOK
  <2>3. NewByte(t, i, disk[S + i]) =
          IF i - s \in 0 .. l - 1 THEN <<t, m + i - s>> ELSE disk[S + i]
    BY <1>3 DEF NewByte
  <2>4. BelongsAt(disk[S + i], S + i)
    <3>1. S + i \in 0 .. Capacity - 1
      BY <1>3, Geometry
    <3> QED BY <3>1 DEF SyncInv, PlaceOK
  <2> QED BY <2>2, <2>3, <2>4
<1>10. FcnOK'
  BY <1>2, <1>4, <1>6 DEF FcnOK
<1>11. Alone(t)
  BY <1>2, <1>4, <1>6 DEF Alone
<1> QED BY <1>1, <1>7, <1>8, <1>9, <1>10, <1>11 DEF StepOK

(* The second half of write_partial_block: only the caller's bytes change  *)
(* on the device, unless calls clash.                                      *)
LEMMA WritePartBackOK ==
  ASSUME SyncInv, NEW t \in Threads, WritePartBack(t)
  PROVE  StepOK(t)
<1>1. /\ Busy(t) /\ pc[t] \in {"first", "first_back", "last", "last_back"}
      /\ pc[t] \in {"first_back", "last_back"}
  BY DEF WritePartBack, Busy
<1>2. /\ FcnOK /\ io[t] \in Requests /\ At(io[t], n[t], pc[t])
      /\ io[t].offset <= Capacity
      /\ failed[t] = FALSE /\ Placed(t, n[t])
  BY <1>1, BusyFacts
<1>3. PICK o, c, m, s, l, k, S \in Nat :
           /\ o = io[t].offset /\ c = Clip(io[t]) /\ m = n[t]
           /\ s = OffStart(t) /\ l = PartLen(t) /\ k = Blk(t)
           /\ S = k * BlockSize
           /\ o + m = S + s /\ l > 0 /\ s + l <= BlockSize /\ m + l <= c
           /\ m > 0 => s = 0
           /\ m + l = c \/ (o + m + l) % BlockSize = 0
           /\ o + c <= Capacity /\ S + BlockSize <= Capacity
  BY <1>1, <1>2, PartFacts
<1> DEFINE f == blk_buf[t]
<1>4. /\ disk' = Stored(disk, WriteCmd(k, 1, f))
      /\ blk_buf' = [blk_buf EXCEPT ![t] = NULL]
      /\ Advance(t, io[t], m + l)
      /\ UNCHANGED <<io, got, failed, clash>>
  BY <1>3 DEF WritePartBack
<1>5. io[t].type = "write"
  BY <1>1 DEF SyncInv, CallOK
<1>6. disk' = [b \in DOMAIN disk |-> IF b - S \in 0 .. BlockSize - 1
                                       THEN f[b - S] ELSE disk[b]]
  <2>1. S = k * BlockSize
    BY <1>3
  <2> QED BY <1>4, <2>1, StoreOne
<1>7. \A i \in 0 .. BlockSize - 1 :
        IF i - s \in 0 .. l - 1
          THEN f[i] = <<t, m + i - s>>
          ELSE /\ t \notin clash => f[i] = disk[S + i]
               /\ BelongsAt(f[i], S + i)
  <2>1. BufOK(t) /\ Blk(t) * BlockSize = S
    BY <1>3 DEF SyncInv
  <2> QED BY <1>1, <1>3, <2>1 DEF BufOK
<1> HIDE DEF f
<1>8. DOMAIN disk = 0 .. Capacity - 1
  BY <1>2 DEF FcnOK
<1>9. /\ DOMAIN disk' = 0 .. Capacity - 1
      /\ \A b \in 0 .. Capacity - 1 :
           disk'[b] = IF b - S \in 0 .. BlockSize - 1 THEN f[b - S] ELSE disk[b]
  BY <1>6, <1>8
<1>10. /\ n'[t] = m + l
       /\ pc'[t] \in {"first", "blocks", "last", "done"}
       /\ pc'[t] = "done" => m + l = Clip(io[t]) /\ ret'[t] = m + l
       /\ pc'[t] # "done" => At(io[t], m + l, pc'[t])
       /\ DOMAIN pc' = Threads /\ DOMAIN n' = Threads /\ DOMAIN ret' = Threads
       /\ \A u \in Threads \ {t} :
            pc'[u] = pc[u] /\ n'[u] = n[u] /\ ret'[u] = ret[u]
  <2>1. m + l \in Nat /\ m + l <= Clip(io[t])
    BY <1>3
  <2>2. m + l = Clip(io[t]) \/ (io[t].offset + (m + l)) % BlockSize = 0
    <3>1. (o + m + l) = o + (m + l)
      OBVIOUS
    <3> QED BY <1>3, <3>1
  <2> QED BY <1>2, <1>4, <2>1, <2>2, AdvanceStep
<1>11. Placed(t, m + l)'
  <2> SUFFICES ASSUME t \notin clash, FitsCdb(t), NEW x \in 0 .. m + l - 1
               PROVE  disk'[o + x] = <<t, x>>
    <3>1. /\ io'[t].type = "write" /\ io'[t].offset = o
          /\ clash' = clash /\ FitsCdb(t)' = FitsCdb(t)
      BY <1>3, <1>4, <1>5 DEF FitsCdb
    <3> QED BY <3>1 DEF Placed
  <2>1. o + x \in 0 .. Capacity - 1
    BY <1>3, Geometry
  <2>2. CASE x < m
    <3>1. x \in 0 .. n[t] - 1
      BY <1>3, <2>2
    <3>2. disk[o + x] = <<t, x>>
      BY <1>2, <1>3, <1>5, <3>1 DEF Placed
    <3>3. ~((o + x) - S \in 0 .. BlockSize - 1)
      BY <1>3, <2>2, Geometry
    <3> QED BY <1>9, <2>1, <3>2, <3>3
  <2>3. CASE ~(x < m)
    <3>1. /\ (o + x) - S \in 0 .. BlockSize - 1
          /\ ((o + x) - S) - s \in 0 .. l - 1
          /\ m + ((o + x) - S) - s = x
      <4>1. o + m = S + s /\ s + l <= BlockSize /\ BlockSize \in Nat
        BY <1>3, Geometry
      <4> QED BY <2>3, <4>1
    <3> QED BY <1>7, <1>9, <2>1, <3>1
  <2> QED BY <2>2, <2>3
<1>12. FcnOK'
  BY <1>2, <1>4, <1>9, <1>10 DEF FcnOK
<1>13. \A b \in 0 .. Capacity - 1 : disk'[b] = disk[b] \/ MayChange(t, b)
  <2> SUFFICES ASSUME NEW b \in 0 .. Capacity - 1, disk'[b] # disk[b]
               PROVE  MayChange(t, b)
    OBVIOUS
  <2>1. b - S \in 0 .. BlockSize - 1 /\ disk'[b] = f[b - S]
    BY <1>9
  <2>2. b \div BlockSize \in Blocks(io[t])
    <3>1. b \div BlockSize = k
      <4>1. /\ BlockSize \in Nat \ {0} /\ b \in Nat
            /\ k * BlockSize <= b /\ b < k * BlockSize + BlockSize
        BY <1>3, <2>1, Geometry
      <4> QED BY <4>1, DivUnique
    <3>2. k = (o + m) \div BlockSize
      BY <1>3 DEF Blk
    <3>3. /\ o + m \in Nat /\ io[t].offset <= o + m
          /\ o + m < io[t].offset + Clip(io[t])
      BY <1>3
    <3>4. (o + m) \div BlockSize \in Blocks(io[t])
      BY <1>2, <3>3, BlockOf
    <3> QED BY <3>1, <3>2, <3>4
  <2>3. CASE (b - S) - s \in 0 .. l - 1
    <3>1. f[b - S] = <<t, m + (b - S) - s>>
      BY <1>7, <2>1, <2>3
    <3>2. c <= io[t].nbytes /\ io[t].nbytes \in Nat
      BY <1>2, <1>3, RequestFacts
    <3>3. m + (b - S) - s = b - o /\ b - o \in 0 .. io[t].nbytes - 1
      BY <1>3, <2>3, <3>2
    <3> QED BY <1>1, <1>3, <1>5, <1>10, <2>1, <2>2, <3>1, <3>3 DEF MayChange
  <2>4. CASE ~((b - S) - s \in 0 .. l - 1)
    <3>1. S + (b - S) = b
      BY <1>3
    <3>2. t \in clash /\ BelongsAt(disk'[b], b)
      BY <1>7, <2>1, <2>4, <3>1
    <3> QED BY <1>1, <1>5, <1>10, <2>2, <3>2 DEF MayChange
  <2> QED BY <2>3, <2>4
<1>14. Alone(t)
  BY <1>2, <1>4, <1>5, <1>10, <1>13 DEF Alone, FcnOK
<1>15. CallOK(t)' /\ DoneOK(t)' /\ BufOK(t)' /\ EndOK(t)'
  <2>1. m + l \in Nat
    BY <1>3
  <2> QED BY <1>2, <1>4, <1>10, <1>11, <2>1, AdvanceOK
<1> QED BY <1>1, <1>12, <1>14, <1>15 DEF StepOK

(* A command for the full blocks: only e of the nb blocks are moved. *)
LEMMA StoreMany ==
  ASSUME NEW k, NEW nb, NEW e, NEW S, NEW E, e = nb % XferMod,
         S = k * BlockSize, E = e * BlockSize, NEW d, NEW bytes
  PROVE  Stored(d, WriteCmd(k, nb, bytes)) =
           [b \in DOMAIN d |-> IF b - S \in 0 .. E - 1
                                 THEN bytes[b - S] ELSE d[b]]
<1>1. /\ WriteCmd(k, nb, bytes).nblk = e /\ WriteCmd(k, nb, bytes).blk = k
      /\ WriteCmd(k, nb, bytes).bytes = bytes
  BY DEF WriteCmd, create_rw_cdb
<1> QED BY <1>1 DEF Stored, Bytes

(* blk_read_virtio_dev, whether the transfer length was cut or not. *)
LEMMA ReadBlocksOK ==
  ASSUME SyncInv, NEW t \in Threads, ReadBlocks(t)
  PROVE  StepOK(t)
<1>1. Busy(t) /\ pc[t] = "blocks"
  BY DEF ReadBlocks, Busy
<1>2. /\ FcnOK /\ io[t] \in Requests /\ At(io[t], n[t], pc[t])
      /\ io[t].offset <= Capacity
      /\ failed[t] = FALSE /\ Placed(t, n[t])
  BY <1>1, BusyFacts
<1>3. PICK o, c, m, b, e, k, S, B, E \in Nat :
           /\ o = io[t].offset /\ c = Clip(io[t]) /\ m = n[t]
           /\ b = NBlk(t) /\ e = b % XferMod /\ k = Blk(t)
           /\ S = k * BlockSize /\ B = b * BlockSize /\ E = e * BlockSize
           /\ o + m = S /\ B > 0 /\ E <= B /\ m + B <= c
           /\ c - (m + B) < BlockSize
           /\ (o + m + B) % BlockSize = 0
           /\ o + c <= Capacity
           /\ FitsCdb(t) => E = B
           /\ E < B \/ e = b
  BY <1>1, <1>2, BlockFacts
<1> DEFINE F == Fetched(disk, ReadCmd(k, b))
<1>4. /\ F = [i \in 0 .. E - 1 |-> disk[S + i]]
      /\ ReadCmd(k, b).nblk * BlockSize = E
  <2>1. S = k * BlockSize /\ E = e * BlockSize /\ e = b % XferMod
    BY <1>3
  <2>2. ReadCmd(k, b).nblk = e /\ ReadCmd(k, b).blk = k
    BY <2>1 DEF ReadCmd, create_rw_cdb
  <2> QED BY <2>1, <2>2 DEF Fetched, Bytes
<1>5. /\ io[t].type = "read"
      /\ got' = [got EXCEPT ![t] = [x \in 0 .. m + E - 1 |->
                   IF x < m THEN got[t][x] ELSE F[x - m]]]
      /\ IF E < B THEN Returns(t, m + E) /\ UNCHANGED n
                  ELSE Advance(t, io[t], m + E)
      /\ UNCHANGED <<disk, io, blk_buf, failed, clash>>
  <2>1. Blk(t) = k /\ NBlk(t) = b /\ n[t] = m /\ b * BlockSize = B
    BY <1>3
  <2> QED BY <1>4, <2>1 DEF ReadBlocks
<1> HIDE DEF F
<1>6. Placed(t, m + E)'
  <2> SUFFICES ASSUME t \notin clash, NEW x \in 0 .. m + E - 1
               PROVE  got'[t][x] = disk[o + x]
    <3>1. /\ io'[t].type = "read" /\ io'[t].offset = o
          /\ clash' = clash /\ disk' = disk
      BY <1>3, <1>5
    <3> QED BY <3>1 DEF Placed
  <2>1. got'[t][x] = IF x < m THEN got[t][x] ELSE F[x - m]
    BY <1>2, <1>5 DEF FcnOK
  <2>2. CASE x < m
    <3>1. x \in 0 .. n[t] - 1
      BY <1>3, <2>2
    <3> QED BY <1>2, <1>3, <1>5, <2>1, <2>2, <3>1 DEF Placed
  <2>3. CASE ~(x < m)
    <3>1. o + m = S
      BY <1>3
    <3>2. x - m \in 0 .. E - 1 /\ S + (x - m) = o + x
      BY <2>3, <3>1
    <3> QED BY <1>4, <2>1, <2>3, <3>2
  <2> QED BY <2>2, <2>3
<1>7. m + E \in Nat
  BY <1>3
<1>8. CASE E < B
  <2>1. /\ pc'[t] = "done" /\ ret'[t] = m + E /\ n' = n
        /\ DOMAIN pc' = Threads /\ DOMAIN ret' = Threads
        /\ \A u \in Threads \ {t} : pc'[u] = pc[u] /\ ret'[u] = ret[u]
    BY <1>2, <1>5, <1>8 DEF Returns, FcnOK
  <2>2. ~FitsCdb(t)
    BY <1>3, <1>8
  <2>3. CallOK(t)'
    <3>1. ~FitsCdb(t)' /\ io'[t] = io[t]
      BY <1>5, <2>2 DEF FitsCdb
    <3> QED BY <1>2, <2>1, <3>1 DEF CallOK, Busy
  <2>4. DoneOK(t)' /\ BufOK(t)'
    BY <2>1 DEF DoneOK, BufOK, Busy
  <2>5. EndOK(t)'
    BY <1>6, <2>1 DEF EndOK, Placed
  <2>6. FcnOK'
    BY <1>2, <1>5, <2>1 DEF FcnOK
  <2>7. Alone(t)
    BY <1>2, <1>5, <2>1 DEF Alone, FcnOK
  <2> QED BY <1>1, <2>3, <2>4, <2>5, <2>6, <2>7 DEF StepOK
<1>9. CASE ~(E < B)
  <2>1. E = B
    BY <1>3, <1>9
  <2>2. /\ n'[t] = m + E
        /\ pc'[t] \in {"first", "blocks", "last", "done"}
        /\ pc'[t] = "done" => m + E = Clip(io[t]) /\ ret'[t] = m + E
        /\ pc'[t] # "done" => At(io[t], m + E, pc'[t])
        /\ DOMAIN pc' = Threads /\ DOMAIN n' = Threads /\ DOMAIN ret' = Threads
        /\ \A u \in Threads \ {t} :
             pc'[u] = pc[u] /\ n'[u] = n[u] /\ ret'[u] = ret[u]
    <3>1. m + E <= Clip(io[t])
      BY <1>3, <2>1
    <3>2. (io[t].offset + (m + E)) % BlockSize = 0
      <4>1. o + m + B = o + (m + B)
        OBVIOUS
      <4> QED BY <1>3, <2>1, <4>1
    <3>3. Advance(t, io[t], m + E)
      BY <1>5, <1>9
    <3> QED BY <1>2, <1>7, <3>1, <3>2, <3>3, AdvanceStep
  <2>3. FcnOK'
    BY <1>2, <1>5, <2>2 DEF FcnOK
  <2>4. Alone(t)
    BY <1>2, <1>5, <2>2 DEF Alone, FcnOK
  <2>5. CallOK(t)' /\ DoneOK(t)' /\ BufOK(t)' /\ EndOK(t)'
    BY <1>2, <1>5, <1>6, <1>7, <2>2, AdvanceOK
  <2> QED BY <1>1, <2>3, <2>4, <2>5 DEF StepOK
<1> QED BY <1>8, <1>9

(* blk_write_virtio_dev, whether the transfer length was cut or not. *)
LEMMA WriteBlocksOK ==
  ASSUME SyncInv, NEW t \in Threads, WriteBlocks(t)
  PROVE  StepOK(t)
<1>1. Busy(t) /\ pc[t] = "blocks" /\ io[t].type = "write"
  BY DEF WriteBlocks, Busy
<1>2. /\ FcnOK /\ io[t] \in Requests /\ At(io[t], n[t], pc[t])
      /\ io[t].offset <= Capacity
      /\ failed[t] = FALSE /\ Placed(t, n[t])
  BY <1>1, BusyFacts
<1>3. PICK o, c, m, b, e, k, S, B, E \in Nat :
           /\ o = io[t].offset /\ c = Clip(io[t]) /\ m = n[t]
           /\ b = NBlk(t) /\ e = b % XferMod /\ k = Blk(t)
           /\ S = k * BlockSize /\ B = b * BlockSize /\ E = e * BlockSize
           /\ o + m = S /\ B > 0 /\ E <= B /\ m + B <= c
           /\ c - (m + B) < BlockSize
           /\ (o + m + B) % BlockSize = 0
           /\ o + c <= Capacity
           /\ FitsCdb(t) => E = B
           /\ E < B \/ e = b
  BY <1>1, <1>2, BlockFacts
<1> DEFINE f == [i \in 0 .. B - 1 |-> <<t, m + i>>]
<1>4. /\ disk' = Stored(disk, WriteCmd(k, b, f))
      /\ Advance(t, io[t], m + B)
      /\ UNCHANGED <<io, blk_buf, got, failed, clash>>
  <2>1. Blk(t) = k /\ NBlk(t) = b /\ n[t] = m /\ b * BlockSize = B
    BY <1>3
  <2> QED BY <2>1 DEF WriteBlocks, Bytes
<1>5. disk' = [x \in DOMAIN disk |-> IF x - S \in 0 .. E - 1
                                       THEN f[x - S] ELSE disk[x]]
  <2> HIDE DEF f
  <2>1. S = k * BlockSize /\ E = e * BlockSize /\ e = b % XferMod
    BY <1>3
  <2> QED BY <1>4, <2>1, StoreMany
<1>6. DOMAIN disk = 0 .. Capacity - 1
  BY <1>2 DEF FcnOK
<1>7. /\ DOMAIN disk' = 0 .. Capacity - 1
      /\ \A x \in 0 .. Capacity - 1 :
           disk'[x] = IF x - S \in 0 .. E - 1 THEN <<t, m + (x - S)>> ELSE disk[x]
  <2>1. \A i \in 0 .. E - 1 : f[i] = <<t, m + i>>
    <3>1. E <= B
      BY <1>3
    <3> QED BY <3>1
  <2> HIDE DEF f
  <2> QED BY <1>5, <1>6, <2>1
<1> HIDE DEF f
<1>8. /\ n'[t] = m + B
      /\ pc'[t] \in {"first", "blocks", "last", "done"}
      /\ pc'[t] = "done" => m + B = Clip(io[t]) /\ ret'[t] = m + B
      /\ pc'[t] # "done" => At(io[t], m + B, pc'[t])
      /\ pc'[t] = "blocks" => Clip(io[t]) - (m + B) >= BlockSize
      /\ DOMAIN pc' = Threads /\ DOMAIN n' = Threads /\ DOMAIN ret' = Threads
      /\ \A u \in Threads \ {t} :
           pc'[u] = pc[u] /\ n'[u] = n[u] /\ ret'[u] = ret[u]
  <2>1. m + B \in Nat /\ m + B <= Clip(io[t])
    BY <1>3
  <2>2. (io[t].offset + (m + B)) % BlockSize = 0
    <3>1. o + m + B = o + (m + B)
      OBVIOUS
    <3> QED BY <1>3, <3>1
  <2> QED BY <1>2, <1>4, <2>1, <2>2, AdvanceStep
<1>9. pc'[t] # "blocks"
  BY <1>3, <1>8, Geometry
<1>10. Placed(t, m + B)'
  <2> SUFFICES ASSUME t \notin clash, FitsCdb(t), NEW x \in 0 .. m + B - 1
               PROVE  disk'[o + x] = <<t, x>>
    <3>1. /\ io'[t].type = "write" /\ io'[t].offset = o
          /\ clash' = clash /\ FitsCdb(t)' = FitsCdb(t)
      BY <1>1, <1>3, <1>4 DEF FitsCdb
    <3> QED BY <3>1 DEF Placed
  <2>1. /\ o + x \in 0 .. Capacity - 1
        /\ o + m = S /\ E = B
    BY <1>3, Geometry
  <2>2. CASE x < m
    <3>1. x \in 0 .. n[t] - 1
      BY <1>3, <2>2
    <3>2. disk[o + x] = <<t, x>>
      BY <1>1, <1>2, <1>3, <3>1 DEF Placed
    <3>3. ~((o + x) - S \in 0 .. E - 1)
      BY <2>1, <2>2
    <3> QED BY <1>7, <2>1, <3>2, <3>3
  <2>3. CASE ~(x < m)
    <3>1. (o + x) - S \in 0 .. E - 1 /\ m + ((o + x) - S) = x
      BY <2>1, <2>3
    <3> QED BY <1>7, <2>1, <3>1
  <2> QED BY <2>2, <2>3
<1>11. FcnOK'
  BY <1>2, <1>4, <1>7, <1>8 DEF FcnOK
<1>12. \A x \in 0 .. Capacity - 1 : disk'[x] = disk[x] \/ MayChange(t, x)
  <2> SUFFICES ASSUME NEW x \in 0 .. Capacity - 1, disk'[x] # disk[x]
               PROVE  MayChange(t, x)
    OBVIOUS
  <2>1. x - S \in 0 .. E - 1 /\ disk'[x] = <<t, m + (x - S)>>
    BY <1>7
  <2>2. c <= io[t].nbytes /\ io[t].nbytes \in Nat
    BY <1>2, <1>3, RequestFacts
  <2>3. /\ x \in Nat /\ o <= x /\ x < o + c
        /\ x - o \in 0 .. io[t].nbytes - 1 /\ m + (x - S) = x - o
    <3>1. o + m = S /\ E <= B /\ m + B <= c
      BY <1>3
    <3> QED BY <2>1, <2>2, <3>1
  <2>4. x \div BlockSize \in Blocks(io[t])
    BY <1>2, <1>3, <2>3, BlockOf
  <2> QED BY <1>1, <1>3, <1>9, <2>1, <2>3, <2>4 DEF MayChange
<1>13. Alone(t)
  BY <1>1, <1>2, <1>4, <1>8, <1>12 DEF Alone
<1>14. CallOK(t)' /\ DoneOK(t)' /\ BufOK(t)' /\ EndOK(t)'
  <2>1. m + B \in Nat
    BY <1>3
  <2> QED BY <1>2, <1>4, <1>8, <1>10, <2>1, AdvanceOK
<1> QED BY <1>1, <1>11, <1>13, <1>14 DEF StepOK

(* A command that fails: what was done before stays in place. *)
LEMMA FailOK ==
  ASSUME SyncInv, NEW t \in Threads, Fail(t)
  PROVE  StepOK(t)
<1>1. Busy(t)
  BY DEF Fail, Busy
<1>2. /\ FcnOK /\ io[t] \in Requests /\ At(io[t], n[t], pc[t])
      /\ io[t].offset <= Capacity
      /\ failed[t] = FALSE /\ Placed(t, n[t])
  BY <1>1, BusyFacts
<1>3. /\ pc' = [pc EXCEPT ![t] = "done"]
      /\ ret' = [ret EXCEPT ![t] = FailRet(t)]
      /\ failed' = [failed EXCEPT ![t] = TRUE]
      /\ blk_buf' = [blk_buf EXCEPT ![t] = NULL]
      /\ UNCHANGED <<disk, io, n, got, clash>>
  BY DEF Fail, Returns
<1>4. /\ DOMAIN pc = Threads /\ DOMAIN ret = Threads /\ DOMAIN failed = Threads
      /\ DOMAIN blk_buf = Threads
  BY <1>2 DEF FcnOK
<1>5. /\ pc'[t] = "done" /\ ret'[t] = FailRet(t) /\ failed'[t] = TRUE
      /\ DOMAIN pc' = Threads /\ DOMAIN ret' = Threads
      /\ DOMAIN blk_buf' = Threads
      /\ \A u \in Threads \ {t} :
           /\ pc'[u] = pc[u] /\ ret'[u] = ret[u] /\ failed'[u] = failed[u]
           /\ blk_buf'[u] = blk_buf[u]
  BY <1>3, <1>4
<1>6. failed' \in [Threads -> BOOLEAN]
  <2>1. failed \in [Threads -> BOOLEAN]
    BY <1>2 DEF FcnOK
  <2> QED BY <1>3, <2>1
<1>7. FcnOK'
  BY <1>2, <1>3, <1>5, <1>6 DEF FcnOK
<1>8. FailRet(t) # Clip(io[t]) /\ (FailRet(t) = n[t] \/ FailRet(t) = -1)
  <2>1. n[t] \in Nat /\ n[t] < Clip(io[t]) /\ Clip(io[t]) \in Nat
    BY <1>2, RequestFacts DEF At
  <2> QED BY <2>1 DEF FailRet
<1>9. CallOK(t)'
  <2>1. io'[t] = io[t] /\ ret'[t] # Clip(io'[t])
    BY <1>3, <1>5, <1>8
  <2>2. failed'[t] # FALSE
    BY <1>5, Zenon
  <2> QED BY <1>2, <1>5, <2>1, <2>2 DEF CallOK, Busy
<1>10. DoneOK(t)' /\ BufOK(t)'
  BY <1>5 DEF DoneOK, BufOK, Busy
<1>11. EndOK(t)'
  <2>1. Placed(t, ret[t])'
    <3>1. CASE FailRet(t) = n[t]
      <4>1. ret'[t] = n[t] /\ io' = io /\ clash' = clash /\ disk' = disk /\ got' = got
        BY <1>3, <1>5, <3>1
      <4> QED BY <1>2, <4>1 DEF Placed, FitsCdb
    <3>2. CASE FailRet(t) = -1
      <4>1. 0 .. ret'[t] - 1 = {}
        BY <1>5, <3>2
      <4> QED BY <4>1 DEF Placed
    <3> QED BY <1>8, <3>1, <3>2
  <2> QED BY <2>1 DEF EndOK
<1>12. Alone(t)
  BY <1>3, <1>5 DEF Alone
<1> QED BY <1>1, <1>7, <1>9, <1>10, <1>11, <1>12 DEF StepOK

-----------------------------------------------------------------------------
(***************************************************************************)
(* The invariant holds.                                                    *)
(***************************************************************************)

(* A step of t that is right for t is right for all.                       *)
LEMMA StepInv ==
  ASSUME SyncInv, NEW t \in Threads, StepOK(t)
  PROVE  SyncInv'
<1>1. /\ Busy(t) /\ Alone(t)
      /\ FcnOK' /\ CallOK(t)' /\ DoneOK(t)' /\ BufOK(t)'
  BY DEF StepOK
<1>2. io' = io /\ clash' = clash /\ (io[t].type = "read" => disk' = disk)
  BY <1>1 DEF Alone
<1>3. \A u \in Threads \ {t} :
        /\ pc'[u] = pc[u] /\ n'[u] = n[u] /\ blk_buf'[u] = blk_buf[u]
        /\ got'[u] = got[u] /\ ret'[u] = ret[u] /\ failed'[u] = failed[u]
  BY <1>1 DEF Alone
<1>4. \A b \in 0 .. Capacity - 1 : disk'[b] = disk[b] \/ MayChange(t, b)
  BY <1>1 DEF Alone
<1>5. PlaceOK'
  <2> SUFFICES ASSUME NEW b \in 0 .. Capacity - 1
               PROVE  BelongsAt(disk'[b], b)
    BY <1>2 DEF PlaceOK, BelongsAt
  <2>1. CASE disk'[b] = disk[b]
    BY <2>1 DEF SyncInv, PlaceOK
  <2>2. CASE MayChange(t, b)
    <3>1. CASE b - io[t].offset \in 0 .. io[t].nbytes - 1
               /\ disk'[b] = <<t, b - io[t].offset>>
      <4>1. io[t] \in Requests /\ io[t] # NULL /\ io[t].offset <= Capacity
        BY <1>1, BusyFacts, RequestAssumption
      <4>2. io[t].offset \in Nat /\ io[t].nbytes \in Nat
        BY <4>1, RequestFacts
      <4>3. b < io[t].offset + io[t].nbytes
        BY <3>1, <4>2
      <4> QED BY <2>2, <3>1, <4>1, <4>3 DEF BelongsAt, MayChange
    <3> QED BY <2>2, <3>1 DEF MayChange
  <2> QED BY <1>4, <2>1, <2>2
<1>6. ClashOK'
  <2> SUFFICES ASSUME NEW v \in Threads, NEW u \in Threads, v # u,
                      Busy(v)', Busy(u)', "write" \in {io[v].type, io[u].type}
               PROVE  v \in clash \/ Blocks(io[v]) \cap Blocks(io[u]) = {}
    BY <1>2 DEF ClashOK
  <2>1. Busy(v) /\ Busy(u)
    BY <1>1, <1>3 DEF Busy
  <2> QED BY <2>1 DEF SyncInv, ClashOK
<1>7. ASSUME NEW u \in Threads, u # t
      PROVE  CallOK(u)' /\ DoneOK(u)' /\ BufOK(u)'
  <2>1. /\ io'[u] = io[u] /\ pc'[u] = pc[u] /\ n'[u] = n[u]
        /\ blk_buf'[u] = blk_buf[u] /\ got'[u] = got[u] /\ ret'[u] = ret[u]
        /\ failed'[u] = failed[u]
    BY <1>2, <1>3, <1>7
  <2>2. CallOK(u) /\ DoneOK(u) /\ BufOK(u)
    BY DEF SyncInv
  <2>3. CallOK(u)'
    BY <2>1, <2>2 DEF CallOK, Busy, FitsCdb
  <2>4. ASSUME Busy(u), u \notin clash, NEW b \in 0 .. Capacity - 1,
               b \div BlockSize \in Blocks(io[u])
        PROVE  disk'[b] = disk[b]
    <3> SUFFICES ASSUME MayChange(t, b) PROVE FALSE
      BY <1>4, <2>4
    <3>1. "write" \in {io[u].type, io[t].type}
      BY DEF MayChange
    <3>2. Blocks(io[u]) \cap Blocks(io[t]) = {}
      BY <1>1, <1>7, <2>4, <3>1 DEF SyncInv, ClashOK
    <3> QED BY <2>4, <3>2 DEF MayChange
  <2>5. DoneOK(u)'
    <3> SUFFICES ASSUME Busy(u), u \notin clash, NEW x \in 0 .. n[u] - 1
                 PROVE  disk'[io[u].offset + x] = disk[io[u].offset + x]
      BY <1>2, <2>1, <2>2 DEF DoneOK, Busy, Placed, FitsCdb
    <3>1. /\ io[u] \in Requests /\ At(io[u], n[u], pc[u])
          /\ io[u].offset <= Capacity
      BY BusyFacts
    <3>2. PICK o \in Nat, c \in Nat, m \in Nat :
            o = io[u].offset /\ c = Clip(io[u]) /\ m = n[u]
      BY <3>1, RequestFacts DEF At
    <3>3. m < c /\ o + c <= Capacity
      BY <3>1, <3>2, RequestFacts DEF At
    <3>4. /\ o + x \in 0 .. Capacity - 1 /\ o + x \in Nat
          /\ o <= o + x /\ o + x < o + c
      BY <3>2, <3>3, Geometry
    <3>5. (o + x) \div BlockSize \in Blocks(io[u])
      BY <3>1, <3>2, <3>4, BlockOf
    <3> QED BY <2>4, <3>2, <3>4, <3>5
  <2>6. BufOK(u)'
    <3>1. CASE pc[u] \notin {"first_back", "last_back"}
      BY <2>1, <3>1 DEF BufOK
    <3>2. CASE pc[u] \in {"first_back", "last_back"}
      <4>1. Busy(u)
        BY <3>2 DEF Busy
      <4>2. /\ io[u] \in Requests /\ At(io[u], n[u], pc[u])
            /\ io[u].offset <= Capacity
        BY <4>1, BusyFacts
      <4>3. PICK o, c, m, s, l, k, S \in Nat :
              /\ o = io[u].offset /\ c = Clip(io[u]) /\ m = n[u]
              /\ s = OffStart(u) /\ l = PartLen(u) /\ k = Blk(u)
              /\ S = k * BlockSize
              /\ o + m = S + s /\ l > 0 /\ s + l <= BlockSize /\ m + l <= c
              /\ m > 0 => s = 0
              /\ m + l = c \/ (o + m + l) % BlockSize = 0
              /\ o + c <= Capacity /\ S + BlockSize <= Capacity
        BY <3>2, <4>2, PartFacts
      <4>4. /\ OffStart(u)' = s /\ PartLen(u)' = l /\ Blk(u)' = k
        BY <2>1, <4>3 DEF OffStart, PartLen, Blk
      <4>5. Blk(u) * BlockSize = S /\ k * BlockSize = S
        BY <4>3
      <4>6. \A i \in 0 .. BlockSize - 1 :
              IF i - s \in 0 .. l - 1
                THEN blk_buf[u][i] = <<u, m + i - s>>
                ELSE /\ u \notin clash => blk_buf[u][i] = disk[S + i]
                     /\ BelongsAt(blk_buf[u][i], S + i)
        BY <2>2, <3>2, <4>3, <4>5 DEF BufOK
      <4>7. ASSUME u \notin clash, NEW i \in 0 .. BlockSize - 1
            PROVE  disk'[S + i] = disk[S + i]
        <5>1. S + i \in 0 .. Capacity - 1 /\ S + i \in Nat
          BY <4>3, Geometry
        <5>2. (S + i) \div BlockSize = k
          <6>1. /\ BlockSize \in Nat \ {0}
                /\ k * BlockSize <= S + i /\ S + i < k * BlockSize + BlockSize
            BY <4>3, Geometry
          <6> QED BY <5>1, <6>1, DivUnique
        <5>3. k = (o + m) \div BlockSize
          BY <4>3 DEF Blk
        <5>4. /\ o + m \in Nat /\ io[u].offset <= o + m
              /\ o + m < io[u].offset + Clip(io[u])
          BY <4>3
        <5>5. (o + m) \div BlockSize \in Blocks(io[u])
          BY <4>2, <5>4, BlockOf
        <5> QED BY <2>4, <4>1, <4>7, <5>1, <5>2, <5>3, <5>5
      <4>8. \A i \in 0 .. BlockSize - 1 :
              IF i - s \in 0 .. l - 1
                THEN blk_buf'[u][i] = <<u, m + i - s>>
                ELSE /\ u \notin clash => blk_buf'[u][i] = disk'[S + i]
                     /\ BelongsAt(blk_buf'[u][i], S + i)
        BY <2>1, <4>6, <4>7
      <4>9. n'[u] = m
        BY <2>1, <4>3
      <4> QED BY <1>2, <4>4, <4>5, <4>8, <4>9 DEF BufOK, BelongsAt
    <3> QED BY <3>1, <3>2
  <2> QED BY <2>3, <2>5, <2>6
<1>8. \A u \in Threads : CallOK(u)' /\ DoneOK(u)' /\ BufOK(u)'
  BY <1>1, <1>7
<1> QED BY <1>1, <1>5, <1>6, <1>8 DEF SyncInv

(* The invariant holds initially. *)
LEMMA InitInv ==
  ASSUME Init
  PROVE  SyncInv
<1>1. FcnOK /\ ClashOK
  BY DEF Init, FcnOK, ClashOK, FreshDisk, Busy
<1>2. PlaceOK
  BY DEF Init, PlaceOK, BelongsAt, FreshDisk
<1>3. \A t \in Threads : CallOK(t) /\ DoneOK(t) /\ BufOK(t)
  BY DEF Init, CallOK, DoneOK, BufOK, Busy
<1> QED BY <1>1, <1>2, <1>3 DEF SyncInv

(* A new call: the calls it shares blocks with are noted. *)
LEMMA CallInv ==
  ASSUME SyncInv, NEW t \in Threads, NEW q \in Requests, Call(t, q)
  PROVE  SyncInv'
<1>1. /\ pc[t] = "new" /\ io' = [io EXCEPT ![t] = q] /\ Meet(t, q)
      /\ IF q.offset > Capacity THEN Returns(t, -1) /\ UNCHANGED n
                                ELSE Advance(t, q, 0)
      /\ UNCHANGED <<disk, blk_buf, got, failed>>
  BY DEF Call
<1>2. FcnOK /\ CallOK(t)
  BY DEF SyncInv
<1>3. /\ io[t] = NULL /\ n[t] = 0 /\ failed[t] = FALSE
      /\ io'[t] = q /\ DOMAIN io' = Threads
      /\ \A u \in Threads \ {t} : io'[u] = io[u]
  BY <1>1, <1>2 DEF CallOK, FcnOK
<1>4. q.offset \in Nat
  BY RequestAssumption
<1>5. /\ DOMAIN pc' = Threads /\ DOMAIN n' = Threads /\ DOMAIN ret' = Threads
      /\ \A u \in Threads \ {t} :
           pc'[u] = pc[u] /\ n'[u] = n[u] /\ ret'[u] = ret[u]
      /\ pc'[t] \in {"first", "blocks", "last", "done"}
      /\ CallOK(t)' /\ DoneOK(t)' /\ BufOK(t)'
  <2>1. CASE q.offset > Capacity
    <3>1. /\ pc'[t] = "done" /\ n' = n
          /\ DOMAIN pc' = Threads /\ DOMAIN ret' = Threads
          /\ \A u \in Threads \ {t} : pc'[u] = pc[u] /\ ret'[u] = ret[u]
      BY <1>1, <1>2, <2>1 DEF Returns, FcnOK
    <3>2. CallOK(t)'
      <4>1. ~(io'[t].offset <= Capacity)
        BY <1>3, <1>4, <2>1, Geometry
      <4> QED BY <1>3, <3>1, <4>1 DEF CallOK, Busy
    <3>3. DoneOK(t)' /\ BufOK(t)'
      BY <3>1 DEF DoneOK, BufOK, Busy
    <3> QED BY <1>2, <3>1, <3>2, <3>3 DEF FcnOK
  <2>2. CASE ~(q.offset > Capacity)
    <3>1. q.offset <= Capacity
      BY <1>4, <2>2, Geometry
    <3>2. Clip(q) \in Nat /\ 0 \in Nat /\ 0 <= Clip(q)
      BY <3>1, RequestFacts
    <3>3. Advance(t, q, 0)
      BY <1>1, <2>2
    <3>4. /\ n'[t] = 0
          /\ pc'[t] \in {"first", "blocks", "last", "done"}
          /\ pc'[t] = "done" => 0 = Clip(q) /\ ret'[t] = 0
          /\ pc'[t] # "done" => At(q, 0, pc'[t])
          /\ DOMAIN pc' = Threads /\ DOMAIN n' = Threads /\ DOMAIN ret' = Threads
          /\ \A u \in Threads \ {t} :
               pc'[u] = pc[u] /\ n'[u] = n[u] /\ ret'[u] = ret[u]
      BY <1>2, <3>1, <3>2, <3>3, AdvanceStep
    <3>5. Placed(t, 0)'
      BY DEF Placed
    <3>6. CallOK(t)' /\ DoneOK(t)' /\ BufOK(t)'
      BY <1>1, <1>3, <3>1, <3>2, <3>4, <3>5, AdvanceOK
    <3> QED BY <3>4, <3>6
  <2> QED BY <2>1, <2>2
<1>6. FcnOK'
  BY <1>1, <1>2, <1>3, <1>5 DEF FcnOK
<1>7. ASSUME NEW x, NEW b, BelongsAt(x, b)
      PROVE  BelongsAt(x, b)'
  BY <1>3, <1>7 DEF BelongsAt
<1>8. PlaceOK'
  BY <1>1, <1>7 DEF PlaceOK, SyncInv
<1> DEFINE others == {u \in Threads : /\ pc[u] \notin {"new", "done"}
                                      /\ "write" \in {q.type, io[u].type}
                                      /\ Blocks(q) \cap Blocks(io[u]) # {}}
<1>9. clash' = IF others = {} THEN clash ELSE clash \cup others \cup {t}
  BY <1>1 DEF Meet
<1>10. \A u \in Threads : u \in clash => u \in clash'
  BY <1>9
<1>11. ClashOK'
  <2> SUFFICES ASSUME NEW v \in Threads, NEW u \in Threads, v # u,
                      Busy(v)', Busy(u)',
                      "write" \in {io'[v].type, io'[u].type}, v \notin clash'
               PROVE  Blocks(io'[v]) \cap Blocks(io'[u]) = {}
    BY DEF ClashOK, Blocks, Clip
  <2>1. CASE v = t
    <3>1. io'[v] = q /\ io'[u] = io[u] /\ Busy(u)
      BY <1>3, <1>5, <2>1 DEF Busy
    <3>2. others = {}
      BY <1>9, <2>1
    <3>3. u \notin others
      BY <3>2
    <3> QED BY <3>1, <3>3 DEF Busy
  <2>2. CASE u = t
    <3>1. io'[u] = q /\ io'[v] = io[v] /\ Busy(v)
      BY <1>3, <1>5, <2>2 DEF Busy
    <3>2. v \notin others
      BY <1>9
    <3>3. Blocks(q) \cap Blocks(io[v]) = {}
      BY <3>1, <3>2 DEF Busy
    <3> QED BY <3>1, <3>3
  <2>3. CASE v # t /\ u # t
    <3>1. io'[u] = io[u] /\ io'[v] = io[v] /\ Busy(u) /\ Busy(v)
      BY <1>3, <1>5, <2>3 DEF Busy
    <3> QED BY <1>10, <3>1 DEF SyncInv, ClashOK
  <2> QED BY <2>1, <2>2, <2>3
<1> HIDE DEF others
<1>12. ASSUME NEW u \in Threads, u # t
       PROVE  CallOK(u)' /\ DoneOK(u)' /\ BufOK(u)'
  <2>1. /\ io'[u] = io[u] /\ pc'[u] = pc[u] /\ n'[u] = n[u]
        /\ blk_buf'[u] = blk_buf[u] /\ got'[u] = got[u] /\ ret'[u] = ret[u]
        /\ failed'[u] = failed[u] /\ disk' = disk
    BY <1>1, <1>3, <1>5, <1>12
  <2>2. CallOK(u) /\ DoneOK(u) /\ BufOK(u) /\ (u \notin clash' => u \notin clash)
    BY <1>10 DEF SyncInv
  <2>3. CallOK(u)'
    BY <2>1, <2>2 DEF CallOK, Busy, FitsCdb
  <2>4. DoneOK(u)'
    BY <2>1, <2>2 DEF DoneOK, Busy, Placed, FitsCdb
  <2>5. BufOK(u)'
    <3>1. OffStart(u)' = OffStart(u) /\ PartLen(u)' = PartLen(u) /\ Blk(u)' = Blk(u)
      BY <2>1 DEF OffStart, PartLen, Blk
    <3>2. ASSUME NEW i \in 0 .. BlockSize - 1,
                 BelongsAt(blk_buf[u][i], Blk(u) * BlockSize + i)
          PROVE  BelongsAt(blk_buf[u][i], Blk(u) * BlockSize + i)'
      <4>1. PICK x, b : x = blk_buf[u][i] /\ b = Blk(u) * BlockSize + i
        OBVIOUS
      <4>2. BelongsAt(x, b)'
        BY <1>7, <3>2, <4>1
      <4>3. x = blk_buf'[u][i] /\ b = Blk(u)' * BlockSize + i
        BY <2>1, <3>1, <4>1
      <4> QED BY <4>2, <4>3 DEF BelongsAt
    <3> QED BY <2>1, <2>2, <3>1, <3>2 DEF BufOK
  <2> QED BY <2>3, <2>4, <2>5
<1>13. \A u \in Threads : CallOK(u)' /\ DoneOK(u)' /\ BufOK(u)'
  BY <1>5, <1>12
<1> QED BY <1>6, <1>8, <1>11, <1>13 DEF SyncInv

(* Every step of a call in progress does what StepOK says. *)
LEMMA EveryStep ==
  ASSUME SyncInv, NEW t \in Threads, Step(t)
  PROVE  StepOK(t)
BY ReadPartOK, WritePartReadOK, WritePartBackOK, ReadBlocksOK, WriteBlocksOK,
   FailOK DEF Step

(* Every step keeps the invariant. *)
LEMMA NextInv ==
  ASSUME SyncInv, [Next]_vars
  PROVE  SyncInv'
<1>1. CASE \E t \in Threads, q \in Requests : Call(t, q)
  BY <1>1, CallInv
<1>2. CASE \E t \in Threads : Step(t)
  BY <1>2, EveryStep, StepInv
<1>3. CASE UNCHANGED vars
  <2>1. FcnOK' /\ ClashOK' /\ PlaceOK'
    BY <1>3 DEF SyncInv, FcnOK, ClashOK, PlaceOK, BelongsAt, Busy, vars
  <2>2. \A t \in Threads : CallOK(t)' /\ DoneOK(t)' /\ BufOK(t)'
    BY <1>3 DEF SyncInv, CallOK, DoneOK, BufOK, BelongsAt, Busy, Placed, FitsCdb,
                OffStart, PartLen, Blk, vars
  <2> QED BY <2>1, <2>2 DEF SyncInv
<1> QED BY <1>1, <1>2, <1>3 DEF Next

(* The invariant holds in every state of every behaviour of the            *)
(* synchronous path, for every geometry, all callers and all ranges.       *)
THEOREM SyncInvariant == Spec => []SyncInv
<1>1. Init => SyncInv
  BY InitInv
<1>2. SyncInv /\ [Next]_vars => SyncInv'
  BY NextInv
<1> QED BY <1>1, <1>2, PTL DEF Spec

-----------------------------------------------------------------------------
(***************************************************************************)
(* What the callers rely on.                                               *)
(***************************************************************************)

(* read_virtio_dev and write_virtio_dev return the whole number of bytes   *)
(* of the range that lie on the device exactly when no command failed, for *)
(* every range and every order of the callers' commands.                   *)
THEOREM CountSafe == Spec => []CountTellsFailure
<1>1. SyncInv => CountTellsFailure
  <2> SUFFICES ASSUME SyncInv, NEW t \in Threads, pc[t] = "done",
                      io[t].offset <= Capacity, FitsCdb(t)
               PROVE  ret[t] = Clip(io[t]) <=> ~failed[t]
    BY DEF CountTellsFailure
  <2>1. failed[t] \in BOOLEAN
    BY DEF SyncInv, FcnOK
  <2>2. ret[t] = Clip(io[t]) <=> failed[t] = FALSE
    BY DEF SyncInv, CallOK
  <2> QED BY <2>1, <2>2, Zenon
<1> QED BY <1>1, SyncInvariant, PTL

(* The call that ends in a step is the one that takes it. *)
LEMMA WhoFinishes ==
  ASSUME SyncInv, [Next]_vars, NEW t \in Threads, Finishes(t)
  PROVE  StepOK(t)
<1>1. Busy(t) /\ pc'[t] = "done"
  BY DEF Finishes, Busy
<1>2. ASSUME NEW u \in Threads, NEW q \in Requests, Call(u, q)
      PROVE  FALSE
  <2>1. pc[u] = "new" /\ u # t /\ pc'[t] # pc[t]
    BY <1>1, <1>2 DEF Call, Busy
  <2>2. DOMAIN pc = Threads
    BY DEF SyncInv, FcnOK
  <2> QED BY <1>2, <2>1, <2>2 DEF Call, Returns, Advance
<1>3. ASSUME NEW u \in Threads, Step(u)
      PROVE  StepOK(t)
  <2>1. StepOK(u)
    BY <1>3, EveryStep
  <2>2. u = t
    BY <1>1, <2>1 DEF StepOK, Alone, Busy
  <2> QED BY <2>1, <2>2
<1>4. CASE UNCHANGED vars
  BY <1>1, <1>4 DEF vars, Busy
<1> QED BY <1>2, <1>3, <1>4 DEF Next

(* The bytes a write reports are on the device when it returns, also when  *)
(* a later part failed, for every number of callers.                       *)
THEOREM ReportedSafe == Spec => SyncReported
<1> DEFINE A == \A t \in Threads :
                  Finishes(t) /\ io[t].type = "write" /\ FitsCdb(t) =>
                    \A k \in 0 .. ret'[t] - 1 :
                      disk'[io[t].offset + k] = <<t, k>>
<1>1. SyncInv /\ [Next]_vars => [A]_vars
  <2> SUFFICES ASSUME SyncInv, [Next]_vars, NEW t \in Threads, Finishes(t),
                      io[t].type = "write", FitsCdb(t),
                      NEW k \in 0 .. ret'[t] - 1
               PROVE  disk'[io[t].offset + k] = <<t, k>>
    OBVIOUS
  <2>1. StepOK(t)
    BY WhoFinishes
  <2>2. io' = io /\ clash' = clash /\ EndOK(t)' /\ pc'[t] = "done"
    BY <2>1 DEF StepOK, Alone, Finishes
  <2>3. FitsCdb(t)' /\ t \notin clash'
    BY <2>2 DEF FitsCdb, Finishes
  <2> QED BY <2>2, <2>3 DEF EndOK, Placed
<1> QED BY <1>1, SyncInvariant, PTL DEF Spec, SyncReported

(* The bytes a read reports are the ones the device holds when it returns, *)
(* unless a write of one of its blocks came between.                       *)
THEOREM ReadSafe == Spec => SyncReadReturned
<1> DEFINE A == \A t \in Threads :
                  Finishes(t) /\ io[t].type = "read" =>
                    \A k \in 0 .. ret'[t] - 1 :
                      got'[t][k] = disk[io[t].offset + k]
<1>1. SyncInv /\ [Next]_vars => [A]_vars
  <2> SUFFICES ASSUME SyncInv, [Next]_vars, NEW t \in Threads, Finishes(t),
                      io[t].type = "read", NEW k \in 0 .. ret'[t] - 1
               PROVE  got'[t][k] = disk[io[t].offset + k]
    OBVIOUS
  <2>1. StepOK(t)
    BY WhoFinishes
  <2>2. /\ io' = io /\ clash' = clash /\ disk' = disk
        /\ EndOK(t)' /\ pc'[t] = "done"
    BY <2>1 DEF StepOK, Alone, Finishes
  <2>3. t \notin clash'
    BY <2>2 DEF Finishes
  <2> QED BY <2>2, <2>3 DEF EndOK, Placed
<1> QED BY <1>1, SyncInvariant, PTL DEF Spec, SyncReadReturned

(* A write changes only bytes of its own range; where calls meet on a      *)
(* block it may put back an older byte, never one that belongs elsewhere.  *)
THEOREM WellPlacedSafe == Spec => SyncWellPlaced
<1> DEFINE A == \A b \in DOMAIN disk : disk'[b] # disk[b] =>
                  \E t \in Threads :
                    /\ pc'[t] # pc[t]
                    /\ b \div BlockSize \in Blocks(io[t])
                    /\ \/ t \in clash /\ BelongsAt(disk'[b], b)
                       \/ /\ b - io[t].offset \in 0 .. io[t].nbytes - 1
                          /\ disk'[b] = <<t, b - io[t].offset>>
<1>1. SyncInv /\ [Next]_vars => [A]_vars
  <2> SUFFICES ASSUME SyncInv, [Next]_vars, NEW b \in DOMAIN disk,
                      disk'[b] # disk[b]
               PROVE  \E t \in Threads : MayChange(t, b)
    BY DEF MayChange
  <2>1. b \in 0 .. Capacity - 1
    BY DEF SyncInv, FcnOK
  <2>2. ASSUME NEW t \in Threads, Step(t)
        PROVE  MayChange(t, b)
    BY <2>1, <2>2, EveryStep DEF StepOK, Alone
  <2>3. ASSUME NEW t \in Threads, NEW q \in Requests, Call(t, q)
        PROVE  FALSE
    BY <2>3 DEF Call
  <2>4. CASE UNCHANGED vars
    BY <2>4 DEF vars
  <2> QED BY <2>2, <2>3, <2>4 DEF Next
<1> QED BY <1>1, SyncInvariant, PTL DEF Spec, SyncWellPlaced
=============================================================================
