---------------------------- MODULE AsyncIoProofs ----------------------------
(***************************************************************************)
(* The asynchronous path proved for every device geometry, any number of   *)
(* requests in flight and every range on the device: the tasks are laid    *)
(* out as their callbacks take them for, the assertion of the write path   *)
(* holds, retval is the whole range unless something failed, it counts     *)
(* bytes that are really in place, and a write touches only its own bytes. *)
(***************************************************************************)
EXTENDS AsyncIo, RingArith, SequenceTheorems

(* The theorems are about requests whose blocks fit into the transfer      *)
(* length of a CDB and, if they write, end on the device: the code does    *)
(* not check either.                                                       *)
OnDevice ==
  \A q \in Requests : q.offset <= Capacity =>
    /\ BlocksTouched(q.offset % BlockSize, Clip(q)) < XferMod
    /\ q.type = "write" => q.offset + q.nbytes <= Capacity

-----------------------------------------------------------------------------
(***************************************************************************)
(* The inductive invariant, by parts.                                      *)
(***************************************************************************)

(* A task of r is on the ring or with the device. *)
Flying(r) == stage[r] \in InFlight

(* The variables are functions of the requests and of the bytes. *)
FcnOK ==
  /\ DOMAIN disk = 0 .. Capacity - 1
  /\ DOMAIN io = Reqs /\ DOMAIN retval = Reqs /\ DOMAIN stage = Reqs
  /\ DOMAIN cmd = Reqs /\ DOMAIN resp = Reqs /\ DOMAIN data = Reqs
  /\ DOMAIN vbufs = Reqs /\ DOMAIN got = Reqs
  /\ trouble \in [Reqs -> BOOLEAN]

(* The life of a request. *)
ReqOK(r) ==
  /\ stage[r] \in InFlight \cup {"new", "refused", "empty", "done"}
  /\ stage[r] = "new" => io[r] = NULL
  /\ stage[r] # "new" => io[r] \in Requests
  /\ ~Flying(r) => cmd[r] = NULL
  /\ Flying(r) =>
       /\ InRange(io[r])
       /\ io[r].type = IF stage[r] = "blk_read_done" THEN "read" ELSE "write"
       /\ resp[r] \in {NULL, "ok", "error"}
       /\ resp[r] = "error" => trouble[r] = TRUE
  /\ stage[r] = "done" /\ trouble[r] = FALSE => retval[r] = Clip(io[r])

(* The bytes of the device that the command of r is about. *)
Start(r) == cmd[r].blk * BlockSize
Size(r) == cmd[r].nblk * BlockSize

(* The command is for blocks of the request on the device. *)
CoverOK(r) ==
  /\ cmd[r].blk \in Nat /\ cmd[r].nblk \in Nat /\ Fits(cmd[r])
  /\ Start(r) \in Nat /\ Size(r) \in Nat
  /\ \A i \in 0 .. Size(r) - 1 :
       /\ Start(r) + i \in 0 .. Capacity - 1
       /\ (Start(r) + i) \div BlockSize \in Blocks(io[r])

(* The read of a request, by place. *)
ReadTask(r) ==
  /\ cmd[r].op = "read"
  /\ UserBytes(r) = Clip(io[r]) /\ Clip(io[r]) <= Size(r)
  /\ Clip(io[r]) > 0 =>
       /\ From(r) \in Nat /\ Start(r) + From(r) = io[r].offset
       /\ From(r) + Clip(io[r]) <= Size(r)

(* The block in which a write begins. *)
FirstTask(r) ==
  /\ cmd[r].op = "read" /\ cmd[r].nblk = 1
  /\ cmd[r].blk = io[r].offset \div BlockSize
  /\ io[r].offset % BlockSize # 0
  /\ From(r) = io[r].offset % BlockSize /\ To(r) = FirstEnd(io[r])
  /\ retval[r] = -1

(* The full blocks of a write, with the first if that is a part. *)
FullTask(r) ==
  /\ cmd[r].op = "write"
  /\ UserBytes(r) \in 1 .. io[r].nbytes
  /\ Start(r) <= io[r].offset
  /\ io[r].offset + UserBytes(r) <= Start(r) + Size(r)
  /\ UserBytes(r) # io[r].nbytes =>
       /\ (io[r].offset + UserBytes(r)) % BlockSize = 0
       /\ io[r].nbytes - UserBytes(r) < BlockSize
  /\ retval[r] = -1

(* The block in which a write ends. *)
LastTask(r) ==
  /\ cmd[r].nblk = 1 /\ cmd[r].blk = End(r) \div BlockSize
  /\ From(r) = 0 /\ To(r) \in 1 .. BlockSize - 1 /\ To(r) <= io[r].nbytes
  /\ Start(r) + To(r) = End(r)
  /\ \/ retval[r] = io[r].nbytes - To(r)
     \/ retval[r] = -1 /\ io[r].nbytes = To(r)

(* The task of r, by the callback it waits for. *)
TaskOK(r) ==
  Flying(r) =>
    /\ LaidOut(r) /\ CoverOK(r)
    /\ stage[r] = "blk_read_done" => ReadTask(r)
    /\ stage[r] = "blk_read_first_block_done" => FirstTask(r)
    /\ stage[r] = "blk_write_full_blocks_done" => FullTask(r)
    /\ stage[r] = "blk_read_last_block_done" => LastTask(r) /\ cmd[r].op = "read"
    /\ stage[r] = "blk_write_last_block_done" => LastTask(r) /\ cmd[r].op = "write"

(* Requests that share a block, one of them a write, know of it. *)
ClashOK ==
  \A r, u \in Reqs :
    r # u /\ Flying(r) /\ Flying(u) /\ "write" \in {io[r].type, io[u].type}
      => r \in clash \/ Blocks(io[r]) \cap Blocks(io[u]) = {}

(* x may stand for byte b while r waits: it is the one on the device, if r *)
(* is alone.                                                               *)
Copy(r, x, b) == (r \notin clash => x = disk[b]) /\ BelongsAt(x, b)

(* What was read is still on the device. *)
DataOK(r) ==
  Flying(r) /\ cmd[r].op = "read" /\ resp[r] = "ok" =>
    \A i \in 0 .. Size(r) - 1 : Copy(r, data[r][i], Start(r) + i)

(* The bytes of the user up to which a write command completes r. *)
Goal(r) ==
  IF stage[r] = "blk_write_full_blocks_done" THEN UserBytes(r) ELSE io[r].nbytes

(* What will be written: the user's bytes, and what the device holds. *)
BytesOK(r) ==
  Flying(r) /\ cmd[r].op = "write" =>
    \A i \in 0 .. Size(r) - 1 :
      IF Start(r) + i \in io[r].offset .. io[r].offset + Goal(r) - 1
        THEN cmd[r].bytes[i] = <<r, Start(r) + i - io[r].offset>>
        ELSE Copy(r, cmd[r].bytes[i], Start(r) + i)

(* How many bytes of a write are on the device. *)
Have(r) ==
  IF cmd[r].op = "write" /\ resp[r] = "ok" THEN Goal(r)
  ELSE IF stage[r] \in {"blk_read_last_block_done", "blk_write_last_block_done"}
       THEN io[r].nbytes - To(r) ELSE 0

(* They are in their places, if r is alone. *)
HaveOK(r) ==
  Flying(r) /\ io[r].type = "write" /\ r \notin clash =>
    \A k \in 0 .. Have(r) - 1 : disk[io[r].offset + k] = <<r, k>>

(* No byte of the device belongs elsewhere. *)
PlaceOK == \A b \in 0 .. Capacity - 1 : BelongsAt(disk[b], b)

(* All of it. *)
AsyncInv ==
  /\ FcnOK /\ ClashOK /\ PlaceOK
  /\ \A r \in Reqs : ReqOK(r) /\ TaskOK(r) /\ DataOK(r) /\ BytesOK(r) /\ HaveOK(r)

-----------------------------------------------------------------------------
(***************************************************************************)
(* The arithmetic of a request.                                            *)
(***************************************************************************)

(* The size of a block and of the device as the provers need them. *)
LEMMA Geometry ==
  /\ BlockSize \in Nat /\ BlockSize > 0
  /\ NumBlocks \in Nat /\ NumBlocks > 0
  /\ XferMod \in Nat /\ XferMod > 1
  /\ Capacity \in Nat
<1>1. BlockSize \in Nat /\ NumBlocks \in Nat
  BY GeometryAssumption
<1>2. BlockSize * NumBlocks \in Nat
  BY <1>1
<1> QED BY <1>1, <1>2, GeometryAssumption DEF Capacity

(* A request and the bytes of it that lie on the device. *)
LEMMA RequestFacts ==
  ASSUME NEW q \in Requests, q.offset <= Capacity
  PROVE  /\ q.offset \in Nat /\ q.nbytes \in Nat
         /\ q.type \in {"read", "write"}
         /\ Clip(q) \in Nat /\ Clip(q) <= q.nbytes
         /\ q.offset + Clip(q) <= Capacity
<1>1. q \in [type : {"read", "write"}, offset : Nat, nbytes : Nat]
  BY RequestAssumption
<1>2. q.offset \in Nat /\ q.nbytes \in Nat /\ q.type \in {"read", "write"}
  BY <1>1
<1> QED BY <1>2, Geometry DEF Clip, Least

(* A byte of a request lies in a block of it. *)
LEMMA BlockOf ==
  ASSUME NEW q \in Requests, q.offset <= Capacity,
         NEW b \in Nat, q.offset <= b, b < q.offset + Clip(q)
  PROVE  b \div BlockSize \in Blocks(q)
<1>1. b \in q.offset .. q.offset + Clip(q) - 1
  BY RequestFacts
<1> QED BY <1>1 DEF Blocks

(* Two multiples of m in an interval of that length are the same. *)
LEMMA MulUnique ==
  ASSUME NEW m \in Nat \ {0}, NEW x \in Int, NEW y \in Int, NEW a \in Int,
         a <= m * x, m * x < a + m, a <= m * y, m * y < a + m
  PROVE  x = y
<1>1. CASE x < y
  <2>1. m * x + m <= m * y
    BY <1>1, MulBound
  <2> DEFINE X == m * x
             Y == m * y
  <2>2. X \in Int /\ Y \in Int /\ X + m <= Y /\ a <= X /\ Y < a + m
    BY <2>1
  <2> HIDE DEF X, Y
  <2> QED BY <2>2
<1>2. CASE y < x
  <2>1. m * y + m <= m * x
    BY <1>2, MulBound
  <2> DEFINE X == m * x
             Y == m * y
  <2>2. X \in Int /\ Y \in Int /\ Y + m <= X /\ a <= Y /\ X < a + m
    BY <2>1
  <2> HIDE DEF X, Y
  <2> QED BY <2>2
<1> QED BY <1>1, <1>2

(* Blocks k to k + nb - 1, each with a byte of the request, are on the     *)
(* device and are blocks of the request.                                   *)
LEMMA CoverGen ==
  ASSUME NEW q \in Requests, q.offset <= Capacity,
         NEW k \in Nat, NEW nb \in Nat, NEW d \in Nat, NEW e \in Nat,
         NEW S \in Nat, NEW N \in Nat, S = k * BlockSize, N = nb * BlockSize,
         d < e, e <= Clip(q), S <= q.offset + d, q.offset + d < S + BlockSize,
         S + N < q.offset + e + BlockSize
  PROVE  /\ k + nb <= NumBlocks
         /\ \A i \in 0 .. N - 1 : /\ S + i \in 0 .. Capacity - 1
                                  /\ (S + i) \div BlockSize \in Blocks(q)
<1>1. PICK o \in Nat, c \in Nat, B \in Nat \ {0}, C \in Nat :
        /\ o = q.offset /\ c = Clip(q) /\ B = BlockSize /\ C = Capacity
        /\ o + c <= C /\ e <= c
  BY RequestFacts, Geometry
<1>2. NumBlocks \in Nat /\ C = B * NumBlocks
  BY <1>1, Geometry DEF Capacity
<1>3. S + N = B * (k + nb) /\ S = B * k
  BY <1>1
<1>4. S <= o + d /\ o + d < S + B /\ S + N < o + e + B
  BY <1>1
<1>5. k + nb <= NumBlocks
  <2> SUFFICES ASSUME NumBlocks < k + nb PROVE FALSE
    BY <1>2
  <2>1. B * NumBlocks + B <= B * (k + nb)
    BY <1>1, <1>2, MulBound
  <2> QED BY <1>1, <1>2, <1>3, <1>4, <2>1
<1>6. S + N <= C
  <2>1. k + nb = NumBlocks \/ B * (k + nb) + B <= B * NumBlocks
    BY <1>1, <1>2, <1>5, MulBound
  <2>2. k + nb = NumBlocks => S + N = C
    BY <1>2, <1>3
  <2>3. B * (k + nb) + B <= B * NumBlocks => S + N + B <= C
    BY <1>2, <1>3
  <2> QED BY <1>1, <2>1, <2>2, <2>3
<1>7. ASSUME NEW i \in 0 .. N - 1
      PROVE  (S + i) \div BlockSize \in Blocks(q)
  <2> DEFINE j == (S + i) \div B
             J == B * j
  <2>1. S + i \in Nat
    OBVIOUS
  <2>2. j \in Nat /\ (S + i) % B \in 0 .. B - 1 /\ S + i = J + ((S + i) % B)
    BY <1>1, <2>1, ModDef, Zenon
  <2>3. J \in Nat
    BY <1>1, <2>2
  <2>4. k <= j
    <3> SUFFICES ASSUME j < k PROVE FALSE
      BY <2>2
    <3>1. J + B <= B * k
      BY <1>1, <2>2, MulBound
    <3> HIDE DEF J, j
    <3> QED BY <1>1, <1>3, <2>2, <2>3, <3>1
  <2>5. CASE j = k
    <3>1. (o + d) \div B = k
      <4>1. k * B <= o + d /\ o + d < k * B + B /\ o + d \in Nat
        BY <1>1, <1>4
      <4> QED BY <1>1, <4>1, DivUnique
    <3>2. (o + d) \div BlockSize \in Blocks(q)
      BY <1>1, BlockOf
    <3> QED BY <1>1, <2>5, <3>1, <3>2
  <2>6. CASE k < j
    <3>1. B * k + B <= J
      BY <1>1, <2>2, <2>6, MulBound
    <3>2. j < k + nb
      <4> SUFFICES ASSUME k + nb <= j PROVE FALSE
        BY <2>2
      <4>1. k + nb = j \/ B * (k + nb) + B <= J
        BY <1>1, <2>2, MulBound
      <4>2. S + N <= J
        BY <1>1, <1>3, <2>3, <4>1
      <4> HIDE DEF J, j
      <4> QED BY <1>1, <2>2, <2>3, <4>2
    <3>3. J + B <= B * (k + nb)
      BY <1>1, <2>2, <3>2, MulBound
    <3>4. o <= J /\ J < o + c
      <4> HIDE DEF J, j
      <4> QED BY <1>1, <1>3, <1>4, <2>3, <3>1, <3>3
    <3>5. J \div B = j
      <4>1. j * B = J
        BY <1>1, <2>2
      <4>2. j * B <= J /\ J < j * B + B
        BY <1>1, <2>3, <4>1
      <4> HIDE DEF J, j
      <4> QED BY <1>1, <2>2, <2>3, <4>2, DivUnique
    <3>6. J \div BlockSize \in Blocks(q)
      <4> HIDE DEF J
      <4> QED BY <1>1, <2>3, <3>4, BlockOf
    <3> QED BY <1>1, <3>5, <3>6
  <2>7. j = k \/ k < j
    <3> HIDE DEF j
    <3> QED BY <2>2, <2>4
  <2> QED BY <2>5, <2>6, <2>7
<1>8. \A i \in 0 .. N - 1 : S + i \in 0 .. Capacity - 1
  BY <1>1, <1>6
<1> QED BY <1>5, <1>7, <1>8

(* The blocks a range touches are just enough for it. *)
LEMMA TouchFacts ==
  ASSUME NEW s \in Nat, NEW c \in Nat
  PROVE  \E nb, N \in Nat : /\ nb = BlocksTouched(s, c) /\ N = nb * BlockSize
                            /\ s + c <= N /\ N < s + c + BlockSize
<1>1. PICK B \in Nat \ {0} : B = BlockSize
  BY Geometry
<1> DEFINE x == s + c + B - 1
           nb == x \div B
           N == B * nb
<1>2. x \in Nat
  BY <1>1
<1>3. nb \in Nat /\ x % B \in 0 .. B - 1 /\ x = N + (x % B)
  <2> HIDE DEF x
  <2> QED BY <1>1, <1>2, ModDef, Zenon
<1>4. nb = BlocksTouched(s, c)
  BY <1>1 DEF BlocksTouched
<1>5. N \in Nat /\ N = nb * BlockSize
  <2> HIDE DEF nb
  <2> QED BY <1>1, <1>3
<1>6. s + c <= N /\ N < s + c + B
  <2> HIDE DEF N
  <2> QED BY <1>1, <1>3, <1>5
<1> HIDE DEF nb, N
<1> QED BY <1>1, <1>3, <1>4, <1>5, <1>6

(* The block an offset lies in, and where in it. *)
LEMMA OffsetFacts ==
  ASSUME NEW o \in Nat
  PROVE  \E s, k, S \in Nat : /\ s = o % BlockSize /\ k = o \div BlockSize
                              /\ S = k * BlockSize /\ o = S + s /\ s < BlockSize
<1>1. BlockSize \in Nat \ {0}
  BY Geometry
<1> DEFINE s == o % BlockSize
           k == o \div BlockSize
<1>2. s \in 0 .. BlockSize - 1 /\ k \in Nat /\ o = BlockSize * k + s
  BY <1>1, ModDef, Zenon
<1>3. s = o % BlockSize /\ k = o \div BlockSize
  OBVIOUS
<1> HIDE DEF s, k
<1>4. k * BlockSize \in Nat /\ k * BlockSize = BlockSize * k
  BY <1>1, <1>2
<1>5. s \in Nat /\ s < BlockSize /\ o = k * BlockSize + s
  BY <1>1, <1>2, <1>4
<1> QED BY <1>2, <1>3, <1>4, <1>5, Zenon

(* Blocks that hold no more than the blocks a request touches fit into the *)
(* transfer length.                                                        *)
LEMMA NotCut ==
  ASSUME OnDevice, NEW q \in Requests, q.offset <= Capacity,
         NEW nb \in Nat, NEW x \in Nat, x <= (q.offset % BlockSize) + Clip(q),
         nb * BlockSize < x + BlockSize
  PROVE  nb % XferMod = nb
<1>1. PICK s \in Nat, c \in Nat : s = q.offset % BlockSize /\ c = Clip(q)
  BY RequestFacts, OffsetFacts
<1>2. PICK t, T \in Nat : /\ t = BlocksTouched(s, c) /\ T = t * BlockSize
                          /\ s + c <= T /\ T < s + c + BlockSize
  BY TouchFacts
<1>3. t < XferMod
  BY <1>1, <1>2 DEF OnDevice
<1>4. nb <= t
  <2> SUFFICES ASSUME t < nb PROVE FALSE
    OBVIOUS
  <2>1. BlockSize * t + BlockSize <= BlockSize * nb
    BY Geometry, MulBound
  <2>2. BlockSize * t = T /\ BlockSize * nb = nb * BlockSize
    BY <1>2, Geometry
  <2>3. nb * BlockSize \in Nat
    BY Geometry
  <2> QED BY <1>1, <1>2, <2>1, <2>2, <2>3, Geometry
<1>5. nb < XferMod /\ XferMod \in Nat
  BY <1>3, <1>4, Geometry
<1> QED BY <1>5

(* The part of the first block that a request begins in. *)
LEMMA FirstFacts ==
  ASSUME NEW q \in Requests, q.offset <= Capacity, Clip(q) > 0
  PROVE  \E o, c, s, k, S, w \in Nat :
           /\ o = q.offset /\ c = Clip(q) /\ s = q.offset % BlockSize
           /\ k = q.offset \div BlockSize /\ S = k * BlockSize
           /\ FirstEnd(q) = s + w /\ o = S + s /\ s < BlockSize
           /\ w > 0 /\ w <= c /\ s + w <= BlockSize
           /\ w = c \/ s + w = BlockSize
           /\ o + c <= Capacity
<1>1. PICK o \in Nat, c \in Nat :
        o = q.offset /\ c = Clip(q) /\ o + c <= Capacity /\ c > 0
  BY RequestFacts
<1>2. PICK s, k, S \in Nat : /\ s = o % BlockSize /\ k = o \div BlockSize
                             /\ S = k * BlockSize /\ o = S + s /\ s < BlockSize
  BY OffsetFacts
<1> DEFINE w == FirstEnd(q) - s
<1>3. FirstEnd(q) = IF s + c < BlockSize THEN s + c ELSE BlockSize
  BY <1>1, <1>2 DEF FirstEnd, Least
<1>4. /\ w \in Nat /\ FirstEnd(q) = s + w /\ w > 0 /\ w <= c
      /\ s + w <= BlockSize /\ (w = c \/ s + w = BlockSize)
  <2>1. s < BlockSize /\ c > 0 /\ BlockSize \in Nat
    BY <1>1, <1>2, Geometry
  <2>2. CASE s + c < BlockSize
    <3>1. FirstEnd(q) = s + c
      BY <1>3, <2>2
    <3>2. w = c
      BY <3>1
    <3> QED BY <2>1, <2>2, <3>1, <3>2
  <2>3. CASE ~(s + c < BlockSize)
    <3>1. FirstEnd(q) = BlockSize
      BY <1>3, <2>3
    <3>2. w = BlockSize - s
      BY <3>1
    <3> HIDE DEF w
    <3> QED BY <2>1, <2>3, <3>1, <3>2
  <2> QED BY <2>2, <2>3
<1> HIDE DEF w
<1>5. s = q.offset % BlockSize /\ k = q.offset \div BlockSize
  BY <1>1, <1>2
<1> QED BY <1>1, <1>2, <1>4, <1>5

(* The full blocks that follow after w bytes. *)
LEMMA MidFacts ==
  ASSUME NEW x \in Nat
  PROVE  \E nb, N, t \in Nat : /\ nb = x \div BlockSize /\ N = nb * BlockSize
                               /\ t = x % BlockSize
                               /\ x = N + t /\ t < BlockSize
                               /\ nb = 0 <=> x < BlockSize
                               /\ nb = 0 <=> N = 0
<1>1. PICK t, nb, N \in Nat : /\ t = x % BlockSize /\ nb = x \div BlockSize
                              /\ N = nb * BlockSize /\ x = N + t /\ t < BlockSize
  BY OffsetFacts
<1>2. nb = 0 => N = 0
  BY <1>1, Geometry
<1>3. nb > 0 => N >= BlockSize
  <2> HAVE nb > 0
  <2>1. BlockSize * 0 + BlockSize <= BlockSize * nb
    BY Geometry, MulBound
  <2> QED BY <1>1, <2>1, Geometry
<1>4. nb = 0 <=> x < BlockSize
  BY <1>1, <1>2, <1>3, Geometry
<1>5. nb = 0 <=> N = 0
  BY <1>1, <1>2, <1>3, Geometry
<1> QED BY <1>1, <1>4, <1>5

-----------------------------------------------------------------------------
(***************************************************************************)
(* Tasks and their buffers.                                                *)
(***************************************************************************)

(* The loops over the data buffers: a task has at most three of them. *)
LEMMA SumSmall ==
  ASSUME NEW f
  PROVE  /\ Sum(f, 0) = 0
         /\ f[1] \in Int => Sum(f, 1) = f[1]
         /\ f[1] \in Int /\ f[2] \in Int => Sum(f, 2) = f[1] + f[2]
         /\ f[1] \in Int /\ f[2] \in Int /\ f[3] \in Int =>
              Sum(f, 3) = f[1] + f[2] + f[3]
<1>1. ASSUME NEW len \in {0, 1, 2, 3}
      PROVE  LET upto[k \in 0 .. len] ==
                   IF k = 0 THEN 0 ELSE upto[k - 1] + f[k]
             IN  upto = [k \in 0 .. len |->
                           IF k = 0 THEN 0 ELSE upto[k - 1] + f[k]]
  <2> DEFINE g == [k \in 0 .. len |->
                     IF k = 0 THEN 0
                     ELSE IF k = 1 THEN 0 + f[1]
                     ELSE IF k = 2 THEN 0 + f[1] + f[2]
                     ELSE 0 + f[1] + f[2] + f[3]]
  <2>1. g = [k \in 0 .. len |-> IF k = 0 THEN 0 ELSE g[k - 1] + f[k]]
    OBVIOUS
  <2> HIDE DEF g
  <2> QED BY <2>1
<1>2. ASSUME NEW len \in {0, 1, 2, 3}
      PROVE  \E h : /\ h = [k \in 0 .. len |->
                              IF k = 0 THEN 0 ELSE h[k - 1] + f[k]]
                    /\ Sum(f, len) = h[len]
  BY <1>1 DEF Sum
<1>3. Sum(f, 0) = 0
  <2>1. PICK h : /\ h = [k \in 0 .. 0 |-> IF k = 0 THEN 0 ELSE h[k - 1] + f[k]]
                 /\ Sum(f, 0) = h[0]
    BY <1>2
  <2> QED BY <2>1
<1>4. f[1] \in Int => Sum(f, 1) = f[1]
  <2>1. PICK h : /\ h = [k \in 0 .. 1 |-> IF k = 0 THEN 0 ELSE h[k - 1] + f[k]]
                 /\ Sum(f, 1) = h[1]
    BY <1>2
  <2>2. h[0] = 0 /\ h[1] = h[0] + f[1]
    BY <2>1
  <2> QED BY <2>1, <2>2
<1>5. f[1] \in Int /\ f[2] \in Int => Sum(f, 2) = f[1] + f[2]
  <2>1. PICK h : /\ h = [k \in 0 .. 2 |-> IF k = 0 THEN 0 ELSE h[k - 1] + f[k]]
                 /\ Sum(f, 2) = h[2]
    BY <1>2
  <2>2. h[0] = 0 /\ h[1] = h[0] + f[1] /\ h[2] = h[1] + f[2]
    BY <2>1
  <2> QED BY <2>1, <2>2
<1>6. f[1] \in Int /\ f[2] \in Int /\ f[3] \in Int =>
        Sum(f, 3) = f[1] + f[2] + f[3]
  <2>1. PICK h : /\ h = [k \in 0 .. 3 |-> IF k = 0 THEN 0 ELSE h[k - 1] + f[k]]
                 /\ Sum(f, 3) = h[3]
    BY <1>2
  <2>2. h[0] = 0 /\ h[1] = h[0] + f[1] /\ h[2] = h[1] + f[2] /\ h[3] = h[2] + f[3]
    BY <2>1
  <2> QED BY <2>1, <2>2
<1> QED BY <1>3, <1>4, <1>5, <1>6

(* Short sequences put together. *)
LEMMA Concat2 ==
  ASSUME NEW S, NEW a \in S, NEW b \in S
  PROVE  /\ <<a>> \o <<b>> = <<a, b>>
         /\ <<>> \o <<a>> = <<a>>
         /\ <<a>> \o <<>> = <<a>>
         /\ <<a, b>> \o <<>> = <<a, b>>
<1>1. <<a>> \in Seq(S) /\ <<b>> \in Seq(S) /\ <<a, b>> \in Seq(S) /\ <<>> \in Seq(S)
  OBVIOUS
<1>2. /\ Len(<<a>>) = 1 /\ Len(<<b>>) = 1 /\ Len(<<a, b>>) = 2
      /\ <<a>>[1] = a /\ <<b>>[1] = b /\ <<a, b>>[1] = a /\ <<a, b>>[2] = b
  OBVIOUS
<1>3. /\ <<a>> \o <<b>> \in Seq(S) /\ Len(<<a>> \o <<b>>) = 2
      /\ (<<a>> \o <<b>>)[1] = a /\ (<<a>> \o <<b>>)[2] = b
  BY <1>1, <1>2
<1>4. <<a>> \o <<b>> = <<a, b>>
  <2> DEFINE s == <<a>> \o <<b>>
             t == <<a, b>>
  <2>1. s \in Seq(S) /\ t \in Seq(S) /\ Len(s) = 2 /\ Len(t) = 2
    BY <1>1, <1>2, <1>3
  <2>2. s[1] = t[1] /\ s[2] = t[2]
    BY <1>2, <1>3
  <2> HIDE DEF s, t
  <2>3. \A i \in 1 .. 2 : s[i] = t[i]
    BY <2>2
  <2>4. s = t
    BY <2>1, <2>3, SeqEqual
  <2> QED BY <2>4 DEF s, t
<1>5. <<>> \o <<a>> = <<a>> /\ <<a>> \o <<>> = <<a>> /\ <<a, b>> \o <<>> = <<a, b>>
  BY <1>1, ConcatEmptySeq
<1> QED BY <1>4, <1>5

(* The same with three elements. *)
LEMMA Concat3 ==
  ASSUME NEW S, NEW a \in S, NEW b \in S, NEW c \in S
  PROVE  <<a, b>> \o <<c>> = <<a, b, c>>
<1>1. <<a, b>> \in Seq(S) /\ <<c>> \in Seq(S) /\ <<a, b, c>> \in Seq(S)
  OBVIOUS
<1>2. /\ Len(<<a, b>>) = 2 /\ Len(<<c>>) = 1 /\ Len(<<a, b, c>>) = 3
      /\ <<a, b>>[1] = a /\ <<a, b>>[2] = b /\ <<c>>[1] = c
      /\ <<a, b, c>>[1] = a /\ <<a, b, c>>[2] = b /\ <<a, b, c>>[3] = c
  OBVIOUS
<1>3. /\ <<a, b>> \o <<c>> \in Seq(S) /\ Len(<<a, b>> \o <<c>>) = 3
      /\ (<<a, b>> \o <<c>>)[1] = a /\ (<<a, b>> \o <<c>>)[2] = b
      /\ (<<a, b>> \o <<c>>)[3] = c
  BY <1>1, <1>2
<1> DEFINE s == <<a, b>> \o <<c>>
           t == <<a, b, c>>
<1>4. s \in Seq(S) /\ t \in Seq(S) /\ Len(s) = 3 /\ Len(t) = 3
  BY <1>1, <1>2, <1>3
<1>5. s[1] = t[1] /\ s[2] = t[2] /\ s[3] = t[3]
  BY <1>2, <1>3
<1> HIDE DEF s, t
<1>6. \A i \in 1 .. 3 : s[i] = t[i]
  BY <1>5
<1>7. s = t
  BY <1>4, <1>6, SeqEqual
<1> QED BY <1>7 DEF s, t

(* A data buffer. *)
Part == [role : {"data"}, size : Int, from : Int, to : Int]

(* The buffers of a read: they hold the range, in just the blocks that the *)
(* command reads.                                                          *)
LEMMA ReadBufsFacts ==
  ASSUME NEW q \in Requests, InRange(q), NEW d, d = ReadBufs(q)
  PROVE  /\ d \in Seq(Part)
         /\ Len(d) \in 0 .. 3
         /\ Sum([x \in 1 .. Len(d) |-> d[x].to - d[x].from], Len(d)) = Clip(q)
         /\ Sum([x \in 1 .. Len(d) |-> d[x].size], Len(d))
              = BlocksTouched(q.offset % BlockSize, Clip(q)) * BlockSize
         /\ Clip(q) > 0 => Len(d) > 0 /\ d[1].from = q.offset % BlockSize
<1>0. q.offset <= Capacity /\ q.nbytes > 0
  BY DEF InRange
<1>1. PICK o \in Nat, c \in Nat :
        o = q.offset /\ c = Clip(q) /\ o + c <= Capacity
  BY <1>0, RequestFacts
<1>2. PICK s, k, S \in Nat : /\ s = o % BlockSize /\ k = o \div BlockSize
                             /\ S = k * BlockSize /\ o = S + s /\ s < BlockSize
  BY OffsetFacts
<1>3. PICK B \in Nat \ {0} : B = BlockSize
  BY Geometry
<1> DEFINE resid == q.offset % BlockSize
           head == IF resid = 0 THEN 0 ELSE FirstEnd(q) - resid
           mid == ((Clip(q) - head) \div BlockSize) * BlockSize
           tail == Clip(q) - head - mid
<1>4. resid = s
  BY <1>1, <1>2
<1>5. PICK h \in Nat : /\ h = head /\ h <= c
                       /\ s = 0 => h = 0
                       /\ s # 0 => h > 0
                       /\ s # 0 => (h = c /\ s + h <= B) \/ s + h = B
  <2>1. FirstEnd(q) = IF s + c < B THEN s + c ELSE B
    BY <1>1, <1>3, <1>4 DEF FirstEnd, Least
  <2>2. CASE s = 0
    BY <1>4, <2>2
  <2>3. CASE s # 0
    <3>0. c > 0
      <4> SUFFICES ASSUME c = 0 PROVE FALSE
        OBVIOUS
      <4>1. o = Capacity
        BY <1>0, <1>1, RequestFacts, Geometry DEF Clip, Least
      <4>2. o = B * NumBlocks + 0 /\ NumBlocks \in Int /\ 0 \in 0 .. B - 1
        BY <1>3, <4>1, Geometry DEF Capacity
      <4>3. o % B = 0
        BY <4>2, ModUnique
      <4> QED BY <1>2, <1>3, <2>3, <4>3
    <3>1. head = FirstEnd(q) - s
      BY <1>4, <2>3
    <3> HIDE DEF head
    <3>2. CASE s + c < B
      <4>1. head = c
        BY <2>1, <3>1, <3>2
      <4> QED BY <2>3, <3>0, <3>2, <4>1
    <3>3. CASE ~(s + c < B)
      <4>1. head = B - s
        BY <2>1, <3>1, <3>3
      <4>2. s < B
        BY <1>2, <1>3
      <4> QED BY <2>3, <3>0, <3>3, <4>1, <4>2
    <3> QED BY <3>2, <3>3
  <2> QED BY <2>2, <2>3
<1>6. PICK x \in Nat : x = c - h
  BY <1>5
<1>7. PICK nb, N, t \in Nat : /\ nb = x \div BlockSize /\ N = nb * BlockSize
                              /\ t = x % BlockSize
                              /\ x = N + t /\ t < BlockSize
                              /\ nb = 0 <=> x < BlockSize
                              /\ nb = 0 <=> N = 0
  BY MidFacts
<1>8. mid = N /\ tail = t
  <2>1. Clip(q) - head = x
    BY <1>1, <1>5, <1>6
  <2> HIDE DEF head
  <2>2. mid = N
    BY <1>7, <2>1
  <2>3. tail = x - N
    BY <2>1, <2>2
  <2>4. x = N + t
    BY <1>7
  <2> HIDE DEF mid, tail
  <2> QED BY <2>2, <2>3, <2>4
<1>9. d = (IF h > 0 THEN <<AllocPart(s, s + h)>> ELSE <<>>)
          \o (IF N > 0 THEN <<AddBuf(N)>> ELSE <<>>)
          \o (IF t > 0 THEN <<AllocPart(0, t)>> ELSE <<>>)
  <2>1. d = (IF head > 0 THEN <<AllocPart(resid, resid + head)>> ELSE <<>>)
            \o (IF mid > 0 THEN <<AddBuf(mid)>> ELSE <<>>)
            \o (IF tail > 0 THEN <<AllocPart(0, tail)>> ELSE <<>>)
    BY DEF ReadBufs
  <2>2. head = h
    BY <1>5
  <2> HIDE DEF head, mid, tail, resid
  <2> QED BY <1>4, <1>8, <2>1, <2>2
<1> HIDE DEF head, mid, tail, resid
<1>10. PICK T \in Nat : T = BlocksTouched(s, c)
  BY TouchFacts
<1>11. T * B = (IF h > 0 THEN B ELSE 0) + N + (IF t > 0 THEN B ELSE 0)
  <2> DEFINE y == (IF h > 0 THEN 1 ELSE 0) + nb + (IF t > 0 THEN 1 ELSE 0)
             Y == (IF h > 0 THEN B ELSE 0) + N + (IF t > 0 THEN B ELSE 0)
  <2>1. y \in Nat /\ Y \in Nat /\ B * y = Y
    <3>1. B * nb = N
      BY <1>3, <1>7
    <3>2. /\ B * (1 + nb + 1) = B + B * nb + B /\ B * (1 + nb + 0) = B + B * nb
          /\ B * (0 + nb + 1) = B * nb + B /\ B * (0 + nb + 0) = B * nb
      OBVIOUS
    <3> QED BY <3>1, <3>2
  <2>2. s + c <= Y /\ Y < s + c + B
    <3>1. c = h + N + t /\ t < B
      BY <1>3, <1>6, <1>7, <1>5
    <3>2. N = 0 \/ N >= B
      BY <1>3, <1>7
    <3>3. CASE s = 0
      <4>1. h = 0
        BY <1>5, <3>3
      <4> QED BY <3>1, <3>3, <4>1
    <3>4. CASE s # 0
      <4>1. h > 0
        BY <1>5, <3>4
      <4>2. CASE h = c
        <5>1. N = 0 /\ t = 0
          BY <3>1, <4>2
        <5>2. s + h <= B
          BY <1>5, <3>4
        <5> QED BY <3>4, <4>1, <4>2, <5>1, <5>2
      <4>3. CASE h # c
        <5>1. s + h = B
          BY <1>5, <3>4, <4>3
        <5>2. h > 0
          BY <1>2, <1>3, <5>1
        <5> QED BY <3>1, <5>1, <5>2
      <4> QED BY <4>2, <4>3
    <3> QED BY <3>3, <3>4
  <2>3. s + c <= B * T /\ B * T < s + c + B
    <3>1. PICK z, Z \in Nat : /\ z = BlocksTouched(s, c) /\ Z = z * BlockSize
                              /\ s + c <= Z /\ Z < s + c + BlockSize
      BY TouchFacts
    <3>2. Z = B * T
      BY <1>3, <1>10, <3>1
    <3> QED BY <1>3, <3>1, <3>2
  <2>4. y = T
    <3> HIDE DEF y, Y
    <3>1. s + c \in Int
      OBVIOUS
    <3> QED BY <1>10, <2>1, <2>2, <2>3, <3>1, MulUnique
  <2> HIDE DEF y, Y
  <2>5. T * B = Y
    BY <2>1, <2>4
  <2> QED BY <2>5 DEF Y
<1> DEFINE a1 == AllocPart(s, s + h)
           a2 == AddBuf(N)
           a3 == AllocPart(0, t)
<1>12. /\ a1 \in Part /\ a1.to - a1.from = h /\ a1.size = B /\ a1.from = s
       /\ a2 \in Part /\ a2.to - a2.from = N /\ a2.size = N /\ a2.from = 0
       /\ a3 \in Part /\ a3.to - a3.from = t /\ a3.size = B /\ a3.from = 0
  BY <1>3 DEF AllocPart, AddBuf, Buf, Part
<1>13. c = h + N + t /\ (s # 0 => h > 0) /\ (s = 0 => h = 0)
  BY <1>5, <1>6, <1>7
<1>14. d = (IF h > 0 THEN <<a1>> ELSE <<>>) \o (IF N > 0 THEN <<a2>> ELSE <<>>)
           \o (IF t > 0 THEN <<a3>> ELSE <<>>)
  BY <1>9
<1> HIDE DEF a1, a2, a3
<1> SUFFICES /\ d \in Seq(Part) /\ Len(d) \in 0 .. 3
             /\ Sum([i \in 1 .. Len(d) |-> d[i].to - d[i].from], Len(d)) = h + N + t
             /\ Sum([i \in 1 .. Len(d) |-> d[i].size], Len(d))
                  = (IF h > 0 THEN B ELSE 0) + N + (IF t > 0 THEN B ELSE 0)
             /\ h + N + t > 0 => Len(d) > 0 /\ d[1].from = s
  BY <1>1, <1>2, <1>3, <1>10, <1>11, <1>13
<1> DEFINE f == [i \in 1 .. Len(d) |-> d[i].to - d[i].from]
           g == [i \in 1 .. Len(d) |-> d[i].size]
<1>15. ASSUME NEW b1 \in {a1, a2, a3}, d = <<b1>>
       PROVE  /\ d \in Seq(Part) /\ Len(d) = 1 /\ d[1] = b1
              /\ Sum(f, Len(d)) = b1.to - b1.from /\ Sum(g, Len(d)) = b1.size
  <2>1. d \in Seq(Part) /\ Len(d) = 1 /\ d[1] = b1
    BY <1>12, <1>15
  <2>2. b1.to - b1.from \in Int /\ b1.size \in Int
    BY <1>12, <1>15
  <2>3. f[1] = b1.to - b1.from /\ g[1] = b1.size
    BY <2>1
  <2> HIDE DEF f, g
  <2> QED BY <2>1, <2>2, <2>3, SumSmall
<1>16. ASSUME NEW b1 \in {a1, a2, a3}, NEW b2 \in {a1, a2, a3}, d = <<b1, b2>>
       PROVE  /\ d \in Seq(Part) /\ Len(d) = 2 /\ d[1] = b1
              /\ Sum(f, Len(d)) = (b1.to - b1.from) + (b2.to - b2.from)
              /\ Sum(g, Len(d)) = b1.size + b2.size
  <2>1. d \in Seq(Part) /\ Len(d) = 2 /\ d[1] = b1 /\ d[2] = b2
    BY <1>12, <1>16
  <2>2. /\ b1.to - b1.from \in Int /\ b1.size \in Int
        /\ b2.to - b2.from \in Int /\ b2.size \in Int
    BY <1>12, <1>16
  <2>3. /\ f[1] = b1.to - b1.from /\ g[1] = b1.size
        /\ f[2] = b2.to - b2.from /\ g[2] = b2.size
    BY <2>1
  <2> HIDE DEF f, g
  <2> QED BY <2>1, <2>2, <2>3, SumSmall
<1>17. ASSUME d = <<a1, a2, a3>>
       PROVE  /\ d \in Seq(Part) /\ Len(d) = 3 /\ d[1] = a1
              /\ Sum(f, Len(d)) = h + N + t
              /\ Sum(g, Len(d)) = B + N + B
  <2>1. d \in Seq(Part) /\ Len(d) = 3 /\ d[1] = a1 /\ d[2] = a2 /\ d[3] = a3
    BY <1>12, <1>17
  <2>2. /\ f[1] = h /\ g[1] = B /\ f[2] = N /\ g[2] = N /\ f[3] = t /\ g[3] = B
    BY <1>12, <2>1
  <2> HIDE DEF f, g
  <2>3. /\ f[1] \in Int /\ f[2] \in Int /\ f[3] \in Int
        /\ g[1] \in Int /\ g[2] \in Int /\ g[3] \in Int
    BY <2>2
  <2>4. Sum(f, 3) = f[1] + f[2] + f[3]
    BY <2>3, SumSmall
  <2>5. Sum(g, 3) = g[1] + g[2] + g[3]
    BY <2>3, SumSmall
  <2>6. Sum(f, 3) = h + N + t /\ Sum(g, 3) = B + N + B
    BY <2>2, <2>4, <2>5
  <2> QED BY <2>1, <2>6
<1>18. ASSUME d = <<>>
       PROVE  d \in Seq(Part) /\ Len(d) = 0 /\ Sum(f, Len(d)) = 0 /\ Sum(g, Len(d)) = 0
  <2>1. d \in Seq(Part) /\ Len(d) = 0
    BY <1>18
  <2> HIDE DEF f, g
  <2> QED BY <2>1, SumSmall
<1> HIDE DEF f, g
<1> SUFFICES /\ d \in Seq(Part) /\ Len(d) \in 0 .. 3
             /\ Sum(f, Len(d)) = h + N + t
             /\ Sum(g, Len(d)) = (IF h > 0 THEN B ELSE 0) + N + (IF t > 0 THEN B ELSE 0)
             /\ h + N + t > 0 => Len(d) > 0 /\ d[1].from = s
  BY DEF f, g
<1>19. CASE h > 0
  <2>1. CASE N > 0 /\ t > 0
    <3>0. d = (<<a1>> \o <<a2>>) \o <<a3>>
      BY <1>14, <1>19, <2>1
    <3>2. <<a1>> \o <<a2>> = <<a1, a2>>
      BY <1>12, Concat2
    <3>3. <<a1, a2>> \o <<a3>> = <<a1, a2, a3>>
      BY <1>12, Concat3
    <3>1. d = <<a1, a2, a3>>
      BY <3>0, <3>2, <3>3
    <3> QED BY <1>12, <1>17, <1>19, <2>1, <3>1
  <2>2. CASE N > 0 /\ t = 0
    <3>0. d = (<<a1>> \o <<a2>>) \o <<>>
      BY <1>14, <1>19, <2>2
    <3>1. d = <<a1, a2>>
      BY <1>12, <3>0, Concat2
    <3> QED BY <1>12, <1>16, <1>19, <2>2, <3>1
  <2>3. CASE N = 0 /\ t > 0
    <3>0. d = (<<a1>> \o <<>>) \o <<a3>>
      BY <1>14, <1>19, <2>3
    <3>1. d = <<a1, a3>>
      BY <1>12, <3>0, Concat2
    <3> QED BY <1>12, <1>16, <1>19, <2>3, <3>1
  <2>4. CASE N = 0 /\ t = 0
    <3>1. d = <<a1>>
      BY <1>14, <1>19, <2>4
    <3> QED BY <1>12, <1>15, <1>19, <2>4, <3>1
  <2> QED BY <2>1, <2>2, <2>3, <2>4
<1>20. CASE h = 0
  <2>0. s = 0
    BY <1>13, <1>20
  <2>1. CASE N > 0 /\ t > 0
    <3>0. d = (<<>> \o <<a2>>) \o <<a3>>
      BY <1>14, <1>20, <2>1
    <3>1. d = <<a2, a3>>
      BY <1>12, <3>0, Concat2
    <3> QED BY <1>12, <1>16, <1>20, <2>0, <2>1, <3>1
  <2>2. CASE N > 0 /\ t = 0
    <3>1. d = <<a2>>
      BY <1>14, <1>20, <2>2
    <3> QED BY <1>12, <1>15, <1>20, <2>0, <2>2, <3>1
  <2>3. CASE N = 0 /\ t > 0
    <3>1. d = <<a3>>
      BY <1>14, <1>20, <2>3
    <3> QED BY <1>12, <1>15, <1>20, <2>0, <2>3, <3>1
  <2>4. CASE N = 0 /\ t = 0
    <3>1. d = <<>>
      BY <1>14, <1>20, <2>4
    <3> QED BY <1>18, <1>20, <2>4, <3>1
  <2> QED BY <2>1, <2>2, <2>3, <2>4
<1> QED BY <1>19, <1>20


-----------------------------------------------------------------------------
(***************************************************************************)
(* What a task is after it was sent.                                       *)
(***************************************************************************)

(* Where the elements of a concatenation are. *)
LEMMA ConcatAt ==
  ASSUME NEW S, NEW s \in Seq(S), NEW t \in Seq(S), NEW m \in Nat, NEW n \in Nat,
         m = Len(s), n = Len(t)
  PROVE  /\ s \o t \in Seq(S) /\ Len(s \o t) = m + n
         /\ \A i \in 1 .. m : (s \o t)[i] = s[i]
         /\ \A i \in 1 .. n : (s \o t)[i + m] = t[i]
<1>1. PICK u : u = s \o t
  OBVIOUS
<1>2. /\ u \in Seq(S) /\ Len(u) = m + n
      /\ \A i \in 1 .. m + n : u[i] = IF i <= m THEN s[i] ELSE t[i - m]
  BY <1>1, ConcatProperties
<1>3. ASSUME NEW i \in 1 .. m PROVE u[i] = s[i]
  <2>1. i \in 1 .. m + n /\ i <= m
    OBVIOUS
  <2> QED BY <1>2, <2>1
<1>4. ASSUME NEW i \in 1 .. n PROVE u[i + m] = t[i]
  <2>1. PICK j \in 1 .. m + n : j = i + m /\ ~(j <= m) /\ j - m = i
    OBVIOUS
  <2>2. u[j] = t[j - m]
    BY <1>2, <2>1
  <2> QED BY <2>1, <2>2
<1> QED BY <1>1, <1>2, <1>3, <1>4

(* Two elements in front of a sequence. *)
LEMMA Pre2 ==
  ASSUME NEW S, NEW a \in S, NEW b \in S, NEW d \in Seq(S),
         NEW n \in Nat, n = Len(d)
  PROVE  /\ Len(<<a, b>> \o d) = n + 2
         /\ (<<a, b>> \o d)[1] = a /\ (<<a, b>> \o d)[2] = b
         /\ \A k \in 1 .. n : (<<a, b>> \o d)[k + 2] = d[k]
<1>1. /\ <<a, b>> \in Seq(S) /\ Len(<<a, b>>) = 2
      /\ <<a, b>>[1] = a /\ <<a, b>>[2] = b
  OBVIOUS
<1>2. PICK h \in Seq(S) : h = <<a, b>> /\ 2 = Len(h) /\ h[1] = a /\ h[2] = b
  BY <1>1
<1>3. PICK m \in Nat : m = 2
  OBVIOUS
<1>4. /\ Len(h \o d) = m + n
      /\ \A i \in 1 .. m : (h \o d)[i] = h[i]
      /\ \A i \in 1 .. n : (h \o d)[i + m] = d[i]
  BY <1>2, <1>3, ConcatAt
<1>5. PICK u : u = h \o d
  OBVIOUS
<1>6. /\ Len(u) = 2 + n
      /\ \A i \in 1 .. 2 : u[i] = h[i]
      /\ \A i \in 1 .. n : u[i + 2] = d[i]
  BY <1>2, <1>3, <1>4, <1>5, Zenon
<1>7. u[1] = h[1] /\ u[2] = h[2]
  BY <1>6
<1> QED BY <1>2, <1>5, <1>6, <1>7

(* One element in front of a sequence and one behind it. *)
LEMMA Around ==
  ASSUME NEW S, NEW a \in S, NEW b \in S, NEW d \in Seq(S),
         NEW n \in Nat, n = Len(d)
  PROVE  /\ Len(<<a>> \o d \o <<b>>) = n + 2
         /\ (<<a>> \o d \o <<b>>)[1] = a /\ (<<a>> \o d \o <<b>>)[n + 2] = b
         /\ \A k \in 1 .. n : (<<a>> \o d \o <<b>>)[k + 1] = d[k]
<1>1. <<a>> \in Seq(S) /\ Len(<<a>>) = 1 /\ <<a>>[1] = a
  OBVIOUS
<1>2. <<b>> \in Seq(S) /\ Len(<<b>>) = 1 /\ <<b>>[1] = b
  OBVIOUS
<1>3. PICK h \in Seq(S) : h = <<a>> /\ 1 = Len(h) /\ h[1] = a
  BY <1>1
<1>4. PICK t \in Seq(S) : t = <<b>> /\ 1 = Len(t) /\ t[1] = b
  BY <1>2
<1>5. PICK m \in Nat : m = 1
  OBVIOUS
<1>6. /\ h \o d \in Seq(S) /\ Len(h \o d) = m + n
      /\ \A i \in 1 .. m : (h \o d)[i] = h[i]
      /\ \A i \in 1 .. n : (h \o d)[i + m] = d[i]
  BY <1>3, <1>5, ConcatAt
<1>7. PICK e \in Seq(S) : e = h \o d
  BY <1>6
<1>8. /\ Len(e) = 1 + n
      /\ \A i \in 1 .. 1 : e[i] = h[i]
      /\ \A i \in 1 .. n : e[i + 1] = d[i]
  BY <1>5, <1>6, <1>7, Zenon
<1>9. PICK l \in Nat : l = n + 1 /\ l = Len(e)
  BY <1>8
<1>10. /\ e \o t \in Seq(S) /\ Len(e \o t) = l + m
       /\ \A i \in 1 .. l : (e \o t)[i] = e[i]
       /\ \A i \in 1 .. m : (e \o t)[i + l] = t[i]
  <2>1. m = Len(t) /\ l = Len(e)
    BY <1>4, <1>5, <1>9
  <2> QED BY <2>1, ConcatAt
<1>11. PICK v \in Seq(S) : v = e \o t
  BY <1>10
<1>12. /\ Len(v) = l + 1
       /\ \A i \in 1 .. l : v[i] = e[i]
       /\ \A i \in 1 .. 1 : v[i + l] = t[i]
  BY <1>5, <1>10, <1>11, Zenon
<1>13. v[1] = a
  <2>1. 1 \in 1 .. l /\ 1 \in 1 .. 1
    BY <1>9
  <2> QED BY <1>3, <1>8, <1>12, <2>1, Zenon
<1>14. v[n + 2] = b
  <2>1. v[1 + l] = t[1]
    BY <1>12
  <2>2. 1 + l = n + 2
    BY <1>9
  <2> QED BY <1>4, <2>1, <2>2
<1>15. ASSUME NEW k \in 1 .. n PROVE v[k + 1] = d[k]
  <2>1. k + 1 \in 1 .. l
    BY <1>9
  <2>2. v[k + 1] = e[k + 1]
    BY <1>12, <2>1
  <2> QED BY <1>8, <2>2
<1>16. Len(v) = n + 2
  BY <1>9, <1>12
<1>17. v = <<a>> \o d \o <<b>>
  BY <1>3, <1>4, <1>7, <1>11
<1> QED BY <1>13, <1>14, <1>15, <1>16, <1>17

(* The data buffers of a read task follow the request and the response. *)
LEMMA ReadData ==
  ASSUME NEW r \in Reqs, NEW d \in Seq(Part), Len(d) \in 0 .. 3,
         vbufs'[r] = <<REQ, RESP>> \o d, cmd'[r].op = "read"
  PROVE  /\ NData(r)' = Len(d) /\ Len(vbufs'[r]) = Len(d) + 2
         /\ vbufs'[r][1] = REQ /\ vbufs'[r][RespIdx(r)'] = RESP
         /\ \A k \in 1 .. Len(d) : Data(r)'[k] = d[k]
         /\ UserBytes(r)' = Sum([k \in 1 .. Len(d) |-> d[k].to - d[k].from], Len(d))
         /\ Sum([k \in 1 .. NData(r) |-> Data(r)[k].size], NData(r))'
              = Sum([k \in 1 .. Len(d) |-> d[k].size], Len(d))
<1>1. PICK n \in 0 .. 3 : n = Len(d)
  OBVIOUS
<1> DEFINE A == Part \cup {REQ, RESP}
<1>2. REQ \in A /\ RESP \in A /\ Part \subseteq A
  OBVIOUS
<1>3. d \in Seq(A)
  BY <1>2
<1> HIDE DEF A
<1>4. PICK v : v = vbufs'[r]
  OBVIOUS
<1>5. /\ Len(v) = n + 2 /\ v[1] = REQ /\ v[2] = RESP
      /\ \A k \in 1 .. n : v[k + 2] = d[k]
  <2>1. n \in Nat
    OBVIOUS
  <2> QED BY <1>1, <1>2, <1>3, <1>4, <2>1, Pre2
<1>6. NData(r)' = n /\ Len(vbufs'[r]) = n + 2
  BY <1>4, <1>5 DEF NData
<1>7. vbufs'[r][1] = REQ /\ vbufs'[r][RespIdx(r)'] = RESP
  BY <1>4, <1>5 DEF RespIdx
<1>8. \A k \in 1 .. n : Data(r)'[k] = d[k]
  BY <1>4, <1>5, <1>6 DEF Data
<1>9. UserBytes(r)' = Sum([k \in 1 .. n |-> d[k].to - d[k].from], n)
  <2>1. [k \in 1 .. n |-> Data(r)'[k].to - Data(r)'[k].from]
          = [k \in 1 .. n |-> d[k].to - d[k].from]
    BY <1>8
  <2> QED BY <1>6, <2>1 DEF UserBytes
<1>10. [k \in 1 .. n |-> Data(r)'[k].size] = [k \in 1 .. n |-> d[k].size]
  BY <1>8
<1> QED BY <1>1, <1>6, <1>7, <1>8, <1>9, <1>10

(* Those of a write task stand between them. *)
LEMMA WriteData ==
  ASSUME NEW r \in Reqs, NEW d \in Seq(Part), Len(d) \in 1 .. 2,
         vbufs'[r] = <<REQ>> \o d \o <<RESP>>, cmd'[r].op = "write"
  PROVE  /\ NData(r)' = Len(d) /\ Len(vbufs'[r]) = Len(d) + 2
         /\ vbufs'[r][1] = REQ /\ vbufs'[r][RespIdx(r)'] = RESP
         /\ \A k \in 1 .. Len(d) : Data(r)'[k] = d[k]
         /\ UserBytes(r)' = Sum([k \in 1 .. Len(d) |-> d[k].to - d[k].from], Len(d))
         /\ Sum([k \in 1 .. NData(r) |-> Data(r)[k].size], NData(r))'
              = Sum([k \in 1 .. Len(d) |-> d[k].size], Len(d))
<1>1. PICK n \in 1 .. 2 : n = Len(d)
  OBVIOUS
<1> DEFINE A == Part \cup {REQ, RESP}
<1>2. REQ \in A /\ RESP \in A /\ Part \subseteq A
  OBVIOUS
<1>3. d \in Seq(A)
  BY <1>2
<1> HIDE DEF A
<1>4. n \in Nat
  OBVIOUS
<1>6. /\ Len(<<REQ>> \o d \o <<RESP>>) = n + 2
      /\ (<<REQ>> \o d \o <<RESP>>)[1] = REQ
      /\ (<<REQ>> \o d \o <<RESP>>)[n + 2] = RESP
      /\ \A k \in 1 .. n : (<<REQ>> \o d \o <<RESP>>)[k + 1] = d[k]
  BY <1>1, <1>2, <1>3, <1>4, Around
<1>7. /\ Len(vbufs'[r]) = n + 2 /\ vbufs'[r][1] = REQ /\ vbufs'[r][n + 2] = RESP
      /\ \A k \in 1 .. n : vbufs'[r][k + 1] = d[k]
  BY <1>6, Zenon
<1>8. NData(r)' = n /\ Len(vbufs'[r]) = n + 2
  BY <1>7 DEF NData
<1>9. vbufs'[r][1] = REQ /\ vbufs'[r][RespIdx(r)'] = RESP
  BY <1>7, <1>8 DEF RespIdx
<1>10. \A k \in 1 .. n : Data(r)'[k] = d[k]
  BY <1>7, <1>8 DEF Data
<1>11. UserBytes(r)' = Sum([k \in 1 .. n |-> d[k].to - d[k].from], n)
  <2>1. [k \in 1 .. n |-> Data(r)'[k].to - Data(r)'[k].from]
          = [k \in 1 .. n |-> d[k].to - d[k].from]
    BY <1>10
  <2> QED BY <1>8, <2>1 DEF UserBytes
<1>12. [k \in 1 .. n |-> Data(r)'[k].size] = [k \in 1 .. n |-> d[k].size]
  BY <1>10
<1> QED BY <1>1, <1>8, <1>9, <1>10, <1>11, <1>12

(* One or two data buffers. *)
LEMMA OneBuf ==
  ASSUME NEW b \in Part
  PROVE  /\ <<b>> \in Seq(Part) /\ Len(<<b>>) = 1 /\ <<b>>[1] = b
         /\ Sum([k \in 1 .. 1 |-> <<b>>[k].to - <<b>>[k].from], 1) = b.to - b.from
         /\ Sum([k \in 1 .. 1 |-> <<b>>[k].size], 1) = b.size
<1>0. <<b>> \in Seq(Part) /\ Len(<<b>>) = 1 /\ <<b>>[1] = b
  OBVIOUS
<1>1. PICK d \in Seq(Part) : d = <<b>> /\ Len(d) = 1 /\ d[1] = b
  BY <1>0
<1> DEFINE f == [k \in 1 .. 1 |-> d[k].to - d[k].from]
           g == [k \in 1 .. 1 |-> d[k].size]
<1>2. f[1] = b.to - b.from /\ g[1] = b.size
  BY <1>1
<1>3. b.to - b.from \in Int /\ b.size \in Int
  BY DEF Part
<1> HIDE DEF f, g
<1>4. Sum(f, 1) = b.to - b.from /\ Sum(g, 1) = b.size
  BY <1>2, <1>3, SumSmall
<1> QED BY <1>1, <1>4 DEF f, g

(* ... and of two. *)
LEMMA TwoBufs ==
  ASSUME NEW a \in Part, NEW b \in Part
  PROVE  /\ <<a, b>> \in Seq(Part) /\ Len(<<a, b>>) = 2 /\ <<a, b>>[1] = a
         /\ <<a, b>>[2] = b
         /\ Sum([k \in 1 .. 2 |-> <<a, b>>[k].to - <<a, b>>[k].from], 2)
              = (a.to - a.from) + (b.to - b.from)
         /\ Sum([k \in 1 .. 2 |-> <<a, b>>[k].size], 2) = a.size + b.size
<1>0. <<a, b>> \in Seq(Part) /\ Len(<<a, b>>) = 2 /\ <<a, b>>[1] = a /\ <<a, b>>[2] = b
  OBVIOUS
<1>1. PICK d \in Seq(Part) : d = <<a, b>> /\ Len(d) = 2 /\ d[1] = a /\ d[2] = b
  BY <1>0
<1> DEFINE f == [k \in 1 .. 2 |-> d[k].to - d[k].from]
           g == [k \in 1 .. 2 |-> d[k].size]
<1>2. f[1] = a.to - a.from /\ g[1] = a.size /\ f[2] = b.to - b.from /\ g[2] = b.size
  BY <1>1
<1>3. /\ a.to - a.from \in Int /\ a.size \in Int
      /\ b.to - b.from \in Int /\ b.size \in Int
  BY DEF Part
<1> HIDE DEF f, g
<1>4. Sum(f, 2) = (a.to - a.from) + (b.to - b.from) /\ Sum(g, 2) = a.size + b.size
  BY <1>2, <1>3, SumSmall
<1> QED BY <1>1, <1>4 DEF f, g

(* The fields of the buffers that tasks are made of. *)
LEMMA PartFacts ==
  ASSUME NEW f \in Int, NEW t \in Int
  PROVE  /\ AllocPart(f, t) \in Part /\ AllocPart(f, t).role = "data"
         /\ AllocPart(f, t).from = f /\ AllocPart(f, t).to = t
         /\ AllocPart(f, t).size = BlockSize
         /\ AddBuf(f) \in Part /\ AddBuf(f).role = "data"
         /\ AddBuf(f).from = 0 /\ AddBuf(f).to = f /\ AddBuf(f).size = f
BY Geometry DEF AllocPart, AddBuf, Buf, Part

(* The buffers of a write, put together. *)
LEMMA Enclosed ==
  ASSUME NEW a \in Part, NEW b \in Part
  PROVE  /\ <<REQ, a, RESP>> = <<REQ>> \o <<a>> \o <<RESP>>
         /\ <<REQ, a>> \o <<b>> \o <<RESP>> = <<REQ>> \o <<a, b>> \o <<RESP>>
<1> DEFINE A == Part \cup {REQ, RESP}
<1>1. REQ \in A /\ RESP \in A /\ a \in A /\ b \in A
  OBVIOUS
<1> HIDE DEF A
<1>2. <<REQ>> \o <<a>> = <<REQ, a>>
  BY <1>1, Concat2
<1>3. <<REQ, a>> \o <<RESP>> = <<REQ, a, RESP>>
  BY <1>1, Concat3
<1>4. <<a>> \o <<b>> = <<a, b>>
  BY <1>1, Concat2
<1>5. <<REQ>> \in Seq(A) /\ <<a>> \in Seq(A) /\ <<b>> \in Seq(A)
  BY <1>1
<1>6. (<<REQ>> \o <<a>>) \o <<b>> = <<REQ>> \o (<<a>> \o <<b>>)
  <2>1. PICK x \in Seq(A), y \in Seq(A), z \in Seq(A) :
          x = <<REQ>> /\ y = <<a>> /\ z = <<b>>
    BY <1>5, Zenon
  <2>2. (x \o y) \o z = x \o (y \o z)
    BY ConcatAssociative
  <2> QED BY <2>1, <2>2, Zenon
<1> QED BY <1>2, <1>3, <1>4, <1>6

(* The task that reads the block in which a write begins or ends ... *)
LEMMA ReadPartSent ==
  ASSUME NEW r \in Reqs, NEW f \in Int, NEW t \in Int,
         vbufs'[r] = ReadPartBufs(f, t), cmd'[r].op = "read", cmd'[r].nblk = 1,
         stage'[r] \in {"blk_read_first_block_done", "blk_read_last_block_done"}
  PROVE  LaidOut(r)' /\ From(r)' = f /\ To(r)' = t
<1>1. PICK b \in Part : /\ b = AllocPart(f, t) /\ b.from = f /\ b.to = t
                        /\ b.size = BlockSize /\ b.role = "data"
  BY PartFacts
<1>2. PICK d \in Seq(Part) :
        /\ d = <<b>> /\ Len(d) = 1 /\ d[1] = b
        /\ Sum([k \in 1 .. 1 |-> d[k].size], 1) = b.size
  BY OneBuf
<1>3. vbufs'[r] = <<REQ, RESP>> \o d
  <2>1. <<REQ, RESP>> \o <<b>> = <<REQ, RESP, b>>
    <3> DEFINE A == Part \cup {REQ, RESP}
    <3>1. REQ \in A /\ RESP \in A /\ b \in A
      OBVIOUS
    <3> HIDE DEF A
    <3> QED BY <3>1, Concat3
  <2> QED BY <1>1, <1>2, <2>1 DEF ReadPartBufs
<1>4. /\ NData(r)' = 1 /\ Len(vbufs'[r]) = 3
      /\ vbufs'[r][1] = REQ /\ vbufs'[r][RespIdx(r)'] = RESP
      /\ \A k \in 1 .. 1 : Data(r)'[k] = d[k]
      /\ Sum([k \in 1 .. NData(r) |-> Data(r)[k].size], NData(r))' = b.size
  <2>1. Len(d) \in 0 .. 3 /\ 1 + 2 = 3
    BY <1>2
  <2> QED BY <1>2, <1>3, <2>1, ReadData
<1>5. Data(r)'[1] = b
  BY <1>2, <1>4
<1>6. b.size = cmd'[r].nblk * BlockSize
  BY <1>1, Geometry
<1>7. Limit(stage[r])' >= 3
  BY DEF Limit
<1>8. \A k \in 1 .. NData(r)' : Data(r)'[k].role = "data"
  BY <1>1, <1>4, <1>5
<1>9. LaidOut(r)'
  BY <1>4, <1>6, <1>7, <1>8 DEF LaidOut
<1> QED BY <1>1, <1>5, <1>9 DEF From, To

(* ... the task that writes the last of them back ... *)
LEMMA WritePartSent ==
  ASSUME NEW r \in Reqs, NEW f \in Int, NEW t \in Int,
         vbufs'[r] = <<REQ, AllocPart(f, t), RESP>>, cmd'[r].op = "write",
         cmd'[r].nblk = 1, stage'[r] = "blk_write_last_block_done"
  PROVE  LaidOut(r)' /\ From(r)' = f /\ To(r)' = t
<1>1. PICK b \in Part : /\ b = AllocPart(f, t) /\ b.from = f /\ b.to = t
                        /\ b.size = BlockSize /\ b.role = "data"
  BY PartFacts
<1>2. PICK d \in Seq(Part) :
        /\ d = <<b>> /\ Len(d) = 1 /\ d[1] = b
        /\ Sum([k \in 1 .. 1 |-> d[k].size], 1) = b.size
  BY OneBuf
<1>3. vbufs'[r] = <<REQ>> \o d \o <<RESP>>
  BY <1>1, <1>2, Enclosed
<1>4. /\ NData(r)' = 1 /\ Len(vbufs'[r]) = 3
      /\ vbufs'[r][1] = REQ /\ vbufs'[r][RespIdx(r)'] = RESP
      /\ \A k \in 1 .. 1 : Data(r)'[k] = d[k]
      /\ Sum([k \in 1 .. NData(r) |-> Data(r)[k].size], NData(r))' = b.size
  <2>1. Len(d) \in 1 .. 2 /\ 1 + 2 = 3
    BY <1>2
  <2> QED BY <1>2, <1>3, <2>1, WriteData
<1>5. Data(r)'[1] = b
  BY <1>2, <1>4
<1>6. b.size = cmd'[r].nblk * BlockSize
  BY <1>1, Geometry
<1>7. Limit(stage[r])' >= 3
  BY DEF Limit
<1>8. \A k \in 1 .. NData(r)' : Data(r)'[k].role = "data"
  BY <1>1, <1>4, <1>5
<1>9. LaidOut(r)'
  BY <1>4, <1>6, <1>7, <1>8 DEF LaidOut
<1> QED BY <1>1, <1>5, <1>9 DEF From, To

(* ... the one that writes full blocks ... *)
LEMMA FullSent ==
  ASSUME NEW r \in Reqs, NEW b \in Part, b.role = "data",
         vbufs'[r] = <<REQ, b, RESP>>, cmd'[r].op = "write",
         b.size = cmd'[r].nblk * BlockSize,
         stage'[r] = "blk_write_full_blocks_done"
  PROVE  LaidOut(r)' /\ UserBytes(r)' = b.to - b.from
<1>2. PICK d \in Seq(Part) :
        /\ d = <<b>> /\ Len(d) = 1 /\ d[1] = b
        /\ Sum([k \in 1 .. 1 |-> d[k].to - d[k].from], 1) = b.to - b.from
        /\ Sum([k \in 1 .. 1 |-> d[k].size], 1) = b.size
  BY OneBuf
<1>3. vbufs'[r] = <<REQ>> \o d \o <<RESP>>
  BY <1>2, Enclosed
<1>4. /\ NData(r)' = 1 /\ Len(vbufs'[r]) = 3
      /\ vbufs'[r][1] = REQ /\ vbufs'[r][RespIdx(r)'] = RESP
      /\ \A k \in 1 .. 1 : Data(r)'[k] = d[k]
      /\ UserBytes(r)' = b.to - b.from
      /\ Sum([k \in 1 .. NData(r) |-> Data(r)[k].size], NData(r))' = b.size
  <2>1. Len(d) \in 1 .. 2 /\ 1 + 2 = 3
    BY <1>2
  <2> QED BY <1>2, <1>3, <2>1, WriteData
<1>5. Data(r)'[1] = b
  BY <1>2, <1>4
<1>7. Limit(stage[r])' >= 3
  BY DEF Limit
<1>8. \A k \in 1 .. NData(r)' : Data(r)'[k].role = "data"
  BY <1>4, <1>5
<1>9. LaidOut(r)'
  BY <1>4, <1>7, <1>8 DEF LaidOut
<1> QED BY <1>4, <1>9

(* ... and the one that writes them together with the first. *)
LEMMA FirstAndFullSent ==
  ASSUME NEW r \in Reqs, NEW a \in Part, NEW b \in Part,
         a.role = "data", b.role = "data",
         vbufs'[r] = <<REQ, a>> \o <<b>> \o <<RESP>>, cmd'[r].op = "write",
         a.size + b.size = cmd'[r].nblk * BlockSize,
         stage'[r] = "blk_write_full_blocks_done"
  PROVE  LaidOut(r)' /\ UserBytes(r)' = (a.to - a.from) + (b.to - b.from)
<1>2. PICK d \in Seq(Part) :
        /\ d = <<a, b>> /\ Len(d) = 2 /\ d[1] = a /\ d[2] = b
        /\ Sum([k \in 1 .. 2 |-> d[k].to - d[k].from], 2)
             = (a.to - a.from) + (b.to - b.from)
        /\ Sum([k \in 1 .. 2 |-> d[k].size], 2) = a.size + b.size
  BY TwoBufs
<1>3. vbufs'[r] = <<REQ>> \o d \o <<RESP>>
  BY <1>2, Enclosed
<1>4. /\ NData(r)' = 2 /\ Len(vbufs'[r]) = 4
      /\ vbufs'[r][1] = REQ /\ vbufs'[r][RespIdx(r)'] = RESP
      /\ \A k \in 1 .. 2 : Data(r)'[k] = d[k]
      /\ UserBytes(r)' = (a.to - a.from) + (b.to - b.from)
      /\ Sum([k \in 1 .. NData(r) |-> Data(r)[k].size], NData(r))' = a.size + b.size
  <2>1. Len(d) \in 1 .. 2 /\ 2 + 2 = 4
    BY <1>2
  <2> QED BY <1>2, <1>3, <2>1, WriteData
<1>5. Data(r)'[1] = a /\ Data(r)'[2] = b
  BY <1>2, <1>4
<1>7. Limit(stage[r])' >= 4
  BY DEF Limit
<1>8. \A k \in 1 .. NData(r)' : Data(r)'[k].role = "data"
  BY <1>4, <1>5
<1>6. Sum([k \in 1 .. NData(r) |-> Data(r)[k].size], NData(r))'
        = cmd'[r].nblk * BlockSize
  BY <1>4, Zenon
<1>9. LaidOut(r)'
  <2>1. Len(vbufs'[r]) <= Limit(stage[r])' /\ Len(vbufs'[r]) > 2
    BY <1>4, <1>7 DEF Limit
  <2>2. /\ vbufs'[r][1] = REQ /\ vbufs'[r][RespIdx(r)'] = RESP
    BY <1>4
  <2> QED BY <1>6, <1>8, <2>1, <2>2 DEF LaidOut
<1> QED BY <1>4, <1>9

(* The task of a read. *)
LEMMA ReadSent ==
  ASSUME NEW r \in Reqs, NEW q \in Requests, InRange(q),
         vbufs'[r] = <<REQ, RESP>> \o ReadBufs(q), cmd'[r].op = "read",
         cmd'[r].nblk = BlocksTouched(q.offset % BlockSize, Clip(q)),
         stage'[r] = "blk_read_done"
  PROVE  /\ LaidOut(r)' /\ UserBytes(r)' = Clip(q)
         /\ Clip(q) > 0 => From(r)' = q.offset % BlockSize
<1>1. PICK d : d = ReadBufs(q)
  OBVIOUS
<1>2. /\ d \in Seq(Part) /\ Len(d) \in 0 .. 3
      /\ Sum([x \in 1 .. Len(d) |-> d[x].to - d[x].from], Len(d)) = Clip(q)
      /\ Sum([x \in 1 .. Len(d) |-> d[x].size], Len(d))
           = cmd'[r].nblk * BlockSize
      /\ Clip(q) > 0 => Len(d) > 0 /\ d[1].from = q.offset % BlockSize
  BY <1>1, ReadBufsFacts
<1>3. /\ NData(r)' = Len(d) /\ Len(vbufs'[r]) = Len(d) + 2
      /\ vbufs'[r][1] = REQ /\ vbufs'[r][RespIdx(r)'] = RESP
      /\ \A k \in 1 .. Len(d) : Data(r)'[k] = d[k]
      /\ UserBytes(r)' = Clip(q)
      /\ Sum([k \in 1 .. NData(r) |-> Data(r)[k].size], NData(r))'
           = cmd'[r].nblk * BlockSize
  BY <1>1, <1>2, ReadData
<1>4. Len(vbufs'[r]) <= Limit(stage[r])'
  BY <1>2, <1>3 DEF Limit
<1>5. \A k \in 1 .. NData(r)' : Data(r)'[k].role = "data"
  <2> SUFFICES ASSUME NEW k \in 1 .. Len(d) PROVE Data(r)'[k].role = "data"
    BY <1>3
  <2>1. d[k] \in Part
    BY <1>2
  <2> QED BY <1>3, <2>1 DEF Part
<1>6. LaidOut(r)'
  BY <1>3, <1>4, <1>5 DEF LaidOut
<1>7. Clip(q) > 0 => From(r)' = q.offset % BlockSize
  BY <1>2, <1>3 DEF From
<1> QED BY <1>3, <1>6, <1>7

-----------------------------------------------------------------------------
(***************************************************************************)
(* What one request does is nobody else's business, unless they share a    *)
(* block.                                                                  *)
(***************************************************************************)

(* The same task, the same buffers. *)
LEMMA SameTask ==
  ASSUME NEW u \in Reqs, vbufs'[u] = vbufs[u], cmd'[u] = cmd[u]
  PROVE  /\ From(u)' = From(u) /\ To(u)' = To(u) /\ UserBytes(u)' = UserBytes(u)
         /\ stage'[u] = stage[u] => (LaidOut(u) => LaidOut(u)')
<1>1. NData(u)' = NData(u) /\ RespIdx(u)' = RespIdx(u)
  BY DEF NData, RespIdx
<1>2. Data(u)' = Data(u)
  BY <1>1 DEF Data
<1>3. From(u)' = From(u) /\ To(u)' = To(u)
  BY <1>2 DEF From, To
<1>4. UserBytes(u)' = UserBytes(u)
  BY <1>1, <1>2 DEF UserBytes
<1>5. stage'[u] = stage[u] => (LaidOut(u) => LaidOut(u)')
  BY <1>1, <1>2 DEF LaidOut
<1> QED BY <1>3, <1>4, <1>5

(* A write is on the device as a whole. *)
LEMMA WriteRange ==
  ASSUME OnDevice, NEW q \in Requests, InRange(q), q.type = "write"
  PROVE  /\ q.offset \in Nat /\ q.nbytes \in Nat /\ q.nbytes > 0
         /\ Clip(q) = q.nbytes /\ q.offset + q.nbytes <= Capacity
<1>1. q.offset \in Nat /\ q.nbytes \in Nat /\ q.offset <= Capacity /\ q.nbytes > 0
  BY RequestFacts DEF InRange
<1>2. q.offset + q.nbytes <= Capacity
  BY <1>1 DEF OnDevice
<1> QED BY <1>1, <1>2, Geometry DEF Clip, Least

(* What a write has or will have on the device is part of its range. *)
LEMMA HaveRange ==
  ASSUME OnDevice, NEW r \in Reqs, ReqOK(r), TaskOK(r), Flying(r),
         io[r].type = "write"
  PROVE  /\ io[r] \in Requests /\ InRange(io[r])
         /\ Have(r) \in Int /\ Goal(r) \in Int
         /\ Have(r) <= io[r].nbytes /\ Goal(r) <= io[r].nbytes
         /\ stage[r] \in WriteStages
<1>1. io[r] \in Requests /\ InRange(io[r]) /\ stage[r] # "blk_read_done"
  BY DEF ReqOK, Flying, InFlight, WriteStages
<1>2. stage[r] \in WriteStages
  BY <1>1 DEF Flying, InFlight
<1>3. io[r].nbytes \in Nat
  BY <1>1, WriteRange
<1>4. stage[r] = "blk_write_full_blocks_done" =>
        UserBytes(r) \in Int /\ UserBytes(r) <= io[r].nbytes
  BY <1>3 DEF TaskOK, FullTask
<1>5. Goal(r) \in Int /\ Goal(r) <= io[r].nbytes
  BY <1>3, <1>4 DEF Goal
<1>6. stage[r] \in {"blk_read_last_block_done", "blk_write_last_block_done"} =>
        To(r) \in Nat
  BY Geometry DEF TaskOK, LastTask
<1>7. Have(r) \in Int /\ Have(r) <= io[r].nbytes
  BY <1>3, <1>5, <1>6 DEF Have
<1> QED BY <1>1, <1>2, <1>5, <1>7

(* A request that does not move. *)
Kept(u) ==
  /\ io'[u] = io[u] /\ retval'[u] = retval[u] /\ stage'[u] = stage[u]
  /\ cmd'[u] = cmd[u] /\ resp'[u] = resp[u] /\ data'[u] = data[u]
  /\ vbufs'[u] = vbufs[u] /\ trouble'[u] = trouble[u]

(* What it may rely on: bytes of its blocks stay, or it knows of a clash,  *)
(* and what belongs somewhere goes on to belong there.                     *)
Undisturbed(u) ==
  /\ clash \subseteq clash'
  /\ \A b \in 0 .. Capacity - 1 :
       disk'[b] = disk[b] \/ u \in clash' \/ b \div BlockSize \notin Blocks(io[u])
  /\ \A b \in 0 .. Capacity - 1 : \A x : BelongsAt(x, b) => BelongsAt(x, b)'

(* A request that is left alone keeps its part of the invariant. *)
LEMMA KeptOK ==
  ASSUME OnDevice, NEW u \in Reqs, Kept(u), Undisturbed(u),
         ReqOK(u), TaskOK(u), DataOK(u), BytesOK(u), HaveOK(u)
  PROVE  (ReqOK(u) /\ TaskOK(u) /\ DataOK(u) /\ BytesOK(u) /\ HaveOK(u))'
<1> USE DEF Kept
<1>1. ReqOK(u)'
  BY DEF ReqOK, Flying
<1>2. /\ From(u)' = From(u) /\ To(u)' = To(u) /\ UserBytes(u)' = UserBytes(u)
      /\ LaidOut(u) => LaidOut(u)'
  BY SameTask
<1>3. Flying(u)' <=> Flying(u)
  BY DEF Flying
<1>4. Start(u)' = Start(u) /\ Size(u)' = Size(u) /\ End(u)' = End(u)
  BY DEF Start, Size, End
<1>5. CoverOK(u) => CoverOK(u)'
  BY <1>4 DEF CoverOK
<1>6. /\ ReadTask(u) => ReadTask(u)'
      /\ FirstTask(u) => FirstTask(u)'
      /\ FullTask(u) => FullTask(u)'
      /\ LastTask(u) => LastTask(u)'
  <2>1. ReadTask(u) => ReadTask(u)'
    BY <1>2, <1>4 DEF ReadTask
  <2>2. FirstTask(u) => FirstTask(u)'
    BY <1>2 DEF FirstTask
  <2>3. FullTask(u) => FullTask(u)'
    BY <1>2, <1>4 DEF FullTask
  <2>4. LastTask(u) => LastTask(u)'
    BY <1>2, <1>4 DEF LastTask
  <2> QED BY <2>1, <2>2, <2>3, <2>4
<1>7. TaskOK(u)'
  BY <1>2, <1>3, <1>5, <1>6 DEF TaskOK
<1>8. ASSUME NEW x, NEW b \in 0 .. Capacity - 1, b \div BlockSize \in Blocks(io[u]),
             Copy(u, x, b)
      PROVE  Copy(u, x, b)'
  <2>1. BelongsAt(x, b)'
    BY <1>8 DEF Copy, Undisturbed
  <2>2. u \notin clash' => x = disk'[b]
    <3> SUFFICES ASSUME u \notin clash' PROVE x = disk'[b]
      OBVIOUS
    <3>1. disk'[b] = disk[b] /\ u \notin clash
      BY <1>8 DEF Undisturbed
    <3> QED BY <1>8, <3>1 DEF Copy
  <2> QED BY <2>1, <2>2 DEF Copy
<1>9. Flying(u) => CoverOK(u)
  BY DEF TaskOK
<1>10. DataOK(u)'
  <2> SUFFICES ASSUME Flying(u), cmd[u].op = "read", resp[u] = "ok",
                      NEW i \in 0 .. Size(u) - 1
               PROVE  Copy(u, data[u][i], Start(u) + i)'
    BY <1>3, <1>4 DEF DataOK
  <2>1. Copy(u, data[u][i], Start(u) + i)
    BY DEF DataOK
  <2>2. /\ Start(u) + i \in 0 .. Capacity - 1
        /\ (Start(u) + i) \div BlockSize \in Blocks(io[u])
    BY <1>9 DEF CoverOK
  <2>3. PICK b \in 0 .. Capacity - 1 : b = Start(u) + i
    BY <2>2
  <2>5. PICK x : x = data[u][i]
    OBVIOUS
  <2>4. Copy(u, x, b)'
    BY <1>8, <2>1, <2>2, <2>3, <2>5
  <2> QED BY <1>4, <2>3, <2>4, <2>5 DEF Copy
<1>11. Goal(u)' = Goal(u) /\ Have(u)' = Have(u)
  BY <1>2 DEF Goal, Have
<1>12. BytesOK(u)'
  <2> SUFFICES ASSUME Flying(u), cmd[u].op = "write",
                      NEW i \in 0 .. Size(u) - 1
               PROVE  (IF Start(u) + i \in io[u].offset .. io[u].offset + Goal(u) - 1
                         THEN cmd[u].bytes[i] = <<u, Start(u) + i - io[u].offset>>
                         ELSE Copy(u, cmd[u].bytes[i], Start(u) + i))'
    BY <1>3, <1>4 DEF BytesOK
  <2>1. IF Start(u) + i \in io[u].offset .. io[u].offset + Goal(u) - 1
          THEN cmd[u].bytes[i] = <<u, Start(u) + i - io[u].offset>>
          ELSE Copy(u, cmd[u].bytes[i], Start(u) + i)
    BY DEF BytesOK
  <2>2. /\ Start(u) + i \in 0 .. Capacity - 1
        /\ (Start(u) + i) \div BlockSize \in Blocks(io[u])
    BY <1>9 DEF CoverOK
  <2>3. PICK b \in 0 .. Capacity - 1 : b = Start(u) + i
    BY <2>2
  <2>7. PICK x : x = cmd[u].bytes[i]
    OBVIOUS
  <2>4. Copy(u, x, b) => Copy(u, x, b)'
    BY <1>8, <2>2, <2>3
  <2>5. Copy(u, x, b)' => Copy(u, cmd[u].bytes[i], Start(u) + i)'
    BY <1>4, <2>3, <2>7 DEF Copy
  <2>6. Copy(u, cmd[u].bytes[i], Start(u) + i) => Copy(u, x, b)
    BY <2>3, <2>7
  <2> QED BY <1>4, <1>11, <2>1, <2>4, <2>5, <2>6
<1>13. HaveOK(u)'
  <2> SUFFICES ASSUME Flying(u), io[u].type = "write", u \notin clash',
                      NEW k \in 0 .. Have(u) - 1
               PROVE  disk'[io[u].offset + k] = <<u, k>>
    BY <1>3, <1>11 DEF HaveOK
  <2>1. /\ io[u] \in Requests /\ InRange(io[u]) /\ Have(u) \in Int
        /\ Have(u) <= io[u].nbytes
    BY HaveRange
  <2>2. PICK o \in Nat, n \in Nat :
          /\ o = io[u].offset /\ n = io[u].nbytes /\ Clip(io[u]) = n
          /\ o + n <= Capacity
    BY <2>1, WriteRange
  <2>3. PICK b \in Nat : b = o + k /\ o <= b /\ b < o + n
    BY <2>1, <2>2
  <2>4. b \div BlockSize \in Blocks(io[u])
    BY <2>1, <2>2, <2>3, BlockOf DEF InRange
  <2>5. b \in 0 .. Capacity - 1
    BY <2>2, <2>3, Geometry
  <2>6. disk'[b] = disk[b] /\ u \notin clash
    BY <2>4, <2>5 DEF Undisturbed
  <2>7. disk[io[u].offset + k] = <<u, k>>
    BY <2>6 DEF HaveOK
  <2> QED BY <2>2, <2>3, <2>6, <2>7
<1> QED BY <1>1, <1>7, <1>10, <1>12, <1>13

(* A request without a task does not look at the device. *)
LEMMA IdleOK ==
  ASSUME NEW u \in Reqs, ~Flying(u)', ReqOK(u)'
  PROVE  (ReqOK(u) /\ TaskOK(u) /\ DataOK(u) /\ BytesOK(u) /\ HaveOK(u))'
BY DEF TaskOK, DataOK, BytesOK, HaveOK

(* ... and stays as it is when it does not move. *)
LEMMA IdleKept ==
  ASSUME NEW u \in Reqs, ~Flying(u), Kept(u), ReqOK(u)
  PROVE  (ReqOK(u) /\ TaskOK(u) /\ DataOK(u) /\ BytesOK(u) /\ HaveOK(u))'
<1>1. ~Flying(u)'
  BY DEF Flying, Kept
<1>2. ReqOK(u)'
  BY DEF ReqOK, Flying, Kept
<1> QED BY <1>1, <1>2, IdleOK

-----------------------------------------------------------------------------
(* The byte b may change when r takes a step: the conclusion of WellPlaced.*)
MayChange(r, b) ==
  /\ stage[r] \in WriteStages /\ resp'[r] # resp[r]
  /\ b \div BlockSize \in Blocks(io[r])
  /\ \/ r \in clash /\ BelongsAt(disk'[b], b)
     \/ /\ b \in io[r].offset .. End(r) - 1
        /\ disk'[b] = <<r, b - io[r].offset>>

(* The step of a request in flight. *)
StepOK(r) ==
  /\ Flying(r)
  /\ io' = io /\ clash' = clash
  /\ \A u \in Reqs : u # r => Kept(u)
  /\ DOMAIN disk' = 0 .. Capacity - 1
  /\ \A b \in 0 .. Capacity - 1 : disk'[b] = disk[b] \/ MayChange(r, b)
  /\ (ReqOK(r) /\ TaskOK(r) /\ DataOK(r) /\ BytesOK(r) /\ HaveOK(r))'

(* A step that is good for its own request keeps the invariant: the others  *)
(* share no block with it, or know that they do.                           *)
LEMMA StepInv ==
  ASSUME OnDevice, AsyncInv, NEW r \in Reqs, StepOK(r), FcnOK'
  PROVE  AsyncInv'
<1>1. /\ Flying(r) /\ io' = io /\ clash' = clash
      /\ \A u \in Reqs : u # r => Kept(u)
      /\ \A b \in 0 .. Capacity - 1 : disk'[b] = disk[b] \/ MayChange(r, b)
  BY DEF StepOK
<1>2. /\ ClashOK /\ PlaceOK
      /\ \A u \in Reqs : ReqOK(u) /\ TaskOK(u) /\ DataOK(u) /\ BytesOK(u) /\ HaveOK(u)
  BY DEF AsyncInv
<1>3. \A b, x : BelongsAt(x, b)' <=> BelongsAt(x, b)
  BY <1>1 DEF BelongsAt, End
<1>4. PlaceOK'
  <2> SUFFICES ASSUME NEW b \in 0 .. Capacity - 1 PROVE BelongsAt(disk'[b], b)
    BY <1>3 DEF PlaceOK
  <2>1. CASE disk'[b] = disk[b]
    BY <1>2, <2>1 DEF PlaceOK
  <2>2. CASE MayChange(r, b)
    <3>1. CASE r \in clash /\ BelongsAt(disk'[b], b)
      BY <3>1
    <3>2. CASE b \in io[r].offset .. End(r) - 1 /\ disk'[b] = <<r, b - io[r].offset>>
      <4>1. io[r] \in Requests /\ io[r].type = "write" /\ InRange(io[r])
        BY <1>1, <1>2, <2>2 DEF MayChange, ReqOK, WriteStages
      <4>2. io[r] # NULL
        BY <4>1, RequestAssumption
      <4>3. b < End(r)
        <5>1. End(r) \in Int
          BY <4>1, WriteRange DEF End
        <5> QED BY <3>2, <5>1
      <4> QED BY <3>2, <4>1, <4>2, <4>3 DEF BelongsAt
    <3> QED BY <2>2, <3>1, <3>2 DEF MayChange
  <2> QED BY <1>1, <2>1, <2>2
<1>5. ASSUME NEW u \in Reqs, u # r, Flying(u) PROVE Undisturbed(u)
  <2>1. ASSUME NEW b \in 0 .. Capacity - 1
        PROVE  disk'[b] = disk[b] \/ u \in clash' \/ b \div BlockSize \notin Blocks(io[u])
    <3> SUFFICES ASSUME MayChange(r, b), u \notin clash, b \div BlockSize \in Blocks(io[u])
                 PROVE  FALSE
      BY <1>1
    <3>1. stage[r] \in WriteStages /\ b \div BlockSize \in Blocks(io[r])
      BY DEF MayChange
    <3>2. io[r].type = "write"
      BY <1>1, <1>2, <3>1 DEF ReqOK, WriteStages
    <3>3. Blocks(io[u]) \cap Blocks(io[r]) = {}
      BY <1>1, <1>2, <1>5, <3>2 DEF ClashOK
    <3> QED BY <3>1, <3>3
  <2> QED BY <1>1, <1>3, <2>1 DEF Undisturbed
<1>6. ASSUME NEW u \in Reqs
      PROVE  (ReqOK(u) /\ TaskOK(u) /\ DataOK(u) /\ BytesOK(u) /\ HaveOK(u))'
  <2>1. CASE u = r
    BY <2>1 DEF StepOK
  <2>2. CASE u # r /\ Flying(u)
    BY <1>1, <1>2, <1>5, <2>2, KeptOK
  <2>3. CASE u # r /\ ~Flying(u)
    BY <1>1, <1>2, <2>3, IdleKept
  <2> QED BY <2>1, <2>2, <2>3
<1>7. ClashOK'
  <2> SUFFICES ASSUME NEW s \in Reqs, NEW u \in Reqs, s # u, Flying(s)', Flying(u)',
                      "write" \in {io[s].type, io[u].type}
               PROVE  s \in clash \/ Blocks(io[s]) \cap Blocks(io[u]) = {}
    BY <1>1 DEF ClashOK
  <2>1. Flying(s) /\ Flying(u)
    BY <1>1 DEF Kept, Flying
  <2> QED BY <1>2, <2>1 DEF ClashOK
<1> QED BY <1>4, <1>6, <1>7 DEF AsyncInv

-----------------------------------------------------------------------------
(***************************************************************************)
(* The callbacks that complete a request.                                  *)
(***************************************************************************)

(* f differs from g at most at r. *)
Only(f, g, r) == \A u \in Reqs : u # r => f[u] = g[u]

(* A callback that completes its request. *)
LEMMA EndOK ==
  ASSUME AsyncInv, NEW r \in Reqs, Flying(r), Push(r),
         disk' = disk, io' = io, clash' = clash, resp' = resp, data' = data,
         Only(retval', retval, r), Only(trouble', trouble, r),
         trouble'[r] = FALSE => retval'[r] = Clip(io[r])
  PROVE  StepOK(r)
<1>1. FcnOK /\ ReqOK(r)
  BY DEF AsyncInv
<1>2. stage'[r] = "done" /\ cmd'[r] = NULL
  BY <1>1 DEF Push, Destroy, FcnOK
<1>3. \A u \in Reqs : u # r => Kept(u)
  BY <1>1 DEF Push, Destroy, FcnOK, Kept, Only
<1>4. ~Flying(r)'
  BY <1>2 DEF Flying, InFlight, WriteStages
<1>5. io[r] \in Requests
  BY <1>1 DEF ReqOK, Flying, InFlight, WriteStages
<1>6. ReqOK(r)'
  BY <1>2, <1>4, <1>5 DEF ReqOK
<1>7. (ReqOK(r) /\ TaskOK(r) /\ DataOK(r) /\ BytesOK(r) /\ HaveOK(r))'
  BY <1>4, <1>6, IdleOK
<1> QED BY <1>1, <1>3, <1>7 DEF StepOK, FcnOK

(* A request in flight, by the callback it waits for. *)
LEMMA FlyFacts ==
  ASSUME AsyncInv, NEW r \in Reqs, Flying(r)
  PROVE  /\ FcnOK /\ ReqOK(r) /\ TaskOK(r) /\ DataOK(r) /\ BytesOK(r) /\ HaveOK(r)
         /\ LaidOut(r) /\ CoverOK(r)
         /\ io[r] \in Requests /\ InRange(io[r]) /\ trouble[r] \in BOOLEAN
         /\ io[r].type = IF stage[r] = "blk_read_done" THEN "read" ELSE "write"
         /\ resp[r] = "error" => trouble[r] = TRUE
<1>1. FcnOK /\ ReqOK(r) /\ TaskOK(r) /\ DataOK(r) /\ BytesOK(r) /\ HaveOK(r)
  BY DEF AsyncInv
<1>2. stage[r] # "new"
  BY DEF Flying, InFlight, WriteStages
<1> QED BY <1>1, <1>2 DEF ReqOK, TaskOK, FcnOK

(* The callbacks and the device, one by one. *)
LEMMA GiveUpOK ==
  ASSUME AsyncInv, NEW r \in Reqs, GiveUp(r)
  PROVE  StepOK(r)
<1>1. Flying(r)
  BY DEF GiveUp, Flying, InFlight, WriteStages
<1>2. FcnOK /\ (resp[r] = "error" => trouble[r] = TRUE)
  BY <1>1, FlyFacts
<1>3. Only(trouble', trouble, r) /\ trouble'[r] = TRUE
  BY <1>2 DEF GiveUp, Only, FcnOK
<1> QED BY <1>1, <1>3, EndOK DEF GiveUp, Only

(* ReadFails completes the request. *)
LEMMA ReadFailsOK ==
  ASSUME AsyncInv, NEW r \in Reqs, ReadFails(r)
  PROVE  StepOK(r)
<1>1. Flying(r)
  BY DEF ReadFails, Flying, InFlight
<1>2. FcnOK /\ trouble[r] = TRUE
  BY <1>1, FlyFacts DEF ReadFails
<1>3. Only(retval', retval, r) /\ trouble' = trouble
  BY <1>2 DEF ReadFails, Only, FcnOK
<1> QED BY <1>1, <1>2, <1>3, EndOK DEF ReadFails, Only

(* A read returns all bytes that lie on the device. *)
LEMMA ReadCount ==
  ASSUME AsyncInv, NEW r \in Reqs, blk_read_done(r)
  PROVE  retval'[r] = Clip(io[r])
<1>1. Flying(r) /\ stage[r] = "blk_read_done"
  BY DEF blk_read_done, Callback, Flying, InFlight
<1>2. FcnOK /\ ReadTask(r) /\ io[r] \in Requests /\ InRange(io[r]) /\ CoverOK(r)
  BY <1>1, FlyFacts DEF TaskOK
<1>3. PICK c \in Nat : c = Clip(io[r])
  BY <1>2, RequestFacts DEF InRange
<1>4. UserBytes(r) = c /\ Size(r) \in Nat /\ c <= Size(r)
  BY <1>2, <1>3 DEF ReadTask, CoverOK
<1>5. retval'[r] = Least(UserBytes(r), Size(r))
  BY <1>2 DEF blk_read_done, FcnOK, Size
<1> QED BY <1>3, <1>4, <1>5 DEF Least

(* So does blk_read_done. *)
LEMMA ReadDoneOK ==
  ASSUME AsyncInv, NEW r \in Reqs, blk_read_done(r)
  PROVE  StepOK(r)
<1>1. Flying(r)
  BY DEF blk_read_done, Callback, Flying, InFlight
<1>2. FcnOK
  BY <1>1, FlyFacts
<1>3. Only(retval', retval, r) /\ Only(trouble', trouble, r)
  BY <1>2 DEF blk_read_done, Only, FcnOK
<1> QED BY <1>1, <1>3, ReadCount, EndOK DEF blk_read_done

(* The full blocks were all there was to write. *)
LEMMA WriteFullCompleteOK ==
  ASSUME OnDevice, AsyncInv, NEW r \in Reqs, WriteFullComplete(r)
  PROVE  StepOK(r)
<1>1. Flying(r) /\ stage[r] = "blk_write_full_blocks_done"
  BY DEF WriteFullComplete, Callback, Flying, InFlight, WriteStages
<1>2. FcnOK /\ io[r] \in Requests /\ InRange(io[r]) /\ io[r].type = "write"
  BY <1>1, FlyFacts
<1>3. Only(retval', retval, r) /\ Only(trouble', trouble, r)
      /\ retval'[r] = io[r].nbytes
  BY <1>2 DEF WriteFullComplete, Only, FcnOK
<1>4. retval'[r] = Clip(io[r])
  BY <1>2, <1>3, WriteRange
<1> QED BY <1>1, <1>3, <1>4, EndOK DEF WriteFullComplete

(* The full blocks are written and the last cannot be read. *)
LEMMA WriteFullGiveUpOK ==
  ASSUME AsyncInv, NEW r \in Reqs, WriteFullGiveUp(r)
  PROVE  StepOK(r)
<1>1. Flying(r)
  BY DEF WriteFullGiveUp, Callback, Flying, InFlight, WriteStages
<1>2. FcnOK
  BY <1>1, FlyFacts
<1>3. Only(retval', retval, r) /\ Only(trouble', trouble, r) /\ trouble'[r] = TRUE
  BY <1>2 DEF WriteFullGiveUp, Only, FcnOK
<1> QED BY <1>1, <1>3, EndOK DEF WriteFullGiveUp

(* A write whose last part is a block of its own counts all of it. *)
LEMMA LastCount ==
  ASSUME OnDevice, AsyncInv, NEW r \in Reqs, blk_write_last_block_done(r)
  PROVE  retval'[r] = io[r].nbytes /\ retval'[r] = Clip(io[r])
<1>1. Flying(r) /\ stage[r] = "blk_write_last_block_done"
  BY DEF blk_write_last_block_done, Callback, Flying, InFlight, WriteStages
<1>2. /\ FcnOK /\ io[r] \in Requests /\ InRange(io[r]) /\ io[r].type = "write"
      /\ LastTask(r)
  BY <1>1, FlyFacts DEF TaskOK
<1>3. PICK n \in Nat : n = io[r].nbytes /\ n = Clip(io[r])
  BY <1>2, WriteRange
<1>4. PICK t \in Nat : t = To(r) /\ t <= n /\ From(r) = 0
  BY <1>2, <1>3, Geometry DEF LastTask
<1>5. retval[r] = n - t \/ (retval[r] = -1 /\ n = t)
  BY <1>2, <1>3, <1>4 DEF LastTask
<1>6. retval'[r] = (IF retval[r] < 0 THEN 0 ELSE retval[r]) + To(r) - From(r)
  BY <1>2 DEF blk_write_last_block_done, Total, FcnOK
<1> QED BY <1>3, <1>4, <1>5, <1>6

(* The last block is written: all of the request is. *)
LEMMA WriteLastDoneOK ==
  ASSUME OnDevice, AsyncInv, NEW r \in Reqs, blk_write_last_block_done(r)
  PROVE  StepOK(r)
<1>1. Flying(r)
  BY DEF blk_write_last_block_done, Callback, Flying, InFlight, WriteStages
<1>2. FcnOK
  BY <1>1, FlyFacts
<1>3. Only(retval', retval, r) /\ Only(trouble', trouble, r)
  BY <1>2 DEF blk_write_last_block_done, Only, FcnOK
<1> QED BY <1>1, <1>3, LastCount, EndOK DEF blk_write_last_block_done

-----------------------------------------------------------------------------
(***************************************************************************)
(* The device.                                                             *)
(***************************************************************************)

(* The commands of the stages. *)
LEMMA CmdFacts ==
  ASSUME AsyncInv, NEW r \in Reqs, Pending(r)
  PROVE  /\ Flying(r) /\ resp[r] = NULL
         /\ cmd[r].op = "read" => stage[r] \in {"blk_read_done",
              "blk_read_first_block_done", "blk_read_last_block_done"}
         /\ cmd[r].op = "write" => stage[r] \in {"blk_write_full_blocks_done",
              "blk_write_last_block_done"}
<1>1. ReqOK(r) /\ TaskOK(r)
  BY DEF AsyncInv
<1>2. Flying(r) /\ resp[r] = NULL
  BY <1>1 DEF Pending, ReqOK
<1> QED BY <1>1, <1>2 DEF TaskOK, ReadTask, FirstTask, FullTask, Flying, InFlight,
                          WriteStages

(* An answer, whatever it is, changes nothing of the task. *)
LEMMA AnswerOK ==
  ASSUME AsyncInv, NEW r \in Reqs, Flying(r), io' = io, retval' = retval,
         stage' = stage, cmd' = cmd, vbufs' = vbufs,
         resp'[r] \in {"ok", "error"}, resp'[r] = "error" => trouble'[r] = TRUE
  PROVE  /\ (ReqOK(r) /\ TaskOK(r))' /\ Goal(r)' = Goal(r) /\ To(r)' = To(r)
         /\ Start(r)' = Start(r) /\ Size(r)' = Size(r)
<1>1. ReqOK(r) /\ TaskOK(r)
  BY DEF AsyncInv
<1>2. Flying(r)' /\ stage'[r] # "done"
  BY DEF Flying, InFlight, WriteStages
<1>3. ReqOK(r)'
  BY <1>1, <1>2 DEF ReqOK
<1>4. /\ From(r)' = From(r) /\ To(r)' = To(r) /\ UserBytes(r)' = UserBytes(r)
      /\ LaidOut(r) => LaidOut(r)'
  BY SameTask
<1>5. Start(r)' = Start(r) /\ Size(r)' = Size(r) /\ End(r)' = End(r)
  BY DEF Start, Size, End
<1>6. CoverOK(r) => CoverOK(r)'
  BY <1>5 DEF CoverOK
<1>7. ReadTask(r) => ReadTask(r)'
  BY <1>4, <1>5 DEF ReadTask
<1>8. FirstTask(r) => FirstTask(r)'
  BY <1>4 DEF FirstTask
<1>9. FullTask(r) => FullTask(r)'
  BY <1>4, <1>5 DEF FullTask
<1>10. LastTask(r) => LastTask(r)'
  BY <1>4, <1>5 DEF LastTask
<1>11. TaskOK(r)'
  BY <1>1, <1>4, <1>6, <1>7, <1>8, <1>9, <1>10 DEF TaskOK
<1>12. Goal(r)' = Goal(r)
  BY <1>4 DEF Goal
<1> QED BY <1>3, <1>4, <1>5, <1>11, <1>12

(* The device answers a read with what it holds. *)
LEMMA DevReadOK ==
  ASSUME AsyncInv, NEW r \in Reqs, DevRead(r)
  PROVE  StepOK(r)
<1>1. Flying(r) /\ resp[r] = NULL /\ cmd[r].op = "read"
  BY CmdFacts DEF DevRead
<1>2. /\ FcnOK /\ CoverOK(r) /\ BytesOK(r) /\ HaveOK(r) /\ PlaceOK
  BY <1>1, FlyFacts DEF AsyncInv
<1>3. /\ resp'[r] = "ok" /\ data'[r] = Fetched(disk, cmd[r])
      /\ \A u \in Reqs : u # r => Kept(u)
  BY <1>2 DEF DevRead, FcnOK, Kept
<1>4. /\ (ReqOK(r) /\ TaskOK(r))' /\ Goal(r)' = Goal(r) /\ To(r)' = To(r)
      /\ Start(r)' = Start(r) /\ Size(r)' = Size(r)
  BY <1>1, <1>3, AnswerOK DEF DevRead
<1>5. \A i \in 0 .. Size(r) - 1 :
        data'[r][i] = disk[Start(r) + i] /\ Start(r) + i \in 0 .. Capacity - 1
  BY <1>2, <1>3 DEF Fetched, Bytes, Size, Start, CoverOK
<1>6. DataOK(r)'
  <2> SUFFICES ASSUME NEW i \in 0 .. Size(r) - 1
               PROVE  Copy(r, data[r][i], Start(r) + i)'
    BY <1>4 DEF DataOK
  <2>1. BelongsAt(data'[r][i], Start(r) + i)
    BY <1>2, <1>5 DEF PlaceOK
  <2>2. BelongsAt(data[r][i], Start(r) + i)'
    BY <1>4, <2>1 DEF BelongsAt, End, DevRead
  <2>3. data'[r][i] = disk'[Start(r)' + i]
    BY <1>4, <1>5 DEF DevRead
  <2> QED BY <2>2, <2>3 DEF Copy
<1>7. BytesOK(r)'
  BY <1>1 DEF BytesOK, DevRead
<1>8. HaveOK(r)'
  <2>1. Have(r)' = Have(r)
    BY <1>1, <1>4 DEF Have, DevRead
  <2> QED BY <1>1, <1>2, <2>1 DEF HaveOK, DevRead
<1> QED BY <1>1, <1>2, <1>3, <1>4, <1>6, <1>7, <1>8 DEF StepOK, DevRead, FcnOK

(* A command fails: the request has met trouble. *)
LEMMA DevFailOK ==
  ASSUME AsyncInv, NEW r \in Reqs, DevFail(r)
  PROVE  StepOK(r)
<1>1. Flying(r) /\ resp[r] = NULL
  BY CmdFacts DEF DevFail
<1>2. FcnOK /\ CoverOK(r) /\ BytesOK(r) /\ HaveOK(r)
  BY <1>1, FlyFacts
<1>3. Fits(cmd[r])
  BY <1>2 DEF CoverOK
<1>4. /\ resp'[r] = "error" /\ trouble'[r] = TRUE
      /\ \A u \in Reqs : u # r => Kept(u)
  <2>1. trouble'[r] = (trouble[r] \/ Fits(cmd[r]))
    BY <1>2 DEF DevFail, FcnOK
  <2>2. trouble'[r] = TRUE
    BY <1>3, <2>1
  <2> QED BY <1>2, <2>2 DEF DevFail, FcnOK, Kept
<1>5. /\ (ReqOK(r) /\ TaskOK(r))' /\ Goal(r)' = Goal(r) /\ To(r)' = To(r)
      /\ Start(r)' = Start(r) /\ Size(r)' = Size(r)
  BY <1>1, <1>4, AnswerOK DEF DevFail
<1>6. DataOK(r)'
  BY <1>4 DEF DataOK
<1>8. BytesOK(r)'
  <2> SUFFICES ASSUME cmd[r].op = "write", NEW i \in 0 .. Size(r) - 1
               PROVE  (IF Start(r) + i \in io[r].offset .. io[r].offset + Goal(r) - 1
                         THEN cmd[r].bytes[i] = <<r, Start(r) + i - io[r].offset>>
                         ELSE Copy(r, cmd[r].bytes[i], Start(r) + i))'
    BY <1>5 DEF BytesOK, DevFail
  <2>1. IF Start(r) + i \in io[r].offset .. io[r].offset + Goal(r) - 1
          THEN cmd[r].bytes[i] = <<r, Start(r) + i - io[r].offset>>
          ELSE Copy(r, cmd[r].bytes[i], Start(r) + i)
    BY <1>1, <1>2 DEF BytesOK
  <2>2. Copy(r, cmd[r].bytes[i], Start(r) + i) => Copy(r, cmd[r].bytes[i], Start(r) + i)'
    BY <1>5 DEF Copy, BelongsAt, End, DevFail
  <2> QED BY <1>5, <2>1, <2>2 DEF DevFail
<1>9. HaveOK(r)'
  <2>1. Have(r)' = Have(r)
    BY <1>1, <1>4, <1>5, RequestAssumption DEF Have, DevFail
  <2> QED BY <1>1, <1>2, <2>1 DEF HaveOK, DevFail
<1> QED BY <1>1, <1>2, <1>4, <1>5, <1>6, <1>8, <1>9 DEF StepOK, DevFail, FcnOK

(* A write command goes on to the bytes it completes, and what lies before *)
(* it is there already.                                                    *)
LEMMA GoalEnd ==
  ASSUME OnDevice, NEW r \in Reqs, ReqOK(r), TaskOK(r), Flying(r), resp[r] = NULL,
         cmd[r].op = "write", io[r].type = "write", io[r] \in Requests,
         InRange(io[r]),
         stage[r] \in {"blk_write_full_blocks_done", "blk_write_last_block_done"},
         NEW S \in Nat, NEW Z \in Nat, NEW o \in Nat, NEW n \in Nat, NEW g \in Int,
         S = Start(r), Z = Size(r), o = io[r].offset, n = io[r].nbytes, g = Goal(r)
  PROVE  /\ o + g <= S + Z
         /\ \A k \in 0 .. g - 1 : o + k < S => k \in 0 .. Have(r) - 1
<1>1. CASE stage[r] = "blk_write_full_blocks_done"
  <2>1. S <= o /\ g = UserBytes(r) /\ o + g <= S + Z
    BY <1>1 DEF TaskOK, FullTask, Goal
  <2> QED BY <2>1
<1>2. CASE stage[r] = "blk_write_last_block_done"
  <2>1. LastTask(r)
    BY <1>2 DEF TaskOK
  <2>2. PICK t \in Nat : t = To(r) /\ t < BlockSize /\ t <= n /\ S + t = o + n
    BY <2>1, Geometry DEF LastTask, End
  <2>3. Z = BlockSize
    BY <2>1, Geometry DEF LastTask, Size
  <2>4. g = n
    BY <1>2 DEF Goal
  <2>5. Have(r) = n - t
    BY <1>2, <2>2, RequestAssumption DEF Have
  <2>6. o + g <= S + Z
    BY <2>2, <2>3, <2>4, Geometry
  <2> QED BY <2>2, <2>4, <2>5, <2>6
<1> QED BY <1>1, <1>2

(* The device stores the bytes of a command: the user's in their places,    *)
(* the others as they were.                                                *)
LEMMA DevWriteOK ==
  ASSUME OnDevice, AsyncInv, NEW r \in Reqs, DevWrite(r)
  PROVE  StepOK(r)
<1>1. Flying(r) /\ resp[r] = NULL /\ cmd[r].op = "write"
      /\ stage[r] \in {"blk_write_full_blocks_done", "blk_write_last_block_done"}
  BY CmdFacts DEF DevWrite
<1>2. /\ FcnOK /\ ReqOK(r) /\ TaskOK(r) /\ CoverOK(r) /\ BytesOK(r) /\ HaveOK(r)
      /\ PlaceOK /\ io[r].type = "write" /\ io[r] \in Requests /\ InRange(io[r])
  BY <1>1, FlyFacts DEF AsyncInv
<1>3. /\ resp'[r] = "ok" /\ resp'[r] # resp[r] /\ stage[r] \in WriteStages
      /\ \A u \in Reqs : u # r => Kept(u)
  BY <1>1, <1>2, RequestAssumption DEF DevWrite, FcnOK, Kept, WriteStages
<1>4. /\ (ReqOK(r) /\ TaskOK(r))' /\ Goal(r)' = Goal(r) /\ To(r)' = To(r)
      /\ Start(r)' = Start(r) /\ Size(r)' = Size(r)
  BY <1>1, <1>3, AnswerOK DEF DevWrite
<1>5. PICK S \in Nat, Z \in Nat, o \in Nat, n \in Nat, g \in Int :
        /\ S = Start(r) /\ Z = Size(r) /\ o = io[r].offset /\ n = io[r].nbytes
        /\ g = Goal(r) /\ g <= n /\ n = Clip(io[r]) /\ o + n <= Capacity
        /\ End(r) = o + n
  <2>1. Goal(r) \in Int /\ Goal(r) <= io[r].nbytes
    BY <1>1, <1>2, HaveRange
  <2>2. Start(r) \in Nat /\ Size(r) \in Nat
    BY <1>2 DEF CoverOK
  <2> QED BY <1>2, <2>1, <2>2, WriteRange DEF End
<1> DEFINE W(i) == cmd[r].bytes[i]
<1>6. /\ DOMAIN disk' = 0 .. Capacity - 1
      /\ \A b \in 0 .. Capacity - 1 :
           disk'[b] = IF b - S \in 0 .. Z - 1 THEN W(b - S) ELSE disk[b]
  BY <1>2, <1>5 DEF DevWrite, Stored, Bytes, Start, Size, FcnOK
<1>7. \A i \in 0 .. Z - 1 : /\ S + i \in 0 .. Capacity - 1
                            /\ (S + i) \div BlockSize \in Blocks(io[r])
  BY <1>2, <1>5 DEF CoverOK
<1>8. \A i \in 0 .. Z - 1 : IF S + i \in o .. o + g - 1
                              THEN W(i) = <<r, S + i - o>>
                              ELSE Copy(r, W(i), S + i)
  BY <1>1, <1>2, <1>5 DEF BytesOK
<1> HIDE DEF W
<1>9. ASSUME NEW i \in 0 .. Z - 1
      PROVE  disk'[S + i] = W(i) /\ BelongsAt(W(i), S + i)
  <2>1. (S + i) - S = i /\ S + i \in 0 .. Capacity - 1
    BY <1>7
  <2>2. disk'[S + i] = W(i)
    BY <1>6, <2>1
  <2>3. CASE S + i \in o .. o + g - 1
    <3>1. W(i) = <<r, S + i - o>> /\ S + i < End(r)
      BY <1>5, <1>8, <2>3
    <3>2. io[r] # NULL
      BY <1>2, RequestAssumption
    <3> QED BY <1>2, <1>5, <2>2, <3>1, <3>2 DEF BelongsAt
  <2>4. CASE S + i \notin o .. o + g - 1
    BY <1>8, <2>2, <2>4 DEF Copy
  <2> QED BY <2>2, <2>3, <2>4
<1>10. ASSUME NEW b \in 0 .. Capacity - 1
       PROVE  disk'[b] = disk[b] \/ MayChange(r, b)
  <2>1. CASE b - S \notin 0 .. Z - 1
    BY <1>6, <2>1
  <2>2. CASE b - S \in 0 .. Z - 1
    <3>1. PICK i \in 0 .. Z - 1 : b = S + i
      BY <2>2
    <3>2. b \div BlockSize \in Blocks(io[r])
      BY <1>7, <3>1
    <3>3. disk'[b] = W(i) /\ BelongsAt(disk'[b], b)
      BY <1>9, <3>1
    <3>4. CASE S + i \in o .. o + g - 1
      <4>1. b \in o .. End(r) - 1 /\ disk'[b] = <<r, b - o>>
        BY <1>5, <1>8, <3>1, <3>3, <3>4
      <4> QED BY <1>3, <1>5, <3>2, <4>1 DEF MayChange
    <3>5. CASE S + i \notin o .. o + g - 1
      <4>1. r \notin clash => W(i) = disk[S + i]
        BY <1>8, <3>5 DEF Copy
      <4>2. CASE r \notin clash
        BY <3>1, <3>3, <4>1, <4>2
      <4>3. CASE r \in clash
        BY <1>3, <3>2, <3>3, <4>3 DEF MayChange
      <4> QED BY <4>2, <4>3
    <3> QED BY <3>4, <3>5
  <2> QED BY <2>1, <2>2
<1>11. DataOK(r)'
  BY <1>1 DEF DataOK, DevWrite
<1>12. BytesOK(r)'
  <2> SUFFICES ASSUME NEW i \in 0 .. Z - 1
               PROVE  (IF Start(r) + i \in io[r].offset .. io[r].offset + Goal(r) - 1
                         THEN cmd[r].bytes[i] = <<r, Start(r) + i - io[r].offset>>
                         ELSE Copy(r, cmd[r].bytes[i], Start(r) + i))'
    BY <1>4, <1>5 DEF BytesOK
  <2>1. S + i \in o .. o + g - 1 => W(i) = <<r, S + i - o>>
    BY <1>8
  <2>2. Copy(r, cmd[r].bytes[i], Start(r) + i)'
    <3>1. W(i) = disk'[S + i] /\ BelongsAt(W(i), S + i)
      BY <1>9
    <3>2. Start(r)' = S /\ cmd'[r].bytes[i] = W(i) /\ io' = io
      BY <1>4, <1>5 DEF W, DevWrite
    <3>3. BelongsAt(cmd[r].bytes[i], Start(r) + i)'
      BY <3>1, <3>2 DEF BelongsAt, End
    <3> QED BY <3>1, <3>2, <3>3 DEF Copy
  <2>3. /\ Start(r)' = S /\ cmd'[r].bytes[i] = W(i) /\ io'[r].offset = o
        /\ Goal(r)' = g
    BY <1>4, <1>5 DEF W, DevWrite
  <2> QED BY <2>1, <2>2, <2>3
<1>13. HaveOK(r)'
  <2> SUFFICES ASSUME r \notin clash, NEW k \in 0 .. g - 1
               PROVE  disk'[o + k] = <<r, k>>
    <3>1. Have(r)' = g
      BY <1>1, <1>3, <1>4, <1>5 DEF Have, DevWrite
    <3> QED BY <1>5, <3>1 DEF HaveOK, DevWrite
  <2>1. o + k \in 0 .. Capacity - 1
    BY <1>5, Geometry
  <2>2. o + g <= S + Z
    BY <1>1, <1>2, <1>5, GoalEnd
  <2>3. CASE o + k >= S
    <3>1. PICK i \in 0 .. Z - 1 : S + i = o + k
      <4>1. o + k - S \in 0 .. Z - 1 /\ S + (o + k - S) = o + k
        BY <1>5, <2>2, <2>3
      <4> QED BY <4>1
    <3>2. S + i \in o .. o + g - 1 /\ S + i - o = k
      BY <1>5, <3>1
    <3>3. W(i) = <<r, S + i - o>>
      BY <1>8, <3>2
    <3> QED BY <1>9, <3>1, <3>2, <3>3
  <2>4. CASE o + k < S
    <3>1. o + k - S \notin 0 .. Z - 1
      BY <1>5, <2>4
    <3>2. disk'[o + k] = disk[o + k]
      BY <1>6, <2>1, <3>1
    <3>3. k \in 0 .. Have(r) - 1
      BY <1>1, <1>2, <1>5, <2>4, GoalEnd
    <3>4. disk[io[r].offset + k] = <<r, k>>
      BY <1>1, <1>2, <3>3 DEF HaveOK
    <3> QED BY <1>5, <3>2, <3>4
  <2> QED BY <1>5, <2>3, <2>4
<1> QED BY <1>1, <1>3, <1>4, <1>6, <1>10, <1>11, <1>12, <1>13 DEF StepOK, DevWrite

-----------------------------------------------------------------------------
(***************************************************************************)
(* The callbacks, and the submissions, that send a task.                   *)
(***************************************************************************)

(* A task is sent. *)
LEMMA SendFacts ==
  ASSUME FcnOK, NEW r \in Reqs, NEW cb, NEW c, NEW bufs, Send(r, cb, c, bufs)
  PROVE  /\ stage'[r] = cb /\ cmd'[r] = c /\ resp'[r] = NULL /\ vbufs'[r] = bufs
         /\ Only(stage', stage, r) /\ Only(cmd', cmd, r) /\ Only(resp', resp, r)
         /\ Only(vbufs', vbufs, r)
BY DEF Send, FcnOK, Only

(* A whole number of blocks and a rest. *)
LEMMA BlockAndRest ==
  ASSUME NEW k \in Nat, NEW S \in Nat, S = k * BlockSize,
         NEW t \in Nat, t < BlockSize
  PROVE  (S + t) \div BlockSize = k /\ (S + t) % BlockSize = t
<1>1. PICK B \in Nat \ {0} : B = BlockSize
  BY Geometry
<1>2. PICK b \in Nat : b = S + t
  OBVIOUS
<1>3. k * B <= b /\ b < k * B + B
  BY <1>1, <1>2
<1>4. b \div B = k
  BY <1>3, DivUnique
<1>5. \E x \in Int : b = B * x + t
  <2>1. b = B * k + t
    BY <1>1, <1>2
  <2> QED BY <2>1
<1>6. b % B = t
  <2>1. t \in 0 .. B - 1
    BY <1>1
  <2> QED BY <1>5, <2>1, ModUnique
<1> QED BY <1>1, <1>2, <1>4, <1>6

(* One block fits into a CDB. *)
LEMMA OneBlock == 1 % XferMod = 1
<1>1. PICK X \in Nat \ {0} : X = XferMod /\ 1 \in 0 .. X - 1
  BY Geometry
<1>2. \E x \in Int : 1 = X * x + 1
  <2>1. 1 = X * 0 + 1
    OBVIOUS
  <2> QED BY <2>1
<1> QED BY <1>1, <1>2, ModUnique

(* The block in which a write ends is read: t bytes of it are the user's.  *)
LEMMA LastReadSent ==
  ASSUME OnDevice, NEW r \in Reqs, NEW q \in Requests, InRange(q),
         q.type = "write", io'[r] = q,
         NEW k \in Nat, NEW S \in Nat, S = k * BlockSize,
         NEW t \in Nat, t > 0, t < BlockSize, t <= q.nbytes,
         S + t = q.offset + q.nbytes,
         stage'[r] = "blk_read_last_block_done", cmd'[r] = ReadCmd(k, 1),
         resp'[r] = NULL, vbufs'[r] = ReadPartBufs(0, t),
         \/ retval'[r] = q.nbytes - t
         \/ retval'[r] = -1 /\ q.nbytes = t,
         q.nbytes > t /\ r \notin clash' =>
           \A x \in 0 .. q.nbytes - t - 1 : disk'[q.offset + x] = <<r, x>>
  PROVE  (ReqOK(r) /\ TaskOK(r) /\ DataOK(r) /\ BytesOK(r) /\ HaveOK(r))'
<1>1. PICK o \in Nat, n \in Nat, B \in Nat \ {0} :
        /\ o = q.offset /\ n = q.nbytes /\ n = Clip(q) /\ o + n <= Capacity
        /\ o <= Capacity /\ B = BlockSize
  BY WriteRange, Geometry DEF InRange
<1>2. End(r)' = S + t /\ End(r)' \div BlockSize = k
  BY BlockAndRest DEF End
<1>3. /\ cmd'[r].op = "read" /\ cmd'[r].blk = k /\ cmd'[r].nblk = 1
  BY OneBlock DEF ReadCmd, create_rw_cdb
<1>4. LaidOut(r)' /\ From(r)' = 0 /\ To(r)' = t
  <2>1. 0 \in Int /\ t \in Int
    OBVIOUS
  <2> QED BY <1>3, <2>1, ReadPartSent
<1>5. Start(r)' = S /\ Size(r)' = B
  BY <1>1, <1>3 DEF Start, Size
<1>6. /\ k + 1 <= NumBlocks
      /\ \A i \in 0 .. B - 1 : /\ S + i \in 0 .. Capacity - 1
                               /\ (S + i) \div BlockSize \in Blocks(q)
  <2>1. PICK d \in Nat : d = n - t
    BY <1>1
  <2>2. PICK nb \in Nat, N \in Nat : nb = 1 /\ N = nb * BlockSize /\ N = B
    BY <1>1
  <2>3. /\ d < n /\ n <= Clip(q) /\ q.offset <= Capacity
        /\ S <= q.offset + d /\ q.offset + d < S + BlockSize
        /\ S + N < q.offset + n + BlockSize
    BY <1>1, <2>1, <2>2
  <2>4. /\ k + nb <= NumBlocks
        /\ \A i \in 0 .. N - 1 : /\ S + i \in 0 .. Capacity - 1
                                 /\ (S + i) \div BlockSize \in Blocks(q)
    BY <2>2, <2>3, CoverGen
  <2> QED BY <2>2, <2>4
<1>7. CoverOK(r)'
  <2>1. Fits(cmd[r])'
    BY <1>3, <1>6 DEF Fits
  <2> QED BY <1>3, <1>5, <1>6, <2>1 DEF CoverOK
<1>8. LastTask(r)'
  <2>1. t \in 1 .. BlockSize - 1
    BY Geometry
  <2> QED BY <1>2, <1>3, <1>4, <1>5, <2>1 DEF LastTask
<1>9. TaskOK(r)'
  BY <1>3, <1>4, <1>7, <1>8 DEF TaskOK
<1>10. ReqOK(r)'
  BY RequestAssumption DEF ReqOK, Flying, InFlight, WriteStages
<1>11. DataOK(r)' /\ BytesOK(r)'
  BY <1>3, RequestAssumption DEF DataOK, BytesOK
<1>12. HaveOK(r)'
  <2>1. Have(r)' = q.nbytes - t
    BY <1>3, <1>4 DEF Have
  <2>2. CASE n > t
    BY <1>1, <2>1, <2>2 DEF HaveOK
  <2>3. CASE n = t
    <3>0. q.nbytes = t /\ t - t = 0
      BY <1>1, <2>3
    <3>1. Have(r)' = 0
      BY <2>1, <3>0, Zenon
    <3>2. \A x \in 0 .. 0 - 1 : FALSE
      OBVIOUS
    <3> QED BY <3>1, <3>2 DEF HaveOK
  <2> QED BY <1>1, <2>2, <2>3
<1> QED BY <1>9, <1>10, <1>11, <1>12

(* The full blocks are written, the last is read. *)
LEMMA WriteFullContinueOK ==
  ASSUME OnDevice, AsyncInv, NEW r \in Reqs, WriteFullContinue(r)
  PROVE  StepOK(r)
<1>1. Flying(r) /\ stage[r] = "blk_write_full_blocks_done" /\ resp[r] = "ok"
  BY DEF WriteFullContinue, Callback, Flying, InFlight, WriteStages
<1>2. /\ FcnOK /\ io[r] \in Requests /\ InRange(io[r]) /\ io[r].type = "write"
      /\ FullTask(r) /\ HaveOK(r)
  BY <1>1, FlyFacts DEF TaskOK
<1>3. PICK q \in Requests : q = io[r]
  BY <1>2
<1>4. PICK o \in Nat, n \in Nat, B \in Nat \ {0} :
        o = q.offset /\ n = q.nbytes /\ B = BlockSize
  BY <1>2, <1>3, WriteRange, Geometry
<1>5. PICK w \in Nat : /\ w = UserBytes(r) /\ w > 0 /\ w < n
                       /\ (o + w) % BlockSize = 0 /\ n - w < BlockSize
  BY <1>2, <1>3, <1>4 DEF FullTask, WriteFullContinue
<1>6. PICK k \in Nat, S \in Nat : S = k * BlockSize /\ S = o + w
  <2>1. PICK z \in Nat : z = o + w
    OBVIOUS
  <2>2. PICK s, k, S \in Nat : /\ s = z % BlockSize /\ k = z \div BlockSize
                               /\ S = k * BlockSize /\ z = S + s
    BY OffsetFacts
  <2>3. S = o + w
    BY <1>5, <2>1, <2>2
  <2> QED BY <2>2, <2>3
<1>7. PICK t \in Nat : /\ t = n - w /\ t > 0 /\ t < BlockSize /\ t <= n
                       /\ S + t = o + n
  BY <1>5, <1>6
<1>8. End(r) = S + t /\ End(r) \div BlockSize = k /\ End(r) % BlockSize = t
  <2>1. End(r) = S + t
    BY <1>3, <1>4, <1>7 DEF End
  <2> QED BY <1>6, <1>7, <2>1, BlockAndRest
<1>9. /\ stage'[r] = "blk_read_last_block_done" /\ cmd'[r] = ReadCmd(k, 1)
      /\ resp'[r] = NULL /\ vbufs'[r] = ReadPartBufs(0, t)
      /\ Only(stage', stage, r) /\ Only(cmd', cmd, r) /\ Only(resp', resp, r)
      /\ Only(vbufs', vbufs, r)
  BY <1>2, <1>8, SendFacts DEF WriteFullContinue
<1>10. retval'[r] = n - t /\ Only(retval', retval, r)
  BY <1>2, <1>5, <1>7 DEF WriteFullContinue, FcnOK, Only
<1>11. \A u \in Reqs : u # r => Kept(u)
  BY <1>9, <1>10 DEF Only, Kept, WriteFullContinue
<1>12. r \notin clash => \A x \in 0 .. n - t - 1 : disk[o + x] = <<r, x>>
  <2>1. cmd[r].op = "write"
    BY <1>2 DEF FullTask
  <2>2. Have(r) = n - t
    BY <1>1, <1>5, <1>7, <2>1 DEF Have, Goal
  <2> QED BY <1>1, <1>2, <1>3, <1>4, <2>2 DEF HaveOK
<1>13. disk' = disk /\ io' = io /\ clash' = clash /\ io'[r] = q
  BY <1>3 DEF WriteFullContinue
<1>14. (ReqOK(r) /\ TaskOK(r) /\ DataOK(r) /\ BytesOK(r) /\ HaveOK(r))'
  <2>1. InRange(q) /\ q.type = "write"
    BY <1>2, <1>3
  <2>2. /\ t <= q.nbytes /\ S + t = q.offset + q.nbytes
        /\ retval'[r] = q.nbytes - t
    BY <1>4, <1>7, <1>10
  <2>3. r \notin clash' =>
          \A x \in 0 .. q.nbytes - t - 1 : disk'[q.offset + x] = <<r, x>>
    BY <1>4, <1>12, <1>13
  <2>4. q.nbytes > t /\ r \notin clash' =>
          \A x \in 0 .. q.nbytes - t - 1 : disk'[q.offset + x] = <<r, x>>
    BY <2>3
  <2>5. \/ retval'[r] = q.nbytes - t
        \/ retval'[r] = -1 /\ q.nbytes = t
    BY <2>2
  <2>6. /\ S = k * BlockSize /\ t > 0 /\ t < BlockSize /\ io'[r] = q
        /\ stage'[r] = "blk_read_last_block_done" /\ cmd'[r] = ReadCmd(k, 1)
        /\ resp'[r] = NULL /\ vbufs'[r] = ReadPartBufs(0, t)
        /\ t <= q.nbytes /\ S + t = q.offset + q.nbytes
    BY <1>6, <1>7, <1>9, <1>13, <2>2, Zenon
  <2> QED BY <2>1, <2>4, <2>5, <2>6, LastReadSent, ZenonT(30)
<1> QED BY <1>1, <1>2, <1>11, <1>13, <1>14 DEF StepOK, FcnOK

(* The bytes of a block that was read, merged with the user's. *)
LEMMA ReadLastDoneOK ==
  ASSUME OnDevice, AsyncInv, NEW r \in Reqs, blk_read_last_block_done(r)
  PROVE  StepOK(r)
<1>1. Flying(r) /\ stage[r] = "blk_read_last_block_done" /\ resp[r] = "ok"
  BY DEF blk_read_last_block_done, Callback, Flying, InFlight, WriteStages
<1>2. /\ FcnOK /\ io[r] \in Requests /\ InRange(io[r]) /\ io[r].type = "write"
      /\ LastTask(r) /\ cmd[r].op = "read" /\ HaveOK(r) /\ CoverOK(r) /\ DataOK(r)
  BY <1>1, FlyFacts DEF TaskOK
<1>3. PICK o \in Nat, n \in Nat, B \in Nat \ {0} :
        o = io[r].offset /\ n = io[r].nbytes /\ B = BlockSize /\ End(r) = o + n
  BY <1>2, WriteRange, Geometry DEF End
<1>4. PICK S \in Nat, k \in Nat, t \in Nat :
        /\ S = Start(r) /\ k = cmd[r].blk /\ k = End(r) \div BlockSize
        /\ t = To(r) /\ t > 0 /\ t < B /\ t <= n /\ S + t = o + n
  BY <1>2, <1>3 DEF LastTask, CoverOK
<1>5. Size(r) = B /\ From(r) = 0
  BY <1>2, <1>3 DEF LastTask, Size
<1> DEFINE bytes == [i \in Bytes(1) |-> Merged(r, i, LastByte(r, i))]
<1>6. Bytes(1) = 0 .. B - 1
  BY <1>3 DEF Bytes
<1>7. \A i \in 0 .. B - 1 :
        bytes[i] = IF i \in 0 .. t - 1 THEN <<r, n - t + i>> ELSE data[r][i]
  <2>1. ASSUME NEW i \in 0 .. B - 1
        PROVE  bytes[i] = IF i \in 0 .. t - 1 THEN <<r, n - t + i>> ELSE data[r][i]
    <3>1. LastByte(r, i) = n - t + i
      BY <1>3, <1>4, <1>5 DEF LastByte
    <3>2. Merged(r, i, LastByte(r, i)) =
            IF i \in 0 .. t - 1 THEN <<r, n - t + i>> ELSE data[r][i]
      BY <1>4, <1>5, <3>1 DEF Merged
    <3> QED BY <1>6, <3>2
  <2> QED BY <2>1
<1>8. /\ stage'[r] = "blk_write_last_block_done" /\ cmd'[r] = WriteCmd(k, 1, bytes)
      /\ resp'[r] = NULL /\ vbufs'[r] = <<REQ, AllocPart(0, t), RESP>>
      /\ Only(stage', stage, r) /\ Only(cmd', cmd, r) /\ Only(resp', resp, r)
      /\ Only(vbufs', vbufs, r)
  BY <1>2, <1>4, <1>5, SendFacts DEF blk_read_last_block_done
<1> HIDE DEF bytes
<1>9. /\ cmd'[r].op = "write" /\ cmd'[r].blk = k /\ cmd'[r].nblk = 1
      /\ cmd'[r].bytes = bytes
  BY <1>8, OneBlock DEF WriteCmd, create_rw_cdb
<1>10. /\ disk' = disk /\ io' = io /\ clash' = clash /\ retval' = retval
       /\ trouble' = trouble /\ data' = data
  BY DEF blk_read_last_block_done
<1>11. \A u \in Reqs : u # r => Kept(u)
  BY <1>8, <1>10 DEF Only, Kept
<1>12. LaidOut(r)' /\ From(r)' = 0 /\ To(r)' = t
  <2>1. 0 \in Int /\ t \in Int
    OBVIOUS
  <2> QED BY <1>8, <1>9, <2>1, WritePartSent
<1>13. Start(r)' = S /\ Size(r)' = B /\ End(r)' = End(r)
  BY <1>3, <1>4, <1>9, <1>10 DEF Start, Size, End
<1>14. CoverOK(r)'
  <2>1. cmd[r].nblk = 1
    BY <1>2 DEF LastTask
  <2>2. Fits(cmd[r])'
    BY <1>2, <1>4, <1>9, <2>1 DEF Fits, CoverOK
  <2>3. \A i \in 0 .. B - 1 : /\ S + i \in 0 .. Capacity - 1
                              /\ (S + i) \div BlockSize \in Blocks(io[r])
    BY <1>2, <1>4, <1>5 DEF CoverOK
  <2> QED BY <1>4, <1>9, <1>10, <1>13, <2>2, <2>3 DEF CoverOK
<1>15. LastTask(r)'
  <2>1. t \in 1 .. BlockSize - 1
    BY <1>3, <1>4
  <2>2. \/ retval[r] = io[r].nbytes - t
        \/ retval[r] = -1 /\ io[r].nbytes = t
    BY <1>2, <1>4 DEF LastTask
  <2> QED BY <1>3, <1>4, <1>9, <1>10, <1>12, <1>13, <2>1, <2>2 DEF LastTask
<1>16. TaskOK(r)'
  BY <1>8, <1>9, <1>12, <1>14, <1>15 DEF TaskOK
<1>17. ReqOK(r)'
  BY <1>2, <1>8, <1>10, RequestAssumption DEF ReqOK, Flying, InFlight, WriteStages
<1>18. DataOK(r)'
  BY <1>9 DEF DataOK
<1>19. Goal(r)' = n
  BY <1>3, <1>8, <1>10 DEF Goal
<1>20. BytesOK(r)'
  <2> SUFFICES ASSUME NEW i \in 0 .. B - 1
               PROVE  (IF Start(r) + i \in io[r].offset .. io[r].offset + Goal(r) - 1
                         THEN cmd[r].bytes[i] = <<r, Start(r) + i - io[r].offset>>
                         ELSE Copy(r, cmd[r].bytes[i], Start(r) + i))'
    BY <1>13 DEF BytesOK
  <2>1. CASE i < t
    <3>1. S + i \in o .. o + n - 1 /\ S + i - o = n - t + i
      BY <1>4, <2>1
    <3>2. bytes[i] = <<r, n - t + i>>
      <4>1. i \in 0 .. t - 1
        BY <2>1
      <4> QED BY <1>7, <4>1
    <3> QED BY <1>3, <1>9, <1>10, <1>13, <1>19, <3>1, <3>2
  <2>2. CASE ~(i < t)
    <3>1. S + i \notin o .. o + n - 1
      BY <1>4, <2>2
    <3>2. bytes[i] = data[r][i]
      <4>1. i \notin 0 .. t - 1
        BY <2>2
      <4> QED BY <1>7, <4>1
    <3>3. Copy(r, data[r][i], S + i)
      BY <1>1, <1>2, <1>4, <1>5 DEF DataOK
    <3>4. Copy(r, cmd[r].bytes[i], Start(r) + i)'
      BY <1>9, <1>10, <1>13, <3>2, <3>3 DEF Copy, BelongsAt, End
    <3> QED BY <1>3, <1>10, <1>13, <1>19, <3>1, <3>4
  <2> QED BY <2>1, <2>2
<1>21. HaveOK(r)'
  <2>1. Have(r) = n - t
    BY <1>1, <1>2, <1>3, <1>4 DEF Have
  <2>2. Have(r)' = n - t
    BY <1>3, <1>8, <1>10, <1>12, RequestAssumption DEF Have
  <2> QED BY <1>1, <1>2, <1>10, <2>1, <2>2 DEF HaveOK
<1> QED BY <1>1, <1>2, <1>10, <1>11, <1>16, <1>17, <1>18, <1>20, <1>21
     DEF StepOK, FcnOK

(* The first block of a write was read: it is merged and written together  *)
(* with the full blocks that follow.                                       *)
LEMMA ReadFirstDoneOK ==
  ASSUME OnDevice, AsyncInv, NEW r \in Reqs, blk_read_first_block_done(r)
  PROVE  StepOK(r)
<1>1. Flying(r) /\ stage[r] = "blk_read_first_block_done" /\ resp[r] = "ok"
  BY DEF blk_read_first_block_done, Callback, Flying, InFlight, WriteStages
<1>2. /\ FcnOK /\ io[r] \in Requests /\ InRange(io[r]) /\ io[r].type = "write"
      /\ FirstTask(r) /\ cmd[r].op = "read" /\ CoverOK(r) /\ DataOK(r)
  BY <1>1, FlyFacts DEF TaskOK, FirstTask
<1>3. PICK q \in Requests : /\ q = io[r] /\ InRange(q) /\ q.type = "write"
                            /\ q.offset <= Capacity
  BY <1>2 DEF InRange
<1>4. PICK n \in Nat, B \in Nat \ {0} :
        /\ n = q.nbytes /\ n = Clip(q) /\ n > 0 /\ B = BlockSize
  BY <1>3, WriteRange, Geometry
<1>5. PICK o, c, s, k, S, w \in Nat :
        /\ o = q.offset /\ c = Clip(q) /\ s = q.offset % BlockSize
        /\ k = q.offset \div BlockSize /\ S = k * BlockSize
        /\ FirstEnd(q) = s + w /\ o = S + s /\ s < BlockSize
        /\ w > 0 /\ w <= c /\ s + w <= BlockSize
        /\ w = c \/ s + w = BlockSize
        /\ o + c <= Capacity
  <2>1. Clip(q) > 0
    BY <1>4
  <2> QED BY <1>3, <2>1, FirstFacts, Zenon
<1>6. PICK x \in Nat : x = n - w
  BY <1>4, <1>5
<1>7. PICK nb, N, t \in Nat : /\ nb = x \div BlockSize /\ N = nb * BlockSize
                              /\ t = x % BlockSize
                              /\ x = N + t /\ t < BlockSize
                              /\ nb = 0 <=> x < BlockSize
                              /\ nb = 0 <=> N = 0
  BY MidFacts
<1>8. /\ n = w + N + t /\ t < B /\ o = S + s /\ s < B /\ s + w <= B
      /\ w < n => s + w = B
      /\ w > 0 /\ w <= n
  <2>1. /\ o = S + s /\ s < B /\ s + w <= B /\ w > 0 /\ w <= n
        /\ w = n \/ s + w = B
    BY <1>4, <1>5, Zenon
  <2>2. x = N + t /\ t < B
    BY <1>4, <1>7, Zenon
  <2> QED BY <1>6, <2>1, <2>2
<1>9. /\ From(r) = s /\ To(r) = s + w /\ Size(r) = B /\ Start(r) = S
  BY <1>2, <1>3, <1>4, <1>5 DEF FirstTask, Size, Start
<1>10. To(r) - From(r) = w /\ (io[r].nbytes - w) \div BlockSize = nb
       /\ io[r].offset \div BlockSize = k
  <2>1. To(r) - From(r) = w
    BY <1>9
  <2>2. io[r].nbytes - w = x
    BY <1>3, <1>4, <1>6
  <2> QED BY <1>3, <1>5, <1>7, <2>1, <2>2, Zenon
<1> DEFINE Z == N + B
           bytes == [i \in Bytes(nb + 1) |->
                       IF i < BlockSize THEN Merged(r, i, i - From(r))
                                        ELSE <<r, w + i - BlockSize>>]
           rest == IF w < n THEN <<AddBuf(nb * BlockSize)>> ELSE <<>>
           bufs == <<REQ, AllocPart(s, s + w)>> \o rest \o <<RESP>>
<1>11. nb + 1 \in Nat /\ (nb + 1) * BlockSize = Z /\ Z \in Nat
  BY <1>4, <1>7
<1>12. Bytes(nb + 1) = 0 .. Z - 1
  BY <1>11 DEF Bytes
<1>13. Send(r, "blk_write_full_blocks_done", WriteCmd(k, nb + 1, bytes), bufs)
  BY <1>3, <1>4, <1>9, <1>10 DEF blk_read_first_block_done
<1>14. \A i \in 0 .. Z - 1 :
         bytes[i] = IF i < B
                      THEN IF i \in s .. s + w - 1 THEN <<r, i - s>> ELSE data[r][i]
                      ELSE <<r, w + i - B>>
  <2>1. ASSUME NEW i \in 0 .. Z - 1
        PROVE  Merged(r, i, i - From(r)) =
                 IF i \in s .. s + w - 1 THEN <<r, i - s>> ELSE data[r][i]
    BY <1>9 DEF Merged
  <2> QED BY <1>4, <1>12, <2>1
<1> HIDE DEF bytes
<1>15. /\ stage'[r] = "blk_write_full_blocks_done"
       /\ cmd'[r] = WriteCmd(k, nb + 1, bytes)
       /\ resp'[r] = NULL /\ vbufs'[r] = bufs
       /\ Only(stage', stage, r) /\ Only(cmd', cmd, r) /\ Only(resp', resp, r)
       /\ Only(vbufs', vbufs, r)
  <2> HIDE DEF bufs
  <2> QED BY <1>2, <1>13, SendFacts
<1>16. (nb + 1) % XferMod = nb + 1
  <2>1. PICK y \in Nat : y = s + n
    OBVIOUS
  <2>2. y <= (q.offset % BlockSize) + Clip(q)
    <3>1. y = (q.offset % BlockSize) + Clip(q)
      BY <1>4, <1>5, <2>1, Zenon
    <3> QED BY <3>1
  <2>3. (nb + 1) * BlockSize < y + BlockSize
    <3>1. Z < y + B
      BY <1>8, <2>1
    <3> QED BY <1>4, <1>11, <3>1, Zenon
  <2> QED BY <1>3, <1>11, <2>2, <2>3, NotCut
<1>17. /\ cmd'[r].op = "write" /\ cmd'[r].blk = k /\ cmd'[r].nblk = nb + 1
       /\ cmd'[r].bytes = bytes
  BY <1>15, <1>16 DEF WriteCmd, create_rw_cdb
<1>18. /\ disk' = disk /\ io' = io /\ clash' = clash /\ retval' = retval
       /\ trouble' = trouble /\ data' = data
  BY DEF blk_read_first_block_done
<1>19. \A u \in Reqs : u # r => Kept(u)
  BY <1>15, <1>18 DEF Only, Kept
<1>20. LaidOut(r)' /\ UserBytes(r)' = w + N
  <2>1. PICK a \in Part : /\ a = AllocPart(s, s + w) /\ a.role = "data"
                          /\ a.from = s /\ a.to = s + w /\ a.size = B
    <3>1. s \in Int /\ s + w \in Int
      OBVIOUS
    <3> QED BY <1>4, <3>1, PartFacts
  <2>2. PICK b \in Part : /\ b = AddBuf(N) /\ b.role = "data"
                          /\ b.from = 0 /\ b.to = N /\ b.size = N
    <3>1. N \in Int
      OBVIOUS
    <3> QED BY <3>1, PartFacts
  <2>3. cmd'[r].nblk * BlockSize = N + B
    BY <1>11, <1>17
  <2>4. CASE w < n
    <3>1. bufs = <<REQ, a>> \o <<b>> \o <<RESP>>
      BY <1>7, <2>1, <2>2, <2>4
    <3>2. a.size + b.size = cmd'[r].nblk * BlockSize
      BY <2>1, <2>2, <2>3
    <3>3. LaidOut(r)' /\ UserBytes(r)' = (a.to - a.from) + (b.to - b.from)
      <4> HIDE DEF bufs
      <4> QED BY <1>15, <1>17, <2>1, <2>2, <3>1, <3>2, FirstAndFullSent
    <3>4. (a.to - a.from) + (b.to - b.from) = w + N
      BY <2>1, <2>2
    <3> QED BY <3>3, <3>4
  <2>5. CASE ~(w < n)
    <3>1. bufs = <<REQ, a, RESP>>
      <4>1. bufs = (<<REQ, a>> \o <<>>) \o <<RESP>>
        BY <2>1, <2>5
      <4> DEFINE A == Part \cup {REQ, RESP}
      <4>2. a \in A /\ REQ \in A /\ RESP \in A
        OBVIOUS
      <4> HIDE DEF A
      <4>3. <<REQ, a>> \o <<>> = <<REQ, a>>
        BY <4>2, Concat2
      <4>4. <<REQ, a>> \o <<RESP>> = <<REQ, a, RESP>>
        BY <4>2, Concat3
      <4> HIDE DEF bufs
      <4> QED BY <4>1, <4>3, <4>4
    <3>2. N = 0
      BY <1>8, <2>5
    <3>3. a.size = cmd'[r].nblk * BlockSize /\ a.to - a.from = w + N
      BY <2>1, <2>3, <3>2
    <3> HIDE DEF bufs
    <3> QED BY <1>15, <1>17, <2>1, <3>1, <3>3, FullSent
  <2> QED BY <2>4, <2>5
<1>21. Start(r)' = S /\ Size(r)' = Z
  BY <1>5, <1>11, <1>17 DEF Start, Size
<1> HIDE DEF bufs, rest
<1>22. CoverOK(r)'
  <2>1. PICK m \in Nat, M \in Nat, d \in Nat :
          m = nb + 1 /\ M = Z /\ d = 0 /\ M = m * BlockSize
    BY <1>11
  <2>2. /\ d < n /\ n <= Clip(q) /\ S <= q.offset + d
        /\ q.offset + d < S + BlockSize /\ S + M < q.offset + n + BlockSize
    <3>1. /\ d < n /\ S <= o + d /\ o + d < S + B /\ S + M < o + n + B /\ n <= n
      BY <1>8, <2>1
    <3> QED BY <1>4, <1>5, <3>1, Zenon
  <2>3. /\ k + m <= NumBlocks
        /\ \A i \in 0 .. M - 1 : /\ S + i \in 0 .. Capacity - 1
                                 /\ (S + i) \div BlockSize \in Blocks(q)
    BY <1>3, <1>5, <2>1, <2>2, CoverGen
  <2>4. Fits(cmd[r])'
    BY <1>17, <2>1, <2>3 DEF Fits
  <2> HIDE DEF Z
  <2> QED BY <1>3, <1>11, <1>17, <1>18, <1>21, <2>1, <2>3, <2>4 DEF CoverOK
<1>23. FullTask(r)'
  <2>1. w + N \in 1 .. n
    BY <1>5, <1>8
  <2>2. S <= o /\ o + (w + N) <= S + Z
    BY <1>8
  <2>3. ASSUME w + N # n
        PROVE  (o + (w + N)) % BlockSize = 0 /\ n - (w + N) < BlockSize
    <3>1. w < n /\ s + w = B
      BY <1>8, <2>3
    <3>2. PICK m \in Nat, M \in Nat : m = k + (nb + 1) /\ M = o + (w + N)
      OBVIOUS
    <3>3. M = m * BlockSize
      <4>1. M = S + Z
        BY <1>8, <3>1, <3>2
      <4>2. S = k * BlockSize /\ Z = (nb + 1) * BlockSize
        BY <1>5, <1>11
      <4>3. (k + (nb + 1)) * BlockSize = k * BlockSize + (nb + 1) * BlockSize
        BY Geometry
      <4> QED BY <3>2, <4>1, <4>2, <4>3
    <3>4. 0 \in Nat /\ 0 < BlockSize /\ M + 0 = M
      BY <1>4
    <3>5. (M + 0) % BlockSize = 0
      BY <3>3, <3>4, BlockAndRest
    <3>6. n - (w + N) < BlockSize
      BY <1>4, <1>8
    <3> QED BY <3>2, <3>4, <3>5, <3>6
  <2>4. retval'[r] = -1
    BY <1>2, <1>18 DEF FirstTask
  <2>5. io'[r].offset = o /\ io'[r].nbytes = n
    BY <1>3, <1>4, <1>5, <1>18
  <2> HIDE DEF Z
  <2> QED BY <1>17, <1>20, <1>21, <2>1, <2>2, <2>3, <2>4, <2>5 DEF FullTask
<1>24. TaskOK(r)'
  BY <1>15, <1>20, <1>22, <1>23 DEF TaskOK
<1>25. ReqOK(r)'
  BY <1>2, <1>15, <1>18, RequestAssumption DEF ReqOK, Flying, InFlight, WriteStages
<1>26. DataOK(r)'
  BY <1>17 DEF DataOK
<1>27. Goal(r)' = w + N
  BY <1>15, <1>20 DEF Goal
<1>28. BytesOK(r)'
  <2> SUFFICES ASSUME NEW i \in 0 .. Z - 1
               PROVE  (IF Start(r) + i \in io[r].offset .. io[r].offset + Goal(r) - 1
                         THEN cmd[r].bytes[i] = <<r, Start(r) + i - io[r].offset>>
                         ELSE Copy(r, cmd[r].bytes[i], Start(r) + i))'
    BY <1>21 DEF BytesOK
  <2>0. io'[r].offset = o
    BY <1>3, <1>5, <1>18
  <2>1. CASE i \in s .. s + w - 1
    <3>1. i < B /\ S + i \in o .. o + (w + N) - 1 /\ S + i - o = i - s
      BY <1>8, <2>1
    <3>2. bytes[i] = <<r, i - s>>
      BY <1>14, <2>1, <3>1
    <3> HIDE DEF Z
    <3> QED BY <1>17, <1>21, <1>27, <2>0, <3>1, <3>2
  <2>2. CASE i >= B
    <3>1. s + w = B /\ S + i \in o .. o + (w + N) - 1 /\ S + i - o = w + i - B
      BY <1>8, <2>2
    <3>2. bytes[i] = <<r, w + i - B>>
      <4>1. ~(i < B)
        BY <2>2
      <4> HIDE DEF Z
      <4> QED BY <1>14, <4>1
    <3> HIDE DEF Z
    <3> QED BY <1>17, <1>21, <1>27, <2>0, <3>1, <3>2
  <2>3. CASE i < B /\ i \notin s .. s + w - 1
    <3>1. S + i \notin o .. o + (w + N) - 1
      <4>1. i < s \/ i >= s + w
        BY <2>3
      <4>2. i >= s + w => N = 0
        BY <1>8, <2>3
      <4> QED BY <1>8, <4>1, <4>2
    <3>2. bytes[i] = data[r][i]
      BY <1>14, <2>3
    <3>3. Copy(r, data[r][i], S + i)
      <4>1. i \in 0 .. Size(r) - 1
        BY <1>9, <2>3
      <4> QED BY <1>1, <1>2, <1>9, <4>1 DEF DataOK
    <3> HIDE DEF Z
    <3>4. Copy(r, cmd[r].bytes[i], Start(r) + i)'
      BY <1>17, <1>18, <1>21, <3>2, <3>3 DEF Copy, BelongsAt, End
    <3> QED BY <1>21, <1>27, <2>0, <3>1, <3>4
  <2> QED BY <2>1, <2>2, <2>3
<1>29. HaveOK(r)'
  <2>1. Have(r)' = 0
    BY <1>15, RequestAssumption DEF Have
  <2>2. \A y \in 0 .. 0 - 1 : FALSE
    OBVIOUS
  <2> QED BY <2>1, <2>2 DEF HaveOK
<1> QED BY <1>1, <1>2, <1>18, <1>19, <1>24, <1>25, <1>26, <1>28, <1>29
     DEF StepOK, FcnOK

-----------------------------------------------------------------------------
(***************************************************************************)
(* Submission.                                                             *)
(***************************************************************************)

(* Requests that share a block with the new one are noted. *)
LEMMA MeetFacts ==
  ASSUME NEW r \in Reqs, NEW q, Meet(r, q)
  PROVE  /\ clash \subseteq clash'
         /\ \A u \in Reqs :
              Flying(u) /\ "write" \in {q.type, io[u].type} =>
                \/ u \in clash' /\ r \in clash'
                \/ Blocks(q) \cap Blocks(io[u]) = {}
<1> DEFINE others == {s \in Reqs : /\ stage[s] \in InFlight
                                   /\ "write" \in {q.type, io[s].type}
                                   /\ Blocks(q) \cap Blocks(io[s]) # {}}
<1>1. clash' = IF others = {} THEN clash ELSE clash \cup others \cup {r}
  BY DEF Meet
<1>2. ASSUME NEW u \in Reqs, Flying(u), "write" \in {q.type, io[u].type},
             Blocks(q) \cap Blocks(io[u]) # {}
      PROVE  u \in clash' /\ r \in clash'
  <2>1. u \in others
    BY <1>2 DEF Flying
  <2> HIDE DEF others
  <2> QED BY <1>1, <2>1
<1>3. clash \subseteq clash'
  BY <1>1
<1> QED BY <1>2, <1>3

(* A new request joins the others. *)
LEMMA NewInv ==
  ASSUME OnDevice, AsyncInv, NEW r \in Reqs, NEW q \in Requests, Accept(r, q),
         Only(stage', stage, r), Only(cmd', cmd, r), Only(resp', resp, r),
         Only(vbufs', vbufs, r), FcnOK', clash \subseteq clash',
         \A u \in Reqs :
           Flying(r)' /\ Flying(u) /\ "write" \in {q.type, io[u].type} =>
             \/ u \in clash' /\ r \in clash'
             \/ Blocks(q) \cap Blocks(io[u]) = {},
         (ReqOK(r) /\ TaskOK(r) /\ DataOK(r) /\ BytesOK(r) /\ HaveOK(r))'
  PROVE  AsyncInv'
<1>1. /\ FcnOK /\ ClashOK /\ PlaceOK
      /\ \A u \in Reqs : ReqOK(u) /\ TaskOK(u) /\ DataOK(u) /\ BytesOK(u) /\ HaveOK(u)
  BY DEF AsyncInv
<1>2. /\ disk' = disk /\ data' = data /\ trouble' = trouble /\ stage[r] = "new"
      /\ io'[r] = q /\ Only(io', io, r) /\ Only(retval', retval, r)
  BY <1>1 DEF Accept, FcnOK, Only
<1>3. io[r] = NULL
  BY <1>1, <1>2 DEF ReqOK
<1>4. \A u \in Reqs : u # r => Kept(u)
  BY <1>2 DEF Only, Kept
<1>5. ASSUME NEW b, NEW x, BelongsAt(x, b) PROVE BelongsAt(x, b)'
  <2>1. CASE x = <<NULL, b>>
    BY <2>1 DEF BelongsAt
  <2>2. CASE \E s \in Reqs : /\ io[s] # NULL /\ io[s].type = "write"
                             /\ x = <<s, b - io[s].offset>> /\ b < End(s)
    <3>1. PICK s \in Reqs : /\ io[s] # NULL /\ io[s].type = "write"
                            /\ x = <<s, b - io[s].offset>> /\ b < End(s)
      BY <2>2
    <3>2. io'[s] = io[s]
      BY <1>2, <1>3, <3>1 DEF Only
    <3>3. End(s)' = End(s)
      BY <3>2 DEF End
    <3> QED BY <3>1, <3>2, <3>3 DEF BelongsAt
  <2> QED BY <1>5, <2>1, <2>2 DEF BelongsAt
<1>6. PlaceOK'
  BY <1>1, <1>2, <1>5 DEF PlaceOK
<1>7. ASSUME NEW u \in Reqs
      PROVE  (ReqOK(u) /\ TaskOK(u) /\ DataOK(u) /\ BytesOK(u) /\ HaveOK(u))'
  <2>1. CASE u = r
    BY <2>1
  <2>2. CASE u # r
    <3>1. Undisturbed(u)
      BY <1>2, <1>5 DEF Undisturbed
    <3> QED BY <1>1, <1>4, <2>2, <3>1, KeptOK
  <2> QED BY <2>1, <2>2
<1>8. ClashOK'
  <2> SUFFICES ASSUME NEW s \in Reqs, NEW u \in Reqs, s # u, Flying(s)', Flying(u)',
                      "write" \in {io'[s].type, io'[u].type}
               PROVE  s \in clash' \/ Blocks(io'[s]) \cap Blocks(io'[u]) = {}
    BY DEF ClashOK, Blocks, Clip
  <2>1. CASE s # r /\ u # r
    <3>1. Flying(s) /\ Flying(u) /\ io'[s] = io[s] /\ io'[u] = io[u]
      BY <1>2, <2>1 DEF Flying, Only
    <3> QED BY <1>1, <3>1 DEF ClashOK
  <2>2. CASE s = r
    <3>1. Flying(u) /\ io'[u] = io[u] /\ io'[s] = q
      BY <1>2, <2>2 DEF Flying, Only
    <3> QED BY <2>2, <3>1
  <2>3. CASE u = r
    <3>1. Flying(s) /\ io'[s] = io[s] /\ io'[u] = q
      BY <1>2, <2>3 DEF Flying, Only
    <3>2. s \in clash' \/ Blocks(q) \cap Blocks(io[s]) = {}
      BY <2>3, <3>1
    <3> QED BY <3>1, <3>2
  <2> QED BY <2>1, <2>2, <2>3
<1> QED BY <1>6, <1>7, <1>8 DEF AsyncInv

(* Nothing is sent. *)
LEMMA NotSentInv ==
  ASSUME OnDevice, AsyncInv, FcnOK', NEW r \in Reqs, NEW q \in Requests,
         Refuse(r, q) \/ SubmitEmpty(r, q)
  PROVE  AsyncInv'
<1>1. FcnOK /\ ReqOK(r)
  BY DEF AsyncInv
<1>2. Accept(r, q) /\ clash' = clash /\ cmd' = cmd /\ resp' = resp /\ vbufs' = vbufs
  BY DEF Refuse, SubmitEmpty
<1>3. stage'[r] \in {"refused", "empty"} /\ Only(stage', stage, r)
  BY <1>1 DEF Refuse, SubmitEmpty, FcnOK, Only
<1>4. io'[r] = q /\ cmd'[r] = NULL
  BY <1>1, <1>2 DEF Accept, FcnOK, ReqOK, Flying, InFlight, WriteStages
<1>5. ~Flying(r)'
  BY <1>3 DEF Flying, InFlight, WriteStages
<1>6. ReqOK(r)'
  BY <1>3, <1>4, <1>5 DEF ReqOK
<1>7. (ReqOK(r) /\ TaskOK(r) /\ DataOK(r) /\ BytesOK(r) /\ HaveOK(r))'
  BY <1>5, <1>6, IdleOK
<1>8. Only(cmd', cmd, r) /\ Only(resp', resp, r) /\ Only(vbufs', vbufs, r)
  BY <1>2 DEF Only
<1> QED BY <1>2, <1>3, <1>5, <1>7, <1>8, NewInv

(* What the submissions of a task have in common. *)
LEMMA SubmitFacts ==
  ASSUME AsyncInv, NEW r \in Reqs, NEW q \in Requests, InRange(q),
         Accept(r, q), Meet(r, q), NEW cb, NEW c, NEW bufs, Send(r, cb, c, bufs)
  PROVE  /\ stage'[r] = cb /\ cmd'[r] = c /\ resp'[r] = NULL /\ vbufs'[r] = bufs
         /\ Only(stage', stage, r) /\ Only(cmd', cmd, r) /\ Only(resp', resp, r)
         /\ Only(vbufs', vbufs, r) /\ io'[r] = q
         /\ q.type = "write" => retval'[r] = -1
<1>1. FcnOK
  BY DEF AsyncInv
<1>2. io'[r] = q /\ (q.type = "write" => retval'[r] = -1)
  BY <1>1 DEF Accept, FcnOK
<1> QED BY <1>1, <1>2, SendFacts

(* A task is sent for a new request. *)
LEMMA SentInv ==
  ASSUME OnDevice, AsyncInv, FcnOK', NEW r \in Reqs, NEW q \in Requests,
         InRange(q), Accept(r, q), Meet(r, q),
         NEW cb, NEW c, NEW bufs, Send(r, cb, c, bufs),
         (ReqOK(r) /\ TaskOK(r) /\ DataOK(r) /\ BytesOK(r) /\ HaveOK(r))'
  PROVE  AsyncInv'
<1>1. /\ Only(stage', stage, r) /\ Only(cmd', cmd, r) /\ Only(resp', resp, r)
      /\ Only(vbufs', vbufs, r)
  BY SubmitFacts
<1>2. /\ clash \subseteq clash'
      /\ \A u \in Reqs :
           Flying(r)' /\ Flying(u) /\ "write" \in {q.type, io[u].type} =>
             \/ u \in clash' /\ r \in clash'
             \/ Blocks(q) \cap Blocks(io[u]) = {}
  BY MeetFacts
<1> QED BY <1>1, <1>2, NewInv

(* A read: one task for all blocks. *)
LEMMA SubmitReadInv ==
  ASSUME OnDevice, AsyncInv, FcnOK', NEW r \in Reqs, NEW q \in Requests,
         SubmitRead(r, q)
  PROVE  AsyncInv'
<1> DEFINE cb == "blk_read_done"
           m == BlocksTouched(q.offset % BlockSize, Clip(q))
           command == ReadCmd(q.offset \div BlockSize, m)
           bufs == <<REQ, RESP>> \o ReadBufs(q)
<1>1. /\ InRange(q) /\ q.type = "read" /\ Accept(r, q) /\ Meet(r, q)
      /\ Send(r, cb, command, bufs)
  BY DEF SubmitRead
<1>2. /\ stage'[r] = cb /\ cmd'[r] = command /\ resp'[r] = NULL
      /\ vbufs'[r] = bufs /\ io'[r] = q
  <2> HIDE DEF cb, command, bufs
  <2> QED BY <1>1, SubmitFacts
<1>3. q.offset <= Capacity
  BY <1>1 DEF InRange
<1>4. PICK o, c, B \in Nat : /\ o = q.offset /\ c = Clip(q) /\ B = BlockSize /\ B > 0
                             /\ o + c <= Capacity /\ Clip(q) \in Nat
  BY <1>3, RequestFacts, Geometry
<1>5. PICK s, k, S \in Nat : /\ s = q.offset % BlockSize /\ k = q.offset \div BlockSize
                             /\ S = k * BlockSize /\ q.offset = S + s /\ s < BlockSize
  BY <1>3, RequestFacts, OffsetFacts
<1>6. PICK nb, N \in Nat : /\ nb = BlocksTouched(s, c) /\ N = nb * BlockSize
                           /\ s + c <= N /\ N < s + c + BlockSize
  BY TouchFacts
<1>7. /\ o = S + s /\ s < B /\ s + c <= N /\ N < s + c + B
  BY <1>4, <1>5, <1>6, Zenon
<1>8. nb % XferMod = nb
  <2>1. PICK x \in Nat : x = s + c
    OBVIOUS
  <2>2. x <= (q.offset % BlockSize) + Clip(q)
    <3>1. x = (q.offset % BlockSize) + Clip(q)
      BY <1>4, <1>5, <2>1, Zenon
    <3> QED BY <3>1
  <2>3. nb * BlockSize < x + BlockSize
    BY <1>4, <1>6, <2>1
  <2> QED BY <1>3, <2>2, <2>3, NotCut
<1>9. m = nb
  BY <1>4, <1>5, <1>6, Zenon
<1>10. cmd'[r].op = "read" /\ cmd'[r].blk = k /\ cmd'[r].nblk = nb
  <2>1. cmd'[r] = ReadCmd(k, nb)
    BY <1>2, <1>5, <1>9, Zenon
  <2> QED BY <1>8, <2>1 DEF ReadCmd, create_rw_cdb
<1>11. /\ LaidOut(r)' /\ UserBytes(r)' = c /\ (c > 0 => From(r)' = s)
  <2>1. cmd'[r].nblk = BlocksTouched(q.offset % BlockSize, Clip(q))
    BY <1>9, <1>10
  <2> QED BY <1>1, <1>2, <1>4, <1>5, <1>10, <2>1, ReadSent
<1>12. Start(r)' = S /\ Size(r)' = N
  BY <1>5, <1>6, <1>10 DEF Start, Size
<1> HIDE DEF cb, m, command, bufs
<1>13. /\ k + nb <= NumBlocks
       /\ \A i \in 0 .. N - 1 : /\ S + i \in 0 .. Capacity - 1
                                /\ (S + i) \div BlockSize \in Blocks(q)
  <2>1. CASE c > 0
    <3>1. PICK d \in Nat : d = 0
      OBVIOUS
    <3>2. /\ d < c /\ c <= Clip(q) /\ S <= q.offset + d
          /\ q.offset + d < S + BlockSize /\ S + N < q.offset + c + BlockSize
      <4>1. d < c /\ c <= c /\ S <= o + d /\ o + d < S + B /\ S + N < o + c + B
        BY <1>7, <2>1, <3>1
      <4> QED BY <1>4, <4>1, Zenon
    <3> QED BY <1>3, <1>5, <1>6, <3>2, CoverGen
  <2>2. CASE c = 0
    <3>1. o = Capacity
      <4>1. q.nbytes > 0 /\ q.nbytes \in Nat
        BY <1>1, <1>3, RequestFacts DEF InRange
      <4>2. Capacity \in Nat
        BY Geometry
      <4> QED BY <1>3, <1>4, <2>2, <4>1, <4>2 DEF Clip, Least
    <3>2. NumBlocks \in Nat /\ Capacity = NumBlocks * BlockSize
      BY Geometry DEF Capacity
    <3>3. k = NumBlocks /\ s = 0
      <4>1. PICK C, z \in Nat : C = NumBlocks * BlockSize /\ z = 0 /\ C + z = o
        BY <1>4, <3>1, <3>2
      <4>2. z < BlockSize
        BY <1>4, <4>1
      <4>3. (C + z) \div BlockSize = NumBlocks /\ (C + z) % BlockSize = z
        BY <3>2, <4>1, <4>2, BlockAndRest
      <4> QED BY <1>4, <1>5, <4>1, <4>3
    <3>4. N < B
      BY <1>7, <2>2, <3>3
    <3>5. nb = 0 /\ N = 0
      BY <1>4, <1>6, <3>4
    <3> QED BY <3>2, <3>3, <3>5
  <2> QED BY <1>4, <2>1, <2>2
<1>14. CoverOK(r)'
  <2>1. Fits(cmd[r])'
    BY <1>10, <1>13 DEF Fits
  <2> QED BY <1>2, <1>10, <1>12, <1>13, <2>1 DEF CoverOK
<1>15. ReadTask(r)'
  <2>1. c <= N /\ S + s = o /\ s + c <= N
    BY <1>7
  <2>2. Clip(io[r])' = c
    BY <1>2, <1>4 DEF Clip
  <2> QED BY <1>2, <1>4, <1>10, <1>11, <1>12, <2>1, <2>2 DEF ReadTask
<1>16. TaskOK(r)'
  BY <1>2, <1>11, <1>14, <1>15 DEF TaskOK, cb
<1>17. ReqOK(r)'
  BY <1>1, <1>2, RequestAssumption DEF ReqOK, Flying, InFlight, WriteStages, cb
<1>18. (DataOK(r) /\ BytesOK(r) /\ HaveOK(r))'
  BY <1>1, <1>2, <1>10, RequestAssumption DEF DataOK, BytesOK, HaveOK
<1> QED BY <1>1, <1>16, <1>17, <1>18, SentInv

(* A write that begins inside of a block. *)
LEMMA SubmitUnalignedInv ==
  ASSUME OnDevice, AsyncInv, FcnOK', NEW r \in Reqs, NEW q \in Requests,
         SubmitWriteUnaligned(r, q)
  PROVE  AsyncInv'
<1> DEFINE cb == "blk_read_first_block_done"
           command == ReadCmd(q.offset \div BlockSize, 1)
           bufs == ReadPartBufs(q.offset % BlockSize, FirstEnd(q))
<1>1. /\ InRange(q) /\ q.type = "write" /\ Accept(r, q) /\ Meet(r, q)
      /\ Send(r, cb, command, bufs) /\ q.offset % BlockSize # 0
  BY DEF SubmitWriteUnaligned
<1>2. /\ stage'[r] = cb /\ cmd'[r] = command /\ resp'[r] = NULL
      /\ vbufs'[r] = bufs /\ io'[r] = q /\ retval'[r] = -1
  <2> HIDE DEF cb, command, bufs
  <2> QED BY <1>1, SubmitFacts
<1>3. q.offset <= Capacity /\ Clip(q) > 0 /\ BlockSize \in Nat
  BY <1>1, WriteRange, Geometry DEF InRange
<1>4. PICK o, c, s, k, S, w \in Nat :
        /\ o = q.offset /\ c = Clip(q) /\ s = q.offset % BlockSize
        /\ k = q.offset \div BlockSize /\ S = k * BlockSize
        /\ FirstEnd(q) = s + w /\ o = S + s /\ s < BlockSize
        /\ w > 0 /\ w <= c /\ s + w <= BlockSize
        /\ w = c \/ s + w = BlockSize
        /\ o + c <= Capacity
  BY <1>3, FirstFacts, Zenon
<1>5. PICK B \in Nat : B = BlockSize
  BY <1>3
<1>6. o = S + s /\ s < B /\ w > 0 /\ w <= c
  BY <1>4, <1>5, Zenon
<1>7. cmd'[r].op = "read" /\ cmd'[r].blk = k /\ cmd'[r].nblk = 1
  <2>1. cmd'[r] = ReadCmd(k, 1)
    BY <1>2, <1>4, Zenon
  <2> QED BY <2>1, OneBlock DEF ReadCmd, create_rw_cdb
<1>8. LaidOut(r)' /\ From(r)' = s /\ To(r)' = s + w
  <2>1. s \in Int /\ s + w \in Int
    OBVIOUS
  <2>2. vbufs'[r] = ReadPartBufs(s, s + w)
    BY <1>2, <1>4, Zenon
  <2> QED BY <1>2, <1>7, <2>1, <2>2, ReadPartSent
<1>9. Start(r)' = S /\ Size(r)' = B
  <2>1. Start(r)' = S
    BY <1>4, <1>7 DEF Start
  <2>2. Size(r)' = B
    BY <1>5, <1>7 DEF Size
  <2> QED BY <2>1, <2>2
<1> HIDE DEF command, bufs
<1>10. CoverOK(r)'
  <2>1. PICK d, one, M \in Nat : d = 0 /\ one = 1 /\ M = one * BlockSize /\ M = B
    BY <1>5
  <2>2. /\ d < c /\ c <= Clip(q) /\ S <= q.offset + d
        /\ q.offset + d < S + BlockSize /\ S + M < q.offset + c + BlockSize
    <3>1. d < c /\ c <= c /\ S <= o + d /\ o + d < S + B /\ S + M < o + c + B
      <4>1. S + M < o + c + B
        <5>1. s # 0
          BY <1>1, <1>4, Zenon
        <5> QED BY <1>6, <2>1, <5>1
      <4> QED BY <1>6, <2>1, <4>1
    <3> QED BY <1>4, <1>5, <3>1, Zenon
  <2>3. /\ k + one <= NumBlocks
        /\ \A i \in 0 .. M - 1 : /\ S + i \in 0 .. Capacity - 1
                                 /\ (S + i) \div BlockSize \in Blocks(q)
    BY <1>3, <1>4, <2>1, <2>2, CoverGen
  <2>4. Fits(cmd[r])'
    BY <1>7, <2>1, <2>3 DEF Fits
  <2> QED BY <1>2, <1>7, <1>9, <2>1, <2>3, <2>4 DEF CoverOK
<1>11. FirstTask(r)'
  <2>1. FirstEnd(io[r])' = s + w
    BY <1>2, <1>4 DEF FirstEnd, Clip
  <2>2. /\ io'[r].offset \div BlockSize = k /\ io'[r].offset % BlockSize = s
        /\ s # 0
    BY <1>1, <1>2, <1>4, Zenon
  <2> QED BY <1>2, <1>7, <1>8, <2>1, <2>2 DEF FirstTask
<1>12. TaskOK(r)'
  BY <1>2, <1>8, <1>10, <1>11 DEF TaskOK
<1>13. ReqOK(r)'
  BY <1>1, <1>2, RequestAssumption DEF ReqOK, Flying, InFlight, WriteStages
<1>14. (DataOK(r) /\ BytesOK(r))'
  BY <1>2, <1>7, RequestAssumption DEF DataOK, BytesOK
<1>15. HaveOK(r)'
  <2>1. Have(r)' = 0
    BY <1>2, <1>7 DEF Have
  <2>2. \A y \in 0 .. 0 - 1 : FALSE
    OBVIOUS
  <2> QED BY <2>1, <2>2 DEF HaveOK
<1> HIDE DEF cb
<1> QED BY <1>1, <1>12, <1>13, <1>14, <1>15, SentInv

(* A write that begins on a boundary, with full blocks. *)
LEMMA SubmitBlocksInv ==
  ASSUME OnDevice, AsyncInv, FcnOK', NEW r \in Reqs, NEW q \in Requests,
         SubmitWriteBlocks(r, q)
  PROVE  AsyncInv'
<1> DEFINE m == Clip(q) \div BlockSize
           bytes == [i \in Bytes(m) |-> <<r, i>>]
           cb == "blk_write_full_blocks_done"
           command == WriteCmd(q.offset \div BlockSize, m, bytes)
           bufs == <<REQ, AddBuf(m * BlockSize), RESP>>
<1>1. /\ InRange(q) /\ q.type = "write" /\ Accept(r, q) /\ Meet(r, q)
      /\ Send(r, cb, command, bufs) /\ q.offset % BlockSize = 0 /\ m > 0
  BY DEF SubmitWriteBlocks
<1>2. /\ stage'[r] = cb /\ cmd'[r] = command /\ resp'[r] = NULL
      /\ vbufs'[r] = bufs /\ io'[r] = q /\ retval'[r] = -1
  <2> HIDE DEF cb, command, bufs, m
  <2> QED BY <1>1, SubmitFacts
<1>3. q.offset <= Capacity
  BY <1>1 DEF InRange
<1>4. PICK o, n, B \in Nat : /\ o = q.offset /\ n = q.nbytes /\ n = Clip(q)
                             /\ B = BlockSize /\ B > 0 /\ n > 0
  BY <1>1, WriteRange, Geometry
<1>5. PICK k, S \in Nat : k = q.offset \div BlockSize /\ S = k * BlockSize /\ S = o
  <2>1. PICK s, k, S \in Nat : /\ s = o % BlockSize /\ k = o \div BlockSize
                               /\ S = k * BlockSize /\ o = S + s /\ s < BlockSize
    BY OffsetFacts
  <2>2. s = 0
    BY <1>1, <1>4, <2>1, Zenon
  <2>3. S = o
    BY <2>1, <2>2
  <2> QED BY <1>4, <2>1, <2>3
<1>6. PICK nb, N, t \in Nat : /\ nb = n \div BlockSize /\ N = nb * BlockSize
                              /\ t = n % BlockSize
                              /\ n = N + t /\ t < BlockSize
                              /\ nb = 0 <=> n < BlockSize
                              /\ nb = 0 <=> N = 0
  BY MidFacts
<1>7. m = nb
  BY <1>4, <1>6, Zenon
<1>8. n = N + t /\ t < B /\ N > 0
  <2>1. n = N + t /\ t < B
    BY <1>4, <1>6, Zenon
  <2>2. nb # 0
    BY <1>1, <1>7
  <2>3. N # 0
    BY <1>6, <2>2, Zenon
  <2> QED BY <2>1, <2>3
<1>9. nb % XferMod = nb
  <2>1. n <= (q.offset % BlockSize) + Clip(q)
    <3>1. q.offset % BlockSize = 0 /\ Clip(q) = n
      BY <1>1, <1>4
    <3> QED BY <3>1
  <2>2. nb * BlockSize < n + BlockSize
    BY <1>4, <1>6
  <2> QED BY <1>3, <2>1, <2>2, NotCut
<1>10. Bytes(nb) = 0 .. N - 1
  BY <1>6 DEF Bytes
<1>11. \A i \in 0 .. N - 1 : bytes[i] = <<r, i>>
  BY <1>7, <1>10
<1> HIDE DEF bytes, m
<1>12. /\ cmd'[r].op = "write" /\ cmd'[r].blk = k /\ cmd'[r].nblk = nb
       /\ cmd'[r].bytes = bytes
  <2>1. cmd'[r] = WriteCmd(k, nb, bytes)
    BY <1>2, <1>5, <1>7, Zenon
  <2> QED BY <1>9, <2>1 DEF WriteCmd, create_rw_cdb
<1>13. LaidOut(r)' /\ UserBytes(r)' = N
  <2>1. PICK b \in Part : /\ b = AddBuf(N) /\ b.role = "data"
                          /\ b.from = 0 /\ b.to = N /\ b.size = N
    <3>1. N \in Int
      OBVIOUS
    <3> QED BY <3>1, PartFacts
  <2>2. vbufs'[r] = <<REQ, b, RESP>>
    BY <1>2, <1>6, <1>7, <2>1
  <2>3. b.size = cmd'[r].nblk * BlockSize /\ b.to - b.from = N
    <3>1. b.size = cmd'[r].nblk * BlockSize
      BY <1>6, <1>12, <2>1, Zenon
    <3>2. b.to - b.from = N
      BY <2>1
    <3> QED BY <3>1, <3>2
  <2> QED BY <1>2, <1>12, <2>1, <2>2, <2>3, FullSent
<1>14. Start(r)' = S /\ Size(r)' = N
  BY <1>5, <1>6, <1>12 DEF Start, Size
<1> HIDE DEF command, bufs
<1>15. CoverOK(r)'
  <2>1. PICK d \in Nat : d = 0
    OBVIOUS
  <2>2. /\ d < n /\ n <= Clip(q) /\ S <= q.offset + d
        /\ q.offset + d < S + BlockSize /\ S + N < q.offset + n + BlockSize
    <3>0. S = o /\ B > 0 /\ n > 0
      BY <1>4, <1>5
    <3>1. d < n /\ n <= n /\ S <= o + d /\ o + d < S + B /\ S + N < o + n + B
      BY <1>8, <2>1, <3>0
    <3> QED BY <1>4, <3>1, Zenon
  <2>3. /\ k + nb <= NumBlocks
        /\ \A i \in 0 .. N - 1 : /\ S + i \in 0 .. Capacity - 1
                                 /\ (S + i) \div BlockSize \in Blocks(q)
    BY <1>3, <1>5, <1>6, <2>1, <2>2, CoverGen
  <2>4. Fits(cmd[r])'
    BY <1>12, <2>3 DEF Fits
  <2> QED BY <1>2, <1>12, <1>14, <2>3, <2>4 DEF CoverOK
<1>16. FullTask(r)'
  <2>1. N \in 1 .. n /\ n - N < B
    BY <1>8
  <2>2. S = o /\ n - N < BlockSize
    BY <1>4, <1>5, <2>1
  <2>3. (o + N) % BlockSize = 0
    <3>1. PICK z, M, x \in Nat : z = 0 /\ M = o + N /\ x = k + nb /\ M + z = o + N
      OBVIOUS
    <3>2. M = x * BlockSize
      <4>1. (k + nb) * BlockSize = k * BlockSize + nb * BlockSize
        BY Geometry
      <4> QED BY <1>5, <1>6, <3>1, <4>1
    <3>3. z < BlockSize
      BY <1>4, <3>1
    <3>4. (M + z) % BlockSize = z
      BY <3>2, <3>3, BlockAndRest
    <3> QED BY <3>1, <3>4
  <2>4. io'[r].offset = o /\ io'[r].nbytes = n
    BY <1>2, <1>4
  <2>5. S <= o /\ o + N <= S + N
    BY <2>2
  <2> QED BY <1>2, <1>12, <1>13, <1>14, <2>1, <2>2, <2>3, <2>4, <2>5 DEF FullTask
<1>17. TaskOK(r)'
  BY <1>2, <1>13, <1>15, <1>16 DEF TaskOK
<1>18. ReqOK(r)'
  BY <1>1, <1>2, RequestAssumption DEF ReqOK, Flying, InFlight, WriteStages
<1>19. DataOK(r)'
  BY <1>12 DEF DataOK
<1>20. BytesOK(r)'
  <2> SUFFICES ASSUME NEW i \in 0 .. N - 1
               PROVE  (IF Start(r) + i \in io[r].offset .. io[r].offset + Goal(r) - 1
                         THEN cmd[r].bytes[i] = <<r, Start(r) + i - io[r].offset>>
                         ELSE Copy(r, cmd[r].bytes[i], Start(r) + i))'
    BY <1>14 DEF BytesOK
  <2>1. Goal(r)' = N
    BY <1>2, <1>13 DEF Goal
  <2>2. io'[r].offset = o /\ S = o
    BY <1>2, <1>4, <1>5
  <2>3. S + i \in o .. o + N - 1 /\ S + i - o = i
    BY <2>2
  <2> QED BY <1>11, <1>12, <1>14, <2>1, <2>2, <2>3
<1>21. HaveOK(r)'
  <2>1. Have(r)' = 0
    BY <1>2, RequestAssumption DEF Have
  <2>2. \A y \in 0 .. 0 - 1 : FALSE
    OBVIOUS
  <2> QED BY <2>1, <2>2 DEF HaveOK
<1> HIDE DEF cb
<1> QED BY <1>1, <1>17, <1>18, <1>19, <1>20, <1>21, SentInv

(* A write of less than a block that begins on a boundary. *)
LEMMA SubmitTailInv ==
  ASSUME OnDevice, AsyncInv, FcnOK', NEW r \in Reqs, NEW q \in Requests,
         SubmitWriteTail(r, q)
  PROVE  AsyncInv'
<1> DEFINE cb == "blk_read_last_block_done"
           command == ReadCmd(q.offset \div BlockSize, 1)
           bufs == ReadPartBufs(0, Clip(q) % BlockSize)
<1>1. /\ InRange(q) /\ q.type = "write" /\ Accept(r, q) /\ Meet(r, q)
      /\ Send(r, cb, command, bufs) /\ q.offset % BlockSize = 0
      /\ Clip(q) \div BlockSize = 0
  BY DEF SubmitWriteTail
<1>2. /\ stage'[r] = cb /\ cmd'[r] = command /\ resp'[r] = NULL
      /\ vbufs'[r] = bufs /\ io'[r] = q /\ retval'[r] = -1
  <2> HIDE DEF cb, command, bufs
  <2> QED BY <1>1, SubmitFacts
<1>3. PICK o, n, B \in Nat : /\ o = q.offset /\ n = q.nbytes /\ n = Clip(q)
                             /\ B = BlockSize /\ B > 0 /\ n > 0
  BY <1>1, WriteRange, Geometry
<1>4. PICK k, S \in Nat : k = q.offset \div BlockSize /\ S = k * BlockSize /\ S = o
  <2>1. PICK s, k, S \in Nat : /\ s = o % BlockSize /\ k = o \div BlockSize
                               /\ S = k * BlockSize /\ o = S + s /\ s < BlockSize
    BY OffsetFacts
  <2>2. s = 0
    BY <1>1, <1>3, <2>1, Zenon
  <2>3. S = o
    BY <2>1, <2>2
  <2> QED BY <1>3, <2>1, <2>3
<1>5. PICK nb, N, t \in Nat : /\ nb = n \div BlockSize /\ N = nb * BlockSize
                              /\ t = n % BlockSize
                              /\ n = N + t /\ t < BlockSize
                              /\ nb = 0 <=> n < BlockSize
                              /\ nb = 0 <=> N = 0
  BY MidFacts
<1>6. N = 0
  BY <1>1, <1>3, <1>5, Zenon
<1>7. t = n /\ t > 0 /\ t < BlockSize
  BY <1>3, <1>5, <1>6
<1>8. t <= q.nbytes /\ q.nbytes = t /\ S + t = q.offset + q.nbytes
  BY <1>3, <1>4, <1>7
<1>9. cmd'[r] = ReadCmd(k, 1) /\ vbufs'[r] = ReadPartBufs(0, t)
  BY <1>2, <1>3, <1>4, <1>5, Zenon
<1> HIDE DEF command, bufs
<1>10. q.nbytes > t /\ r \notin clash' =>
         \A x \in 0 .. q.nbytes - t - 1 : disk'[q.offset + x] = <<r, x>>
  BY <1>8
<1>11. (ReqOK(r) /\ TaskOK(r) /\ DataOK(r) /\ BytesOK(r) /\ HaveOK(r))'
  BY <1>1, <1>2, <1>4, <1>7, <1>8, <1>9, <1>10, LastReadSent
<1> HIDE DEF cb
<1> QED BY <1>1, <1>11, SentInv

-----------------------------------------------------------------------------
(***************************************************************************)
(* The invariant holds.                                                    *)
(***************************************************************************)

(* The variables stay functions of the requests and of the bytes. *)
LEMMA FcnNext ==
  ASSUME FcnOK, [Next]_vars
  PROVE  FcnOK'
<1>1. CASE UNCHANGED vars
  BY <1>1 DEF FcnOK, vars
<1>2. ASSUME NEW r \in Reqs, NEW q \in Requests, Submit(r, q)
      PROVE  FcnOK'
  <2>1. ASSUME Accept(r, q)
        PROVE  /\ DOMAIN disk' = 0 .. Capacity - 1 /\ DOMAIN io' = Reqs
               /\ DOMAIN retval' = Reqs /\ DOMAIN data' = Reqs
               /\ DOMAIN got' = Reqs /\ trouble' \in [Reqs -> BOOLEAN]
    BY <2>1 DEF FcnOK, Accept
  <2>2. ASSUME NEW cb, NEW c, NEW bufs, Send(r, cb, c, bufs)
        PROVE  /\ DOMAIN stage' = Reqs /\ DOMAIN cmd' = Reqs
               /\ DOMAIN resp' = Reqs /\ DOMAIN vbufs' = Reqs
    BY <2>2 DEF FcnOK, Send
  <2>3. CASE Refuse(r, q) \/ SubmitEmpty(r, q)
    BY <2>1, <2>3 DEF FcnOK, Refuse, SubmitEmpty
  <2>4. CASE SubmitRead(r, q)
    BY <2>1, <2>2, <2>4 DEF FcnOK, SubmitRead
  <2>5. CASE SubmitWriteUnaligned(r, q)
    BY <2>1, <2>2, <2>5 DEF FcnOK, SubmitWriteUnaligned
  <2>6. CASE SubmitWriteBlocks(r, q)
    BY <2>1, <2>2, <2>6 DEF FcnOK, SubmitWriteBlocks
  <2>7. CASE SubmitWriteTail(r, q)
    BY <2>1, <2>2, <2>7 DEF FcnOK, SubmitWriteTail
  <2> QED BY <1>2, <2>3, <2>4, <2>5, <2>6, <2>7 DEF Submit
<1>3. ASSUME NEW r \in Reqs, Complete(r)
      PROVE  FcnOK'
  <2>1. ASSUME Push(r)
        PROVE  DOMAIN stage' = Reqs /\ DOMAIN cmd' = Reqs /\ DOMAIN vbufs' = Reqs
    BY <2>1 DEF FcnOK, Push, Destroy
  <2>2. ASSUME NEW cb, NEW c, NEW bufs, Send(r, cb, c, bufs)
        PROVE  /\ DOMAIN stage' = Reqs /\ DOMAIN cmd' = Reqs
               /\ DOMAIN resp' = Reqs /\ DOMAIN vbufs' = Reqs
    BY <2>2 DEF FcnOK, Send
  <2>3. CASE GiveUp(r)
    BY <2>1, <2>3 DEF FcnOK, GiveUp
  <2>4. CASE ReadFails(r)
    BY <2>1, <2>4 DEF FcnOK, ReadFails
  <2>5. CASE blk_read_done(r)
    BY <2>1, <2>5 DEF FcnOK, blk_read_done
  <2>6. CASE blk_read_first_block_done(r)
    BY <2>2, <2>6 DEF FcnOK, blk_read_first_block_done
  <2>7. CASE WriteFullComplete(r)
    BY <2>1, <2>7 DEF FcnOK, WriteFullComplete
  <2>8. CASE WriteFullGiveUp(r)
    BY <2>1, <2>8 DEF FcnOK, WriteFullGiveUp
  <2>9. CASE WriteFullContinue(r)
    BY <2>2, <2>9 DEF FcnOK, WriteFullContinue
  <2>10. CASE blk_read_last_block_done(r)
    BY <2>2, <2>10 DEF FcnOK, blk_read_last_block_done
  <2>11. CASE blk_write_last_block_done(r)
    BY <2>1, <2>11 DEF FcnOK, blk_write_last_block_done
  <2> QED BY <1>3, <2>3, <2>4, <2>5, <2>6, <2>7, <2>8, <2>9, <2>10, <2>11
       DEF Complete
<1>4. ASSUME NEW r \in Reqs, Device(r)
      PROVE  FcnOK'
  <2>1. CASE DevRead(r)
    BY <2>1 DEF FcnOK, DevRead
  <2>2. CASE DevWrite(r)
    <3>1. DOMAIN disk' = DOMAIN disk
      BY <2>2 DEF DevWrite, Stored
    <3> QED BY <2>2, <3>1 DEF FcnOK, DevWrite
  <2>3. CASE DevFail(r)
    BY <2>3 DEF FcnOK, DevFail
  <2> QED BY <1>4, <2>1, <2>2, <2>3 DEF Device
<1> QED BY <1>1, <1>2, <1>3, <1>4 DEF Next

(* Initially nothing is in flight. *)
LEMMA InitInv == Init => AsyncInv
<1> SUFFICES ASSUME Init PROVE AsyncInv
  OBVIOUS
<1>1. FcnOK
  BY DEF Init, FcnOK, FreshDisk
<1>2. \A r \in Reqs : stage[r] = "new" /\ io[r] = NULL /\ cmd[r] = NULL
  BY DEF Init
<1>3. \A r \in Reqs : ~Flying(r)
  BY <1>2 DEF Flying, InFlight, WriteStages
<1>4. PlaceOK
  BY DEF Init, PlaceOK, BelongsAt, FreshDisk
<1>5. ClashOK
  BY <1>3 DEF ClashOK
<1>6. ASSUME NEW r \in Reqs
      PROVE  ReqOK(r) /\ TaskOK(r) /\ DataOK(r) /\ BytesOK(r) /\ HaveOK(r)
  <2>1. ReqOK(r)
    BY <1>2, <1>3 DEF ReqOK
  <2> QED BY <1>3, <2>1 DEF TaskOK, DataOK, BytesOK, HaveOK
<1> QED BY <1>1, <1>4, <1>5, <1>6 DEF AsyncInv

(* A callback and the device leave the others alone. *)
LEMMA EveryStep ==
  ASSUME OnDevice, AsyncInv, NEW r \in Reqs, Complete(r) \/ Device(r)
  PROVE  StepOK(r)
<1>1. CASE Complete(r)
  BY <1>1, GiveUpOK, ReadFailsOK, ReadDoneOK, ReadFirstDoneOK, WriteFullCompleteOK,
     WriteFullGiveUpOK, WriteFullContinueOK, ReadLastDoneOK, WriteLastDoneOK
     DEF Complete
<1>2. CASE Device(r)
  BY <1>2, DevReadOK, DevWriteOK, DevFailOK DEF Device
<1> QED BY <1>1, <1>2

(* Every step preserves the invariant. *)
LEMMA NextInv ==
  ASSUME OnDevice, AsyncInv, [Next]_vars
  PROVE  AsyncInv'
<1>1. FcnOK'
  BY FcnNext DEF AsyncInv
<1>2. ASSUME NEW r \in Reqs, NEW q \in Requests, Submit(r, q)
      PROVE  AsyncInv'
  BY <1>1, <1>2, NotSentInv, SubmitReadInv, SubmitUnalignedInv, SubmitBlocksInv,
     SubmitTailInv DEF Submit
<1>3. ASSUME NEW r \in Reqs, Complete(r) \/ Device(r)
      PROVE  AsyncInv'
  BY <1>1, <1>3, EveryStep, StepInv
<1>4. CASE UNCHANGED vars
  <2>1. /\ ClashOK /\ PlaceOK
        /\ \A r \in Reqs : ReqOK(r) /\ TaskOK(r) /\ DataOK(r) /\ BytesOK(r) /\ HaveOK(r)
    BY DEF AsyncInv
  <2>2. ClashOK' /\ PlaceOK'
    BY <1>4, <2>1 DEF vars, ClashOK, PlaceOK, Flying, Blocks, Clip, BelongsAt, End
  <2>3. \A r \in Reqs : Kept(r) /\ Undisturbed(r)
    BY <1>4 DEF vars, Kept, Undisturbed, BelongsAt, End
  <2>4. \A r \in Reqs : (ReqOK(r) /\ TaskOK(r) /\ DataOK(r) /\ BytesOK(r) /\ HaveOK(r))'
    BY <2>1, <2>3, KeptOK
  <2> QED BY <1>1, <2>2, <2>4 DEF AsyncInv
<1> QED BY <1>2, <1>3, <1>4 DEF Next

(* The inductive invariant: every task is for the blocks and the bytes it  *)
(* should be for, what a callback has read is still on the device unless   *)
(* another request for the block came in between, and what was written is  *)
(* on the device.                                                          *)
THEOREM AsyncInvariant == ASSUME OnDevice PROVE Spec => []AsyncInv
<1>1. AsyncInv /\ [Next]_vars => AsyncInv'
  BY NextInv
<1> QED BY <1>1, InitInv, PTL DEF Spec

-----------------------------------------------------------------------------
(***************************************************************************)
(* What the application relies on.                                         *)
(***************************************************************************)

(* Every task that the submissions and the callbacks build, for every      *)
(* range and geometry, has its request, its response and its data where    *)
(* the device and the callback look for them, within the limit that        *)
(* virtio_task_create was given.                                           *)
THEOREM LayoutSafe == ASSUME OnDevice PROVE Spec => []TaskLayout
<1>1. AsyncInv => TaskLayout
  BY DEF AsyncInv, TaskOK, TaskLayout, Flying
<1> QED BY <1>1, AsyncInvariant, PTL

(* assert(resid_offset != 0) of blk_write_full_blocks_done never fails.    *)
THEOREM ResidSafe == ASSUME OnDevice PROVE Spec => []AssertResid
<1>1. ASSUME OnDevice, AsyncInv PROVE AssertResid
  <2> SUFFICES ASSUME NEW r \in Reqs, Callback(r, "blk_write_full_blocks_done"),
                      UserBytes(r) # io[r].nbytes
               PROVE  End(r) % BlockSize # 0
    BY DEF AssertResid
  <2>1. Flying(r) /\ stage[r] = "blk_write_full_blocks_done"
    BY DEF Callback, Flying, InFlight, WriteStages
  <2>2. /\ io[r] \in Requests /\ InRange(io[r]) /\ io[r].type = "write"
        /\ FullTask(r)
    BY <1>1, <2>1, FlyFacts DEF TaskOK
  <2>3. PICK o \in Nat, n \in Nat : o = io[r].offset /\ n = io[r].nbytes
    BY <1>1, <2>2, WriteRange
  <2>4. PICK w \in Nat, t \in Nat, z \in Nat :
          /\ w = UserBytes(r) /\ t = n - w /\ t > 0 /\ t < BlockSize
          /\ z = o + w /\ z % BlockSize = 0
    <3>1. PICK w \in Nat : /\ w = UserBytes(r) /\ w < n
                           /\ (o + w) % BlockSize = 0 /\ n - w < BlockSize
      BY <2>2, <2>3 DEF FullTask
    <3>2. n - w \in Nat /\ n - w > 0 /\ o + w \in Nat
      BY <3>1
    <3> QED BY <3>1, <3>2, Zenon
  <2>5. PICK s, k, S \in Nat : /\ s = z % BlockSize /\ k = z \div BlockSize
                               /\ S = k * BlockSize /\ z = S + s /\ s < BlockSize
    BY OffsetFacts
  <2>6. (S + t) % BlockSize = t
    BY <2>4, <2>5, BlockAndRest
  <2>7. End(r) = S + t
    <3>1. z = S + s /\ s = 0 /\ z = o + w /\ t = n - w
      BY <2>4, <2>5, Zenon
    <3>2. End(r) = o + n
      BY <2>3 DEF End
    <3> QED BY <3>1, <3>2
  <2> QED BY <2>4, <2>6, <2>7
<1> QED BY <1>1, AsyncInvariant, PTL

(* A request that met no failure completes with retval at the number of    *)
(* bytes of its range that lie on the device.                              *)
THEOREM ResultSafe == ASSUME OnDevice PROVE Spec => []FullResult
<1>1. AsyncInv => FullResult
  <2> SUFFICES ASSUME AsyncInv, NEW r \in Reqs, stage[r] = "done", ~trouble[r]
               PROVE  retval[r] = Clip(io[r])
    BY DEF FullResult
  <2>1. trouble[r] \in BOOLEAN
    BY DEF AsyncInv, FcnOK
  <2>2. trouble[r] = FALSE
    BY <2>1, Zenon
  <2> QED BY <2>2 DEF AsyncInv, ReqOK
<1> QED BY <1>1, AsyncInvariant, PTL

(* A request completes in a callback of its own. *)
LEMMA WhoCompletes ==
  ASSUME OnDevice, AsyncInv, [Next]_vars, NEW r \in Reqs, Completes(r)
  PROVE  \/ GiveUp(r) \/ ReadFails(r) \/ blk_read_done(r)
         \/ WriteFullComplete(r) \/ WriteFullGiveUp(r)
         \/ blk_write_last_block_done(r)
<1>1. Flying(r) /\ stage'[r] = "done" /\ stage'[r] # stage[r] /\ FcnOK
  BY DEF Completes, Flying, InFlight, WriteStages, AsyncInv
<1>2. ASSUME NEW u \in Reqs, NEW q \in Requests, Submit(u, q)
      PROVE  FALSE
  <2>1. stage[u] = "new"
    BY <1>2 DEF Submit, Refuse, SubmitEmpty, SubmitRead, SubmitWriteUnaligned,
                SubmitWriteBlocks, SubmitWriteTail, Accept
  <2>2. u # r
    BY <1>1, <2>1 DEF Flying, InFlight, WriteStages
  <2>3. stage'[r] = stage[r]
    BY <1>1, <1>2, <2>2
       DEF Submit, Refuse, SubmitEmpty, SubmitRead, SubmitWriteUnaligned,
           SubmitWriteBlocks, SubmitWriteTail, Send, FcnOK
  <2> QED BY <1>1, <2>3
<1>3. ASSUME NEW u \in Reqs, Complete(u) \/ Device(u)
      PROVE  u = r
  BY <1>1, <1>3, EveryStep DEF StepOK, Kept
<1>4. ~UNCHANGED vars
  BY <1>1 DEF vars
<1>5. Complete(r) \/ Device(r)
  BY <1>2, <1>3, <1>4 DEF Next
<1>6. ~Device(r)
  BY <1>1 DEF Device, DevRead, DevWrite, DevFail
<1>7. ASSUME NEW cb, NEW c, NEW bufs, Send(r, cb, c, bufs)
      PROVE  cb = "done"
  BY <1>1, <1>7, SendFacts
<1>8. ~blk_read_first_block_done(r) /\ ~WriteFullContinue(r)
      /\ ~blk_read_last_block_done(r)
  BY <1>7 DEF blk_read_first_block_done, WriteFullContinue, blk_read_last_block_done
<1> QED BY <1>5, <1>6, <1>8 DEF Complete

(* A write that completes reports at most the bytes that are in place. *)
LEMMA ReportedHave ==
  ASSUME OnDevice, AsyncInv, [Next]_vars, NEW r \in Reqs, Completes(r),
         io[r].type = "write"
  PROVE  retval'[r] = -1 \/ retval'[r] = Have(r)
<1>1. Flying(r)
  BY DEF Completes, Flying
<1>2. /\ FcnOK /\ TaskOK(r)
      /\ io[r].type = IF stage[r] = "blk_read_done" THEN "read" ELSE "write"
  BY <1>1, FlyFacts
<1>3. stage[r] # "blk_read_done"
  BY <1>2
<1>4. CASE GiveUp(r)
  <2>1. retval'[r] = retval[r]
    BY <1>4 DEF GiveUp
  <2>2. CASE stage[r] \in {"blk_read_first_block_done", "blk_write_full_blocks_done"}
    BY <1>1, <1>2, <2>1, <2>2 DEF TaskOK, FirstTask, FullTask
  <2>3. CASE stage[r] \in {"blk_read_last_block_done", "blk_write_last_block_done"}
    <3>1. LastTask(r)
      BY <1>1, <1>2, <2>3 DEF TaskOK
    <3>2. ~(cmd[r].op = "write" /\ resp[r] = "ok")
      <4>1. stage[r] = "blk_read_last_block_done" => cmd[r].op = "read"
        BY <1>1, <1>2 DEF TaskOK
      <4>2. stage[r] = "blk_write_last_block_done" => resp[r] = "error"
        BY <1>4 DEF GiveUp
      <4> QED BY <2>3, <4>1, <4>2
    <3>3. Have(r) = io[r].nbytes - To(r)
      BY <2>3, <3>2 DEF Have
    <3> QED BY <2>1, <3>1, <3>3 DEF LastTask
  <2> QED BY <1>4, <2>2, <2>3 DEF GiveUp, WriteStages
<1>5. CASE WriteFullComplete(r) \/ WriteFullGiveUp(r)
  <2>1. /\ stage[r] = "blk_write_full_blocks_done" /\ resp[r] = "ok"
        /\ retval'[r] = UserBytes(r)
    BY <1>2, <1>5 DEF WriteFullComplete, WriteFullGiveUp, Callback, FcnOK
  <2>2. cmd[r].op = "write"
    BY <1>1, <1>2, <2>1 DEF TaskOK, FullTask
  <2> QED BY <2>1, <2>2 DEF Have, Goal
<1>6. CASE blk_write_last_block_done(r)
  <2>1. /\ stage[r] = "blk_write_last_block_done" /\ resp[r] = "ok"
        /\ retval'[r] = io[r].nbytes
    BY <1>6, LastCount DEF blk_write_last_block_done, Callback
  <2>2. cmd[r].op = "write"
    BY <1>1, <1>2, <2>1 DEF TaskOK
  <2> QED BY <2>1, <2>2 DEF Have, Goal
<1>7. ~ReadFails(r) /\ ~blk_read_done(r)
  BY <1>3 DEF ReadFails, blk_read_done, Callback
<1> QED BY <1>4, <1>5, <1>6, <1>7, WhoCompletes

(* The bytes that a write reports are on the device when it completes,     *)
(* also when a later part of it failed, for every range and any number of  *)
(* requests in flight.                                                     *)
THEOREM ReportedSafe == ASSUME OnDevice PROVE Spec => Reported
<1> DEFINE A == \A r \in Reqs :
                  Completes(r) /\ io[r].type = "write" =>
                    \A k \in 0 .. retval'[r] - 1 :
                      disk[io[r].offset + k] = <<r, k>>
<1>1. OnDevice /\ AsyncInv /\ [Next]_vars => [A]_vars
  <2> SUFFICES ASSUME OnDevice, AsyncInv, [Next]_vars, NEW r \in Reqs, Completes(r),
                      io[r].type = "write", NEW k \in 0 .. retval'[r] - 1
               PROVE  disk[io[r].offset + k] = <<r, k>>
    OBVIOUS
  <2>1. retval'[r] # -1
    <3>1. \A x \in 0 .. -1 - 1 : FALSE
      OBVIOUS
    <3> QED BY <3>1
  <2>2. k \in 0 .. Have(r) - 1
    BY <2>1, ReportedHave
  <2>3. HaveOK(r) /\ Flying(r) /\ r \notin clash
    BY DEF AsyncInv, Completes, Flying
  <2> QED BY <2>2, <2>3 DEF HaveOK
<1> QED BY <1>1, AsyncInvariant, PTL DEF Spec, Reported

(* What a read has put in the user's buffer. *)
LEMMA ReadGot ==
  ASSUME AsyncInv, NEW r \in Reqs, blk_read_done(r), r \notin clash,
         NEW k \in 0 .. retval'[r] - 1
  PROVE  got'[r][k] = disk[io[r].offset + k]
<1>1. Flying(r) /\ stage[r] = "blk_read_done" /\ resp[r] = "ok"
  BY DEF blk_read_done, Callback, Flying, InFlight, WriteStages
<1>2. /\ FcnOK /\ TaskOK(r) /\ DataOK(r) /\ CoverOK(r)
      /\ io[r] \in Requests /\ InRange(io[r])
  BY <1>1, FlyFacts
<1>3. ReadTask(r)
  BY <1>1, <1>2 DEF TaskOK
<1>4. retval'[r] = Clip(io[r])
  BY ReadCount
<1>5. PICK c \in Nat, o \in Nat : c = Clip(io[r]) /\ o = io[r].offset
  BY <1>2, RequestFacts DEF InRange
<1>6. k \in 0 .. c - 1 /\ c > 0 /\ k \in Nat
  BY <1>4, <1>5
<1>7. PICK S \in Nat, Z \in Nat, f \in Nat :
        /\ S = Start(r) /\ Z = Size(r) /\ f = From(r) /\ S + f = o /\ f + c <= Z
  BY <1>2, <1>3, <1>5, <1>6 DEF ReadTask, CoverOK
<1>8. UserBytes(r) = c /\ c <= Z /\ cmd[r].nblk * BlockSize = Z
  BY <1>3, <1>5, <1>7 DEF ReadTask, Size
<1>9. Least(UserBytes(r), cmd[r].nblk * BlockSize) = c
  BY <1>8 DEF Least
<1>10. got'[r][k] = data[r][f + k]
  <2>1. got'[r] = [x \in 0 .. c - 1 |->
                     IF From(r) + x < cmd[r].nblk * BlockSize
                       THEN ReadByte(r, x) ELSE NULL]
    BY <1>2, <1>9 DEF blk_read_done, FcnOK
  <2>2. f + k < Z
    BY <1>6, <1>7
  <2>3. From(r) + k < cmd[r].nblk * BlockSize
    BY <1>7, <1>8, <2>2, Zenon
  <2>4. got'[r][k] = ReadByte(r, k)
    BY <1>6, <2>1, <2>3
  <2> QED BY <1>7, <2>4 DEF ReadByte
<1>11. cmd[r].op = "read"
  BY <1>3 DEF ReadTask
<1>12. f + k \in 0 .. Size(r) - 1 /\ S + (f + k) = o + k
  BY <1>6, <1>7
<1>13. Copy(r, data[r][f + k], Start(r) + (f + k))
  BY <1>1, <1>2, <1>11, <1>12 DEF DataOK
<1>14. data[r][f + k] = disk[o + k]
  BY <1>7, <1>12, <1>13 DEF Copy
<1> QED BY <1>5, <1>10, <1>14

(* The bytes that a read reports are those the device holds at its offset  *)
(* when it completes, unless a write of one of its blocks was in flight.   *)
THEOREM ReadSafe == ASSUME OnDevice PROVE Spec => ReadReturned
<1> DEFINE A == \A r \in Reqs :
                  Completes(r) /\ io[r].type = "read" =>
                    \A k \in 0 .. retval'[r] - 1 :
                      got'[r][k] = disk[io[r].offset + k]
<1>1. OnDevice /\ AsyncInv /\ [Next]_vars => [A]_vars
  <2> SUFFICES ASSUME OnDevice, AsyncInv, [Next]_vars, NEW r \in Reqs, Completes(r),
                      io[r].type = "read", NEW k \in 0 .. retval'[r] - 1
               PROVE  got'[r][k] = disk[io[r].offset + k]
    OBVIOUS
  <2>1. Flying(r) /\ r \notin clash
    BY DEF Completes, Flying
  <2>2. FcnOK /\ stage[r] = "blk_read_done"
    BY <2>1, FlyFacts
  <2>3. GiveUp(r) \/ ReadFails(r) \/ blk_read_done(r) \/ WriteFullComplete(r)
        \/ WriteFullGiveUp(r) \/ blk_write_last_block_done(r)
    BY WhoCompletes
  <2>4. ReadFails(r) \/ blk_read_done(r)
    BY <2>2, <2>3 DEF GiveUp, WriteStages, WriteFullComplete, WriteFullGiveUp,
                      blk_write_last_block_done, Callback
  <2>5. ~ReadFails(r)
    <3> SUFFICES ASSUME ReadFails(r) PROVE FALSE
      OBVIOUS
    <3>1. retval'[r] = -1
      BY <2>2 DEF ReadFails, FcnOK
    <3>2. k \in 0 .. -1 - 1
      BY <3>1
    <3> QED BY <3>2
  <2> QED BY <2>1, <2>4, <2>5, ReadGot
<1> QED BY <1>1, AsyncInvariant, PTL DEF Spec, ReadReturned

(* A write command changes only bytes of its own request; where requests   *)
(* meet on a block it may put back an older byte, never one that belongs   *)
(* elsewhere.                                                              *)
THEOREM WellPlacedSafe == ASSUME OnDevice PROVE Spec => WellPlaced
<1> DEFINE A == \A b \in DOMAIN disk : disk'[b] # disk[b] =>
                  \E r \in Reqs :
                    /\ stage[r] \in WriteStages /\ resp'[r] # resp[r]
                    /\ b \div BlockSize \in Blocks(io[r])
                    /\ \/ r \in clash /\ BelongsAt(disk'[b], b)
                       \/ /\ b \in io[r].offset .. End(r) - 1
                          /\ disk'[b] = <<r, b - io[r].offset>>
<1>1. OnDevice /\ AsyncInv /\ [Next]_vars => [A]_vars
  <2> SUFFICES ASSUME OnDevice, AsyncInv, [Next]_vars, NEW b \in DOMAIN disk,
                      disk'[b] # disk[b]
               PROVE  \E r \in Reqs : MayChange(r, b)
    BY DEF MayChange
  <2>1. b \in 0 .. Capacity - 1
    BY DEF AsyncInv, FcnOK
  <2>2. ASSUME NEW r \in Reqs, Complete(r) \/ Device(r)
        PROVE  MayChange(r, b)
    BY <2>1, <2>2, EveryStep DEF StepOK
  <2>3. ASSUME NEW r \in Reqs, NEW q \in Requests, Submit(r, q)
        PROVE  FALSE
    BY <2>3 DEF Submit, Refuse, SubmitEmpty, SubmitRead, SubmitWriteUnaligned,
                SubmitWriteBlocks, SubmitWriteTail, Accept
  <2>4. CASE UNCHANGED vars
    BY <2>4 DEF vars
  <2> QED BY <2>2, <2>3, <2>4 DEF Next
<1> QED BY <1>1, AsyncInvariant, PTL DEF Spec, WellPlaced
=============================================================================
