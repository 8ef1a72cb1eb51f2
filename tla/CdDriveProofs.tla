--------------------------- MODULE CdDriveProofs ---------------------------
(***************************************************************************)
(* Proofs about the FIFO of the SCSI target, for any number of cells and   *)
(* any writer and reader; then about the path from the drive to it, for    *)
(* any commands, and any program, host and KRAM.                           *)
(***************************************************************************)
EXTENDS CdDrivePath, SequenceTheorems, FiniteSetTheorems, TLAPS

-----------------------------------------------------------------------------
(* The arithmetic of the ring.                                             *)

LEMMA AfterType == \A p \in Pointer : After(p) \in Pointer
BY FifoAssumption DEF Pointer, After

LEMMA CellType == \A p \in Pointer : Cell(p) \in 0 .. DEPTH - 1
BY FifoAssumption DEF Pointer, Cell

LEMMA OppositeType == \A p \in Pointer : Opposite(p) \in Pointer
BY FifoAssumption DEF Pointer, Opposite

LEMMA DistanceType ==
  \A p, q \in Pointer : Distance(p, q) \in 0 .. 2 * DEPTH - 1
BY FifoAssumption DEF Pointer, Distance

(* Seen from p, a step of q takes it one further, unless it comes to p.    *)
LEMMA DistanceAfter ==
  \A p, q \in Pointer :
    Distance(p, q) < 2 * DEPTH - 1 => Distance(p, After(q)) = Distance(p, q) + 1
BY FifoAssumption DEF Pointer, Distance, After

(* Three pointers in order: distances add up.                              *)
LEMMA DistanceSum ==
  \A p, q, r \in Pointer :
    Distance(p, q) <= Distance(p, r) => Distance(q, r) = Distance(p, r) - Distance(p, q)
BY FifoAssumption DEF Pointer, Distance

(* Opposite(p) is the one pointer DEPTH ahead of p, and p the one at 0.    *)
LEMMA DistanceOpposite ==
  \A p, q \in Pointer : Distance(p, q) = DEPTH <=> q = Opposite(p)
BY FifoAssumption DEF Pointer, Distance, Opposite

LEMMA DistanceSame ==
  \A p, q, r \in Pointer : Distance(p, q) = Distance(p, r) <=> q = r
BY FifoAssumption DEF Pointer, Distance

-----------------------------------------------------------------------------
(* A clock keeps pointers and flags in order, whatever the data.           *)

LEMMA PointersStep ==
  ASSUME PointersOK, NEW WINC, NEW WDATA, NEW RINC, FifoClock(WINC, WDATA, RINC)
  PROVE  PointersOK'
<1>1. wbinnext(WINC) \in Pointer /\ rbinnext(RINC) \in Pointer
  BY AfterType DEF PointersOK, wbinnext, rbinnext
<1>2. QED
  BY <1>1 DEF PointersOK, FifoClock

LEMMA OrderStep ==
  ASSUME PInv, NEW WINC, NEW WDATA, NEW RINC, FifoClock(WINC, WDATA, RINC)
  PROVE  PInv'
<1> DEFINE from(p) == Distance(wq2_rptr, p)
           w == wbinnext(WINC)
           r == rbinnext(RINC)
<1>1. PointersOK'
  BY PointersStep DEF PInv
<1>2. /\ {wbin, rbin, wq1_rptr, wq2_rptr, rq1_wptr, rq2_wptr} \subseteq Pointer
      /\ w \in Pointer /\ r \in Pointer
      /\ wbin' = w /\ rbin' = r
  BY <1>1 DEF PInv, PointersOK, FifoClock
<1>3. /\ from(wq1_rptr) <= from(rbin)
      /\ from(rbin) <= from(rq2_wptr)
      /\ from(rq2_wptr) <= from(rq1_wptr)
      /\ from(rq1_wptr) <= from(wbin)
      /\ from(wbin) <= DEPTH
      /\ ~REMPTY => from(rbin) < from(rq2_wptr)
      /\ ~WFULL => from(wbin) < DEPTH
  BY DEF PInv, InOrder
<1>4. \A p \in Pointer : from(p) \in 0 .. 2 * DEPTH - 1
  BY <1>2, DistanceType
<1> HIDE DEF from, w, r
\* Each pointer steps by one at most, and not past the one it follows.
<1>5. from(rbin) <= from(r) /\ from(r) <= from(rq2_wptr)
  <2>1. CASE RINC /\ ~REMPTY
    <3>1. r = After(rbin)
      BY <2>1 DEF r, rbinnext
    <3>2. from(r) = from(rbin) + 1
      BY <1>2, <1>3, <1>4, <2>1, <3>1, DistanceAfter, FifoAssumption DEF from
    <3>3. QED
      BY <1>2, <1>3, <1>4, <2>1, <3>2, FifoAssumption
  <2>2. CASE ~(RINC /\ ~REMPTY)
    <3>1. r = rbin
      BY <2>2 DEF r, rbinnext
    <3>2. QED
      BY <1>2, <1>3, <1>4, <3>1, FifoAssumption
  <2>3. QED
    BY <2>1, <2>2
<1>6. from(wbin) <= from(w) /\ from(w) <= DEPTH
  <2>1. CASE WINC /\ ~WFULL
    <3>1. w = After(wbin)
      BY <2>1 DEF w, wbinnext
    <3>2. from(w) = from(wbin) + 1
      BY <1>2, <1>3, <1>4, <2>1, <3>1, DistanceAfter, FifoAssumption DEF from
    <3>3. QED
      BY <1>2, <1>3, <1>4, <2>1, <3>2, FifoAssumption
  <2>2. CASE ~(WINC /\ ~WFULL)
    <3>1. w = wbin
      BY <2>2 DEF w, wbinnext
    <3>2. QED
      BY <1>2, <1>3, <1>4, <3>1, FifoAssumption
  <2>3. QED
    BY <2>1, <2>2
\* The flags compare with what the synchronizers showed before the clock.
<1>7. ~REMPTY' => from(r) < from(rq2_wptr)
  <2>1. ~REMPTY' => r # rq2_wptr
    BY DEF FifoClock, r
  <2>2. from(r) = from(rq2_wptr) => r = rq2_wptr
    BY <1>2, DistanceSame DEF from
  <2>3. QED
    BY <1>2, <1>4, <1>5, <2>1, <2>2, FifoAssumption
<1>8. ~WFULL' => from(w) < DEPTH
  <2>1. ~WFULL' => w # Opposite(wq2_rptr)
    BY DEF FifoClock, w
  <2>2. from(w) = DEPTH => w = Opposite(wq2_rptr)
    BY <1>2, DistanceOpposite DEF from
  <2>3. QED
    BY <1>2, <1>4, <1>6, <2>1, <2>2, FifoAssumption
\* wq2_rptr moves to wq1_rptr, the hindmost of the others.
<1>9. \A p \in Pointer :
        from(wq1_rptr) <= from(p) => Distance(wq1_rptr, p) = from(p) - from(wq1_rptr)
  BY <1>2, DistanceSum DEF from
<1>10. wq2_rptr' = wq1_rptr /\ wq1_rptr' = rbin /\ rq2_wptr' = rq1_wptr /\ rq1_wptr' = wbin
  BY DEF FifoClock
<1>11. InOrder'
  <2> DEFINE new(p) == from(p) - from(wq1_rptr)
  <2>1. /\ Distance(wq2_rptr', wq1_rptr') = new(rbin)
        /\ Distance(wq2_rptr', rbin') = new(r)
        /\ Distance(wq2_rptr', rq2_wptr') = new(rq1_wptr)
        /\ Distance(wq2_rptr', rq1_wptr') = new(wbin)
        /\ Distance(wq2_rptr', wbin') = new(w)
    BY <1>2, <1>3, <1>4, <1>5, <1>6, <1>9, <1>10, FifoAssumption
  <2>2. /\ new(rbin) <= new(r)
        /\ new(r) <= new(rq1_wptr)
        /\ new(rq1_wptr) <= new(wbin)
        /\ new(wbin) <= new(w)
        /\ new(w) <= DEPTH
        /\ ~REMPTY' => new(r) < new(rq1_wptr)
        /\ ~WFULL' => new(w) < DEPTH
    BY <1>2, <1>3, <1>4, <1>5, <1>6, <1>7, <1>8, FifoAssumption
  <2> HIDE DEF new
  <2>3. QED
    BY <2>1, <2>2 DEF InOrder
<1>12. QED
  BY <1>1, <1>11 DEF PInv

LEMMA PInvInit == FifoInit => PInv
<1> SUFFICES ASSUME FifoInit PROVE PInv
  OBVIOUS
<1>1. PointersOK
  <2>1. 0 \in Pointer
    BY FifoAssumption DEF Pointer
  <2>2. QED
    BY <2>1 DEF FifoInit, PointersOK
<1>2. Distance(0, 0) = 0
  BY DEF Distance
<1>3. InOrder
  BY <1>2, FifoAssumption DEF FifoInit, InOrder
<1>4. QED
  BY <1>1, <1>3 DEF PInv

(* A clock in which no byte is written does not fill the FIFO.             *)
LEMMA FullOnlyByWrite ==
  ASSUME PInv, NEW WINC, NEW WDATA, NEW RINC, FifoClock(WINC, WDATA, RINC),
         ~WFULL, ~WINC
  PROVE  ~WFULL'
<1>1. wbinnext(WINC) = wbin
  BY DEF wbinnext
<1>2. WFULL' = (wbin = Opposite(wq2_rptr))
  BY <1>1 DEF FifoClock
<1>3. Distance(wq2_rptr, wbin) < DEPTH
  BY DEF PInv, InOrder
<1>4. wbin \in Pointer /\ wq2_rptr \in Pointer
  BY DEF PInv, PointersOK
<1>5. wbin # Opposite(wq2_rptr)
  BY <1>3, <1>4, DistanceOpposite, FifoAssumption
<1>6. QED
  BY <1>2, <1>5

-----------------------------------------------------------------------------
(* The cells, and the bytes in them.                                       *)

LEMMA MemStep ==
  ASSUME FifoTypeOK, NEW WINC, NEW WDATA \in Byte, NEW RINC, FifoClock(WINC, WDATA, RINC)
  PROVE  mem' \in [0 .. DEPTH - 1 -> Byte]
<1>1. WrittenMem(WINC, WDATA) \in [0 .. DEPTH - 1 -> Byte]
  BY DEF WrittenMem, FifoTypeOK
<1>2. QED
  BY <1>1 DEF FifoClock

LEMMA TypeSplit == FifoTypeOK <=> mem \in [0 .. DEPTH - 1 -> Byte] /\ PointersOK
BY DEF FifoTypeOK, PointersOK

LEMMA OrderGivesFlags == PInv => FlagsSafe /\ Distance(rbin, wbin) <= DEPTH
<1> SUFFICES ASSUME PInv PROVE FlagsSafe /\ Distance(rbin, wbin) <= DEPTH
  OBVIOUS
<1> DEFINE from(p) == Distance(wq2_rptr, p)
<1>1. {wbin, rbin, wq2_rptr, wq1_rptr, rq2_wptr, rq1_wptr} \subseteq Pointer
  BY DEF PInv, PointersOK
<1>2. /\ from(wq1_rptr) <= from(rbin)
      /\ from(rbin) <= from(rq2_wptr)
      /\ from(rq2_wptr) <= from(rq1_wptr)
      /\ from(rq1_wptr) <= from(wbin)
      /\ from(wbin) <= DEPTH
      /\ ~REMPTY => from(rbin) < from(rq2_wptr)
      /\ ~WFULL => from(wbin) < DEPTH
  BY DEF PInv, InOrder
<1>3. \A p \in Pointer : from(p) \in 0 .. 2 * DEPTH - 1
  BY <1>1, DistanceType
<1>4. Distance(rbin, wbin) = from(wbin) - from(rbin)
  <2>1. from(rbin) <= from(wbin)
    BY <1>1, <1>2, <1>3, FifoAssumption
  <2>2. QED
    BY <1>1, <2>1, DistanceSum
<1> HIDE DEF from
<1>5. QED
  BY <1>1, <1>2, <1>3, <1>4, FifoAssumption DEF FlagsSafe

-----------------------------------------------------------------------------
(* The stored bytes as a sequence.                                         *)

LEMMA AheadType == \A p \in Pointer, n \in 0 .. DEPTH : Ahead(p, n) \in Pointer
BY FifoAssumption DEF Pointer, Ahead

LEMMA AheadAfter ==
  \A p \in Pointer, n \in 0 .. DEPTH - 1 : Ahead(After(p), n) = Ahead(p, n + 1)
BY FifoAssumption DEF Pointer, Ahead, After

(* Fewer than DEPTH ahead of p, a cell is not the one at q's distance.     *)
LEMMA OtherCell ==
  \A p, q \in Pointer, n \in Nat :
    n < Distance(p, q) /\ Distance(p, q) < DEPTH => Cell(Ahead(p, n)) # Cell(q)
BY FifoAssumption DEF Pointer, Ahead, Distance, Cell

LEMMA LastCell ==
  \A p, q \in Pointer : Distance(p, q) < DEPTH => Ahead(p, Distance(p, q)) = q
BY FifoAssumption DEF Pointer, Ahead, Distance

(* What lies in m from pointer p, n bytes of it.                           *)
Slice(m, p, n) == [i \in 1 .. n |-> m[Cell(Ahead(p, i - 1))]]

LEMMA StoredIsSlice == Stored = Slice(mem, rbin, Distance(rbin, wbin))
BY DEF Stored, Slice

LEMMA SliceType ==
  ASSUME NEW m \in [0 .. DEPTH - 1 -> Byte], NEW p \in Pointer, NEW n \in 0 .. DEPTH
  PROVE  Slice(m, p, n) \in Seq(Byte) /\ Len(Slice(m, p, n)) = n
<1>1. \A i \in 1 .. n : m[Cell(Ahead(p, i - 1))] \in Byte
  <2> TAKE i \in 1 .. n
  <2>1. i - 1 \in 0 .. DEPTH
    BY FifoAssumption
  <2>2. Cell(Ahead(p, i - 1)) \in 0 .. DEPTH - 1
    BY <2>1, AheadType, CellType
  <2>3. QED
    BY <2>2
<1>2. n \in Nat
  BY FifoAssumption
<1>3. Slice(m, p, n) \in [1 .. n -> Byte]
  BY <1>1 DEF Slice
<1>4. QED
  BY <1>2, <1>3

(* Without its first byte, a slice begins one pointer later.               *)
LEMMA SliceTail ==
  ASSUME NEW m \in [0 .. DEPTH - 1 -> Byte], NEW p \in Pointer, NEW n \in 1 .. DEPTH
  PROVE  Slice(m, p, n) # <<>> /\ Tail(Slice(m, p, n)) = Slice(m, After(p), n - 1)
<1> DEFINE s == Slice(m, p, n)
           t == Slice(m, After(p), n - 1)
<1>1. n \in 0 .. DEPTH /\ n - 1 \in 0 .. DEPTH /\ After(p) \in Pointer
  BY AfterType, FifoAssumption
<1>2. /\ s \in Seq(Byte) /\ Len(s) = n
      /\ t \in Seq(Byte) /\ Len(t) = n - 1
  BY <1>1, SliceType
<1>3. \A i \in 1 .. n - 1 : t[i] = s[i + 1]
  <2> TAKE i \in 1 .. n - 1
  <2>1. i - 1 \in 0 .. DEPTH - 1 /\ i \in Int
    BY FifoAssumption
  <2>2. Ahead(After(p), i - 1) = Ahead(p, i)
    BY <2>1, AheadAfter
  <2>3. i + 1 \in 1 .. n /\ (i + 1) - 1 = i
    BY <1>1, FifoAssumption
  <2>4. QED
    BY <2>2, <2>3 DEF Slice
<1> HIDE DEF s, t
<1>4. s # <<>>
  BY <1>1, <1>2, FifoAssumption
<1>5. Tail(s) \in Seq(Byte) /\ Len(Tail(s)) = n - 1 /\ \A i \in 1 .. n - 1 : Tail(s)[i] = s[i + 1]
  BY <1>1, <1>2, <1>4, FifoAssumption
<1>6. Tail(s) = t
  BY <1>2, <1>3, <1>5, SeqEqual
<1>7. QED
  BY <1>4, <1>6 DEF s, t

(* A byte written where the slice ends lengthens it by that byte.          *)
LEMMA SliceAppend ==
  ASSUME NEW m \in [0 .. DEPTH - 1 -> Byte], NEW p \in Pointer, NEW q \in Pointer,
         NEW b \in Byte, Distance(p, q) < DEPTH
  PROVE  Slice([m EXCEPT ![Cell(q)] = b], p, Distance(p, q) + 1)
           = Append(Slice(m, p, Distance(p, q)), b)
<1> DEFINE n == Distance(p, q)
           mm == [m EXCEPT ![Cell(q)] = b]
           s == Slice(m, p, n)
           t == Slice(mm, p, n + 1)
<1>1. n \in 0 .. DEPTH /\ n + 1 \in 0 .. DEPTH /\ n \in Nat
  BY DistanceType, FifoAssumption
<1>2. mm \in [0 .. DEPTH - 1 -> Byte] /\ Cell(q) \in 0 .. DEPTH - 1
  BY CellType
<1> HIDE DEF n
<1>3. /\ s \in Seq(Byte) /\ Len(s) = n
      /\ t \in Seq(Byte) /\ Len(t) = n + 1
  BY <1>1, <1>2, SliceType
<1>4. \A i \in 1 .. n : t[i] = s[i]
  <2> TAKE i \in 1 .. n
  <2>1. i - 1 \in Nat /\ i - 1 < n /\ i - 1 \in 0 .. DEPTH /\ i \in 1 .. n + 1
    BY <1>1, FifoAssumption
  <2>2. Cell(Ahead(p, i - 1)) # Cell(q)
    BY <2>1, OtherCell DEF n
  <2>3. Cell(Ahead(p, i - 1)) \in 0 .. DEPTH - 1
    BY <2>1, AheadType, CellType
  <2>4. mm[Cell(Ahead(p, i - 1))] = m[Cell(Ahead(p, i - 1))]
    BY <2>2, <2>3
  <2>5. QED
    BY <2>1, <2>4 DEF Slice
<1>5. t[n + 1] = b
  <2>1. Ahead(p, (n + 1) - 1) = q
    <3>1. (n + 1) - 1 = n
      BY <1>1
    <3>2. QED
      BY <3>1, LastCell DEF n
  <2>2. n + 1 \in 1 .. n + 1
    BY <1>1
  <2>3. QED
    BY <1>2, <2>1, <2>2 DEF Slice
<1> HIDE DEF s, t
<1>6. /\ Append(s, b) \in Seq(Byte) /\ Len(Append(s, b)) = n + 1
      /\ \A i \in 1 .. n : Append(s, b)[i] = s[i]
      /\ Append(s, b)[n + 1] = b
  BY <1>1, <1>3
<1>7. \A i \in 1 .. n + 1 : t[i] = Append(s, b)[i]
  <2> TAKE i \in 1 .. n + 1
  <2>1. i \in 1 .. n \/ i = n + 1
    BY <1>1
  <2>2. QED
    BY <2>1, <1>4, <1>5, <1>6
<1>8. t = Append(s, b)
  BY <1>3, <1>6, <1>7, SeqEqual
<1>9. QED
  BY <1>8 DEF s, t, n, mm

(* One clock of the FIFO is one step of the queue.                         *)
LEMMA QueueStep ==
  ASSUME FifoTypeOK, InOrder,
         NEW WINC \in BOOLEAN, NEW WDATA \in Byte, NEW RINC \in BOOLEAN,
         FifoClock(WINC, WDATA, RINC)
  PROVE  Queue!Next
<1> DEFINE take == RINC /\ ~REMPTY
           put == WINC /\ ~WFULL
           n == Distance(rbin, wbin)
           r == rbinnext(RINC)
           k == Distance(r, wbin)
<1>1. PInv
  BY TypeSplit DEF PInv
<1>2. PInv' /\ mem' \in [0 .. DEPTH - 1 -> Byte]
  BY <1>1, OrderStep, MemStep
<1>3. /\ mem \in [0 .. DEPTH - 1 -> Byte]
      /\ wbin \in Pointer /\ rbin \in Pointer /\ r \in Pointer
      /\ wbin' \in Pointer /\ rbin' = r
      /\ WFULL \in BOOLEAN /\ REMPTY \in BOOLEAN
  <2>1. rbin' \in Pointer /\ wbin' \in Pointer
    BY <1>2 DEF PInv, PointersOK
  <2>2. rbin' = r
    BY DEF FifoClock
  <2>3. QED
    BY <2>1, <2>2 DEF FifoTypeOK
<1>4. /\ n \in 0 .. DEPTH
      /\ take => n > 0
      /\ put => n < DEPTH
  <2>1. FlagsSafe /\ n <= DEPTH
    BY <1>1, OrderGivesFlags
  <2>2. n \in 0 .. 2 * DEPTH - 1
    BY <1>3, DistanceType
  <2> HIDE DEF n
  <2>3. n \in 0 .. DEPTH
    BY <2>1, <2>2, FifoAssumption
  <2>4. (take => n > 0) /\ (put => n < DEPTH)
    BY <2>1 DEF FlagsSafe, n
  <2>5. QED
    BY <2>3, <2>4
<1> HIDE DEF r
\* What is left when the head is taken.
<1>5. /\ k = IF take THEN n - 1 ELSE n
      /\ Queue!Rest(take) = Slice(mem, r, k)
  <2>1. CASE take
    <3>1. r = After(rbin)
      BY <2>1 DEF r, rbinnext
    <3>2. k = n - 1
      BY <1>3, <1>4, <2>1, <3>1, FifoAssumption DEF Distance, After, Pointer
    <3>3. n \in 1 .. DEPTH
      BY <1>4, <2>1, FifoAssumption
    <3> HIDE DEF n, k
    <3>4. Tail(Slice(mem, rbin, n)) = Slice(mem, After(rbin), n - 1)
      BY <1>3, <3>3, SliceTail
    <3>5. QED
      BY <2>1, <3>1, <3>2, <3>4, StoredIsSlice DEF Queue!Rest, n
  <2>2. CASE ~take
    <3>1. r = rbin
      BY <2>2 DEF r, rbinnext
    <3>2. QED
      BY <2>2, <3>1, StoredIsSlice DEF Queue!Rest
  <2>3. QED
    BY <2>1, <2>2
<1>6. k \in 0 .. DEPTH /\ (put => k < DEPTH)
  BY <1>4, <1>5, FifoAssumption
\* What the write adds.
<1>7. Stored' = IF put THEN Append(Slice(mem, r, k), WDATA) ELSE Slice(mem, r, k)
  <2>1. Stored' = Slice(mem', r, Distance(r, wbin'))
    BY <1>3, StoredIsSlice DEF Stored, Slice
  <2>2. CASE put
    <3>1. wbin' = After(wbin) /\ mem' = [mem EXCEPT ![Cell(wbin)] = WDATA]
      BY <2>2 DEF FifoClock, wbinnext, WrittenMem
    <3>2. Distance(r, After(wbin)) = k + 1
      <4>1. k < 2 * DEPTH - 1
        BY <1>6, <2>2, FifoAssumption
      <4>2. QED
        BY <1>3, <4>1, DistanceAfter
    <3>3. Slice([mem EXCEPT ![Cell(wbin)] = WDATA], r, k + 1) = Append(Slice(mem, r, k), WDATA)
      BY <1>3, <1>6, <2>2, SliceAppend
    <3>4. QED
      BY <2>1, <2>2, <3>1, <3>2, <3>3
  <2>3. CASE ~put
    <3>1. wbin' = wbin /\ mem' = mem
      BY <2>3 DEF FifoClock, wbinnext, WrittenMem
    <3>2. QED
      BY <2>1, <2>3, <3>1
  <2>4. QED
    BY <2>2, <2>3
<1>8. take => Stored # <<>>
  <2>1. ASSUME take PROVE Stored # <<>>
    <3>1. n \in 1 .. DEPTH
      BY <1>4, <2>1, FifoAssumption
    <3> HIDE DEF n
    <3>2. Slice(mem, rbin, n) # <<>>
      BY <1>3, <3>1, SliceTail
    <3>3. QED
      BY <3>2, StoredIsSlice DEF n
  <2>2. QED
    BY <2>1
<1>9. put => Len(Stored) < DEPTH
  <2>1. Len(Slice(mem, rbin, n)) = n
    BY <1>3, <1>4, SliceType
  <2>2. QED
    BY <1>4, <2>1, StoredIsSlice
<1> HIDE DEF k
<1>10. Queue!Clock(take, put, WDATA)
  BY <1>5, <1>7, <1>8, <1>9 DEF Queue!Clock
<1>11. take \in BOOLEAN /\ put \in BOOLEAN
  OBVIOUS
<1> HIDE DEF take, put
<1>12. QED
  BY <1>10, <1>11 DEF Queue!Next

LEMMA QueueInit == FifoInit => Queue!Init
<1> SUFFICES ASSUME FifoInit PROVE Stored = <<>>
  BY DEF Queue!Init
<1>1. Distance(rbin, wbin) = 0
  BY DEF FifoInit, Distance
<1>2. Stored = Slice(mem, rbin, 0)
  BY <1>1, StoredIsSlice
<1>3. 1 .. 0 = {}
  OBVIOUS
<1>4. QED
  BY <1>2, <1>3 DEF Slice

(* UNCHANGED fifovars leaves the queue alone.                              *)
LEMMA QueueStutter == UNCHANGED fifovars => UNCHANGED Stored
BY DEF fifovars, Stored, Distance, Ahead, Cell

-----------------------------------------------------------------------------
(* What the FIFO does under any writer and any reader.                     *)

LEMMA FifoInductive == FifoSpec => [](FifoTypeOK /\ InOrder)
<1> DEFINE I == FifoTypeOK /\ InOrder
<1>1. FifoInit => I
  <2>1. FifoInit => mem \in [0 .. DEPTH - 1 -> Byte]
    BY FifoAssumption DEF FifoInit
  <2>2. QED
    BY <2>1, PInvInit, TypeSplit DEF PInv
<1>2. I /\ [FifoNext]_fifovars => I'
  <2> SUFFICES ASSUME I, [FifoNext]_fifovars PROVE I'
    OBVIOUS
  <2>1. ASSUME NEW WINC \in BOOLEAN, NEW RINC \in BOOLEAN, NEW WDATA \in Byte,
               FifoClock(WINC, WDATA, RINC)
        PROVE  I'
    <3>1. PInv
      BY TypeSplit DEF PInv
    <3>2. PInv' /\ mem' \in [0 .. DEPTH - 1 -> Byte]
      BY <2>1, <3>1, OrderStep, MemStep
    <3>3. FifoTypeOK'
      BY <3>2 DEF FifoTypeOK, PInv, PointersOK
    <3>4. QED
      BY <3>2, <3>3 DEF PInv
  <2>2. CASE UNCHANGED fifovars
    BY <2>2 DEF fifovars, FifoTypeOK, InOrder, Distance
  <2>3. QED
    BY <2>1, <2>2 DEF FifoNext
<1>3. QED
  BY <1>1, <1>2, PTL DEF FifoSpec

(* Pointers, flags and cells of the FIFO keep to their types (fifo1.v).    *)
THEOREM FifoTypeCorrect == FifoSpec => []FifoTypeOK
BY FifoInductive, PTL

(* The pointers and their old copies trail each other around the ring in   *)
(* order, DEPTH apart at most, for any depth: no pointer overtakes.        *)
THEOREM FifoInOrder == FifoSpec => []InOrder
BY FifoInductive, PTL

(* A flag that is down tells the truth: there is a byte to read, or a free *)
(* cell, although the flag is computed from an old copy of a pointer.      *)
THEOREM FifoFlags == FifoSpec => []FlagsSafe
<1>1. FifoTypeOK /\ InOrder => FlagsSafe
  BY TypeSplit, OrderGivesFlags DEF PInv
<1>2. QED
  BY <1>1, FifoInductive, PTL

(* The FIFO of fifo1.v is a queue of at most DEPTH bytes: whatever is      *)
(* written and read, bytes come out once each and in order.                *)
THEOREM FifoRefinesQueue == FifoSpec => FifoIsQueue
<1>1. FifoInit => Queue!Init
  BY QueueInit
<1>2. FifoTypeOK /\ InOrder /\ [FifoNext]_fifovars => [Queue!Next]_Stored
  <2> SUFFICES ASSUME FifoTypeOK, InOrder, [FifoNext]_fifovars PROVE [Queue!Next]_Stored
    OBVIOUS
  <2>1. CASE FifoNext
    BY <2>1, QueueStep DEF FifoNext
  <2>2. CASE UNCHANGED fifovars
    BY <2>2, QueueStutter
  <2>3. QED
    BY <2>1, <2>2
<1>3. QED
  BY <1>1, <1>2, FifoInductive, PTL DEF FifoSpec, FifoIsQueue, Queue!Spec

-----------------------------------------------------------------------------
(* The path from the drive to the FIFO.                                    *)

(* How writes are paced.  A byte takes three clocks: CD_WR is high in the  *)
(* first, FIFO_WR_REQ in the second, and in the third neither, so that     *)
(* CD_READY is looked at only when no byte is under way.                   *)
Paced ==
  /\ {CD_WR, cd_wr_d, FIFO_WR_REQ} \subseteq BOOLEAN
  /\ CD_WR_OLD = cd_wr_d
  /\ CD_WR => ~cd_wr_d /\ ~FIFO_WR_REQ /\ ~WFULL
  /\ FIFO_WR_REQ => cd_wr_d /\ ~CD_WR /\ ~WFULL

WriteInv == PInv /\ Paced

(* What a clock of the whole path does to the FIFO and to the strobes.     *)
LEMMA TickWrites ==
  ASSUME Next
  PROVE  \E RINC \in BOOLEAN :
           /\ FifoClock(FIFO_WR_REQ, FIFO_D, RINC)
           /\ CD_WR_OLD' = CD_WR /\ cd_wr_d' = CD_WR
           /\ FIFO_WR_REQ' = (IF CD_WR /\ ~CD_WR_OLD THEN ~WFULL ELSE FALSE)
           /\ CD_WR' = (tst = "DATA_IN" /\ ~CD_WR /\ ~cd_wr_d /\ ~WFULL)
<1>1. PICK program \in BOOLEAN, host \in BOOLEAN, M_ACK \in BOOLEAN : Tick(program, host, M_ACK)
  BY DEF Next
<1> DEFINE read == "FIFO_RD_REQ" \in strobes
<1>2. FifoClock(FIFO_WR_REQ, FIFO_D, read) /\ read \in BOOLEAN
  BY <1>1 DEF Tick, TargetClock
<1>3. /\ CD_WR_OLD' = CD_WR
      /\ FIFO_WR_REQ' = (IF CD_WR /\ ~CD_WR_OLD THEN ~WFULL ELSE FALSE)
  BY <1>1 DEF Tick, TargetClock, WriteClock
<1>4. CdWrClock(ToDrive)
  <2>1. DriveClock(ToDrive, sdbuf)
    BY <1>1 DEF Tick
  <2>2. QED
    BY <2>1 DEF DriveClock
<1>5. ToDrive.CD_READY = ~WFULL
  BY DEF ToDrive, CD_READY
<1>6. /\ CD_WR' = (tst = "DATA_IN" /\ ~CD_WR /\ ~cd_wr_d /\ ~WFULL)
      /\ cd_wr_d' = CD_WR
  BY <1>4, <1>5 DEF CdWrClock
<1> HIDE DEF read
<1>7. QED
  BY <1>2, <1>3, <1>6

LEMMA WriteInductive == Spec => []WriteInv
<1>1. Init => WriteInv
  <2> SUFFICES ASSUME Init PROVE PInv /\ Paced
    BY DEF WriteInv
  <2>1. PInv
    BY PInvInit DEF Init
  <2>2. Paced
    BY DEF Init, FifoInit, TargetInit, DriveInit, Paced
  <2>3. QED
    BY <2>1, <2>2
<1>2. WriteInv /\ [Next]_vars => WriteInv'
  <2> SUFFICES ASSUME PInv, Paced, [Next]_vars PROVE PInv' /\ Paced'
    BY DEF WriteInv
  <2>1. CASE Next
    <3>1. PICK RINC \in BOOLEAN :
            /\ FifoClock(FIFO_WR_REQ, FIFO_D, RINC)
            /\ CD_WR_OLD' = CD_WR /\ cd_wr_d' = CD_WR
            /\ FIFO_WR_REQ' = (IF CD_WR /\ ~CD_WR_OLD THEN ~WFULL ELSE FALSE)
            /\ CD_WR' = (tst = "DATA_IN" /\ ~CD_WR /\ ~cd_wr_d /\ ~WFULL)
      BY <2>1, TickWrites
    <3>2. PInv'
      BY <3>1, OrderStep
    <3>3. ~WFULL /\ ~FIFO_WR_REQ => ~WFULL'
      BY <3>1, FullOnlyByWrite
    \* The next CD_WR is decided when nothing is under way ...
    <3>4. CD_WR' => ~cd_wr_d' /\ ~FIFO_WR_REQ' /\ ~WFULL'
      BY <3>1, <3>3 DEF Paced
    \* ... and the byte comes to the FIFO before the next.
    <3>5. FIFO_WR_REQ' => cd_wr_d' /\ ~CD_WR' /\ ~WFULL'
      BY <3>1, <3>3 DEF Paced
    <3>6. {CD_WR', cd_wr_d', FIFO_WR_REQ'} \subseteq BOOLEAN
      BY <3>1 DEF Paced
    <3>7. QED
      BY <3>1, <3>2, <3>4, <3>5, <3>6 DEF Paced
  <2>2. CASE UNCHANGED vars
    BY <2>2 DEF vars, fifovars, targetvars, drivevars, Paced, PInv, PointersOK,
                InOrder, Distance
  <2>3. QED
    BY <2>1, <2>2
<1>3. QED
  BY <1>1, <1>2, PTL DEF Spec

-----------------------------------------------------------------------------
(* No byte the drive writes is dropped at a full FIFO (scsi.v:130,         *)
(* fake_cd.sv:362): CD_READY is old, but nothing can fill the FIFO between *)
(* the clock in which it is read and the two in which the byte travels.    *)
THEOREM NeverDropped == Spec => []NoByteDropped
<1>1. WriteInv => NoByteDropped
  BY DEF WriteInv, Paced, NoByteDropped
<1>2. QED
  BY <1>1, WriteInductive, PTL

-----------------------------------------------------------------------------
(* The path.  First the signals that are high for a clock, by their names, *)
(* and what the records between the components carry.                      *)

(* The name of the one member.                                             *)
LEMMA TheOne ==
  /\ The({}) = "NONE"
  /\ \A x : The({x}) = x
BY DEF The

(* What the name tells of the set: the strobes of the target, ...          *)
LEMMA StrobeIs ==
  ASSUME OneAtOnce
  PROVE  /\ "COMM_OUT" \in strobes <=> strobe = "COMM_OUT"
         /\ "DATA_OUT" \in strobes <=> strobe = "DATA_OUT"
         /\ "MSGOUT_OUT" \in strobes <=> strobe = "MSGOUT_OUT"
         /\ "CD_DATA_END" \in strobes <=> strobe = "CD_DATA_END"
         /\ "FIFO_RD_REQ" \in strobes <=> strobe = "FIFO_RD_REQ"
BY TheOne DEF OneAtOnce, strobe

(* ... the pulses of the drive, ...                                        *)
LEMMA PulseIs ==
  ASSUME OneAtOnce
  PROVE  /\ "cmd_start" \in pulses <=> pulse = "cmd_start"
         /\ "cmd_cont" \in pulses <=> pulse = "cmd_cont"
         /\ "cmd_done" \in pulses <=> pulse = "cmd_done"
         /\ "DOUT_REQ" \in pulses <=> pulse = "DOUT_REQ"
         /\ "STAT_GET" \in pulses <=> pulse = "STAT_GET"
         /\ pulses = {} <=> pulse = "NONE"
         /\ pulse \in {"NONE", "cmd_start", "cmd_cont", "cmd_done", "DOUT_REQ",
                       "STAT_GET"}
BY TheOne DEF OneAtOnce, pulse

(* ... and the pulses of the registers, ...                                *)
LEMMA GivenIs ==
  ASSUME rf \in RegisterFile
  PROVE  /\ "reset_int" \in rf.pulses <=> given = "reset_int"
         /\ "start_dma_rx" \in rf.pulses <=> given = "start_dma_rx"
         /\ "reset_dma_end_int" \in rf.pulses <=> given = "reset_dma_end_int"
         /\ "rxbuf_rd" \notin rf.pulses
         /\ rf.pulses = {} <=> given = "NONE"
<1>1. rf.pulses \in RegPulses
  BY DEF RegisterFile
<1>2. QED
  BY <1>1, TheOne DEF given, RegPulses

(* ... now and in the next clock enable.                                   *)
LEMMA ArmsIs ==
  ASSUME armed \in RegPulses
  PROVE  armed = {} <=> arms = "NONE"
BY TheOne DEF RegPulses, arms

(* The records through which the components see each other.                *)
LEMMA BusFields ==
  /\ Bus.SEL = rf.assert_sel /\ Bus.ATN = rf.assert_atn /\ Bus.RST = rf.assert_rst
  /\ Bus.ACK = ACK /\ Bus.DBI = dout
BY DEF Bus

(* What the drive sees of the target.                                      *)
LEMMA DriveFields ==
  ASSUME OneAtOnce
  PROVE  /\ ToDrive.COMMAND = COMM /\ ToDrive.ATN = rf.assert_atn
         /\ ToDrive.MEDIUM_EMPTY = medium_empty /\ ToDrive.SD_ACK = SD_ACK
         /\ ToDrive.COMM_SEND <=> strobe = "COMM_OUT"
         /\ ToDrive.DOUT_SEND <=> strobe = "DATA_OUT"
         /\ ToDrive.CD_DATA_END <=> strobe = "CD_DATA_END"
         /\ ToDrive.MSGOUT_SEND <=> strobe = "MSGOUT_OUT"
BY StrobeIs DEF ToDrive

(* The phase lines: those of DATAIN are like no others, ...                *)
LEMMA LinesAre ==
  /\ Lines("COMMAND") # Lines("DATAIN") /\ Lines("STATUS") # Lines("DATAIN")
  /\ Lines("MSGIN") # Lines("DATAIN") /\ Lines("MSGOUT") # Lines("DATAIN")
  /\ Lines("DATAOUT") # Lines("DATAIN") /\ Lines("FREE") # Lines("DATAIN")
<1>1. Lines("DATAIN")[2] = FALSE /\ Lines("DATAIN")[3] = TRUE
  BY DEF Lines
<1>2. Lines("COMMAND")[2] = TRUE /\ Lines("STATUS")[2] = TRUE /\ Lines("MSGIN")[2] = TRUE
      /\ Lines("MSGOUT")[2] = TRUE /\ Lines("DATAOUT")[3] = FALSE
      /\ Lines("FREE")[3] = FALSE
  BY DEF Lines
<1>3. QED
  BY <1>1, <1>2

(* ... so the engine that asserts them has the right phase in DATAIN only. *)
LEMMA MatchIs ==
  ASSUME phase \in {"FREE", "COMMAND", "DATAIN", "DATAOUT", "STATUS", "MSGIN", "MSGOUT"},
         rf.assert_lines = Lines("DATAIN")
  PROVE  phase_match(Lines(phase)) <=> phase = "DATAIN"
BY LinesAre DEF phase_match

-----------------------------------------------------------------------------
(* The target: where the bus goes in a clock.                              *)

(* Where the bus goes, and the strobe it gives.                            *)
Moves(sp, ph, x) == SP' = sp /\ phase' = ph /\ strobe' = x

(* From a free bus.                                                        *)
FreeMove ==
  /\ SP = "FREE"
  /\ \/ rf.assert_sel /\ Moves("COMM_BEFOREREQ", "COMMAND", "NONE")
     \/ /\ ~rf.assert_sel /\ rf.assert_atn
        /\ Moves("MSGOUT_START", "MSGOUT", "NONE")
     \/ /\ ~rf.assert_sel /\ ~rf.assert_atn /\ STAT_PEND
        /\ \/ Moves("STAT_START", "STATUS", "NONE") /\ DBO' = StatusByte(STATUS)
              /\ ~STAT_PEND'
           \/ Moves("FREE", phase, "NONE") /\ STAT_PEND'
     \/ /\ ~rf.assert_sel /\ ~rf.assert_atn /\ ~STAT_PEND /\ ~REMPTY
        /\ Moves("DATAIN_START", "DATAIN", "FIFO_RD_REQ") /\ DBO' = RDATA
     \/ /\ ~rf.assert_sel /\ ~rf.assert_atn /\ ~STAT_PEND /\ REMPTY
        /\ \/ DOUT_PEND /\ Moves("DATAOUT_START", "DATAOUT", "NONE") /\ ~DOUT_PEND'
           \/ ~DOUT_PEND /\ Moves("FREE", phase, "NONE")

(* While REQ is up, until ACK comes.                                       *)
StartMove ==
  /\ SP \in Starts
  /\ DBO' = DBO
  /\ \/ ~ACK /\ Moves(SP, phase, "NONE")
     \/ /\ ACK
        /\ \/ SP = "COMM_START" /\ Moves("COMM_END", phase, "NONE")
           \/ SP = "DATAIN_START" /\ Moves("DATAIN_END", phase, "NONE")
           \/ SP = "DATAOUT_START" /\ Moves("DATAOUT_END", phase, "NONE")
           \/ SP = "STAT_START" /\ Moves("STAT_END", phase, "NONE")
           \/ SP = "MSGIN_START" /\ Moves("MSGIN_END", phase, "NONE")
           \/ SP = "MSGOUT_START" /\ Moves("MSGOUT_END", phase, "NONE")

(* And until it goes again.                                                *)
EndMove ==
  /\ SP \in Ends
  /\ \/ ACK /\ Moves(SP, phase, "NONE")
     \/ /\ ~ACK
        /\ \/ SP = "COMM_END" /\ COMM_POS = Length(COMM[0])
                /\ Moves("FREE", "DATAOUT", "COMM_OUT")
           \/ SP = "COMM_END" /\ COMM_POS # Length(COMM[0])
                /\ Moves("COMM_BEFOREREQ", phase, "NONE")
           \/ SP = "DATAIN_END" /\ ~REMPTY /\ Moves("DATAIN_START", phase, "FIFO_RD_REQ")
              /\ DBO' = RDATA
           \/ SP = "DATAIN_END" /\ REMPTY /\ Moves("FREE", phase, "CD_DATA_END")
           \/ SP = "DATAOUT_END" /\ DATA_POS = DATA_LEN
                /\ Moves("FREE", phase, "DATA_OUT")
           \/ SP = "DATAOUT_END" /\ DATA_POS # DATA_LEN
                /\ Moves("DATAOUT_START", phase, "NONE")
           \/ SP = "STAT_END" /\ Moves("STAT_HOLD", phase, "NONE")
           \/ SP = "MSGIN_END" /\ Moves("MSGIN_HOLD", phase, "NONE")
           \/ SP = "MSGOUT_END" /\ rf.assert_atn /\ Moves("MSGOUT_START", phase, "NONE")
           \/ SP = "MSGOUT_END" /\ ~rf.assert_atn /\ Moves("FREE", "FREE", "MSGOUT_OUT")

(* Where the target waits by itself.                                       *)
PauseMove ==
  /\ SP \in {"COMM_BEFOREREQ", "STAT_HOLD", "MSGIN_HOLD"}
  /\ \/ Moves(SP, phase, "NONE")
     \/ SP = "COMM_BEFOREREQ" /\ Moves("COMM_START", phase, "NONE")
     \/ SP = "STAT_HOLD" /\ Moves("MSGIN_START", "MSGIN", "NONE")
     \/ SP = "MSGIN_HOLD" /\ Moves("FREE", "FREE", "NONE")

(* All of them, and what is pending for the drive.                         *)
TargetMove ==
  /\ (REQ' <=> SP' \in Starts)
  /\ \/ /\ rf.assert_rst /\ SP = "FREE" /\ Moves("FREE", "FREE", "NONE")
        /\ STAT_PEND' <=> (STAT_PEND \/ pulse = "STAT_GET")
        /\ DOUT_PEND' <=> (DOUT_PEND \/ pulse = "DOUT_REQ")
     \/ /\ ~rf.assert_rst
        /\ FreeMove \/ StartMove \/ EndMove \/ PauseMove
        /\ SP # "FREE" =>
             /\ STAT_PEND' <=> (STAT_PEND \/ pulse = "STAT_GET")
             /\ DOUT_PEND' <=> (DOUT_PEND \/ pulse = "DOUT_REQ")
        /\ SP = "FREE" =>
             /\ SP' # "STAT_START" => (STAT_PEND' <=> (STAT_PEND \/ pulse = "STAT_GET"))
             /\ SP' # "DATAOUT_START"
                  => (DOUT_PEND' <=> (DOUT_PEND \/ pulse = "DOUT_REQ"))

(* The same for the next clock.                                            *)
LEMMA StrobeNow ==
  /\ strobes' = {} => strobe' = "NONE"
  /\ \A x : strobes' = {x} => strobe' = x
BY TheOne DEF strobe

(* A clock of the target is a step of one of its states.                   *)
LEMMA TargetSteps ==
  ASSUME Next
  PROVE  /\ PendClock(Bus, "STAT_GET" \in pulses, "DOUT_REQ" \in pulses)
         /\ \/ rf.assert_rst /\ BusReset
            \/ /\ ~rf.assert_rst
               /\ \/ Free(Bus, StatusByte(STATUS)) \/ CommBeforeReq \/ CommStart(Bus)
                  \/ CommEnd(Bus)
                  \/ Report(Bus, ZeroByte) \/ DataIn(Bus) \/ DataOut(Bus) \/ MsgOut(Bus)
<1>1. PICK program \in BOOLEAN, host \in BOOLEAN, M_ACK \in BOOLEAN :
        Tick(program, host, M_ACK)
  BY DEF Next
<1>2. TargetClock(Bus, CD_WR, CD_DATA(COMM), "STAT_GET" \in pulses,
                 "DOUT_REQ" \in pulses, StatusByte(STATUS), ZeroByte)
  BY <1>1 DEF Tick
<1>3. QED
  BY <1>2, BusFields DEF TargetClock

(* The target moves as said: TargetClock with its cases.                   *)
LEMMA TargetMoves ==
  ASSUME Next, OneAtOnce, BusOK, rf.assert_rst => SP = "FREE"
  PROVE  TargetMove
<1> DEFINE pend == /\ STAT_PEND' <=> (STAT_PEND \/ pulse = "STAT_GET")
                   /\ DOUT_PEND' <=> (DOUT_PEND \/ pulse = "DOUT_REQ")
<1>1. /\ STAT_PEND' <=> ((STAT_PEND \/ pulse = "STAT_GET")
                         /\ ~(SP = "FREE" /\ ~rf.assert_rst /\ StatusDue(Bus)))
      /\ DOUT_PEND' <=> ((DOUT_PEND \/ pulse = "DOUT_REQ")
                         /\ ~(SP = "FREE" /\ ~rf.assert_rst /\ Duty(Bus) = "DATAOUT"))
  BY TargetSteps, BusFields, PulseIs DEF PendClock
<1>2. CASE rf.assert_rst
  <2>1. BusReset
    BY <1>2, TargetSteps
  <2>2. SP' = "FREE" /\ phase' = "FREE" /\ ~REQ' /\ strobes' = {}
    BY <1>2, <2>1 DEF BusReset, Goto
  <2>3. pend
    BY <1>1, <1>2
  <2>4. QED
    BY <1>2, <2>2, <2>3, StrobeNow DEF TargetMove, Moves, Starts
<1>3. CASE ~rf.assert_rst
  <2>1. SP # "FREE" => pend
    BY <1>1
  <2> SUFFICES /\ (REQ' <=> SP' \in Starts)
               /\ FreeMove \/ StartMove \/ EndMove \/ PauseMove
               /\ SP = "FREE" =>
                    /\ SP' # "STAT_START"
                         => (STAT_PEND' <=> (STAT_PEND \/ pulse = "STAT_GET"))
                    /\ SP' # "DATAOUT_START"
                         => (DOUT_PEND' <=> (DOUT_PEND \/ pulse = "DOUT_REQ"))
    BY <1>3, <2>1 DEF TargetMove
  <2> HIDE DEF pend
  <2>2. CASE Free(Bus, StatusByte(STATUS))
    <3>1. SP = "FREE" /\ ~REQ
      BY <2>2 DEF Free, BusOK, Starts
    <3>2. CASE rf.assert_sel
      <4>1. Duty(Bus) = "SELECTION"
        BY <3>2, BusFields DEF Duty
      <4>2. SP' = "COMM_BEFOREREQ" /\ phase' = "COMMAND" /\ ~REQ' /\ strobes' = {}
        BY <2>2, <3>1, <4>1 DEF Free, Goto
      <4>3. QED
        BY <1>1, <3>1, <3>2, <4>1, <4>2, StrobeNow DEF FreeMove, Moves, Starts,
           StatusDue
    <3>3. CASE ~rf.assert_sel /\ rf.assert_atn
      <4>1. Duty(Bus) = "MESSAGE"
        BY <3>3, BusFields DEF Duty
      <4>2. SP' = "MSGOUT_START" /\ phase' = "MSGOUT" /\ REQ' /\ strobes' = {}
        BY <2>2, <3>1, <4>1 DEF Free, Goto
      <4>3. QED
        BY <1>1, <3>1, <3>3, <4>1, <4>2, StrobeNow DEF FreeMove, Moves, Starts,
           StatusDue
    <3>4. CASE ~rf.assert_sel /\ ~rf.assert_atn /\ STAT_PEND
      <4>1. Duty(Bus) = "STATUS"
        BY <3>4, BusFields DEF Duty
      <4>2. CASE StatusDue(Bus)
        <5>1. /\ SP' = "STAT_START" /\ phase' = "STATUS" /\ REQ' /\ strobes' = {}
              /\ DBO' = StatusByte(STATUS)
          BY <2>2, <3>1, <4>1, <4>2 DEF Free, Goto
        <5>2. QED
          BY <1>1, <1>3, <3>1, <3>4, <4>1, <4>2, <5>1, StrobeNow DEF FreeMove, Moves,
             Starts
      <4>3. CASE ~StatusDue(Bus)
        <5>1. SP' = "FREE" /\ phase' = phase /\ ~REQ' /\ strobes' = {}
          BY <2>2, <3>1, <4>1, <4>3 DEF Free, Wait, busvars
        <5>2. STAT_PEND' /\ (STAT_PEND' <=> (STAT_PEND \/ pulse = "STAT_GET"))
          BY <1>1, <3>4, <4>3
        <5>3. QED
          BY <1>1, <3>1, <3>4, <4>1, <5>1, <5>2, StrobeNow DEF FreeMove, Moves, Starts
      <4>4. QED
        BY <4>2, <4>3
    <3>5. CASE ~rf.assert_sel /\ ~rf.assert_atn /\ ~STAT_PEND /\ ~REMPTY
      <4>1. Duty(Bus) = "DATAIN"
        BY <3>5, BusFields DEF Duty
      <4>2. /\ SP' = "DATAIN_START" /\ phase' = "DATAIN" /\ REQ'
            /\ strobes' = {"FIFO_RD_REQ"} /\ DBO' = RDATA
        BY <2>2, <3>1, <4>1 DEF Free, Goto, StatusDue
      <4>3. QED
        BY <1>1, <3>1, <3>5, <4>1, <4>2, StrobeNow DEF FreeMove, Moves, Starts,
           StatusDue
    <3>6. CASE ~rf.assert_sel /\ ~rf.assert_atn /\ ~STAT_PEND /\ REMPTY
      <4>1. CASE DOUT_PEND
        <5>1. Duty(Bus) = "DATAOUT"
          BY <3>6, <4>1, BusFields DEF Duty
        <5>2. SP' = "DATAOUT_START" /\ phase' = "DATAOUT" /\ REQ' /\ strobes' = {}
          BY <2>2, <3>1, <5>1 DEF Free, Goto
        <5>3. QED
          BY <1>1, <1>3, <3>1, <3>6, <4>1, <5>1, <5>2, StrobeNow DEF FreeMove, Moves,
             Starts, StatusDue
      <4>2. CASE ~DOUT_PEND
        <5>1. Duty(Bus) = "NONE"
          BY <3>6, <4>2, BusFields DEF Duty
        <5>2. SP' = "FREE" /\ phase' = phase /\ ~REQ' /\ strobes' = {}
          BY <2>2, <3>1, <5>1 DEF Free, Wait, busvars
        <5>3. QED
          BY <1>1, <3>1, <3>6, <4>2, <5>1, <5>2, StrobeNow DEF FreeMove, Moves,
             Starts, StatusDue
      <4>3. QED
        BY <4>1, <4>2
    <3>7. QED
      BY <3>2, <3>3, <3>4, <3>5, <3>6
  <2>3. CASE CommBeforeReq
    BY <2>3, StrobeNow DEF CommBeforeReq, Goto, Wait, busvars, BusOK, PauseMove,
       Moves, Starts
  <2>4. CASE CommStart(Bus)
    BY <2>4, StrobeNow, BusFields DEF CommStart, Byte1, Goto, Wait, busvars, BusOK,
       StartMove, Moves, Starts
  <2>5. CASE CommEnd(Bus)
    BY <2>5, StrobeNow, BusFields DEF CommEnd, Held, Released, Goto, Wait, busvars,
       BusOK, EndMove, Moves, Starts, Ends
  <2>6. CASE Report(Bus, ZeroByte)
    <3>1. CASE SP \in {"STAT_START", "MSGIN_START"}
      BY <2>6, <3>1, StrobeNow, BusFields DEF Report, Byte1, Held, Released, Goto,
         Wait, busvars, BusOK, StartMove, Moves, Starts
    <3>2. CASE SP \in {"STAT_END", "MSGIN_END"}
      BY <2>6, <3>2, StrobeNow, BusFields DEF Report, Byte1, Held, Released, Goto,
         Wait, busvars, BusOK, EndMove, Moves, Starts, Ends
    <3>3. CASE SP \in {"STAT_HOLD", "MSGIN_HOLD"}
      BY <2>6, <3>3, StrobeNow, BusFields DEF Report, Byte1, Held, Released, Goto,
         Wait, busvars, BusOK, PauseMove, Moves, Starts
    <3>4. QED
      BY <2>6, <3>1, <3>2, <3>3 DEF Report, Byte1, Held, Released
  <2>7. CASE DataIn(Bus)
    <3>1. CASE SP = "DATAIN_START"
      BY <2>7, <3>1, StrobeNow, BusFields DEF DataIn, DataInEnd, Byte1, Held,
         Released, Goto, Wait, busvars, BusOK, StartMove, Moves, Starts
    <3>2. CASE SP = "DATAIN_END"
      BY <2>7, <3>2, StrobeNow, BusFields DEF DataIn, DataInEnd, Byte1, Held,
         Released, Goto, Wait, busvars, BusOK, EndMove, Moves, Starts, Ends
    <3>3. QED
      BY <2>7, <3>1, <3>2 DEF DataIn, DataInEnd, Byte1, Held, Released
  <2>8. CASE DataOut(Bus)
    <3>1. CASE SP = "DATAOUT_START"
      BY <2>8, <3>1, StrobeNow, BusFields DEF DataOut, Byte1, Held, Released, Goto,
         Wait, busvars, BusOK, StartMove, Moves, Starts
    <3>2. CASE SP = "DATAOUT_END"
      BY <2>8, <3>2, StrobeNow, BusFields DEF DataOut, Byte1, Held, Released, Goto,
         Wait, busvars, BusOK, EndMove, Moves, Starts, Ends
    <3>3. QED
      BY <2>8, <3>1, <3>2 DEF DataOut, Byte1, Held, Released
  <2>9. CASE MsgOut(Bus)
    <3>1. CASE SP = "MSGOUT_START"
      BY <2>9, <3>1, StrobeNow, BusFields DEF MsgOut, Byte1, Held, Released, Goto,
         Wait, busvars, BusOK, StartMove, Moves, Starts
    <3>2. CASE SP = "MSGOUT_END"
      BY <2>9, <3>2, StrobeNow, BusFields DEF MsgOut, Byte1, Held, Released, Goto,
         Wait, busvars, BusOK, EndMove, Moves, Starts, Ends
    <3>3. QED
      BY <2>9, <3>1, <3>2 DEF MsgOut, Byte1, Held, Released
  <2>10. QED
    BY <1>3, <2>2, <2>3, <2>4, <2>5, <2>6, <2>7, <2>8, <2>9, TargetSteps
<1>4. QED
  BY <1>2, <1>3

-----------------------------------------------------------------------------
(* The drive.                                                              *)

(* The operation code the target has collected.                            *)
op == COMM[0]

(* What a command makes of the drive.                                      *)
CmdTaken ==
  \/ /\ op = TEST_UNIT_READY /\ medium_empty
     /\ STATUS' = CHECK_CONDITION /\ sense_key' = NOT_READY
     /\ datalen' = 0 /\ pulse' = "cmd_done"
     /\ blkcnt' = blkcnt /\ data_out' = data_out /\ SD_LBA' = SD_LBA
  \/ /\ op \notin Ops
     /\ STATUS' = CHECK_CONDITION /\ sense_key' = ILLEGAL_REQUEST
     /\ datalen' = 0 /\ pulse' = "cmd_done"
     /\ blkcnt' = blkcnt /\ data_out' = data_out /\ SD_LBA' = SD_LBA
  \/ /\ ~(op = TEST_UNIT_READY /\ medium_empty) /\ op \in Ops
     /\ STATUS' = GOOD /\ sense_key' = sense_key
     /\ op \in {TEST_UNIT_READY, PREVENT_ALLOW_MEDIUM_REMOVAL} =>
          /\ datalen' = 0 /\ pulse' = "cmd_done"
          /\ blkcnt' = blkcnt /\ data_out' = data_out /\ SD_LBA' = SD_LBA
     /\ op \in {REQUEST_SENSE, MODE_SELECT} =>
          /\ datalen' = COMM[1] /\ pulse' = "cmd_done"
          /\ (data_out' <=> op = MODE_SELECT)
          /\ blkcnt' = blkcnt /\ SD_LBA' = SD_LBA
     /\ op = READ_10 =>
          /\ datalen' = BLOCK /\ data_out' = data_out
          /\ COMM[2] = 0 => pulse' = "cmd_done" /\ blkcnt' = blkcnt /\ SD_LBA' = SD_LBA
          /\ COMM[2] # 0 => pulse' = "NONE" /\ blkcnt' = COMM[2] - 1 /\ SD_LBA' = COMM[1]
     /\ op \in {READ_TOC, READ_HEADER} =>
          /\ datalen' = COMM[2] % 4096 /\ pulse' = "NONE"
          /\ SD_LBA' = (IF op = READ_TOC THEN TOC_LBA + COMM[1] ELSE COMM[1])
          /\ blkcnt' = blkcnt /\ data_out' = data_out

SectorCame == op \in Reads /\ sd_ack_d /\ ~SD_ACK

(* What stays, mostly.                                                     *)
KeepsPlace == datapos' = datapos /\ blkcnt' = blkcnt
KeepsCommand == STATUS' = STATUS /\ datalen' = datalen /\ data_out' = data_out
                /\ SD_LBA' = SD_LBA

(* A clock of the drive, by its state.                                     *)
DriveMove ==
  \/ /\ tst = "IDLE" /\ strobe = "COMM_OUT"
     /\ tst' = "CMD" /\ pulse' = "cmd_start" /\ blkcnt' = 0 /\ datapos' = 0 /\ ~data_out'
     /\ STATUS' = STATUS /\ datalen' = datalen /\ SD_LBA' = SD_LBA
     /\ sense_key' = sense_key
  \/ /\ tst = "IDLE" /\ strobe # "COMM_OUT" /\ tst' = "IDLE" /\ pulse' = "NONE"
     /\ KeepsPlace /\ KeepsCommand /\ sense_key' = sense_key
  \/ /\ tst = "CMD" /\ pulse = "cmd_start" /\ tst' = "CMD" /\ datapos' = datapos
     /\ CmdTaken
  \/ /\ tst = "CMD" /\ pulse = "cmd_cont" /\ tst' = "CMD" /\ pulse' = "NONE"
     /\ SD_LBA' = (IF op = READ_10 THEN SD_LBA + 1 ELSE SD_LBA)
     /\ KeepsPlace /\ STATUS' = STATUS /\ datalen' = datalen /\ data_out' = data_out
     /\ sense_key' = sense_key
  \/ /\ tst = "CMD" /\ pulse \notin {"cmd_start", "cmd_cont"}
     /\ KeepsPlace /\ KeepsCommand /\ sense_key' = sense_key
     /\ \/ /\ pulse # "cmd_done" /\ tst' = "CMD"
           /\ \/ SectorCame /\ pulse' = "cmd_done"
              \/ ~SectorCame /\ pulse' = "NONE"
        \/ /\ pulse = "cmd_done"
           /\ \/ datalen = 0 /\ tst' = "STAT" /\ pulse' = "NONE"
              \/ datalen # 0 /\ data_out /\ tst' = "DATA_OUT" /\ pulse' = "DOUT_REQ"
              \/ datalen # 0 /\ ~data_out /\ tst' = "DATA_IN" /\ pulse' = "NONE"
  \/ /\ tst = "DATA_OUT" /\ tst' = (IF strobe = "DATA_OUT" THEN "STAT" ELSE "DATA_OUT")
     /\ pulse' = "NONE" /\ KeepsPlace /\ KeepsCommand /\ sense_key' = sense_key
  \/ /\ tst = "DATA_IN" /\ KeepsCommand
     /\ sense_key' = (IF op = REQUEST_SENSE /\ CD_WR /\ datapos + 1 = datalen
                      THEN NO_SENSE ELSE sense_key)
     /\ \/ rf.assert_atn /\ tst' = "MSG_OUT" /\ pulse' = "NONE" /\ KeepsPlace
        \/ ~rf.assert_atn /\ ~CD_WR /\ tst' = "DATA_IN" /\ pulse' = "NONE" /\ KeepsPlace
        \/ /\ ~rf.assert_atn /\ CD_WR /\ datapos + 1 = datalen /\ blkcnt # 0
           /\ tst' = "CMD" /\ pulse' = "cmd_cont" /\ blkcnt' = blkcnt - 1 /\ datapos' = 0
        \/ /\ ~rf.assert_atn /\ CD_WR /\ datapos + 1 = datalen /\ blkcnt = 0
           /\ tst' = "DATA_IN_END" /\ pulse' = "NONE" /\ blkcnt' = blkcnt
           /\ datapos' = datapos + 1
        \/ /\ ~rf.assert_atn /\ CD_WR /\ datapos + 1 # datalen
           /\ tst' = "DATA_IN" /\ pulse' = "NONE" /\ blkcnt' = blkcnt
           /\ datapos' = datapos + 1
  \/ /\ tst = "DATA_IN_END" /\ pulse' = "NONE" /\ KeepsPlace /\ KeepsCommand
     /\ sense_key' = sense_key
     /\ tst' = (IF strobe # "CD_DATA_END" THEN "DATA_IN_END"
                ELSE IF rf.assert_atn THEN "MSG_OUT" ELSE "STAT")
  \/ /\ tst = "STAT" /\ tst' = "IDLE" /\ pulse' = "STAT_GET"
     /\ KeepsPlace /\ KeepsCommand /\ sense_key' = sense_key
  \/ /\ tst = "MSG_OUT" /\ tst' = (IF strobe = "MSGOUT_OUT" THEN "IDLE" ELSE "MSG_OUT")
     /\ pulse' = "NONE" /\ KeepsPlace /\ KeepsCommand /\ sense_key' = sense_key

(* When the drive asks for a sector.                                       *)
Asks ==
  \/ tst = "CMD" /\ pulse = "cmd_start" /\ op \in Reads /\ ~(op = READ_10 /\ COMM[2] = 0)
  \/ tst = "CMD" /\ pulse = "cmd_cont" /\ op = READ_10

(* Its strobes to the host and to the FIFO.                                *)
StrobeMove ==
  /\ SD_RD' <=> (Asks \/ (SD_RD /\ (sd_ack_d \/ ~SD_ACK)))
  /\ sd_ack_d' <=> SD_ACK
  /\ CD_WR' <=> (tst = "DATA_IN" /\ ~CD_WR /\ ~cd_wr_d /\ ~WFULL)
  /\ cd_wr_d' <=> CD_WR
  /\ CD_WR_OLD' <=> CD_WR
  /\ FIFO_WR_REQ' <=> (CD_WR /\ ~CD_WR_OLD /\ ~WFULL)
  /\ FIFO_D' = (IF CD_WR /\ ~CD_WR_OLD THEN CD_DATA(COMM) ELSE FIFO_D)
  /\ sdbuf_q' = DiscByte(sdbuf, datapos + sdbuf_off(op, datapos))

(* The name of the next pulse.                                             *)
LEMMA PulseNow ==
  /\ pulses' = {} => pulse' = "NONE"
  /\ \A x : pulses' = {x} => pulse' = x
BY TheOne DEF pulse

(* A clock of the drive: its handlers and the state machine.               *)
LEMMA DriveSteps ==
  ASSUME Next
  PROVE  /\ DriveClock(ToDrive, sdbuf)
         /\ WriteClock(CD_WR, CD_DATA(COMM))
<1>1. PICK program \in BOOLEAN, host \in BOOLEAN, M_ACK \in BOOLEAN :
        Tick(program, host, M_ACK)
  BY DEF Next
<1>2. QED
  BY <1>1 DEF Tick, TargetClock

(* A clock of the strobes.                                                 *)
LEMMA StrobeMoves ==
  ASSUME Next, OneAtOnce
  PROVE  StrobeMove
<1>1. SectorClock(ToDrive) /\ CdWrClock(ToDrive) /\ BufferClock(ToDrive, sdbuf)
  BY DriveSteps DEF DriveClock
<1>2. AsksSector(ToDrive) <=> Asks
  BY DriveFields, PulseIs DEF AsksSector, Asks, Started, Continued, op, Op
<1>3. SD_RD' <=> (Asks \/ (SD_RD /\ (sd_ack_d \/ ~SD_ACK)))
  BY <1>1, <1>2, DriveFields DEF SectorClock
<1>4. sd_ack_d' <=> SD_ACK
  BY <1>1, DriveFields DEF SectorClock
<1>5. ToDrive.CD_READY <=> ~WFULL
  BY DEF ToDrive, CD_READY
<1>6. /\ CD_WR' <=> (tst = "DATA_IN" /\ ~CD_WR /\ ~cd_wr_d /\ ~WFULL)
      /\ cd_wr_d' <=> CD_WR
  BY <1>1, <1>5 DEF CdWrClock
<1>7. /\ CD_WR_OLD' <=> CD_WR
      /\ FIFO_WR_REQ' <=> (CD_WR /\ ~CD_WR_OLD /\ ~WFULL)
      /\ FIFO_D' = (IF CD_WR /\ ~CD_WR_OLD THEN CD_DATA(COMM) ELSE FIFO_D)
  <2>1. CD_WR_OLD' <=> CD_WR
    BY DriveSteps DEF WriteClock
  <2>2. CASE CD_WR /\ ~CD_WR_OLD
    BY <2>1, <2>2, DriveSteps DEF WriteClock
  <2>3. CASE ~(CD_WR /\ ~CD_WR_OLD)
    BY <2>1, <2>3, DriveSteps DEF WriteClock
  <2>4. QED
    BY <2>2, <2>3
<1>8. sdbuf_q' = DiscByte(sdbuf, datapos + sdbuf_off(op, datapos))
  BY <1>1, DriveFields DEF BufferClock, op, Op
<1>9. QED
  BY <1>3, <1>4, <1>6, <1>7, <1>8 DEF StrobeMove

(* A command is taken up.                                                  *)
LEMMA CmdStartTakes ==
  ASSUME Next, OneAtOnce, CmdStart(ToDrive)
  PROVE  tst = "CMD" /\ pulse = "cmd_start" /\ tst' = "CMD" /\ datapos' = datapos
         /\ CmdTaken
<1>1. tst = "CMD" /\ pulse = "cmd_start" /\ tst' = "CMD" /\ datapos' = datapos
  BY PulseIs DEF CmdStart, Started
<1>2. Op(ToDrive.COMMAND) = op /\ ToDrive.COMMAND = COMM
      /\ ToDrive.MEDIUM_EMPTY = medium_empty
  BY DriveFields DEF op, Op
<1>3. CASE op = TEST_UNIT_READY /\ medium_empty
  <2>1. Failed(NOT_READY)
    BY <1>2, <1>3 DEF CmdStart, medium_req
  <2>2. QED
    BY <1>1, <1>3, <2>1, PulseNow DEF Failed, CmdTaken
<1>4. CASE ~(op = TEST_UNIT_READY /\ medium_empty)
  <2>1. ~(medium_req(op) /\ medium_empty)
    BY <1>4 DEF medium_req
  <2>2. CASE op \notin Ops
    <3>1. Failed(ILLEGAL_REQUEST)
      BY <1>2, <2>1, <2>2 DEF CmdStart, Ops, Reads
    <3>2. QED
      BY <2>2, <3>1, PulseNow, <1>1 DEF Failed, CmdTaken
  <2>3. CASE op \in {TEST_UNIT_READY, PREVENT_ALLOW_MEDIUM_REMOVAL}
    <3>1. /\ Answered(0) /\ pulses' = {"cmd_done"}
          /\ UNCHANGED <<blkcnt, data_out, SD_LBA>>
      BY <1>2, <2>1, <2>3 DEF CmdStart, Ops, Reads, TEST_UNIT_READY, REQUEST_SENSE,
         MODE_SELECT, PREVENT_ALLOW_MEDIUM_REMOVAL, READ_10, READ_TOC, READ_HEADER
    <3>2. QED
      BY <1>1, <1>4, <2>3, <3>1, PulseNow DEF Answered, CmdTaken, Ops, Reads,
         TEST_UNIT_READY, REQUEST_SENSE, MODE_SELECT, PREVENT_ALLOW_MEDIUM_REMOVAL,
         READ_10, READ_TOC, READ_HEADER
  <2>4. CASE op \in {REQUEST_SENSE, MODE_SELECT}
    <3>1. /\ Answered(COMM[1]) /\ data_out' = (op = MODE_SELECT)
          /\ pulses' = {"cmd_done"} /\ UNCHANGED <<blkcnt, SD_LBA>>
      BY <1>2, <2>1, <2>4 DEF CmdStart, Ops, Reads, TEST_UNIT_READY, REQUEST_SENSE,
         MODE_SELECT, PREVENT_ALLOW_MEDIUM_REMOVAL, READ_10, READ_TOC, READ_HEADER
    <3>2. data_out' <=> op = MODE_SELECT
      BY <3>1
    <3>3. /\ op \in Ops /\ op \notin {TEST_UNIT_READY, PREVENT_ALLOW_MEDIUM_REMOVAL}
          /\ op \notin Reads
      BY <2>4 DEF Ops, Reads, TEST_UNIT_READY, REQUEST_SENSE, MODE_SELECT,
         PREVENT_ALLOW_MEDIUM_REMOVAL, READ_10, READ_TOC, READ_HEADER
    <3>4. QED
      BY <1>1, <1>4, <3>1, <3>2, <3>3, PulseNow DEF Answered, CmdTaken, Reads
  <2>5. CASE op = READ_10
    <3>1. /\ Answered(BLOCK)
          /\ IF COMM[2] = 0
             THEN pulses' = {"cmd_done"} /\ UNCHANGED <<blkcnt, SD_LBA>>
             ELSE pulses' = {} /\ blkcnt' = COMM[2] - 1 /\ SD_LBA' = COMM[1]
          /\ UNCHANGED data_out
      BY <1>2, <2>1, <2>5 DEF CmdStart, Ops, Reads, TEST_UNIT_READY, REQUEST_SENSE,
         MODE_SELECT, PREVENT_ALLOW_MEDIUM_REMOVAL, READ_10, READ_TOC, READ_HEADER
    <3>2. QED
      BY <1>1, <1>4, <2>5, <3>1, PulseNow DEF Answered, CmdTaken, Ops, Reads,
         TEST_UNIT_READY, REQUEST_SENSE, MODE_SELECT, PREVENT_ALLOW_MEDIUM_REMOVAL,
         READ_10, READ_TOC, READ_HEADER
  <2>6. CASE op \in {READ_TOC, READ_HEADER}
    <3>1. /\ STATUS' = GOOD /\ sense_key' = sense_key
          /\ datalen' = COMM[2] % 4096
          /\ SD_LBA' = (IF op = READ_TOC THEN TOC_LBA + COMM[1] ELSE COMM[1])
          /\ pulses' = {}
          /\ UNCHANGED <<blkcnt, data_out>>
      BY <1>2, <2>1, <2>6 DEF CmdStart, Answered, Ops, Reads, TEST_UNIT_READY,
         REQUEST_SENSE, MODE_SELECT, PREVENT_ALLOW_MEDIUM_REMOVAL, READ_10, READ_TOC,
         READ_HEADER
    <3>2. QED
      BY <1>1, <1>4, <2>6, <3>1, PulseNow DEF Answered, CmdTaken, Ops, Reads,
         TEST_UNIT_READY, REQUEST_SENSE, MODE_SELECT, PREVENT_ALLOW_MEDIUM_REMOVAL,
         READ_10, READ_TOC, READ_HEADER
  <2>7. QED
    BY <1>1, <2>2, <2>3, <2>4, <2>5, <2>6 DEF Ops, Reads
<1>5. QED
  BY <1>1, <1>3, <1>4

(* The drive moves as said, and has one pulse at most.                     *)
LEMMA DriveMoves ==
  ASSUME Next, OneAtOnce, tst = "CMD" /\ pulse = "cmd_done" => ~sd_ack_d
  PROVE  DriveMove /\ OneAtOnce'
<1>0. strobes' \in {{}, {"COMM_OUT"}, {"DATA_OUT"}, {"MSGOUT_OUT"}, {"CD_DATA_END"},
                  {"FIFO_RD_REQ"}}
  BY TargetSteps DEF BusReset, Free, CommBeforeReq, CommStart, CommEnd, Report,
     DataIn, DataInEnd, DataOut, MsgOut
<1>1. Op(ToDrive.COMMAND) = op
  BY DriveFields DEF op, Op
<1>2. CASE Idle(ToDrive)
  BY <1>0, <1>2, DriveFields, PulseNow DEF Idle, DriveMove, KeepsPlace, KeepsCommand,
     OneAtOnce
<1>3. CASE CmdStart(ToDrive)
  <2>1. pulses' \in {{}, {"cmd_done"}}
    BY <1>3 DEF CmdStart, Failed
  <2>2. QED
    BY <1>0, <1>3, <2>1, CmdStartTakes DEF DriveMove, OneAtOnce
<1>4. CASE CmdCont(ToDrive)
  BY <1>0, <1>1, <1>4, PulseNow, PulseIs DEF CmdCont, Continued, DriveMove,
     KeepsPlace, KeepsCommand, OneAtOnce
<1>5. CASE Cmd(ToDrive)
  <2>1. /\ tst = "CMD" /\ pulse \notin {"cmd_start", "cmd_cont"}
        /\ KeepsPlace /\ KeepsCommand /\ sense_key' = sense_key
    BY <1>5, PulseIs DEF Cmd, Started, Continued, KeepsPlace, KeepsCommand
  <2>2. SectorCame <=> Op(ToDrive.COMMAND) \in Reads /\ sd_ack_d /\ ~ToDrive.SD_ACK
    BY <1>1, DriveFields DEF SectorCame
  <2>3. CASE pulse # "cmd_done"
    <3>1. "cmd_done" \notin pulses
      BY <2>3, PulseIs
    <3>2. tst' = "CMD" /\ pulses' = (IF SectorCame THEN {"cmd_done"} ELSE {})
      BY <1>5, <2>1, <2>2, <3>1 DEF Cmd
    <3>3. QED
      BY <1>0, <2>1, <2>3, <3>2, PulseNow DEF DriveMove, OneAtOnce
  <2>4. CASE pulse = "cmd_done"
    <3>1. "cmd_done" \in pulses /\ ~SectorCame
      BY <2>1, <2>4, PulseIs DEF SectorCame
    <3>2. /\ tst' = (IF datalen = 0 THEN "STAT" ELSE IF data_out THEN "DATA_OUT"
                                                        ELSE "DATA_IN")
          /\ pulses' = (IF datalen # 0 /\ data_out THEN {"DOUT_REQ"} ELSE {})
      BY <1>5, <2>1, <2>2, <3>1 DEF Cmd
    <3>3. QED
      BY <1>0, <2>1, <2>4, <3>2, PulseNow DEF DriveMove, OneAtOnce
  <2>5. QED
    BY <2>3, <2>4
<1>6. CASE DataOutWait(ToDrive)
  BY <1>0, <1>6, DriveFields, PulseNow DEF DataOutWait, DriveMove, KeepsPlace,
     KeepsCommand, OneAtOnce
<1>7. CASE DataInByte(ToDrive)
  <2>1. /\ tst = "DATA_IN" /\ KeepsCommand
        /\ sense_key' = (IF op = REQUEST_SENSE /\ CD_WR /\ datapos + 1 = datalen
                      THEN NO_SENSE ELSE sense_key)
    BY <1>1, <1>7 DEF DataInByte, KeepsCommand, dataend
  <2>2. \/ rf.assert_atn /\ tst' = "MSG_OUT" /\ pulses' = {} /\ KeepsPlace
        \/ ~rf.assert_atn /\ ~CD_WR /\ tst' = "DATA_IN" /\ pulses' = {} /\ KeepsPlace
        \/ /\ ~rf.assert_atn /\ CD_WR /\ datapos + 1 = datalen /\ blkcnt # 0
           /\ tst' = "CMD" /\ pulses' = {"cmd_cont"} /\ blkcnt' = blkcnt - 1
           /\ datapos' = 0
        \/ /\ ~rf.assert_atn /\ CD_WR /\ datapos + 1 = datalen /\ blkcnt = 0
           /\ tst' = "DATA_IN_END" /\ pulses' = {} /\ blkcnt' = blkcnt
           /\ datapos' = datapos + 1
        \/ /\ ~rf.assert_atn /\ CD_WR /\ datapos + 1 # datalen
           /\ tst' = "DATA_IN" /\ pulses' = {} /\ blkcnt' = blkcnt
           /\ datapos' = datapos + 1
    BY <1>7, DriveFields DEF DataInByte, KeepsPlace, dataend, blkend
  <2>3. QED
    BY <1>0, <2>1, <2>2, PulseNow DEF DriveMove, OneAtOnce
<1>8. CASE DataInEndWait(ToDrive)
  BY <1>0, <1>8, DriveFields, PulseNow DEF DataInEndWait, DriveMove, KeepsPlace,
     KeepsCommand, OneAtOnce
<1>9. CASE Stat
  BY <1>0, <1>9, DriveFields, PulseNow DEF Stat, DriveMove, KeepsPlace, KeepsCommand,
     OneAtOnce
<1>10. CASE MsgOutWait(ToDrive)
  BY <1>0, <1>10, DriveFields, PulseNow DEF MsgOutWait, DriveMove, KeepsPlace,
     KeepsCommand, OneAtOnce
<1>11. QED
  BY <1>2, <1>3, <1>4, <1>5, <1>6, <1>7, <1>8, <1>9, <1>10, DriveSteps DEF DriveClock

-----------------------------------------------------------------------------
(* The program, by the name of what it does in a clock.                    *)

Acts == {"NONE", "Select", "Selected", "Put", "Get", "Release", "ClearInt", "StartDma",
         "DmaDone", "DmaStopped", "Freed", "BusResetOn", "BusResetOff", "Abort"}

(* When it can.                                                            *)
ProgGuard(act) ==
  /\ act \in Acts
  /\ act # "NONE" => ce /\ arms = "NONE" /\ given = "NONE"
  /\ act \notin {"NONE", "Abort"} =>
       /\ ~dma_rxbuf_rd /\ ~assert_ack_dma /\ ~assert_ack_cnt
       /\ REQ => ~reqn_d /\ ~req_posedge_d
  /\ act = "Select" => pc = "IDLE" /\ plan # <<>>
  /\ act = "Selected" => pc = "SELECT" /\ phase = "COMMAND"
  /\ act \in {"Put", "Get", "ClearInt", "StartDma"} =>
       pc = "BUSY" /\ REQ /\ ~rf.assert_ack /\ ~rf.dma_mode
  /\ act = "Put" => phase \in {"COMMAND", "DATAOUT", "MSGOUT"}
  /\ act = "Get" => phase \in {"STATUS", "MSGIN"} \/ (phase = "DATAIN" /\ cmd.how = "PIO")
  /\ act \in {"ClearInt", "StartDma"} => phase = "DATAIN" /\ cmd.how = "DMA"
  /\ act = "ClearInt" => block_int
  /\ act = "StartDma" => ~block_int
  /\ act = "Release" => pc = "BUSY" /\ rf.assert_ack /\ ~REQ
  /\ act \in {"DmaDone", "DmaStopped"} => pc = "BUSY" /\ rf.dma_mode
  /\ act = "DmaDone" => dma_end
  /\ act = "DmaStopped" => ~dma_end /\ block_int
  /\ act = "Freed" => pc = "FREEING" /\ phase = "FREE"
  /\ act = "BusResetOn" => pc = "IDLE"
  /\ act = "BusResetOff" => pc = "RESET"
  /\ act = "Abort" => /\ pc = "BUSY" /\ phase = "DATAIN" /\ cmd.op \in Reads /\ ~aborted
                      /\ REQ /\ ~reqn_d /\ blkcnt = 0
                      /\ tst = "DATA_IN_END" \/ (tst = "DATA_IN" /\ ~REMPTY)

(* The registers.                                                          *)
ProgLines(act) ==
  /\ rf'.assert_rst <=> (act = "BusResetOn" \/ (rf.assert_rst /\ act # "BusResetOff"))
  /\ rf'.assert_sel <=> (act = "Select" \/ (rf.assert_sel /\ act # "Selected"))
  /\ rf'.assert_atn
       <=> (act = "Abort" \/ (rf.assert_atn /\ ~(act = "Put" /\ phase = "MSGOUT")))
  /\ rf'.assert_ack <=> (act \in {"Put", "Get"} \/ (rf.assert_ack /\ act # "Release"))
  /\ rf'.dma_mode
       <=> (act = "StartDma" \/ (rf.dma_mode /\ act \notin {"DmaDone", "DmaStopped"}))
  /\ rf'.dma_en <=> \/ act = "StartDma"
                    \/ /\ rf.dma_en /\ act \notin {"DmaDone", "DmaStopped"}
                       /\ ~(ce /\ act = "NONE" /\ dma_end)
  /\ rf'.assert_lines = (IF act = "StartDma" THEN Lines("DATAIN") ELSE rf.assert_lines)
  /\ given' = (IF ce /\ act = "NONE" THEN arms ELSE given)
  /\ arms' = (IF ~ce THEN arms
              ELSE IF act \in {"ClearInt", "DmaStopped", "BusResetOff"} THEN "reset_int"
              ELSE IF act = "StartDma" THEN "start_dma_rx"
              ELSE IF act = "DmaDone" THEN "reset_dma_end_int" ELSE "NONE")

(* What the DMA counters are.                                              *)
ProgCounts(act) ==
  /\ rf'.dma_ka = (IF act = "Select" THEN 0 ELSE rf.dma_ka)
                  + (IF ce /\ dma_next_word THEN 1 ELSE 0)
  /\ act # "StartDma" =>
       rf'.dma_byte_cnt = rf.dma_byte_cnt - (IF ce /\ dma_next_word THEN 1 ELSE 0)
  /\ act = "StartDma" => \E n \in Chunks :
       rf'.dma_byte_cnt = n - (IF ce /\ dma_next_word THEN 1 ELSE 0)

(* What it keeps for itself.                                               *)
ProgSoft(act) ==
  /\ pc' = (IF act = "Select" THEN "SELECT"
            ELSE IF act = "Selected" THEN "BUSY"
            ELSE IF act = "Release" /\ phase \in {"MSGIN", "MSGOUT"} THEN "FREEING"
            ELSE IF act \in {"Freed", "BusResetOff"} THEN "IDLE"
            ELSE IF act = "BusResetOn" THEN "RESET" ELSE pc)
  /\ plan' = (IF act = "Select" THEN Tail(plan) ELSE plan)
  /\ cmd' = (IF act = "Select" THEN Head(plan) ELSE IF act = "Freed" THEN NoCommand
                                                       ELSE cmd)
  /\ sent' = (IF act = "Select" THEN 0
              ELSE IF act = "Put" /\ phase = "COMMAND" THEN sent + 1 ELSE sent)
  /\ dout' = (IF act # "Put" THEN dout
              ELSE IF phase = "COMMAND" THEN CommandBytes(cmd)[sent + 1] ELSE 0)
  /\ pio' = (IF act = "Freed" THEN <<>>
             ELSE IF act = "Get" /\ phase = "DATAIN" THEN Append(pio, DBO) ELSE pio)
  /\ result' = (IF act = "Freed" THEN NoResult
                ELSE IF act = "Get" /\ phase = "STATUS" THEN DBO ELSE result)
  /\ (aborted' <=> act = "Abort" \/ (aborted /\ act # "Freed"))
  /\ expected_key' = IF act # "Freed" \/ aborted THEN expected_key
                     ELSE IF cmd.op \notin Ops THEN ILLEGAL_REQUEST
                     ELSE IF Fails(cmd) THEN NOT_READY
                     ELSE IF cmd.op = REQUEST_SENSE /\ cmd.len > 0 THEN NO_SENSE
                     ELSE expected_key

(* A clock of the registers: those that count do so, the others are as     *)
(* they were written.                                                      *)
LEMMA CountedFields ==
  ASSUME NEW w \in RegisterFile
  PROVE  /\ Counted(w) \in RegisterFile
         /\ Counted(w).assert_rst = w.assert_rst /\ Counted(w).assert_ack = w.assert_ack
         /\ Counted(w).assert_sel = w.assert_sel /\ Counted(w).assert_atn = w.assert_atn
         /\ Counted(w).assert_lines = w.assert_lines /\ Counted(w).dma_mode = w.dma_mode
         /\ Counted(w).dma_en = w.dma_en /\ Counted(w).pulses = w.pulses
         /\ Counted(w).dma_ka = w.dma_ka + (IF dma_next_word THEN 1 ELSE 0)
         /\ Counted(w).dma_byte_cnt = w.dma_byte_cnt - (IF dma_next_word THEN 1 ELSE 0)
<1> DEFINE n == IF dma_next_word THEN 1 ELSE 0
<1>1. Counted(w) = [w EXCEPT !.dma_byte_cnt = w.dma_byte_cnt - n, !.dma_ka = w.dma_ka + n]
  <2>1. /\ (IF dma_next_word THEN w.dma_byte_cnt - 1 ELSE w.dma_byte_cnt) =
             w.dma_byte_cnt - n
        /\ (IF dma_next_word THEN w.dma_ka + 1 ELSE w.dma_ka) = w.dma_ka + n
    BY DEF RegisterFile
  <2>2. Counted(w) =
          [w EXCEPT !.dma_byte_cnt =
             (IF dma_next_word THEN w.dma_byte_cnt - 1 ELSE w.dma_byte_cnt),
                               !.dma_ka =
                                 (IF dma_next_word THEN w.dma_ka + 1 ELSE w.dma_ka)]
    BY DEF Counted, RegisterFile
  <2>3. QED
    BY <2>1, <2>2
<1>2. n \in Int
  OBVIOUS
<1> HIDE DEF n
<1>3. w.dma_byte_cnt - n \in Int /\ w.dma_ka + n \in Int
  BY <1>2 DEF RegisterFile
<1>4. ASSUME NEW a \in Int, NEW b \in Int,
             Counted(w) = [w EXCEPT !.dma_byte_cnt = a, !.dma_ka = b]
      PROVE  /\ Counted(w) \in RegisterFile
             /\ Counted(w).assert_rst = w.assert_rst
             /\ Counted(w).assert_ack = w.assert_ack
             /\ Counted(w).assert_sel = w.assert_sel
             /\ Counted(w).assert_atn = w.assert_atn
             /\ Counted(w).assert_lines = w.assert_lines
             /\ Counted(w).dma_mode = w.dma_mode
             /\ Counted(w).dma_en = w.dma_en /\ Counted(w).pulses = w.pulses
             /\ Counted(w).dma_ka = b /\ Counted(w).dma_byte_cnt = a
  BY <1>4 DEF RegisterFile
<1>5. QED
  BY <1>1, <1>3, <1>4 DEF n

(* A program access: what the registers are afterwards, ...                *)
LEMMA Access ==
  ASSUME RegTypes, ce, NEW w \in RegisterFile, w.pulses = rf.pulses, NEW p \in RegPulses,
         RegisterClock(TRUE, w, p)
  PROVE  /\ RegTypes' /\ given' = given /\ arms' = The(p)
         /\ rf'.assert_rst = w.assert_rst /\ rf'.assert_ack = w.assert_ack
         /\ rf'.assert_sel = w.assert_sel /\ rf'.assert_atn = w.assert_atn
         /\ rf'.assert_lines = w.assert_lines /\ rf'.dma_mode = w.dma_mode
         /\ rf'.dma_en = w.dma_en
         /\ rf'.dma_ka = w.dma_ka + (IF ce /\ dma_next_word THEN 1 ELSE 0)
         /\ rf'.dma_byte_cnt = w.dma_byte_cnt - (IF ce /\ dma_next_word THEN 1 ELSE 0)
<1>1. rf' = Counted(w) /\ armed' = p
  BY DEF RegisterClock
<1>2. rf'.pulses = rf.pulses
  BY <1>1, CountedFields
<1>3. given' = given /\ arms' = The(p)
  BY <1>1, <1>2 DEF given, arms
<1>4. QED
  BY <1>1, <1>3, CountedFields DEF RegTypes

(* ... and what they are without one.                                      *)
LEMMA NoAccess ==
  ASSUME RegTypes, IF ce THEN RegisterClock(FALSE, rf, {}) ELSE UNCHANGED <<rf, armed>>,
         UNCHANGED softvars
  PROVE  RegTypes' /\ ProgGuard("NONE") /\ ProgLines("NONE") /\ ProgCounts("NONE")
         /\ ProgSoft("NONE")
<1>1. ProgGuard("NONE")
  BY DEF ProgGuard, Acts
<1>2. ProgSoft("NONE")
  BY DEF ProgSoft, softvars
<1>3. CASE ce
  <2> DEFINE w == [rf EXCEPT !.pulses = armed, !.dma_en = @ /\ ~dma_end]
  <2>1. rf' = Counted(w) /\ armed' = {}
    BY <1>3 DEF RegisterClock
  <2>2. w \in RegisterFile
    BY DEF RegTypes, RegisterFile
  <2>3. /\ w.assert_rst = rf.assert_rst /\ w.assert_ack = rf.assert_ack
        /\ w.assert_sel = rf.assert_sel /\ w.assert_atn = rf.assert_atn
        /\ w.assert_lines = rf.assert_lines /\ w.dma_mode = rf.dma_mode
        /\ w.dma_en <=> rf.dma_en /\ ~dma_end
        /\ w.dma_ka = rf.dma_ka /\ w.dma_byte_cnt = rf.dma_byte_cnt /\ w.pulses = armed
    BY DEF RegTypes, RegisterFile
  <2> HIDE DEF w
  <2>4. rf'.pulses = armed /\ given' = arms /\ arms' = "NONE"
    BY <2>1, <2>2, <2>3, CountedFields, TheOne DEF given, arms
  <2>5. ProgLines("NONE")
    BY <1>3, <2>1, <2>2, <2>3, <2>4, CountedFields DEF ProgLines
  <2>6. ProgCounts("NONE")
    BY <1>3, <2>1, <2>2, <2>3, CountedFields DEF ProgCounts
  <2>7. RegTypes'
    BY <2>1, <2>2, CountedFields DEF RegTypes, RegPulses
  <2>8. QED
    BY <1>1, <1>2, <2>5, <2>6, <2>7
<1>4. CASE ~ce
  <2>1. rf' = rf /\ armed' = armed /\ given' = given /\ arms' = arms
    BY <1>4 DEF given, arms
  <2>2. ProgLines("NONE")
    BY <1>4, <2>1 DEF ProgLines
  <2>3. ProgCounts("NONE")
    BY <1>4, <2>1 DEF ProgCounts, RegTypes, RegisterFile
  <2>4. QED
    BY <1>1, <1>2, <2>1, <2>2, <2>3 DEF RegTypes
<1>5. QED
  BY <1>3, <1>4

(* All of it.                                                              *)
ProgMove(act) == ProgGuard(act) /\ ProgLines(act) /\ ProgCounts(act) /\ ProgSoft(act)

(* The program acts only when nothing is pending in the registers.         *)
LEMMA SettledIs ==
  ASSUME RegTypes, Settled
  PROVE  arms = "NONE" /\ given = "NONE"
BY ArmsIs, GivenIs DEF Settled, RegTypes

(* Each thing the program can do, one by one.                              *)
LEMMA SelectMoves ==
  ASSUME RegTypes, ce, AbortsAt # "ANY", Slow, Select
  PROVE  RegTypes' /\ ProgMove("Select")
<1> DEFINE w == [rf EXCEPT !.assert_sel = TRUE, !.dma_ka = 0]
<1>1. RegisterClock(TRUE, w, {}) /\ {} \in RegPulses
  BY DEF Select, RegPulses
<1>2. w \in RegisterFile
  <2>1. ASSUME NEW z \in Int
        PROVE  [rf EXCEPT !.assert_sel = TRUE, !.dma_ka = z] \in RegisterFile
    BY DEF RegTypes, RegisterFile
  <2>2. 0 \in Int
    BY CdDriveAssumption
  <2>3. QED
    BY <2>1, <2>2
<1>3. /\ w.assert_rst = rf.assert_rst /\ w.assert_ack = rf.assert_ack /\ w.assert_sel
        /\ w.assert_atn = rf.assert_atn /\ w.assert_lines = rf.assert_lines
        /\ w.dma_mode = rf.dma_mode
        /\ w.dma_en = rf.dma_en /\ w.dma_ka = 0 /\ w.dma_byte_cnt = rf.dma_byte_cnt
        /\ w.pulses = rf.pulses
  BY CdDriveAssumption DEF RegTypes, RegisterFile
<1> HIDE DEF w
<1>4. /\ RegTypes' /\ given' = given /\ arms' = The({})
      /\ rf'.assert_rst = w.assert_rst /\ rf'.assert_ack = w.assert_ack
      /\ rf'.assert_sel = w.assert_sel /\ rf'.assert_atn = w.assert_atn
      /\ rf'.assert_lines = w.assert_lines /\ rf'.dma_mode = w.dma_mode
      /\ rf'.dma_en = w.dma_en
      /\ rf'.dma_ka = w.dma_ka + (IF ce /\ dma_next_word THEN 1 ELSE 0)
      /\ rf'.dma_byte_cnt = w.dma_byte_cnt - (IF ce /\ dma_next_word THEN 1 ELSE 0)
  BY <1>1, <1>2, <1>3, Access
<1>5. ProgGuard("Select")
  BY SettledIs DEF ProgGuard, Acts, Slow, Select
<1>6. ProgLines("Select")
  BY <1>3, <1>4, TheOne DEF ProgLines
<1>7. ProgCounts("Select")
  BY <1>3, <1>4 DEF ProgCounts
<1>8. ProgSoft("Select")
  BY DEF ProgSoft, Select
<1>9. QED
  BY <1>4, <1>5, <1>6, <1>7, <1>8 DEF ProgMove

LEMMA SelectedMoves ==
  ASSUME RegTypes, ce, AbortsAt # "ANY", Slow, Selected
  PROVE  RegTypes' /\ ProgMove("Selected")
<1> DEFINE w == [rf EXCEPT !.assert_sel = FALSE]
<1>1. RegisterClock(TRUE, w, {}) /\ {} \in RegPulses
  BY DEF Selected, RegPulses
<1>2. w \in RegisterFile
  BY CdDriveAssumption DEF RegTypes, RegisterFile
<1>3. /\ w.assert_rst = rf.assert_rst /\ w.assert_ack = rf.assert_ack /\ ~w.assert_sel
        /\ w.assert_atn = rf.assert_atn /\ w.assert_lines = rf.assert_lines
        /\ w.dma_mode = rf.dma_mode
        /\ w.dma_en = rf.dma_en /\ w.dma_ka = rf.dma_ka
        /\ w.dma_byte_cnt = rf.dma_byte_cnt
        /\ w.pulses = rf.pulses
  BY CdDriveAssumption DEF RegTypes, RegisterFile
<1> HIDE DEF w
<1>4. /\ RegTypes' /\ given' = given /\ arms' = The({})
      /\ rf'.assert_rst = w.assert_rst /\ rf'.assert_ack = w.assert_ack
      /\ rf'.assert_sel = w.assert_sel /\ rf'.assert_atn = w.assert_atn
      /\ rf'.assert_lines = w.assert_lines /\ rf'.dma_mode = w.dma_mode
      /\ rf'.dma_en = w.dma_en
      /\ rf'.dma_ka = w.dma_ka + (IF ce /\ dma_next_word THEN 1 ELSE 0)
      /\ rf'.dma_byte_cnt = w.dma_byte_cnt - (IF ce /\ dma_next_word THEN 1 ELSE 0)
  BY <1>1, <1>2, <1>3, Access
<1>5. ProgGuard("Selected")
  BY SettledIs DEF ProgGuard, Acts, Slow, Selected
<1>6. ProgLines("Selected")
  BY <1>3, <1>4, TheOne DEF ProgLines
<1>7. ProgCounts("Selected")
  BY <1>3, <1>4 DEF ProgCounts
<1>8. ProgSoft("Selected")
  BY DEF ProgSoft, Selected
<1>9. QED
  BY <1>4, <1>5, <1>6, <1>7, <1>8 DEF ProgMove

LEMMA PutMoves ==
  ASSUME RegTypes, ce, AbortsAt # "ANY", Slow, Put
  PROVE  RegTypes' /\ ProgMove("Put")
<1> DEFINE w == [rf EXCEPT !.assert_ack = TRUE, !.assert_atn = @ /\ phase # "MSGOUT"]
<1>1. RegisterClock(TRUE, w, {}) /\ {} \in RegPulses
  BY DEF Put, RegPulses
<1>2. w \in RegisterFile
  BY CdDriveAssumption DEF RegTypes, RegisterFile
<1>3. /\ w.assert_rst = rf.assert_rst /\ w.assert_ack /\ w.assert_sel = rf.assert_sel
        /\ (w.assert_atn <=> rf.assert_atn /\ phase # "MSGOUT")
        /\ w.assert_lines = rf.assert_lines /\ w.dma_mode = rf.dma_mode
        /\ w.dma_en = rf.dma_en /\ w.dma_ka = rf.dma_ka
        /\ w.dma_byte_cnt = rf.dma_byte_cnt
        /\ w.pulses = rf.pulses
  BY CdDriveAssumption DEF RegTypes, RegisterFile
<1> HIDE DEF w
<1>4. /\ RegTypes' /\ given' = given /\ arms' = The({})
      /\ rf'.assert_rst = w.assert_rst /\ rf'.assert_ack = w.assert_ack
      /\ rf'.assert_sel = w.assert_sel /\ rf'.assert_atn = w.assert_atn
      /\ rf'.assert_lines = w.assert_lines /\ rf'.dma_mode = w.dma_mode
      /\ rf'.dma_en = w.dma_en
      /\ rf'.dma_ka = w.dma_ka + (IF ce /\ dma_next_word THEN 1 ELSE 0)
      /\ rf'.dma_byte_cnt = w.dma_byte_cnt - (IF ce /\ dma_next_word THEN 1 ELSE 0)
  BY <1>1, <1>2, <1>3, Access
<1>5. ProgGuard("Put")
  BY SettledIs DEF ProgGuard, Acts, Slow, Put, Asked, InPhase
<1>6. ProgLines("Put")
  BY <1>3, <1>4, TheOne DEF ProgLines
<1>7. ProgCounts("Put")
  BY <1>3, <1>4 DEF ProgCounts
<1>8. ProgSoft("Put")
  BY DEF ProgSoft, Put, Asked, InPhase
<1>9. QED
  BY <1>4, <1>5, <1>6, <1>7, <1>8 DEF ProgMove

LEMMA GetMoves ==
  ASSUME RegTypes, ce, AbortsAt # "ANY", Slow, Get
  PROVE  RegTypes' /\ ProgMove("Get")
<1> DEFINE w == [rf EXCEPT !.assert_ack = TRUE]
<1>1. RegisterClock(TRUE, w, {}) /\ {} \in RegPulses
  BY DEF Get, RegPulses
<1>2. w \in RegisterFile
  BY CdDriveAssumption DEF RegTypes, RegisterFile
<1>3. /\ w.assert_rst = rf.assert_rst /\ w.assert_ack /\ w.assert_sel = rf.assert_sel
        /\ w.assert_atn = rf.assert_atn /\ w.assert_lines = rf.assert_lines
        /\ w.dma_mode = rf.dma_mode
        /\ w.dma_en = rf.dma_en /\ w.dma_ka = rf.dma_ka
        /\ w.dma_byte_cnt = rf.dma_byte_cnt
        /\ w.pulses = rf.pulses
  BY CdDriveAssumption DEF RegTypes, RegisterFile
<1> HIDE DEF w
<1>4. /\ RegTypes' /\ given' = given /\ arms' = The({})
      /\ rf'.assert_rst = w.assert_rst /\ rf'.assert_ack = w.assert_ack
      /\ rf'.assert_sel = w.assert_sel /\ rf'.assert_atn = w.assert_atn
      /\ rf'.assert_lines = w.assert_lines /\ rf'.dma_mode = w.dma_mode
      /\ rf'.dma_en = w.dma_en
      /\ rf'.dma_ka = w.dma_ka + (IF ce /\ dma_next_word THEN 1 ELSE 0)
      /\ rf'.dma_byte_cnt = w.dma_byte_cnt - (IF ce /\ dma_next_word THEN 1 ELSE 0)
  BY <1>1, <1>2, <1>3, Access
<1>5. ProgGuard("Get")
  BY SettledIs DEF ProgGuard, Acts, Slow, Get, Asked, InPhase
<1>6. ProgLines("Get")
  BY <1>3, <1>4, TheOne DEF ProgLines
<1>7. ProgCounts("Get")
  BY <1>3, <1>4 DEF ProgCounts
<1>8. ProgSoft("Get")
  BY DEF ProgSoft, Get, Asked, InPhase
<1>9. QED
  BY <1>4, <1>5, <1>6, <1>7, <1>8 DEF ProgMove

LEMMA ReleaseMoves ==
  ASSUME RegTypes, ce, AbortsAt # "ANY", Slow, Release
  PROVE  RegTypes' /\ ProgMove("Release")
<1> DEFINE w == [rf EXCEPT !.assert_ack = FALSE]
<1>1. RegisterClock(TRUE, w, {}) /\ {} \in RegPulses
  BY DEF Release, RegPulses
<1>2. w \in RegisterFile
  BY CdDriveAssumption DEF RegTypes, RegisterFile
<1>3. /\ w.assert_rst = rf.assert_rst /\ ~w.assert_ack /\ w.assert_sel = rf.assert_sel
        /\ w.assert_atn = rf.assert_atn /\ w.assert_lines = rf.assert_lines
        /\ w.dma_mode = rf.dma_mode
        /\ w.dma_en = rf.dma_en /\ w.dma_ka = rf.dma_ka
        /\ w.dma_byte_cnt = rf.dma_byte_cnt
        /\ w.pulses = rf.pulses
  BY CdDriveAssumption DEF RegTypes, RegisterFile
<1> HIDE DEF w
<1>4. /\ RegTypes' /\ given' = given /\ arms' = The({})
      /\ rf'.assert_rst = w.assert_rst /\ rf'.assert_ack = w.assert_ack
      /\ rf'.assert_sel = w.assert_sel /\ rf'.assert_atn = w.assert_atn
      /\ rf'.assert_lines = w.assert_lines /\ rf'.dma_mode = w.dma_mode
      /\ rf'.dma_en = w.dma_en
      /\ rf'.dma_ka = w.dma_ka + (IF ce /\ dma_next_word THEN 1 ELSE 0)
      /\ rf'.dma_byte_cnt = w.dma_byte_cnt - (IF ce /\ dma_next_word THEN 1 ELSE 0)
  BY <1>1, <1>2, <1>3, Access
<1>5. ProgGuard("Release")
  BY SettledIs DEF ProgGuard, Acts, Slow, Release
<1>6. ProgLines("Release")
  BY <1>3, <1>4, TheOne DEF ProgLines
<1>7. ProgCounts("Release")
  BY <1>3, <1>4 DEF ProgCounts
<1>8. ProgSoft("Release")
  BY DEF ProgSoft, Release
<1>9. QED
  BY <1>4, <1>5, <1>6, <1>7, <1>8 DEF ProgMove

LEMMA ClearIntMoves ==
  ASSUME RegTypes, ce, AbortsAt # "ANY", Slow, ClearInt
  PROVE  RegTypes' /\ ProgMove("ClearInt")
<1> DEFINE w == rf
<1>1. RegisterClock(TRUE, w, {"reset_int"}) /\ {"reset_int"} \in RegPulses
  BY DEF ClearInt, RegPulses
<1>2. w \in RegisterFile
  BY CdDriveAssumption DEF RegTypes, RegisterFile
<1>3. /\ w.assert_rst = rf.assert_rst /\ w.assert_ack = rf.assert_ack
      /\ w.assert_sel = rf.assert_sel
        /\ w.assert_atn = rf.assert_atn /\ w.assert_lines = rf.assert_lines
        /\ w.dma_mode = rf.dma_mode
        /\ w.dma_en = rf.dma_en /\ w.dma_ka = rf.dma_ka
        /\ w.dma_byte_cnt = rf.dma_byte_cnt
        /\ w.pulses = rf.pulses
  BY CdDriveAssumption DEF RegTypes, RegisterFile
<1> HIDE DEF w
<1>4. /\ RegTypes' /\ given' = given /\ arms' = The({"reset_int"})
      /\ rf'.assert_rst = w.assert_rst /\ rf'.assert_ack = w.assert_ack
      /\ rf'.assert_sel = w.assert_sel /\ rf'.assert_atn = w.assert_atn
      /\ rf'.assert_lines = w.assert_lines /\ rf'.dma_mode = w.dma_mode
      /\ rf'.dma_en = w.dma_en
      /\ rf'.dma_ka = w.dma_ka + (IF ce /\ dma_next_word THEN 1 ELSE 0)
      /\ rf'.dma_byte_cnt = w.dma_byte_cnt - (IF ce /\ dma_next_word THEN 1 ELSE 0)
  BY <1>1, <1>2, <1>3, Access
<1>5. ProgGuard("ClearInt")
  BY SettledIs DEF ProgGuard, Acts, Slow, ClearInt, Asked, InPhase
<1>6. ProgLines("ClearInt")
  BY <1>3, <1>4, TheOne DEF ProgLines
<1>7. ProgCounts("ClearInt")
  BY <1>3, <1>4 DEF ProgCounts
<1>8. ProgSoft("ClearInt")
  BY DEF ProgSoft, ClearInt, softvars
<1>9. QED
  BY <1>4, <1>5, <1>6, <1>7, <1>8 DEF ProgMove

LEMMA StartDmaMoves ==
  ASSUME RegTypes, ce, AbortsAt # "ANY", Slow, NEW n \in Chunks, StartDma(n)
  PROVE  RegTypes' /\ ProgMove("StartDma")
<1> DEFINE w == [rf EXCEPT !.dma_mode = TRUE, !.dma_en = TRUE,
                 !.assert_lines = Lines("DATAIN"), !.dma_byte_cnt = n]
<1>1. RegisterClock(TRUE, w, {"start_dma_rx"}) /\ {"start_dma_rx"} \in RegPulses
  BY DEF StartDma, RegPulses
<1>2. w \in RegisterFile
  <2>1. ASSUME NEW z \in Int
        PROVE  [rf EXCEPT !.dma_mode = TRUE, !.dma_en = TRUE,
                !.assert_lines = Lines("DATAIN"),
                                           !.dma_byte_cnt = z] \in RegisterFile
    BY DEF RegTypes, RegisterFile
  <2>2. n \in Int
    BY CdDriveAssumption
  <2>3. QED
    BY <2>1, <2>2
<1>3. /\ w.assert_rst = rf.assert_rst /\ w.assert_ack = rf.assert_ack
      /\ w.assert_sel = rf.assert_sel
        /\ w.assert_atn = rf.assert_atn /\ w.assert_lines = Lines("DATAIN") /\ w.dma_mode
        /\ w.dma_en /\ w.dma_ka = rf.dma_ka /\ w.dma_byte_cnt = n
        /\ w.pulses = rf.pulses
  BY CdDriveAssumption DEF RegTypes, RegisterFile
<1> HIDE DEF w
<1>4. /\ RegTypes' /\ given' = given /\ arms' = The({"start_dma_rx"})
      /\ rf'.assert_rst = w.assert_rst /\ rf'.assert_ack = w.assert_ack
      /\ rf'.assert_sel = w.assert_sel /\ rf'.assert_atn = w.assert_atn
      /\ rf'.assert_lines = w.assert_lines /\ rf'.dma_mode = w.dma_mode
      /\ rf'.dma_en = w.dma_en
      /\ rf'.dma_ka = w.dma_ka + (IF ce /\ dma_next_word THEN 1 ELSE 0)
      /\ rf'.dma_byte_cnt = w.dma_byte_cnt - (IF ce /\ dma_next_word THEN 1 ELSE 0)
  BY <1>1, <1>2, <1>3, Access
<1>5. ProgGuard("StartDma")
  BY SettledIs DEF ProgGuard, Acts, Slow, StartDma, Asked, InPhase
<1>6. ProgLines("StartDma")
  BY <1>3, <1>4, TheOne DEF ProgLines
<1>7. ProgCounts("StartDma")
  BY <1>3, <1>4 DEF ProgCounts
<1>8. ProgSoft("StartDma")
  BY DEF ProgSoft, StartDma, softvars
<1>9. QED
  BY <1>4, <1>5, <1>6, <1>7, <1>8 DEF ProgMove

LEMMA DmaDoneMoves ==
  ASSUME RegTypes, ce, AbortsAt # "ANY", Slow, DmaDone
  PROVE  RegTypes' /\ ProgMove("DmaDone")
<1> DEFINE w == [rf EXCEPT !.dma_mode = FALSE, !.dma_en = FALSE]
<1>1. RegisterClock(TRUE, w, {"reset_dma_end_int"}) /\ {"reset_dma_end_int"} \in RegPulses
  BY DEF DmaDone, RegPulses
<1>2. w \in RegisterFile
  BY CdDriveAssumption DEF RegTypes, RegisterFile
<1>3. /\ w.assert_rst = rf.assert_rst /\ w.assert_ack = rf.assert_ack
      /\ w.assert_sel = rf.assert_sel
        /\ w.assert_atn = rf.assert_atn /\ w.assert_lines = rf.assert_lines /\ ~w.dma_mode
        /\ ~w.dma_en /\ w.dma_ka = rf.dma_ka /\ w.dma_byte_cnt = rf.dma_byte_cnt
        /\ w.pulses = rf.pulses
  BY CdDriveAssumption DEF RegTypes, RegisterFile
<1> HIDE DEF w
<1>4. /\ RegTypes' /\ given' = given /\ arms' = The({"reset_dma_end_int"})
      /\ rf'.assert_rst = w.assert_rst /\ rf'.assert_ack = w.assert_ack
      /\ rf'.assert_sel = w.assert_sel /\ rf'.assert_atn = w.assert_atn
      /\ rf'.assert_lines = w.assert_lines /\ rf'.dma_mode = w.dma_mode
      /\ rf'.dma_en = w.dma_en
      /\ rf'.dma_ka = w.dma_ka + (IF ce /\ dma_next_word THEN 1 ELSE 0)
      /\ rf'.dma_byte_cnt = w.dma_byte_cnt - (IF ce /\ dma_next_word THEN 1 ELSE 0)
  BY <1>1, <1>2, <1>3, Access
<1>5. ProgGuard("DmaDone")
  BY SettledIs DEF ProgGuard, Acts, Slow, DmaDone
<1>6. ProgLines("DmaDone")
  BY <1>3, <1>4, TheOne DEF ProgLines
<1>7. ProgCounts("DmaDone")
  BY <1>3, <1>4 DEF ProgCounts
<1>8. ProgSoft("DmaDone")
  BY DEF ProgSoft, DmaDone, softvars
<1>9. QED
  BY <1>4, <1>5, <1>6, <1>7, <1>8 DEF ProgMove

LEMMA DmaStoppedMoves ==
  ASSUME RegTypes, ce, AbortsAt # "ANY", Slow, DmaStopped
  PROVE  RegTypes' /\ ProgMove("DmaStopped")
<1> DEFINE w == [rf EXCEPT !.dma_mode = FALSE, !.dma_en = FALSE]
<1>1. RegisterClock(TRUE, w, {"reset_int"}) /\ {"reset_int"} \in RegPulses
  BY DEF DmaStopped, RegPulses
<1>2. w \in RegisterFile
  BY CdDriveAssumption DEF RegTypes, RegisterFile
<1>3. /\ w.assert_rst = rf.assert_rst /\ w.assert_ack = rf.assert_ack
      /\ w.assert_sel = rf.assert_sel
        /\ w.assert_atn = rf.assert_atn /\ w.assert_lines = rf.assert_lines /\ ~w.dma_mode
        /\ ~w.dma_en /\ w.dma_ka = rf.dma_ka /\ w.dma_byte_cnt = rf.dma_byte_cnt
        /\ w.pulses = rf.pulses
  BY CdDriveAssumption DEF RegTypes, RegisterFile
<1> HIDE DEF w
<1>4. /\ RegTypes' /\ given' = given /\ arms' = The({"reset_int"})
      /\ rf'.assert_rst = w.assert_rst /\ rf'.assert_ack = w.assert_ack
      /\ rf'.assert_sel = w.assert_sel /\ rf'.assert_atn = w.assert_atn
      /\ rf'.assert_lines = w.assert_lines /\ rf'.dma_mode = w.dma_mode
      /\ rf'.dma_en = w.dma_en
      /\ rf'.dma_ka = w.dma_ka + (IF ce /\ dma_next_word THEN 1 ELSE 0)
      /\ rf'.dma_byte_cnt = w.dma_byte_cnt - (IF ce /\ dma_next_word THEN 1 ELSE 0)
  BY <1>1, <1>2, <1>3, Access
<1>5. ProgGuard("DmaStopped")
  BY SettledIs DEF ProgGuard, Acts, Slow, DmaStopped
<1>6. ProgLines("DmaStopped")
  BY <1>3, <1>4, TheOne DEF ProgLines
<1>7. ProgCounts("DmaStopped")
  BY <1>3, <1>4 DEF ProgCounts
<1>8. ProgSoft("DmaStopped")
  BY DEF ProgSoft, DmaStopped, softvars
<1>9. QED
  BY <1>4, <1>5, <1>6, <1>7, <1>8 DEF ProgMove

LEMMA FreedMoves ==
  ASSUME RegTypes, ce, AbortsAt # "ANY", Slow, Freed
  PROVE  RegTypes' /\ ProgMove("Freed")
<1> DEFINE w == rf
<1>1. RegisterClock(TRUE, w, {}) /\ {} \in RegPulses
  BY DEF Freed, RegPulses
<1>2. w \in RegisterFile
  BY CdDriveAssumption DEF RegTypes, RegisterFile
<1>3. /\ w.assert_rst = rf.assert_rst /\ w.assert_ack = rf.assert_ack
      /\ w.assert_sel = rf.assert_sel
        /\ w.assert_atn = rf.assert_atn /\ w.assert_lines = rf.assert_lines
        /\ w.dma_mode = rf.dma_mode
        /\ w.dma_en = rf.dma_en /\ w.dma_ka = rf.dma_ka
        /\ w.dma_byte_cnt = rf.dma_byte_cnt
        /\ w.pulses = rf.pulses
  BY CdDriveAssumption DEF RegTypes, RegisterFile
<1> HIDE DEF w
<1>4. /\ RegTypes' /\ given' = given /\ arms' = The({})
      /\ rf'.assert_rst = w.assert_rst /\ rf'.assert_ack = w.assert_ack
      /\ rf'.assert_sel = w.assert_sel /\ rf'.assert_atn = w.assert_atn
      /\ rf'.assert_lines = w.assert_lines /\ rf'.dma_mode = w.dma_mode
      /\ rf'.dma_en = w.dma_en
      /\ rf'.dma_ka = w.dma_ka + (IF ce /\ dma_next_word THEN 1 ELSE 0)
      /\ rf'.dma_byte_cnt = w.dma_byte_cnt - (IF ce /\ dma_next_word THEN 1 ELSE 0)
  BY <1>1, <1>2, <1>3, Access
<1>5. ProgGuard("Freed")
  BY SettledIs DEF ProgGuard, Acts, Slow, Freed
<1>6. ProgLines("Freed")
  BY <1>3, <1>4, TheOne DEF ProgLines
<1>7. ProgCounts("Freed")
  BY <1>3, <1>4 DEF ProgCounts
<1>8. ProgSoft("Freed")
  BY DEF ProgSoft, Freed
<1>9. QED
  BY <1>4, <1>5, <1>6, <1>7, <1>8 DEF ProgMove

LEMMA BusResetOnMoves ==
  ASSUME RegTypes, ce, AbortsAt # "ANY", Slow, BusResetOn
  PROVE  RegTypes' /\ ProgMove("BusResetOn")
<1> DEFINE w == [rf EXCEPT !.assert_rst = TRUE]
<1>1. RegisterClock(TRUE, w, {}) /\ {} \in RegPulses
  BY DEF BusResetOn, RegPulses
<1>2. w \in RegisterFile
  BY CdDriveAssumption DEF RegTypes, RegisterFile
<1>3. /\ w.assert_rst /\ w.assert_ack = rf.assert_ack /\ w.assert_sel = rf.assert_sel
        /\ w.assert_atn = rf.assert_atn /\ w.assert_lines = rf.assert_lines
        /\ w.dma_mode = rf.dma_mode
        /\ w.dma_en = rf.dma_en /\ w.dma_ka = rf.dma_ka
        /\ w.dma_byte_cnt = rf.dma_byte_cnt
        /\ w.pulses = rf.pulses
  BY CdDriveAssumption DEF RegTypes, RegisterFile
<1> HIDE DEF w
<1>4. /\ RegTypes' /\ given' = given /\ arms' = The({})
      /\ rf'.assert_rst = w.assert_rst /\ rf'.assert_ack = w.assert_ack
      /\ rf'.assert_sel = w.assert_sel /\ rf'.assert_atn = w.assert_atn
      /\ rf'.assert_lines = w.assert_lines /\ rf'.dma_mode = w.dma_mode
      /\ rf'.dma_en = w.dma_en
      /\ rf'.dma_ka = w.dma_ka + (IF ce /\ dma_next_word THEN 1 ELSE 0)
      /\ rf'.dma_byte_cnt = w.dma_byte_cnt - (IF ce /\ dma_next_word THEN 1 ELSE 0)
  BY <1>1, <1>2, <1>3, Access
<1>5. ProgGuard("BusResetOn")
  BY SettledIs DEF ProgGuard, Acts, Slow, BusResetOn
<1>6. ProgLines("BusResetOn")
  BY <1>3, <1>4, TheOne DEF ProgLines
<1>7. ProgCounts("BusResetOn")
  BY <1>3, <1>4 DEF ProgCounts
<1>8. ProgSoft("BusResetOn")
  BY DEF ProgSoft, BusResetOn
<1>9. QED
  BY <1>4, <1>5, <1>6, <1>7, <1>8 DEF ProgMove

LEMMA BusResetOffMoves ==
  ASSUME RegTypes, ce, AbortsAt # "ANY", Slow, BusResetOff
  PROVE  RegTypes' /\ ProgMove("BusResetOff")
<1> DEFINE w == [rf EXCEPT !.assert_rst = FALSE]
<1>1. RegisterClock(TRUE, w, {"reset_int"}) /\ {"reset_int"} \in RegPulses
  BY DEF BusResetOff, RegPulses
<1>2. w \in RegisterFile
  BY CdDriveAssumption DEF RegTypes, RegisterFile
<1>3. /\ ~w.assert_rst /\ w.assert_ack = rf.assert_ack /\ w.assert_sel = rf.assert_sel
        /\ w.assert_atn = rf.assert_atn /\ w.assert_lines = rf.assert_lines
        /\ w.dma_mode = rf.dma_mode
        /\ w.dma_en = rf.dma_en /\ w.dma_ka = rf.dma_ka
        /\ w.dma_byte_cnt = rf.dma_byte_cnt
        /\ w.pulses = rf.pulses
  BY CdDriveAssumption DEF RegTypes, RegisterFile
<1> HIDE DEF w
<1>4. /\ RegTypes' /\ given' = given /\ arms' = The({"reset_int"})
      /\ rf'.assert_rst = w.assert_rst /\ rf'.assert_ack = w.assert_ack
      /\ rf'.assert_sel = w.assert_sel /\ rf'.assert_atn = w.assert_atn
      /\ rf'.assert_lines = w.assert_lines /\ rf'.dma_mode = w.dma_mode
      /\ rf'.dma_en = w.dma_en
      /\ rf'.dma_ka = w.dma_ka + (IF ce /\ dma_next_word THEN 1 ELSE 0)
      /\ rf'.dma_byte_cnt = w.dma_byte_cnt - (IF ce /\ dma_next_word THEN 1 ELSE 0)
  BY <1>1, <1>2, <1>3, Access
<1>5. ProgGuard("BusResetOff")
  BY SettledIs DEF ProgGuard, Acts, Slow, BusResetOff
<1>6. ProgLines("BusResetOff")
  BY <1>3, <1>4, TheOne DEF ProgLines
<1>7. ProgCounts("BusResetOff")
  BY <1>3, <1>4 DEF ProgCounts
<1>8. ProgSoft("BusResetOff")
  BY DEF ProgSoft, BusResetOff
<1>9. QED
  BY <1>4, <1>5, <1>6, <1>7, <1>8 DEF ProgMove

LEMMA AbortMoves ==
  ASSUME RegTypes, ce, AbortsAt # "ANY", Settled, Abort
  PROVE  RegTypes' /\ ProgMove("Abort")
<1> DEFINE w == [rf EXCEPT !.assert_atn = TRUE]
<1>1. RegisterClock(TRUE, w, {}) /\ {} \in RegPulses
  BY DEF Abort, RegPulses
<1>2. w \in RegisterFile
  BY CdDriveAssumption DEF RegTypes, RegisterFile
<1>3. /\ w.assert_rst = rf.assert_rst /\ w.assert_ack = rf.assert_ack
      /\ w.assert_sel = rf.assert_sel
        /\ w.assert_atn /\ w.assert_lines = rf.assert_lines /\ w.dma_mode = rf.dma_mode
        /\ w.dma_en = rf.dma_en /\ w.dma_ka = rf.dma_ka
        /\ w.dma_byte_cnt = rf.dma_byte_cnt
        /\ w.pulses = rf.pulses
  BY CdDriveAssumption DEF RegTypes, RegisterFile
<1> HIDE DEF w
<1>4. /\ RegTypes' /\ given' = given /\ arms' = The({})
      /\ rf'.assert_rst = w.assert_rst /\ rf'.assert_ack = w.assert_ack
      /\ rf'.assert_sel = w.assert_sel /\ rf'.assert_atn = w.assert_atn
      /\ rf'.assert_lines = w.assert_lines /\ rf'.dma_mode = w.dma_mode
      /\ rf'.dma_en = w.dma_en
      /\ rf'.dma_ka = w.dma_ka + (IF ce /\ dma_next_word THEN 1 ELSE 0)
      /\ rf'.dma_byte_cnt = w.dma_byte_cnt - (IF ce /\ dma_next_word THEN 1 ELSE 0)
  BY <1>1, <1>2, <1>3, Access
<1>5. ProgGuard("Abort")
  BY SettledIs DEF ProgGuard, Acts, Abort, InPhase, MayAbort, blkend
<1>6. ProgLines("Abort")
  BY <1>3, <1>4, TheOne DEF ProgLines
<1>7. ProgCounts("Abort")
  BY <1>3, <1>4 DEF ProgCounts
<1>8. ProgSoft("Abort")
  BY DEF ProgSoft, Abort
<1>9. QED
  BY <1>4, <1>5, <1>6, <1>7, <1>8 DEF ProgMove

(* In a clock the program does one of them, or nothing.                    *)
LEMMA ProgMoves ==
  ASSUME Next, RegTypes, AbortsAt # "ANY"
  PROVE  RegTypes' /\ \E act \in Acts : ProgMove(act)
<1>1. PICK program \in BOOLEAN : ProgramClock(program)
  BY DEF Next, Tick
<1>2. CASE program
  <2>1. ce /\ Program
    BY <1>1, <1>2 DEF ProgramClock
  <2>2. Abort => Settled
    BY <2>1 DEF Program, Slow
  <2>3. QED
    BY <2>1, SelectMoves, SelectedMoves, PutMoves, GetMoves, ReleaseMoves,
       ClearIntMoves, StartDmaMoves, DmaDoneMoves, DmaStoppedMoves, FreedMoves,
       BusResetOnMoves, BusResetOffMoves, AbortMoves DEF Program, Acts
<1>3. CASE ~program
  BY <1>1, <1>3, NoAccess DEF ProgramClock, ProgMove, Acts
<1>4. QED
  BY <1>2, <1>3

-----------------------------------------------------------------------------
(* The engine in KING.                                                     *)

(* The phase is the one that is set.                                       *)
Matches == phase_match(Lines(phase))

(* The engine takes the byte it has latched.                               *)
Takes == /\ ce /\ rf.dma_en /\ ~dma_end /\ rf.dma_mode /\ phase = "DATAIN"
         /\ req_posedge_d \/ given = "start_dma_rx"

(* The hand shake of the engine.                                           *)
HandMove ==
  /\ ce' <=> ~ce
  /\ req_posedge_d' <=> (IF ce THEN REQ /\ reqn_d ELSE req_posedge_d)
  /\ reqn_d' <=> (IF ce THEN ~REQ ELSE reqn_d)
  /\ rxbuf' = (IF ce /\ REQ /\ reqn_d THEN SCSI_DI ELSE rxbuf)
  /\ phase_match_d' <=> (IF ce THEN Matches ELSE phase_match_d)
  /\ block_int' <=> (IF ce THEN \/ rf.assert_rst
                                \/ REQ /\ reqn_d /\ ~Matches /\ phase_match_d
                                \/ block_int /\ given # "reset_int"
                     ELSE block_int)
  /\ assert_ack_dma'
       <=> (IF ce THEN rf.dma_mode /\ (IF assert_ack_cnt THEN assert_ack_dma
                                       ELSE dma_rxbuf_rd)
            ELSE assert_ack_dma)
  /\ assert_ack_cnt'
       <=> (IF ce THEN rf.dma_mode /\ ~assert_ack_cnt /\ (dma_rxbuf_rd \/ assert_ack_dma)
            ELSE assert_ack_cnt)

(* Its words, with M the acknowledge of KRAM.                              *)
WordMove(M) ==
  /\ M => m_req
  /\ dma_a0' <=> (IF ~ce THEN dma_a0 ELSE
                  IF Takes THEN ~dma_a0 ELSE rf.dma_en /\ ~dma_end /\ dma_a0)
  /\ dma_rxbuf' = (IF Takes /\ ~dma_a0 THEN rxbuf ELSE dma_rxbuf)
  /\ m_do' = (IF Takes /\ dma_a0 THEN <<dma_rxbuf, rxbuf>> ELSE m_do)
  /\ m_req' <=> (~M /\ (m_req \/ (Takes /\ dma_a0)))
  /\ dma_rxbuf_rd' <=> ((Takes /\ ~dma_a0) \/ M \/ (~ce /\ dma_rxbuf_rd))
  /\ dma_next_word' <=> (M \/ (~ce /\ dma_next_word))
  /\ dma_end' <=> (IF M THEN rf.dma_byte_cnt = 1
                   ELSE dma_end /\ ~(ce /\ given = "reset_dma_end_int"))
  /\ kram' = (IF pc' = "IDLE" THEN EmptyKram
              ELSE IF M THEN [kram EXCEPT ![rf.dma_ka] = m_do] ELSE kram)

(* The host.                                                               *)
HostMove ==
  /\ medium_empty' = medium_empty
  /\ \/ (SD_ACK' <=> SD_ACK) /\ sdbuf' = sdbuf
     \/ SD_RD /\ ~SD_ACK /\ SD_ACK' /\ sdbuf' = Partial
     \/ SD_ACK /\ ~SD_ACK' /\ sdbuf' = SD_LBA

(* The FIFO.                                                               *)
FifoMove == FifoClock(FIFO_WR_REQ, FIFO_D, strobe = "FIFO_RD_REQ")

(* The engine, the host and the FIFO move as said.                         *)
LEMMA OtherMoves ==
  ASSUME Next, OneAtOnce, RegTypes, BusOK,
         rf.dma_mode => rf.assert_lines = Lines("DATAIN")
  PROVE  HandMove /\ HostMove /\ FifoMove /\ \E M \in BOOLEAN : WordMove(M)
<1>1. PICK program \in BOOLEAN, host \in BOOLEAN, M \in BOOLEAN : Tick(program, host, M)
  BY DEF Next
<1>2. KingClock(ce, REQ, Lines(phase), SCSI_DI, M) /\ KramClock(M) /\ HostClock(host)
  BY <1>1 DEF Tick
<1>3. rf.dma_mode => (Matches <=> phase = "DATAIN")
  BY MatchIs DEF BusOK, Matches, Starts, Ends
<1>4. rf \in RegisterFile
  BY DEF RegTypes
<1>5. /\ dma_req_clr <=> rf.dma_mode /\ dma_rxbuf_rd
      /\ dma_req_set(Matches) <=> /\ rf.dma_mode /\ phase = "DATAIN"
                                  /\ req_posedge_d \/ given = "start_dma_rx"
      /\ Pulse("reset_int") <=> given = "reset_int"
      /\ Pulse("reset_dma_end_int") <=> given = "reset_dma_end_int"
  BY <1>3, <1>4, GivenIs DEF dma_req_clr, dma_req_set, Pulse
<1>6. /\ FirstByte(ce, Matches) <=> Takes /\ ~dma_a0
      /\ SecondByte(ce, Matches) <=> Takes /\ dma_a0
      /\ WordTaken(M) <=> M
  BY <1>2, <1>5 DEF FirstByte, SecondByte, WordTaken, KramClock, Takes
<1>7. WordClock(ce, Matches, M)
  BY <1>2 DEF KingClock, Matches
<1>8. dma_a0' <=> (IF ~ce THEN dma_a0 ELSE
                  IF Takes THEN ~dma_a0 ELSE rf.dma_en /\ ~dma_end /\ dma_a0)
  <2>1. dma_a0' = dma_a0_Next(ce, Matches)
    BY <1>7 DEF WordClock
  <2>2. QED
    BY <1>5, <2>1 DEF dma_a0_Next, Takes
<1>9. /\ dma_rxbuf' = (IF Takes /\ ~dma_a0 THEN rxbuf ELSE dma_rxbuf)
      /\ m_do' = (IF Takes /\ dma_a0 THEN <<dma_rxbuf, rxbuf>> ELSE m_do)
  BY <1>6, <1>7 DEF WordClock
<1>10. /\ m_req' <=> (~M /\ (m_req \/ (Takes /\ dma_a0)))
       /\ dma_rxbuf_rd' <=> ((Takes /\ ~dma_a0) \/ M \/ (~ce /\ dma_rxbuf_rd))
       /\ dma_next_word' <=> (M \/ (~ce /\ dma_next_word))
       /\ dma_end' <=> (IF M THEN rf.dma_byte_cnt = 1
                   ELSE dma_end /\ ~(ce /\ given = "reset_dma_end_int"))
  BY <1>5, <1>6, <1>7 DEF WordClock
<1>11. WordMove(M)
  BY <1>2, <1>8, <1>9, <1>10 DEF WordMove, KramClock
<1>12. HandMove
  <2>1. ce' <=> ~ce
    BY <1>1 DEF Tick
  <2>2. CASE ce
    <3>1. HandClock(REQ, Lines(phase), SCSI_DI) /\ AckClock
      BY <1>2, <2>2 DEF KingClock
    <3>2. /\ req_posedge_d' <=> REQ /\ reqn_d
          /\ reqn_d' <=> ~REQ
          /\ rxbuf' = (IF REQ /\ reqn_d THEN SCSI_DI ELSE rxbuf)
          /\ phase_match_d' <=> Matches
          /\ block_int' <=> \/ rf.assert_rst
                            \/ REQ /\ reqn_d /\ ~Matches /\ phase_match_d
                            \/ block_int /\ given # "reset_int"
      BY <1>5, <3>1 DEF HandClock, req_posedge, Matches
    <3>3. /\ assert_ack_dma'
               <=> rf.dma_mode
                   /\ (IF assert_ack_cnt THEN assert_ack_dma ELSE dma_rxbuf_rd)
          /\ assert_ack_cnt'
               <=> rf.dma_mode /\ ~assert_ack_cnt /\ (dma_rxbuf_rd \/ assert_ack_dma)
      BY <1>5, <3>1 DEF AckClock, ackvars
    <3>4. QED
      BY <2>1, <2>2, <3>2, <3>3 DEF HandMove
  <2>3. CASE ~ce
    BY <1>2, <2>1, <2>3 DEF KingClock, handvars, ackvars, HandMove
  <2>4. QED
    BY <2>2, <2>3
<1>13. HostMove
  BY <1>2 DEF HostClock, HostMove
<1>14. FifoMove
  <2>1. FifoClock(FIFO_WR_REQ, FIFO_D, "FIFO_RD_REQ" \in strobes)
    BY <1>1 DEF Tick, TargetClock
  <2>2. "FIFO_RD_REQ" \in strobes <=> strobe = "FIFO_RD_REQ"
    BY StrobeIs
  <2>3. QED
    BY <2>1, <2>2 DEF FifoClock, FifoMove, WrittenMem, rbinnext, wbinnext
<1>15. QED
  BY <1>11, <1>12, <1>13, <1>14

-----------------------------------------------------------------------------
(* With the DMA on, the engine sees its phase in DATAIN only.              *)
LEMMA EngineMatch ==
  ASSUME BusOK, ProgOK
  PROVE  rf.dma_mode => (Matches <=> phase = "DATAIN")
BY MatchIs DEF BusOK, ProgOK, Matches, Starts, Ends

(* A FIFO from which all is taken shows that it is empty.                  *)
LEMMA DrainedEmpty ==
  ASSUME PInv, Drained, strobe # "FIFO_RD_REQ"
  PROVE  REMPTY
<1>1. rbin = wbin
  BY DEF Drained, front
<1>2. wbin \in Pointer
  BY DEF PInv, PointersOK
<1>3. Distance(rbin, wbin) = 0
  BY <1>1, <1>2, FifoAssumption DEF Distance, Pointer
<1>4. QED
  BY <1>3, OrderGivesFlags DEF FlagsSafe

(* So it is where the target cannot be reading.                            *)
LEMMA FreeEmpty ==
  ASSUME PInv, BusOK, Drained, SP # "DATAIN_START"
  PROVE  REMPTY
BY DrainedEmpty DEF BusOK

-----------------------------------------------------------------------------
(* The bus, the hand shake and the engine keep their parts.                *)

(* A byte that is there stays, as long as it is not read.                  *)
LEMMA StillThere ==
  ASSUME PInv, FifoMove, ~REMPTY, strobe # "FIFO_RD_REQ"
  PROVE  ~REMPTY'
<1>1. REMPTY' <=> rbin = rq2_wptr
  BY DEF FifoMove, FifoClock, rbinnext
<1>2. rbin # rq2_wptr
  BY FifoAssumption DEF PInv, PointersOK, InOrder, Distance, Pointer
<1>3. QED
  BY <1>1, <1>2

(* The bus keeps its part: each state has its phase.                       *)
LEMMA BusStep ==
  ASSUME NEW act, NEW M, PInv, StatesOK, BusOK, ProgOK, HandOK, EngineOK, TurnOK,
         TargetMove, ProgMove(act), HandMove, WordMove(M), FifoMove
  PROVE  BusOK'
<1>1. (SP \in {"FREE", "COMM_BEFOREREQ", "STAT_HOLD",
               "MSGIN_HOLD"} \cup Starts \cup Ends)'
  BY DEF BusOK, ProgOK, TargetMove, FreeMove, StartMove, EndMove, PauseMove, Moves,
     Starts, Ends
<1>2. (REQ <=> SP \in Starts)'
  BY DEF BusOK, ProgOK, TargetMove, FreeMove, StartMove, EndMove, PauseMove, Moves,
     Starts, Ends
<1>3. (SP = "FREE" => phase \in {"FREE", "DATAOUT", "DATAIN"})'
  BY DEF BusOK, ProgOK, TargetMove, FreeMove, StartMove, EndMove, PauseMove, Moves,
     Starts, Ends
<1>4. (SP \in {"COMM_BEFOREREQ", "COMM_START", "COMM_END"} => phase = "COMMAND")'
  BY DEF BusOK, ProgOK, TargetMove, FreeMove, StartMove, EndMove, PauseMove, Moves,
     Starts, Ends
<1>5. (SP \in {"DATAIN_START", "DATAIN_END"} => phase = "DATAIN")'
  BY DEF BusOK, ProgOK, TargetMove, FreeMove, StartMove, EndMove, PauseMove, Moves,
     Starts, Ends
<1>6. (SP \in {"DATAOUT_START", "DATAOUT_END"} => phase = "DATAOUT")'
  BY DEF BusOK, ProgOK, TargetMove, FreeMove, StartMove, EndMove, PauseMove, Moves,
     Starts, Ends
<1>7. (SP \in {"STAT_START", "STAT_END", "STAT_HOLD"} => phase = "STATUS")'
  BY DEF BusOK, ProgOK, TargetMove, FreeMove, StartMove, EndMove, PauseMove, Moves,
     Starts, Ends
<1>8. (SP \in {"MSGIN_START", "MSGIN_END", "MSGIN_HOLD"} => phase = "MSGIN")'
  BY DEF BusOK, ProgOK, TargetMove, FreeMove, StartMove, EndMove, PauseMove, Moves,
     Starts, Ends
<1>9. (SP \in {"MSGOUT_START", "MSGOUT_END"} => phase = "MSGOUT")'
  BY DEF BusOK, ProgOK, TargetMove, FreeMove, StartMove, EndMove, PauseMove, Moves,
     Starts, Ends
<1>10. (strobe \in {"COMM_OUT", "DATA_OUT"} => SP = "FREE" /\ phase = "DATAOUT")'
  BY DEF BusOK, ProgOK, TargetMove, FreeMove, StartMove, EndMove, PauseMove, Moves,
     Starts, Ends
<1>11. (strobe = "CD_DATA_END" => SP = "FREE" /\ phase = "DATAIN")'
  BY DEF BusOK, ProgOK, TargetMove, FreeMove, StartMove, EndMove, PauseMove, Moves,
     Starts, Ends
<1>12. (strobe = "MSGOUT_OUT" => SP = "FREE" /\ phase = "FREE")'
  BY DEF BusOK, ProgOK, TargetMove, FreeMove, StartMove, EndMove, PauseMove, Moves,
     Starts, Ends
<1>13. (strobe = "FIFO_RD_REQ" => SP = "DATAIN_START" /\ ~REMPTY /\ reqn_d)'
  BY StillThere DEF BusOK, ProgOK, HandOK, HandMove, ACK, TargetMove, FreeMove,
     StartMove, EndMove, PauseMove, Moves, Starts, Ends
<1>14. QED
  BY <1>1, <1>2, <1>3, <1>4, <1>5, <1>6, <1>7, <1>8, <1>9, <1>10, <1>11, <1>12, <1>13
     DEF BusOK

(* The hand shake keeps its part.                                          *)
LEMMA HandStep ==
  ASSUME NEW act, NEW M, PInv, StatesOK, BusOK, ProgOK, HandOK, EngineOK, TurnOK,
         TargetMove, ProgMove(act), HandMove, WordMove(M), FifoMove
  PROVE  HandOK'
<1>1. (rf.assert_ack => SP \in Starts \cup Ends)'
  BY EngineMatch DEF StatesOK, BusOK, ProgOK, HandOK, EngineOK, TargetMove, FreeMove,
     StartMove, EndMove, PauseMove, Moves, Starts, Ends, ProgMove, ProgGuard,
     ProgLines, HandMove, WordMove, Takes, ACK
<1>2. (assert_ack_dma => rf.dma_mode /\ SP \in {"DATAIN_START", "DATAIN_END"})'
  BY EngineMatch DEF StatesOK, BusOK, ProgOK, HandOK, EngineOK, TargetMove, FreeMove,
     StartMove, EndMove, PauseMove, Moves, Starts, Ends, ProgMove, ProgGuard,
     ProgLines, HandMove, WordMove, Takes, ACK
<1>3. (ACK /\ REQ => ~ce /\ ~reqn_d /\ ~req_posedge_d)'
  BY EngineMatch DEF StatesOK, BusOK, ProgOK, HandOK, EngineOK, TargetMove, FreeMove,
     StartMove, EndMove, PauseMove, Moves, Starts, Ends, ProgMove, ProgGuard,
     ProgLines, HandMove, WordMove, Takes, ACK
<1>4. (~REQ /\ ~reqn_d => ACK)'
  BY EngineMatch DEF StatesOK, BusOK, ProgOK, HandOK, EngineOK, TargetMove, FreeMove,
     StartMove, EndMove, PauseMove, Moves, Starts, Ends, ProgMove, ProgGuard,
     ProgLines, HandMove, WordMove, Takes, ACK
<1>5. (assert_ack_dma /\ ~assert_ack_cnt => reqn_d)'
  BY EngineMatch DEF StatesOK, BusOK, ProgOK, HandOK, EngineOK, TargetMove, FreeMove,
     StartMove, EndMove, PauseMove, Moves, Starts, Ends, ProgMove, ProgGuard,
     ProgLines, HandMove, WordMove, Takes, ACK
<1>6. (req_posedge_d => REQ /\ ~reqn_d /\ ~dma_rxbuf_rd /\ ~m_req /\ ~assert_ack_cnt)'
  BY EngineMatch DEF StatesOK, BusOK, ProgOK, HandOK, EngineOK, TargetMove, FreeMove,
     StartMove, EndMove, PauseMove, Moves, Starts, Ends, ProgMove, ProgGuard,
     ProgLines, HandMove, WordMove, Takes, ACK
<1>7. (dma_rxbuf_rd \/ m_req =>
         /\ rf.dma_mode /\ SP = "DATAIN_START" /\ ~reqn_d
         /\ ~assert_ack_dma /\ ~assert_ack_cnt)'
  BY EngineMatch DEF StatesOK, BusOK, ProgOK, HandOK, EngineOK, TargetMove, FreeMove,
     StartMove, EndMove, PauseMove, Moves, Starts, Ends, ProgMove, ProgGuard,
     ProgLines, HandMove, WordMove, Takes, ACK
<1>8. (~(dma_rxbuf_rd /\ m_req))'
  BY EngineMatch DEF StatesOK, BusOK, ProgOK, HandOK, EngineOK, TargetMove, FreeMove,
     StartMove, EndMove, PauseMove, Moves, Starts, Ends, ProgMove, ProgGuard,
     ProgLines, HandMove, WordMove, Takes, ACK
<1>9. (assert_ack_dma /\ REQ => assert_ack_cnt)'
  BY EngineMatch DEF StatesOK, BusOK, ProgOK, HandOK, EngineOK, TargetMove, FreeMove,
     StartMove, EndMove, PauseMove, Moves, Starts, Ends, ProgMove, ProgGuard,
     ProgLines, HandMove, WordMove, Takes, ACK
<1>10. (assert_ack_cnt /\ ~assert_ack_dma /\ REQ => reqn_d)'
  BY EngineMatch DEF StatesOK, BusOK, ProgOK, HandOK, EngineOK, TargetMove, FreeMove,
     StartMove, EndMove, PauseMove, Moves, Starts, Ends, ProgMove, ProgGuard,
     ProgLines, HandMove, WordMove, Takes, ACK
<1>11. (assert_ack_cnt => rf.dma_mode)'
  BY EngineMatch DEF StatesOK, BusOK, ProgOK, HandOK, EngineOK, TargetMove, FreeMove,
     StartMove, EndMove, PauseMove, Moves, Starts, Ends, ProgMove, ProgGuard,
     ProgLines, HandMove, WordMove, Takes, ACK
<1>12. (dma_next_word => dma_rxbuf_rd)'
  BY EngineMatch DEF StatesOK, BusOK, ProgOK, HandOK, EngineOK, TargetMove, FreeMove,
     StartMove, EndMove, PauseMove, Moves, Starts, Ends, ProgMove, ProgGuard,
     ProgLines, HandMove, WordMove, Takes, ACK
<1>13. ("start_dma_rx" \in {arms, given} =>
          /\ rf.dma_mode /\ rf.dma_en /\ ~dma_end /\ SP = "DATAIN_START" /\ ~reqn_d
          /\ ~req_posedge_d /\ ~dma_rxbuf_rd /\ ~m_req /\ ~assert_ack_cnt /\ ~ACK)'
  BY EngineMatch DEF StatesOK, BusOK, ProgOK, HandOK, EngineOK, TargetMove, FreeMove,
     StartMove, EndMove, PauseMove, Moves, Starts, Ends, ProgMove, ProgGuard,
     ProgLines, HandMove, WordMove, Takes, ACK
<1>14. QED
  BY <1>1, <1>2, <1>3, <1>4, <1>5, <1>6, <1>7, <1>8, <1>9, <1>10, <1>11, <1>12, <1>13
     DEF HandOK

(* A DMA is set up for words that fit.                                     *)
LEMMA ChunksFit ==
  /\ \A n \in Chunks : n \in Nat /\ n >= 1 /\ n <= MaxWords
  /\ MaxWords \in Nat
BY CdDriveAssumption, PlansAssumption

(* The engine keeps its part.                                              *)
LEMMA EngineStep ==
  ASSUME NEW act, NEW M, PInv, StatesOK, BusOK, ProgOK, HandOK, EngineOK, TurnOK,
         TargetMove, ProgMove(act), HandMove, WordMove(M), FifoMove
  PROVE  EngineOK'
<1>0. rf.dma_byte_cnt \in Int
  BY DEF StatesOK, RegTypes, RegisterFile
<1>1. (m_req => ~dma_a0 /\ ~dma_end)'
  BY EngineMatch DEF StatesOK, BusOK, ProgOK, HandOK, EngineOK, TargetMove, FreeMove,
     StartMove, EndMove, PauseMove, Moves, Starts, Ends, ProgMove, ProgGuard,
     ProgLines, HandMove, WordMove, Takes, ACK
<1>2. (dma_end => ~dma_a0)'
  BY EngineMatch DEF StatesOK, BusOK, ProgOK, HandOK, EngineOK, TargetMove, FreeMove,
     StartMove, EndMove, PauseMove, Moves, Starts, Ends, ProgMove, ProgGuard,
     ProgLines, HandMove, WordMove, Takes, ACK
<1>3. (dma_end => rf.dma_mode \/ "reset_dma_end_int" \in {arms, given})'
  BY EngineMatch DEF StatesOK, BusOK, ProgOK, HandOK, EngineOK, TargetMove, FreeMove,
     StartMove, EndMove, PauseMove, Moves, Starts, Ends, ProgMove, ProgGuard,
     ProgLines, HandMove, WordMove, Takes, ACK
<1>4. ("reset_dma_end_int" \in {arms, given} => ~rf.dma_mode /\ pc = "BUSY")'
  <2>1. "reset_dma_end_int" \in {arms', given'}
          => "reset_dma_end_int" \in {arms, given} \/ act = "DmaDone"
    BY DEF ProgMove, ProgGuard, ProgLines, Acts
  <2>2. CASE act = "DmaDone"
    BY <2>2 DEF ProgMove, ProgGuard, ProgLines, ProgSoft
  <2>3. CASE act # "DmaDone" /\ "reset_dma_end_int" \in {arms, given}
    <3>1. act = "NONE" /\ ~rf.dma_mode /\ pc = "BUSY"
      BY <2>3 DEF EngineOK, ProgOK, ProgMove, ProgGuard, Acts
    <3>2. QED
      BY <3>1 DEF ProgMove, ProgLines, ProgSoft
  <2>4. QED
    BY <2>1, <2>2, <2>3
<1>5. (dma_a0 /\ ~rf.dma_mode => arms = "reset_int" /\ REQ /\ phase # "DATAIN" /\ ~ACK)'
  BY EngineMatch DEF StatesOK, BusOK, ProgOK, HandOK, EngineOK, TargetMove, FreeMove,
     StartMove, EndMove, PauseMove, Moves, Starts, Ends, ProgMove, ProgGuard,
     ProgLines, HandMove, WordMove, Takes, ACK
<1>6. (rf.dma_mode /\ ~dma_end
         => rf.dma_byte_cnt >= 1 + (IF dma_next_word THEN 1 ELSE 0))'
  BY ChunksFit, <1>0 DEF StatesOK, BusOK, ProgOK, HandOK, EngineOK, ProgMove,
     ProgGuard, ProgLines, HandMove, WordMove, Takes, ACK, ProgCounts
<1>7. (dma_end => rf.dma_byte_cnt = IF dma_next_word THEN 1 ELSE 0)'
  BY ChunksFit, <1>0 DEF StatesOK, BusOK, ProgOK, HandOK, EngineOK, ProgMove,
     ProgGuard, ProgLines, HandMove, WordMove, Takes, ACK, ProgCounts
<1>8. (rf.dma_byte_cnt <= MaxWords)'
  BY ChunksFit, <1>0 DEF StatesOK, BusOK, ProgOK, HandOK, EngineOK, ProgMove,
     ProgGuard, ProgLines, HandMove, WordMove, Takes, ACK, ProgCounts
<1>9. (rf.dma_byte_cnt >= IF dma_next_word THEN 1 ELSE 0)'
  BY ChunksFit, <1>0 DEF StatesOK, BusOK, ProgOK, HandOK, EngineOK, ProgMove,
     ProgGuard, ProgLines, HandMove, WordMove, Takes, ACK, ProgCounts
<1>10. QED
  BY <1>1, <1>2, <1>3, <1>4, <1>5, <1>6, <1>7, <1>8, <1>9 DEF EngineOK

-----------------------------------------------------------------------------
(* The command: what the target collects of it.                            *)

(* The bytes the target collects, and what it drives.                      *)
CommMove ==
  /\ COMM' = (IF SP = "COMM_START" /\ ACK THEN [COMM EXCEPT ![COMM_POS] = dout] ELSE COMM)
  /\ COMM_POS' = (IF SP = "COMM_START" /\ ACK THEN COMM_POS + 1
                  ELSE IF strobe' = "COMM_OUT" THEN 0 ELSE COMM_POS)
  /\ DATA_POS' = (IF SP = "DATAOUT_START" /\ ACK THEN DATA_POS + 1
                  ELSE IF strobe' = "DATA_OUT" THEN 0 ELSE DATA_POS)
  /\ strobe' # "FIFO_RD_REQ" /\ SP' \notin {"STAT_START", "MSGIN_START"} => DBO' = DBO

(* The target collects and drives as said.                                 *)
LEMMA CommMoves ==
  ASSUME Next, OneAtOnce, BusOK, rf.assert_rst => SP = "FREE"
  PROVE  CommMove
<1>1. TargetMove
  BY TargetMoves
<1>2. CASE rf.assert_rst
  BY <1>2, TargetSteps, StrobeNow DEF BusReset, Goto, commvars, CommMove
<1>3. CASE ~rf.assert_rst
  <2>1. CASE Free(Bus, StatusByte(STATUS))
    <3>1. /\ SP = "FREE" /\ COMM' = COMM /\ COMM_POS' = COMM_POS /\ DATA_POS' = DATA_POS
          /\ strobe' \in {"NONE", "FIFO_RD_REQ"}
      BY <2>1, StrobeNow DEF Free, commvars
    <3>2. strobe' # "FIFO_RD_REQ" /\ SP' # "STAT_START" => DBO' = DBO
      BY <1>3, <2>1, StrobeNow DEF Free, StatusDue, Goto
    <3>3. QED
      BY <3>1, <3>2 DEF CommMove
  <2>2. CASE CommBeforeReq
    BY <2>2, StrobeNow DEF CommBeforeReq, commvars, CommMove
  <2>3. CASE CommStart(Bus)
    BY <2>3, StrobeNow, BusFields DEF CommStart, Byte1, commvars, CommMove, BusOK,
       Starts
  <2>4. CASE CommEnd(Bus)
    BY <2>4, StrobeNow, BusFields DEF CommEnd, Held, Released, Goto, commvars,
       CommMove
  <2>5. CASE Report(Bus, ZeroByte)
    BY <2>5, StrobeNow, BusFields DEF Report, Byte1, Held, Released, Goto, Wait,
       busvars, commvars, CommMove
  <2>6. CASE DataIn(Bus)
    BY <2>6, StrobeNow, BusFields DEF DataIn, DataInEnd, Byte1, Held, Released, Goto,
       Wait, busvars, commvars, CommMove
  <2>7. CASE DataOut(Bus)
    BY <2>7, StrobeNow, BusFields DEF DataOut, Byte1, Held, Released, Goto, Wait,
       busvars, commvars, CommMove, BusOK, Starts
  <2>8. CASE MsgOut(Bus)
    BY <2>8, StrobeNow, BusFields DEF MsgOut, Byte1, Held, Released, Goto, Wait,
       busvars, commvars, CommMove
  <2>9. QED
    BY <1>3, <2>1, <2>2, <2>3, <2>4, <2>5, <2>6, <2>7, <2>8, TargetSteps
<1>4. QED
  BY <1>2, <1>3

(* A clock, and what it does to each of the parts.                         *)
Moved(act, M) ==
  /\ TargetMove /\ CommMove /\ DriveMove /\ StrobeMove /\ ProgMove(act)
  /\ HandMove /\ HostMove /\ FifoMove /\ WordMove(M)
  /\ OneAtOnce' /\ RegTypes'

(* A command as it goes over the bus.                                      *)
LEMMA CommandLength ==
  ASSUME NEW c \in Askable
  PROVE  /\ Len(CommandBytes(c)) = Length(c.op) /\ Length(c.op) \in 2 .. 4
         /\ \A i \in 1 .. 4 : i <= Length(c.op) => CommandBytes(c)[i] \in Int
         /\ CommandBytes(c)[1] = c.op
         /\ c.op \in {REQUEST_SENSE, MODE_SELECT}
              => CommandBytes(c)[2] = c.len /\ Length(c.op) = 2
         /\ c.op \in Reads
              => CommandBytes(c)[2] = c.lba /\ CommandBytes(c)[3] = c.len
                 /\ Length(c.op) = 3
<1>1. c.op \in Nat /\ c.lba \in Int /\ c.len \in Nat
  BY DEF Askable, Commands
<1>2. Length(c.op) \in {2, 3, 4}
  BY PlansAssumption DEF Length
<1>3. CASE Length(c.op) = 2
  BY <1>1, <1>3, PlansAssumption DEF CommandBytes, Length, Reads, READ_10, READ_TOC,
     READ_HEADER
<1>4. CASE Length(c.op) = 3
  BY <1>1, <1>4, PlansAssumption DEF CommandBytes, Length, REQUEST_SENSE, MODE_SELECT
<1>5. CASE Length(c.op) = 4
  BY <1>1, <1>5, PlansAssumption DEF CommandBytes, Length, Reads, READ_10, READ_TOC,
     READ_HEADER, REQUEST_SENSE, MODE_SELECT
<1>6. QED
  BY <1>2, <1>3, <1>4, <1>5

(* States, strobes and registers stay in their sets.                       *)
LEMMA StatesStep ==
  ASSUME PathInv, NEW act, NEW M, Moved(act, M)
  PROVE  StatesOK'
BY DEF PathInv, Moved, StatesOK, DriveMove

(* What is collected is what the program sends.                            *)
LEMMA CommandStep ==
  ASSUME NEW act, NEW M, PathInv, Moved(act, M)
  PROVE  CommandOK'
<1> USE DEF PathInv, Moved
<1>a. /\ COMM \in [0 .. 3 -> Int] /\ COMM_POS \in Nat /\ DATA_POS \in Nat /\ sent \in Nat
      /\ DATA_LEN \in Nat \ {0}
  BY TargetAssumption, PlansAssumption DEF CommandOK
<1>b. SP = "COMM_START" => (ACK <=> rf.assert_ack)
  BY DEF HandOK, ACK
<1>c. SP = "DATAOUT_START" => (ACK <=> rf.assert_ack)
  BY DEF HandOK, ACK
<1>d. pc \in {"SELECT", "BUSY", "FREEING"} =>
        /\ CmdSize \in 2 .. 4 /\ CmdSize = Length(cmd.op) /\ CmdBytes[1] = cmd.op
        /\ \A i \in 1 .. 4 : i <= CmdSize => CmdBytes[i] \in Int
  BY CommandLength DEF CommandOK, CmdBytes, CmdSize
<1>e. ASSUME SP = "COMM_START", ACK
      PROVE  /\ pc = "BUSY" /\ COMM_POS \in 0 .. 3 /\ COMM_POS < CmdSize
             /\ dout = CmdBytes[COMM_POS + 1] /\ dout \in Int /\ sent = COMM_POS + 1
  <2>1. rf.assert_ack /\ pc = "BUSY"
    BY <1>e, <1>b DEF ProgOK
  <2>2. sent = COMM_POS + 1 /\ dout = CmdBytes[sent] /\ COMM_POS < CmdSize
    BY <1>e, <2>1 DEF CommandOK, CommSP, Bit
  <2>3. CmdSize \in 2 .. 4 /\ \A i \in 1 .. 4 : i <= CmdSize => CmdBytes[i] \in Int
    BY <1>d, <2>1
  <2>4. COMM_POS + 1 \in 1 .. 4 /\ COMM_POS + 1 <= CmdSize
    BY <1>a, <2>2, <2>3
  <2>5. QED
    BY <1>a, <2>1, <2>2, <2>3, <2>4
<1>f. /\ cmd' = cmd => CmdBytes' = CmdBytes /\ CmdSize' = CmdSize
      /\ act = "Put" /\ phase = "COMMAND"
           => dout' = CmdBytes[sent + 1] /\ sent' = sent + 1
  BY DEF CmdBytes, CmdSize, ProgMove, ProgSoft
<1>g. SP \in CommSP => /\ pc \in {"SELECT", "BUSY"} /\ CmdSize \in 2 .. 4
                       /\ COMM_POS <= CmdSize /\ (SP # "COMM_END" => COMM_POS <= 3)
  <2>1. SP \in CommSP => pc \in {"SELECT", "BUSY"}
    BY DEF ProgOK, CommSP
  <2>2. SP \in CommSP => COMM_POS < CmdSize \/ (SP = "COMM_END" /\ COMM_POS = CmdSize)
    BY DEF CommandOK
  <2>3. QED
    BY <1>a, <1>d, <2>1, <2>2
<1>1. (COMM \in [0 .. 3 -> Int] /\ COMM_POS \in Nat /\ DATA_POS \in Nat /\ sent \in Nat)'
  BY <1>a, <1>b, <1>c, <1>d, <1>e DEF CommandOK, CommSP, Bit, CommMove, ProgMove,
     ProgSoft
<1>2. (plan \in Seq(Askable))'
  BY <1>a, <1>b, <1>c, <1>d, <1>e, <1>f, <1>g DEF BusOK, ProgOK, HandOK, CommandOK,
     CommSP, Bit, TargetMove, FreeMove, StartMove, EndMove, PauseMove, Moves, Starts,
     Ends, CommMove, ProgMove, ProgGuard, ProgLines, ProgSoft
<1>3. (pc \in {"SELECT", "BUSY", "FREEING"} => cmd \in Askable)'
  BY <1>a, <1>b, <1>c, <1>d, <1>e, <1>f, <1>g DEF BusOK, ProgOK, HandOK, CommandOK,
     CommSP, Bit, TargetMove, FreeMove, StartMove, EndMove, PauseMove, Moves, Starts,
     Ends, CommMove, ProgMove, ProgGuard, ProgLines, ProgSoft
<1>4. (pc = "SELECT" => sent = 0)'
  BY <1>a, <1>b, <1>c, <1>d, <1>e, <1>f, <1>g DEF BusOK, ProgOK, HandOK, CommandOK,
     CommSP, Bit, TargetMove, FreeMove, StartMove, EndMove, PauseMove, Moves, Starts,
     Ends, CommMove, ProgMove, ProgGuard, ProgLines, ProgSoft
<1>5. (SP \in CommSP => /\ sent = COMM_POS + Bit(SP = "COMM_START" /\ rf.assert_ack)
                        /\ COMM_POS < CmdSize \/ (SP = "COMM_END" /\ COMM_POS = CmdSize)
                        /\ (SP = "COMM_END" => COMM_POS >= 1)
                        /\ \A i \in 0 .. 3 : i < COMM_POS => COMM[i] = CmdBytes[i + 1])'
  BY <1>a, <1>b, <1>c, <1>d, <1>e, <1>f, <1>g DEF BusOK, ProgOK, HandOK, CommandOK,
     CommSP, Bit, TargetMove, FreeMove, StartMove, EndMove, PauseMove, Moves, Starts,
     Ends, CommMove, ProgMove, ProgGuard, ProgLines, ProgSoft
<1>6. (SP \notin CommSP => COMM_POS = 0)'
  BY <1>a, <1>b, <1>c, <1>d, <1>e, <1>f, <1>g DEF BusOK, ProgOK, HandOK, CommandOK,
     CommSP, Bit, TargetMove, FreeMove, StartMove, EndMove, PauseMove, Moves, Starts,
     Ends, CommMove, ProgMove, ProgGuard, ProgLines, ProgSoft
<1>7. (SP = "COMM_START" /\ rf.assert_ack => dout = CmdBytes[sent])'
  BY <1>a, <1>b, <1>c, <1>d, <1>e, <1>f, <1>g DEF BusOK, ProgOK, HandOK, CommandOK,
     CommSP, Bit, TargetMove, FreeMove, StartMove, EndMove, PauseMove, Moves, Starts,
     Ends, CommMove, ProgMove, ProgGuard, ProgLines, ProgSoft
<1>8. (pc \in {"BUSY", "FREEING"} /\ SP \notin CommSP
         => \A i \in 1 .. CmdSize : COMM[i - 1] = CmdBytes[i])'
  <2> SUFFICES ASSUME pc' \in {"BUSY", "FREEING"}, SP' \notin CommSP
               PROVE  (\A i \in 1 .. CmdSize : COMM[i - 1] = CmdBytes[i])'
    OBVIOUS
  <2>1. CASE SP \in CommSP
    <3>1. SP = "COMM_END" /\ COMM_POS = Length(COMM[0])
      BY <2>1 DEF BusOK, ProgOK, HandOK, CommSP, TargetMove, FreeMove, StartMove,
         EndMove, PauseMove, Moves, Starts, Ends
    <3>2. /\ COMM_POS >= 1 /\ CmdSize \in 2 .. 4 /\ COMM_POS <= CmdSize
          /\ CmdSize = Length(cmd.op)
          /\ \A i \in 0 .. 3 : i < COMM_POS => COMM[i] = CmdBytes[i + 1]
      BY <1>d, <1>g, <2>1, <3>1 DEF CommandOK
    <3>3. COMM_POS = CmdSize
      BY <1>a, <1>d, <1>g, <2>1, <3>1, <3>2
    <3>4. \A i \in 1 .. CmdSize : COMM[i - 1] = CmdBytes[i]
      BY <3>2, <3>3
    <3>5. COMM' = COMM /\ cmd' = cmd
      BY <1>g, <2>1, <3>1 DEF CommMove, ProgMove, ProgSoft, ProgGuard
    <3>6. QED
      BY <1>f, <3>4, <3>5
  <2>2. CASE SP \notin CommSP
    <3>1. pc \in {"BUSY", "FREEING"}
      BY <2>2 DEF BusOK, ProgMove, ProgSoft, ProgGuard, CommSP, Starts, Ends
    <3>2. COMM' = COMM /\ cmd' = cmd
      BY <2>2, <3>1 DEF CommMove, ProgMove, ProgSoft, ProgGuard, CommSP
    <3>3. QED
      BY <1>f, <2>2, <3>1, <3>2 DEF CommandOK
  <2>3. QED
    BY <2>1, <2>2
<1>9. (SP \notin {"DATAOUT_START", "DATAOUT_END"} => DATA_POS = 0)'
  BY <1>a, <1>b, <1>c, <1>d, <1>e, <1>f, <1>g DEF BusOK, ProgOK, HandOK, CommandOK,
     CommSP, Bit, TargetMove, FreeMove, StartMove, EndMove, PauseMove, Moves, Starts,
     Ends, CommMove, ProgMove, ProgGuard, ProgLines, ProgSoft
<1>10. (SP = "DATAOUT_START" => DATA_POS \in 0 .. DATA_LEN - 1)'
  BY <1>a, <1>b, <1>c, <1>d, <1>e, <1>f, <1>g DEF BusOK, ProgOK, HandOK, CommandOK,
     CommSP, Bit, TargetMove, FreeMove, StartMove, EndMove, PauseMove, Moves, Starts,
     Ends, CommMove, ProgMove, ProgGuard, ProgLines, ProgSoft
<1>11. (SP = "DATAOUT_END" => DATA_POS \in 1 .. DATA_LEN)'
  BY <1>a, <1>b, <1>c, <1>d, <1>e, <1>f, <1>g DEF BusOK, ProgOK, HandOK, CommandOK,
     CommSP, Bit, TargetMove, FreeMove, StartMove, EndMove, PauseMove, Moves, Starts,
     Ends, CommMove, ProgMove, ProgGuard, ProgLines, ProgSoft
<1>12. (pc \in {"IDLE", "RESET"} => cmd = NoCommand)'
  BY <1>a, <1>b, <1>c, <1>d, <1>e, <1>f, <1>g DEF BusOK, ProgOK, HandOK, CommandOK,
     CommSP, Bit, TargetMove, FreeMove, StartMove, EndMove, PauseMove, Moves, Starts,
     Ends, CommMove, ProgMove, ProgGuard, ProgLines, ProgSoft
<1>13. QED
  BY <1>1, <1>2, <1>3, <1>4, <1>5, <1>6, <1>7, <1>8, <1>9, <1>10, <1>11, <1>12
     DEF CommandOK

-----------------------------------------------------------------------------
(* The drive: what it makes of the command.                                *)

(* While the drive carries it out, the target holds the whole command.     *)
LEMMA CommandIs ==
  ASSUME PathInv, tst \in {"CMD", "DATA_IN", "DATA_IN_END", "DATA_OUT"}
  PROVE  /\ pc = "BUSY" /\ op = cmd.op /\ cmd \in Askable
         /\ cmd.op \in Nat /\ cmd.lba \in Int /\ cmd.len \in Nat
         /\ cmd.op \in {REQUEST_SENSE, MODE_SELECT} => COMM[1] = cmd.len
         /\ cmd.op \in Reads => COMM[1] = cmd.lba /\ COMM[2] = cmd.len
         /\ cmd.op = READ_10 => cmd.len > 0
         /\ cmd.op \in {READ_TOC, READ_HEADER} => cmd.len % 4096 = cmd.len
<1> USE DEF PathInv
<1>1. pc = "BUSY" /\ SP \notin CommSP
  BY DEF TurnOK, ProgOK, DataSP, CommSP, BusOK, Starts, Ends
<1>2. cmd \in Askable /\ \A i \in 1 .. CmdSize : COMM[i - 1] = CmdBytes[i]
  BY <1>1 DEF CommandOK
<1>3. cmd.op \in Nat /\ cmd.lba \in Int /\ cmd.len \in Nat /\ Fits(cmd)
  BY <1>2 DEF Askable, Commands
<1>4. /\ CmdSize = Length(cmd.op) /\ CmdSize \in 2 .. 4 /\ CmdBytes[1] = cmd.op
      /\ cmd.op \in {REQUEST_SENSE, MODE_SELECT} => CmdBytes[2] = cmd.len
      /\ cmd.op \in Reads => CmdBytes[2] = cmd.lba /\ CmdBytes[3] = cmd.len /\ CmdSize = 3
  BY <1>2, CommandLength DEF CmdSize, CmdBytes
<1>5. COMM[0] = CmdBytes[1] /\ COMM[1] = CmdBytes[2]
      /\ (CmdSize = 3 => COMM[2] = CmdBytes[3])
  BY <1>2, <1>4
<1>6. /\ cmd.op = READ_10 => cmd.len > 0
      /\ cmd.op \in {READ_TOC, READ_HEADER} => cmd.len % 4096 = cmd.len
  BY <1>3 DEF Fits
<1>7. QED
  BY <1>1, <1>2, <1>3, <1>4, <1>5, <1>6 DEF op

(* What the drive holds of the command stays right.                        *)
LEMMA DriveStep ==
  ASSUME NEW act, NEW M, PathInv, Moved(act, M)
  PROVE  DriveOK'
<1> USE DEF PathInv, Moved
<1>a. tst \in {"CMD", "DATA_IN"} =>
         /\ pc = "BUSY" /\ op = cmd.op
         /\ cmd.op \in Nat /\ cmd.lba \in Int /\ cmd.len \in Nat
         /\ cmd.op \in {REQUEST_SENSE, MODE_SELECT} => COMM[1] = cmd.len
         /\ cmd.op \in Reads => COMM[1] = cmd.lba /\ COMM[2] = cmd.len
         /\ cmd.op = READ_10 => cmd.len > 0
         /\ cmd.op \in {READ_TOC, READ_HEADER} => COMM[2] % 4096 = cmd.len
  BY CommandIs DEF Reads
<1>b. tst' \in {"DATA_IN_END", "DATA_OUT"}
        => tst \in {"CMD", "DATA_IN", "DATA_IN_END", "DATA_OUT"}
  BY DEF DriveMove
<1>c. /\ tst \in {"CMD", "DATA_IN", "DATA_IN_END", "DATA_OUT"}
           => pc = "BUSY" /\ cmd' = cmd
      /\ CmdTaken => pulse' \in {"cmd_done", "NONE"}
  <2>1. tst \in {"CMD", "DATA_IN", "DATA_IN_END", "DATA_OUT"} => pc = "BUSY"
    BY CommandIs
  <2>2. pc = "BUSY" => cmd' = cmd
    BY DEF ProgMove, ProgGuard, ProgSoft
  <2>3. CmdTaken => pulse' \in {"cmd_done", "NONE"}
    BY DEF CmdTaken, Ops, Reads
  <2>4. QED
    BY <2>1, <2>2, <2>3
<1>d. /\ datalen \in Nat /\ datapos \in Nat /\ blkcnt \in Nat /\ SD_LBA \in Int
      /\ BLOCK \in Nat /\ BLOCK >= 3 /\ TOC_LBA \in Int
  BY DriveAssumption, PlansAssumption DEF DriveOK
<1>e. (tst = "CMD" /\ pulse = "cmd_done"
         => HostQuiet /\ (op \in Reads => sdbuf = SD_LBA))
         /\ (HostQuiet => sdbuf' = sdbuf)
  BY <1>a DEF HostOK, HostMove, HostQuiet
<1>f. Under' =>
      /\ cmd' = cmd
      /\ \/ tst = "CMD" /\ pulse = "cmd_start" /\ pulse' # "cmd_cont" /\ CmdTaken
         \/ /\ Under /\ datalen' = datalen /\ (data_out' <=> data_out)
            /\ \/ /\ pulse = "cmd_cont" /\ pulse' # "cmd_cont" /\ blkcnt' = blkcnt
                  /\ tst = "CMD"
                  /\ SD_LBA' = IF op = READ_10 THEN SD_LBA + 1 ELSE SD_LBA
               \/ /\ pulse # "cmd_cont" /\ pulse' # "cmd_cont" /\ blkcnt' = blkcnt
                  /\ SD_LBA' = SD_LBA
               \/ /\ pulse # "cmd_cont" /\ pulse' = "cmd_cont" /\ blkcnt' = blkcnt - 1
                  /\ blkcnt # 0 /\ SD_LBA' = SD_LBA
  BY <1>c, <1>d DEF Under, DriveMove, KeepsPlace, KeepsCommand, TurnOK, NothingDue
<1>1. (datalen \in Nat /\ datapos \in Nat /\ blkcnt \in Nat /\ SD_LBA \in Int)'
  BY <1>a, <1>b, <1>c, <1>d DEF DriveOK, DriveMove, KeepsPlace, KeepsCommand,
     CmdTaken, Ops, Reads
<1>2. (tst = "CMD" /\ pulse = "cmd_start" => blkcnt = 0 /\ ~data_out)'
  BY <1>a, <1>b, <1>c, <1>d DEF DriveOK, DriveMove, KeepsPlace, KeepsCommand,
     CmdTaken, Ops, Reads
<1>3. (Under /\ cmd.op = READ_10 =>
         /\ datalen = BLOCK /\ blkcnt <= cmd.len - 1
         /\ SD_LBA = cmd.lba + Blocks - Bit(pulse = "cmd_cont"))'
  <2> SUFFICES ASSUME Under', cmd'.op = READ_10
               PROVE  (datalen = BLOCK /\ blkcnt <= cmd.len - 1
                       /\ SD_LBA =
                            cmd.lba + (cmd.len - 1 - blkcnt) - Bit(pulse = "cmd_cont"))'
    BY DEF Blocks
  <2>1. cmd' = cmd /\ cmd.op = READ_10 /\ tst \in {"CMD", "DATA_IN", "DATA_IN_END"}
    BY <1>f DEF Under
  <2>2. cmd.lba \in Int /\ cmd.len \in Nat /\ cmd.len > 0
    BY <2>1, CommandIs
  <2>3. CASE pulse = "cmd_start" /\ pulse' # "cmd_cont" /\ CmdTaken /\ tst = "CMD"
    <3>1. datalen' = BLOCK /\ blkcnt' = cmd.len - 1 /\ SD_LBA' = cmd.lba
      BY <1>a, <2>1, <2>2, <2>3 DEF CmdTaken, Ops, Reads, READ_10, TEST_UNIT_READY
    <3>2. QED
      BY <2>1, <2>2, <2>3, <3>1 DEF Bit
  <2>4. CASE Under /\ datalen' = datalen
    <3>1. datalen = BLOCK /\ blkcnt <= cmd.len - 1
          /\ SD_LBA = cmd.lba + (cmd.len - 1 - blkcnt) - Bit(pulse = "cmd_cont")
      BY <2>1, <2>4 DEF DriveOK, Blocks
    <3>2. CASE pulse = "cmd_cont" /\ pulse' # "cmd_cont" /\ blkcnt' = blkcnt
               /\ SD_LBA' = SD_LBA + 1
      BY <1>d, <2>1, <2>2, <2>4, <3>1, <3>2 DEF Bit
    <3>3. CASE pulse # "cmd_cont" /\ pulse' # "cmd_cont" /\ blkcnt' = blkcnt
               /\ SD_LBA' = SD_LBA
      BY <1>d, <2>1, <2>2, <2>4, <3>1, <3>3 DEF Bit
    <3>4. CASE pulse # "cmd_cont" /\ pulse' = "cmd_cont" /\ blkcnt' = blkcnt - 1
               /\ blkcnt # 0 /\ SD_LBA' = SD_LBA
      BY <1>d, <2>1, <2>2, <2>4, <3>1, <3>4 DEF Bit
    <3>5. QED
      BY <1>a, <1>f, <2>1, <3>2, <3>3, <3>4, <2>3
  <2>5. QED
    BY <1>f, <2>3, <2>4
<1>4. (Under /\ cmd.op # READ_10 => blkcnt = 0 /\ pulse # "cmd_cont")'
  BY <1>a, <1>c, <1>d, <1>f DEF DriveOK, Blocks, Bit, CmdTaken, Reads, Ops, READ_10,
     READ_TOC, READ_HEADER, REQUEST_SENSE, MODE_SELECT, TEST_UNIT_READY,
     PREVENT_ALLOW_MEDIUM_REMOVAL
<1>5. (Under /\ cmd.op \in {READ_TOC, READ_HEADER, REQUEST_SENSE} => datalen = cmd.len)'
  BY <1>a, <1>c, <1>d, <1>f DEF DriveOK, Blocks, Bit, CmdTaken, Reads, Ops, READ_10,
     READ_TOC, READ_HEADER, REQUEST_SENSE, MODE_SELECT, TEST_UNIT_READY,
     PREVENT_ALLOW_MEDIUM_REMOVAL
<1>6. (Under /\ cmd.op = READ_TOC => SD_LBA = TOC_LBA + cmd.lba)'
  BY <1>a, <1>c, <1>d, <1>f DEF DriveOK, Blocks, Bit, CmdTaken, Reads, Ops, READ_10,
     READ_TOC, READ_HEADER, REQUEST_SENSE, MODE_SELECT, TEST_UNIT_READY,
     PREVENT_ALLOW_MEDIUM_REMOVAL
<1>7. (Under /\ cmd.op = READ_HEADER => SD_LBA = cmd.lba)'
  BY <1>a, <1>c, <1>d, <1>f DEF DriveOK, Blocks, Bit, CmdTaken, Reads, Ops, READ_10,
     READ_TOC, READ_HEADER, REQUEST_SENSE, MODE_SELECT, TEST_UNIT_READY,
     PREVENT_ALLOW_MEDIUM_REMOVAL
<1>8. (Under => (data_out <=> cmd.op = MODE_SELECT))'
  BY <1>a, <1>c, <1>d, <1>f DEF DriveOK, Blocks, Bit, CmdTaken, Reads, Ops, READ_10,
     READ_TOC, READ_HEADER, REQUEST_SENSE, MODE_SELECT, TEST_UNIT_READY,
     PREVENT_ALLOW_MEDIUM_REMOVAL
<1>9. (Under /\ cmd.op = MODE_SELECT => datalen = cmd.len)'
  BY <1>a, <1>c, <1>d, <1>f DEF DriveOK, Blocks, Bit, CmdTaken, Reads, Ops, READ_10,
     READ_TOC, READ_HEADER, REQUEST_SENSE, MODE_SELECT, TEST_UNIT_READY,
     PREVENT_ALLOW_MEDIUM_REMOVAL
<1>10. (Under /\ cmd.op \notin Reads \cup {REQUEST_SENSE, MODE_SELECT} => datalen = 0)'
  BY <1>a, <1>c, <1>d, <1>f DEF DriveOK, Blocks, Bit, CmdTaken, Reads, Ops, READ_10,
     READ_TOC, READ_HEADER, REQUEST_SENSE, MODE_SELECT, TEST_UNIT_READY,
     PREVENT_ALLOW_MEDIUM_REMOVAL
<1>11. (tst = "DATA_IN" => cmd.op \in Reads \cup {REQUEST_SENSE})'
  BY <1>a, <1>b, <1>c, <1>d DEF DriveOK, DriveMove, KeepsPlace, KeepsCommand,
     CmdTaken, Reads, Ops, READ_10, READ_TOC, READ_HEADER, REQUEST_SENSE, MODE_SELECT,
     TEST_UNIT_READY, PREVENT_ALLOW_MEDIUM_REMOVAL, Under, TurnOK
<1>12. (tst = "DATA_IN" /\ cmd.op \in Reads => sdbuf = SD_LBA)'
  BY <1>a, <1>b, <1>c, <1>d, <1>e DEF TurnOK, HostOK, DriveOK, Under, DriveMove,
     KeepsPlace, KeepsCommand, NothingDue, HostQuiet, Reads
<1>13. (tst = "DATA_IN" /\ cmd.op \in Reads /\ CD_WR
          => sdbuf_q = DiscByte(SD_LBA, datapos + sdbuf_off(cmd.op, datapos)))'
  BY <1>a, <1>b, <1>c, <1>d, <1>e DEF TurnOK, HostOK, DriveOK, Under, DriveMove,
     KeepsPlace, KeepsCommand, NothingDue, HostQuiet, Reads, StrobeMove
<1>14. (tst = "DATA_IN_END" => cmd.op \in Reads \cup {REQUEST_SENSE})'
  BY <1>a, <1>b, <1>c, <1>d DEF DriveOK, DriveMove, KeepsPlace, KeepsCommand,
     CmdTaken, Reads, Ops, READ_10, READ_TOC, READ_HEADER, REQUEST_SENSE, MODE_SELECT,
     TEST_UNIT_READY, PREVENT_ALLOW_MEDIUM_REMOVAL, Under, TurnOK
<1>15. (tst = "DATA_OUT" => cmd.op = MODE_SELECT)'
  BY <1>a, <1>b, <1>c, <1>d DEF DriveOK, DriveMove, KeepsPlace, KeepsCommand,
     CmdTaken, Reads, Ops, READ_10, READ_TOC, READ_HEADER, REQUEST_SENSE, MODE_SELECT,
     TEST_UNIT_READY, PREVENT_ALLOW_MEDIUM_REMOVAL, Under, TurnOK
<1>16. QED
  BY <1>1, <1>2, <1>3, <1>4, <1>5, <1>6, <1>7, <1>8, <1>9, <1>10, <1>11, <1>12, <1>13,
     <1>14, <1>15 DEF DriveOK

-----------------------------------------------------------------------------
(* Turns: which machine has something to do.                               *)

(* The reading side sees a request a clock later.                          *)
LEMMA FrontMoves ==
  ASSUME PathInv, FifoMove
  PROVE  /\ rbin' = front
         /\ front' = IF strobe' = "FIFO_RD_REQ" THEN After(front) ELSE front
<1>1. rbin' = front
  BY DEF PathInv, BusOK, FifoMove, FifoClock, rbinnext, front
<1>2. QED
  BY <1>1 DEF front

(* Nothing comes into a drained FIFO but what the drive writes.            *)
LEMMA DrainedKeeps ==
  ASSUME PathInv, NEW act, NEW M, Moved(act, M), Drained, tst # "DATA_IN"
  PROVE  Drained'
<1>1. ~FIFO_WR_REQ' /\ ~CD_WR'
  BY DEF Moved, StrobeMove, Drained
<1>2. wbin' = wbin
  BY DEF Moved, FifoMove, FifoClock, wbinnext, Drained
<1>3. strobe' # "FIFO_RD_REQ"
  <2>1. CASE strobe = "FIFO_RD_REQ"
    BY <2>1 DEF PathInv, BusOK, Moved, TargetMove, FreeMove, StartMove, EndMove,
       PauseMove, Moves, Starts, Ends
  <2>2. CASE strobe # "FIFO_RD_REQ"
    <3>1. REMPTY
      BY <2>2, DrainedEmpty DEF PathInv
    <3>2. QED
      BY <3>1 DEF Moved, TargetMove, FreeMove, StartMove, EndMove, PauseMove, Moves
  <2>3. QED
    BY <2>1, <2>2
<1>4. front' = front
  BY <1>3, FrontMoves DEF Moved
<1>5. QED
  BY <1>1, <1>2, <1>4 DEF Drained

(* A quiet host stays quiet, unless the drive asks.                        *)
LEMMA HostKeeps ==
  ASSUME HostMove, StrobeMove, HostQuiet, ~Asks
  PROVE  HostQuiet'
BY DEF Moved, HostMove, StrobeMove, HostQuiet

(* Whose turn it is.                                                       *)
LEMMA TurnStep ==
  ASSUME NEW act, NEW M, PathInv, Moved(act, M), DriveOK'
  PROVE  TurnOK'
<1> USE DEF PathInv, Moved
<1>a. HostQuiet /\ ~Asks => HostQuiet'
  BY HostKeeps
<1>b. Drained /\ tst # "DATA_IN" => Drained'
  BY DrainedKeeps
<1>c. Drained /\ strobe # "FIFO_RD_REQ" => REMPTY
  BY DrainedEmpty
<1>d. Asks => tst = "CMD" /\ pulse \in {"cmd_start", "cmd_cont"}
  BY DEF Asks
<1>e. SP = "DATAIN_END" /\ REMPTY
      /\ (tst = "DATA_IN_END" \/ (tst = "DATA_IN" /\ CD_WR /\ datapos + 1 = datalen))
           => tst = "DATA_IN_END" /\ Drained
  BY PlansAssumption DEF SupplyOK, Finished, Fresh, DriveOK, Under, PaceOK,
     NoRecentRead
<1>f. datapos \in Nat /\ datalen \in Nat /\ datapos' \in Nat /\ datalen' \in Nat
  BY DEF DriveOK
<1>g. ~REMPTY /\ strobe # "FIFO_RD_REQ" => ~REMPTY'
  BY StillThere
<1>h. tst = "CMD" /\ pulse = "cmd_done" => HostQuiet
  BY DEF HostOK
<1>i. /\ tst = "CMD" /\ pulse \notin {"cmd_start", "cmd_cont"}
           => (data_out <=> cmd.op = MODE_SELECT) /\ (datalen = 0 => cmd.op # READ_10)
      /\ tst = "DATA_IN" /\ blkcnt # 0 => cmd.op = READ_10
      /\ MODE_SELECT # READ_10
  BY PlansAssumption DEF DriveOK, Under, READ_10, MODE_SELECT
<1>j. SP = "FREE" /\ phase # "FREE" /\ ~rf.assert_atn /\ ~STAT_PEND /\ ~DOUT_PEND
      /\ Drained
      => SP' = "FREE" /\ phase' = phase /\ strobe' = "NONE"
         /\ (STAT_PEND' <=> pulse = "STAT_GET") /\ (DOUT_PEND' <=> pulse = "DOUT_REQ")
  BY <1>c DEF BusOK, ProgOK, TargetMove, FreeMove, StartMove, EndMove, PauseMove,
     Moves, Starts, Ends
<1>k. pulse' \in {"NONE", "cmd_start", "cmd_cont", "cmd_done", "DOUT_REQ", "STAT_GET"}
      /\ (CmdTaken => pulse' \in {"cmd_done", "NONE"})
  <2>1. pulse' \in {"NONE", "cmd_start", "cmd_cont", "cmd_done", "DOUT_REQ", "STAT_GET"}
    BY PulseNow DEF OneAtOnce
  <2>2. CmdTaken => pulse' \in {"cmd_done", "NONE"}
    BY DEF CmdTaken, Ops, Reads
  <2>3. QED
    BY <2>1, <2>2
<1>1. (SP \in {"COMM_BEFOREREQ", "COMM_START", "COMM_END",
               "STAT_START", "STAT_END", "STAT_HOLD",
               "MSGIN_START", "MSGIN_END", "MSGIN_HOLD"} => Quiet)'
  BY <1>a, <1>b, <1>c, <1>d, <1>e, <1>f, <1>g, <1>h, <1>i, <1>j DEF StatesOK, BusOK,
     ProgOK, HandOK, TurnOK, NothingDue, Quiet, DataSP, TargetMove, FreeMove,
     StartMove, EndMove, PauseMove, Moves, Starts, Ends, DriveMove, KeepsPlace,
     KeepsCommand, StrobeMove, HandMove, ACK, ProgMove, ProgGuard, ProgLines, ProgSoft
<1>2. (SP = "FREE" /\ phase = "FREE" =>
         NothingDue /\ Drained
         /\ (tst = "IDLE" \/ (tst = "MSG_OUT" /\ strobe = "MSGOUT_OUT")))'
  BY <1>a, <1>b, <1>c, <1>d, <1>e, <1>f, <1>g, <1>h, <1>i, <1>j DEF StatesOK, BusOK,
     ProgOK, HandOK, TurnOK, NothingDue, Quiet, DataSP, TargetMove, FreeMove,
     StartMove, EndMove, PauseMove, Moves, Starts, Ends, DriveMove, KeepsPlace,
     KeepsCommand, StrobeMove, HandMove, ACK, ProgMove, ProgGuard, ProgLines, ProgSoft
<1>3. (strobe = "COMM_OUT" => Quiet /\ pc = "BUSY" /\ ~aborted)'
  BY <1>a, <1>b, <1>c, <1>d, <1>e, <1>f, <1>g, <1>h, <1>i, <1>j DEF StatesOK, BusOK,
     ProgOK, HandOK, TurnOK, NothingDue, Quiet, DataSP, TargetMove, FreeMove,
     StartMove, EndMove, PauseMove, Moves, Starts, Ends, DriveMove, KeepsPlace,
     KeepsCommand, StrobeMove, HandMove, ACK, ProgMove, ProgGuard, ProgLines, ProgSoft
<1>4. (STAT_PEND
         => /\ tst = "IDLE" /\ pulse = "NONE" /\ ~DOUT_PEND /\ HostQuiet /\ Drained
            /\ SP = "FREE" /\ phase # "FREE" /\ ~aborted /\ strobe = "NONE")'
  BY <1>a, <1>b, <1>c, <1>d, <1>e, <1>f, <1>g, <1>h, <1>i, <1>j DEF StatesOK, BusOK,
     ProgOK, HandOK, TurnOK, NothingDue, Quiet, DataSP, TargetMove, FreeMove,
     StartMove, EndMove, PauseMove, Moves, Starts, Ends, DriveMove, KeepsPlace,
     KeepsCommand, StrobeMove, HandMove, ACK, ProgMove, ProgGuard, ProgLines, ProgSoft
<1>5. (tst = "IDLE" => pulse \in {"NONE", "STAT_GET"})'
  BY <1>a, <1>b, <1>c, <1>d, <1>e, <1>f, <1>g, <1>h, <1>i, <1>j DEF StatesOK, BusOK,
     ProgOK, HandOK, TurnOK, NothingDue, Quiet, DataSP, TargetMove, FreeMove,
     StartMove, EndMove, PauseMove, Moves, Starts, Ends, DriveMove, KeepsPlace,
     KeepsCommand, StrobeMove, HandMove, ACK, ProgMove, ProgGuard, ProgLines, ProgSoft
<1>6. (pulse = "STAT_GET" =>
         /\ tst = "IDLE" /\ ~STAT_PEND /\ ~DOUT_PEND /\ HostQuiet /\ Drained
         /\ SP = "FREE" /\ phase # "FREE" /\ ~aborted /\ strobe = "NONE")'
  <2> SUFFICES ASSUME pulse' = "STAT_GET"
               PROVE  (/\ tst = "IDLE" /\ ~STAT_PEND /\ ~DOUT_PEND /\ HostQuiet /\ Drained
                       /\ SP = "FREE" /\ phase # "FREE" /\ ~aborted /\ strobe = "NONE")'
    OBVIOUS
  <2>1. tst = "STAT" /\ tst' = "IDLE"
    BY <1>k DEF DriveMove
  <2>2. NothingDue /\ Drained /\ SP = "FREE" /\ phase # "FREE" /\ ~aborted
        /\ strobe = "NONE"
    BY <2>1 DEF TurnOK
  <2>3. SP' = "FREE" /\ phase' # "FREE" /\ strobe' = "NONE" /\ ~STAT_PEND' /\ ~DOUT_PEND'
    BY <1>j, <2>2 DEF ProgOK, NothingDue
  <2>4. HostQuiet' /\ Drained'
    BY <1>a, <1>b, <1>d, <2>1, <2>2 DEF NothingDue
  <2>5. ~aborted'
    BY <2>1, <2>2 DEF ProgMove, ProgGuard, ProgSoft
  <2>6. QED
    BY <2>1, <2>3, <2>4, <2>5
<1>7. (tst = "STAT"
         => /\ NothingDue /\ Drained /\ SP = "FREE" /\ phase # "FREE" /\ ~aborted
            /\ strobe = "NONE")'
  BY <1>a, <1>b, <1>c, <1>d, <1>e, <1>f, <1>g, <1>h, <1>i, <1>j DEF StatesOK, BusOK,
     ProgOK, HandOK, TurnOK, NothingDue, Quiet, DataSP, TargetMove, FreeMove,
     StartMove, EndMove, PauseMove, Moves, Starts, Ends, DriveMove, KeepsPlace,
     KeepsCommand, StrobeMove, HandMove, ACK, ProgMove, ProgGuard, ProgLines, ProgSoft
<1>8. (tst = "CMD" => /\ pulse \in {"NONE", "cmd_start", "cmd_cont", "cmd_done"}
                     /\ ~STAT_PEND /\ ~DOUT_PEND /\ SP \in DataSP /\ phase # "FREE"
                     /\ ~aborted
                     /\ strobe # "COMM_OUT" /\ strobe # "DATA_OUT" /\ datapos = 0
                     /\ ~CD_WR)'
  <2> SUFFICES ASSUME tst' = "CMD"
               PROVE  (/\ pulse \in {"NONE", "cmd_start", "cmd_cont", "cmd_done"}
                       /\ ~STAT_PEND /\ ~DOUT_PEND /\ SP \in DataSP /\ phase # "FREE"
                       /\ ~aborted
                       /\ strobe # "COMM_OUT" /\ strobe # "DATA_OUT" /\ datapos = 0
                       /\ ~CD_WR)'
    OBVIOUS
  <2>1. \/ tst = "IDLE" /\ strobe = "COMM_OUT"
        \/ tst = "CMD"
        \/ tst = "DATA_IN" /\ CD_WR /\ ~rf.assert_atn /\ blkcnt # 0
    BY DEF DriveMove
  <2>2. datapos' = 0 /\ pulse' \in {"NONE", "cmd_start", "cmd_cont", "cmd_done"}
    BY <1>k, <2>1 DEF TurnOK, DriveMove, KeepsPlace
  <2>3. ~CD_WR'
    BY <2>1 DEF StrobeMove
  <2>4. ~STAT_PEND /\ ~DOUT_PEND /\ pulse # "STAT_GET" /\ pulse # "DOUT_REQ"
        /\ phase # "FREE" /\ ~aborted /\ SP \in DataSP
    BY <2>1 DEF TurnOK, Quiet, NothingDue, BusOK, ProgOK, DataSP
  <2>5. ~aborted'
    BY <2>1, <2>4 DEF ProgMove, ProgGuard, ProgSoft
  <2>6. /\ SP' \in DataSP /\ phase' # "FREE" /\ strobe' # "COMM_OUT"
        /\ strobe' # "DATA_OUT"
        /\ ~STAT_PEND' /\ ~DOUT_PEND'
    BY <2>4 DEF DataSP, ProgOK, TargetMove, FreeMove, StartMove, EndMove, PauseMove,
       Moves, Starts, Ends
  <2>7. QED
    BY <2>2, <2>3, <2>5, <2>6
<1>9. (tst = "DATA_IN"
         => /\ NothingDue /\ SP \in DataSP /\ phase # "FREE" /\ datapos < datalen
            /\ strobe # "COMM_OUT" /\ strobe # "DATA_OUT")'
  BY <1>a, <1>b, <1>c, <1>d, <1>e, <1>f, <1>g, <1>h, <1>i, <1>j DEF StatesOK, BusOK,
     ProgOK, HandOK, TurnOK, NothingDue, Quiet, DataSP, TargetMove, FreeMove,
     StartMove, EndMove, PauseMove, Moves, Starts, Ends, DriveMove, KeepsPlace,
     KeepsCommand, StrobeMove, HandMove, ACK, ProgMove, ProgGuard, ProgLines, ProgSoft
<1>10. (tst = "DATA_IN_END"
          => /\ NothingDue /\ SP \in DataSP /\ phase # "FREE" /\ datapos = datalen
             /\ ~CD_WR /\ blkcnt = 0
             /\ strobe # "COMM_OUT" /\ strobe # "DATA_OUT"
             /\ (strobe = "CD_DATA_END" => Drained))'
  BY <1>a, <1>b, <1>c, <1>d, <1>e, <1>f, <1>g, <1>h, <1>i, <1>j DEF StatesOK, BusOK,
     ProgOK, HandOK, TurnOK, NothingDue, Quiet, DataSP, TargetMove, FreeMove,
     StartMove, EndMove, PauseMove, Moves, Starts, Ends, DriveMove, KeepsPlace,
     KeepsCommand, StrobeMove, HandMove, ACK, ProgMove, ProgGuard, ProgLines, ProgSoft
<1>11. (tst = "DATA_OUT"
          => /\ ~STAT_PEND /\ HostQuiet /\ Drained /\ pulse \in {"NONE", "DOUT_REQ"}
             /\ SP \in {"FREE", "DATAOUT_START", "DATAOUT_END"}
             /\ phase # "FREE" /\ ~aborted
             /\ strobe # "COMM_OUT")'
  BY <1>a, <1>b, <1>c, <1>d, <1>e, <1>f, <1>g, <1>h, <1>i, <1>j DEF StatesOK, BusOK,
     ProgOK, HandOK, TurnOK, NothingDue, Quiet, DataSP, TargetMove, FreeMove,
     StartMove, EndMove, PauseMove, Moves, Starts, Ends, DriveMove, KeepsPlace,
     KeepsCommand, StrobeMove, HandMove, ACK, ProgMove, ProgGuard, ProgLines, ProgSoft
<1>12. (DOUT_PEND => tst = "DATA_OUT" /\ SP = "FREE" /\ pulse = "NONE")'
  BY <1>a, <1>b, <1>c, <1>d, <1>e, <1>f, <1>g, <1>h, <1>i, <1>j DEF StatesOK, BusOK,
     ProgOK, HandOK, TurnOK, NothingDue, Quiet, DataSP, TargetMove, FreeMove,
     StartMove, EndMove, PauseMove, Moves, Starts, Ends, DriveMove, KeepsPlace,
     KeepsCommand, StrobeMove, HandMove, ACK, ProgMove, ProgGuard, ProgLines, ProgSoft
<1>13. (pulse = "DOUT_REQ" => tst = "DATA_OUT" /\ SP = "FREE" /\ ~DOUT_PEND)'
  <2> SUFFICES ASSUME pulse' = "DOUT_REQ"
               PROVE  (tst = "DATA_OUT" /\ SP = "FREE" /\ ~DOUT_PEND)'
    OBVIOUS
  <2>1. tst = "CMD" /\ pulse = "cmd_done" /\ data_out /\ tst' = "DATA_OUT"
    BY <1>k DEF DriveMove
  <2>2. SP = "FREE" /\ strobe = "NONE" /\ Drained /\ ~STAT_PEND /\ ~DOUT_PEND
        /\ ~aborted /\ phase # "FREE"
    BY <1>i, <2>1 DEF TurnOK
  <2>3. QED
    BY <1>j, <2>1, <2>2 DEF ProgOK
<1>14. (SP \in {"DATAOUT_START", "DATAOUT_END"} \/ strobe = "DATA_OUT" =>
           tst = "DATA_OUT" /\ ~DOUT_PEND /\ pulse = "NONE")'
  BY <1>a, <1>b, <1>c, <1>d, <1>e, <1>f, <1>g, <1>h, <1>i, <1>j DEF StatesOK, BusOK,
     ProgOK, HandOK, TurnOK, NothingDue, Quiet, DataSP, TargetMove, FreeMove,
     StartMove, EndMove, PauseMove, Moves, Starts, Ends, DriveMove, KeepsPlace,
     KeepsCommand, StrobeMove, HandMove, ACK, ProgMove, ProgGuard, ProgLines, ProgSoft
<1>15. (tst = "MSG_OUT" =>
          /\ NothingDue /\ aborted /\ datapos <= datalen
          /\ SP \in DataSP \cup {"MSGOUT_START", "MSGOUT_END"}
          /\ (phase = "FREE" => strobe = "MSGOUT_OUT")
          /\ (SP = "FREE" => Drained))'
  <2> SUFFICES ASSUME tst' = "MSG_OUT"
               PROVE  (/\ NothingDue /\ aborted /\ datapos <= datalen
                       /\ SP \in DataSP \cup {"MSGOUT_START", "MSGOUT_END"}
                       /\ (phase = "FREE" => strobe = "MSGOUT_OUT")
                       /\ (SP = "FREE" => Drained))'
    OBVIOUS
  <2>1. /\ pulse' = "NONE" /\ datapos' = datapos /\ datalen' = datalen
        /\ \/ tst = "DATA_IN" /\ rf.assert_atn
           \/ tst = "DATA_IN_END" /\ rf.assert_atn /\ strobe = "CD_DATA_END"
           \/ tst = "MSG_OUT" /\ strobe # "MSGOUT_OUT"
    BY DEF DriveMove, KeepsPlace, KeepsCommand
  <2>2. NothingDue /\ aborted /\ datapos <= datalen
    BY <1>f, <2>1 DEF TurnOK, ProgOK
  <2>3. \/ SP \in {"DATAIN_START", "DATAIN_END"} /\ (tst = "DATA_IN" => ~REMPTY)
        \/ SP \in {"MSGOUT_START", "MSGOUT_END"}
        \/ SP = "FREE" /\ Drained /\ phase # "FREE"
    BY <2>1, <2>2 DEF TurnOK, ProgOK, DataSP
  <2>4. HostQuiet' /\ ~STAT_PEND' /\ ~DOUT_PEND'
    BY <1>a, <1>d, <2>1, <2>2, <2>3 DEF NothingDue, TargetMove, FreeMove, StartMove,
       EndMove, PauseMove, Moves, Starts, Ends
  <2>5. aborted'
    BY <2>1, <2>2, <2>3 DEF ProgMove, ProgGuard, ProgSoft, BusOK
  <2>6. /\ SP' \in DataSP \cup {"MSGOUT_START", "MSGOUT_END"}
        /\ phase' = "FREE" => strobe' = "MSGOUT_OUT"
    BY <1>c, <2>1, <2>2, <2>3 DEF BusOK, DataSP, NothingDue, ProgOK, TargetMove,
       FreeMove, StartMove, EndMove, PauseMove, Moves, Starts, Ends
  <2>7. SP' = "FREE" => Drained'
    BY <1>b, <1>c, <2>1, <2>2, <2>3 DEF SupplyOK, Finished, Fresh, TurnOK, BusOK,
       ProgOK, TargetMove, FreeMove, StartMove, EndMove, PauseMove, Moves, Starts,
       Ends
  <2>8. QED
    BY <1>f, <2>1, <2>2, <2>4, <2>5, <2>6, <2>7 DEF NothingDue
<1>16. (SP \in {"MSGOUT_START", "MSGOUT_END"} => tst = "MSG_OUT" /\ Drained)'
  BY <1>a, <1>b, <1>c, <1>d, <1>e, <1>f, <1>g, <1>h, <1>i, <1>j DEF StatesOK, BusOK,
     ProgOK, HandOK, TurnOK, NothingDue, Quiet, DataSP, TargetMove, FreeMove,
     StartMove, EndMove, PauseMove, Moves, Starts, Ends, DriveMove, KeepsPlace,
     KeepsCommand, StrobeMove, HandMove, ACK, ProgMove, ProgGuard, ProgLines, ProgSoft
<1>17. (SP \in {"DATAIN_START", "DATAIN_END"}
          => tst \in {"CMD", "DATA_IN", "DATA_IN_END", "MSG_OUT"})'
  BY <1>a, <1>b, <1>c, <1>d, <1>e, <1>f, <1>g, <1>h, <1>i, <1>j DEF StatesOK, BusOK,
     ProgOK, HandOK, TurnOK, NothingDue, Quiet, DataSP, TargetMove, FreeMove,
     StartMove, EndMove, PauseMove, Moves, Starts, Ends, DriveMove, KeepsPlace,
     KeepsCommand, StrobeMove, HandMove, ACK, ProgMove, ProgGuard, ProgLines, ProgSoft
<1>18. (aborted /\ pc = "BUSY" =>
          /\ tst \in {"DATA_IN", "DATA_IN_END", "MSG_OUT"} /\ cmd.op \in Reads
          /\ (tst = "DATA_IN"
                => blkcnt = 0 /\ SP = "DATAIN_START" /\ ~reqn_d /\ ~ce /\ ~REMPTY)
          /\ (SP = "FREE"
                => tst = "MSG_OUT" \/ (tst = "DATA_IN_END" /\ strobe = "CD_DATA_END")))'
  BY <1>a, <1>b, <1>c, <1>d, <1>e, <1>f, <1>g, <1>h, <1>i, <1>j DEF StatesOK, BusOK,
     ProgOK, HandOK, TurnOK, NothingDue, Quiet, DataSP, TargetMove, FreeMove,
     StartMove, EndMove, PauseMove, Moves, Starts, Ends, DriveMove, KeepsPlace,
     KeepsCommand, StrobeMove, HandMove, ACK, ProgMove, ProgGuard, ProgLines, ProgSoft
<1>19. (datapos <= datalen \/ pulse = "cmd_start")'
  BY <1>a, <1>b, <1>c, <1>d, <1>e, <1>f, <1>g, <1>h, <1>i, <1>j DEF StatesOK, BusOK,
     ProgOK, HandOK, TurnOK, NothingDue, Quiet, DataSP, TargetMove, FreeMove,
     StartMove, EndMove, PauseMove, Moves, Starts, Ends, DriveMove, KeepsPlace,
     KeepsCommand, StrobeMove, HandMove, ACK, ProgMove, ProgGuard, ProgLines, ProgSoft
<1>20. (tst = "IDLE" /\ SP = "FREE"
          => phase = "FREE" \/ strobe = "COMM_OUT" \/ pulse = "STAT_GET" \/ STAT_PEND)'
  BY <1>a, <1>b, <1>c, <1>d, <1>e, <1>f, <1>g, <1>h, <1>i, <1>j DEF StatesOK, BusOK,
     ProgOK, HandOK, TurnOK, NothingDue, Quiet, DataSP, TargetMove, FreeMove,
     StartMove, EndMove, PauseMove, Moves, Starts, Ends, DriveMove, KeepsPlace,
     KeepsCommand, StrobeMove, HandMove, ACK, ProgMove, ProgGuard, ProgLines, ProgSoft
<1>21. (tst = "CMD" /\ cmd.op # READ_10 => SP = "FREE" /\ strobe = "NONE" /\ Drained)'
  BY <1>a, <1>b, <1>c, <1>d, <1>e, <1>f, <1>g, <1>h, <1>i, <1>j DEF StatesOK, BusOK,
     ProgOK, HandOK, TurnOK, NothingDue, Quiet, DataSP, TargetMove, FreeMove,
     StartMove, EndMove, PauseMove, Moves, Starts, Ends, DriveMove, KeepsPlace,
     KeepsCommand, StrobeMove, HandMove, ACK, ProgMove, ProgGuard, ProgLines, ProgSoft
<1>22. (pc \in {"IDLE", "RESET", "SELECT"} => tst = "IDLE")'
  BY <1>a, <1>b, <1>c, <1>d, <1>e, <1>f, <1>g, <1>h, <1>i, <1>j DEF StatesOK, BusOK,
     ProgOK, HandOK, TurnOK, NothingDue, Quiet, DataSP, TargetMove, FreeMove,
     StartMove, EndMove, PauseMove, Moves, Starts, Ends, DriveMove, KeepsPlace,
     KeepsCommand, StrobeMove, HandMove, ACK, ProgMove, ProgGuard, ProgLines, ProgSoft
<1>23. QED
  BY <1>1, <1>2, <1>3, <1>4, <1>5, <1>6, <1>7, <1>8, <1>9, <1>10, <1>11, <1>12, <1>13,
     <1>14, <1>15, <1>16, <1>17, <1>18, <1>19, <1>20, <1>21, <1>22 DEF TurnOK

-----------------------------------------------------------------------------
(* The host, and the pace of the FIFO on both of its sides.                *)

(* The host brings what was asked for.                                     *)
LEMMA HostStep ==
  ASSUME NEW act, NEW M, PathInv, Moved(act, M)
  PROVE  HostOK'
<1> USE DEF PathInv, Moved
<1>a. tst \in {"CMD", "DATA_IN"}
        => op = cmd.op /\ cmd' = cmd /\ (cmd.op = READ_10 => COMM[2] # 0)
  <2>1. tst \in {"CMD", "DATA_IN"}
          => pc = "BUSY" /\ op = cmd.op /\ (cmd.op = READ_10 => COMM[2] # 0)
    BY CommandIs DEF Reads
  <2>2. pc = "BUSY" => cmd' = cmd
    BY DEF ProgMove, ProgGuard, ProgSoft
  <2>3. QED
    BY <2>1, <2>2
<1>b. /\ tst = "CMD" /\ pulse = "cmd_cont" => cmd.op = READ_10
      /\ tst = "DATA_IN" /\ blkcnt # 0 => cmd.op = READ_10
  BY DEF DriveOK, Under
<1>c. /\ CmdTaken /\ op \in Reads /\ ~(op = READ_10 /\ COMM[2] = 0) => pulse' = "NONE" 
      /\ CmdTaken /\ op \notin Reads => pulse' = "cmd_done"
  BY DEF CmdTaken, Ops, Reads, TEST_UNIT_READY, REQUEST_SENSE, MODE_SELECT,
     PREVENT_ALLOW_MEDIUM_REMOVAL, READ_10, READ_TOC, READ_HEADER
<1>1. (tst = "CMD" /\ pulse \in {"cmd_start", "cmd_cont"} => HostQuiet)'
  BY <1>a, <1>b, <1>c DEF HostOK, TurnOK, Quiet, NothingDue, HostQuiet, HostMove,
     StrobeMove, DriveMove, KeepsPlace, KeepsCommand, SectorCame, Asks, Reads
<1>2. (tst = "CMD" /\ pulse = "cmd_done"
         => HostQuiet /\ (cmd.op \in Reads => sdbuf = SD_LBA))'
  BY <1>a, <1>b, <1>c DEF HostOK, TurnOK, Quiet, NothingDue, HostQuiet, HostMove,
     StrobeMove, DriveMove, KeepsPlace, KeepsCommand, SectorCame, Asks, Reads
<1>3. (tst = "CMD" /\ pulse = "NONE" =>
         /\ cmd.op \in Reads
         /\ \/ SD_RD /\ ~sd_ack_d
            \/ ~SD_RD /\ sd_ack_d /\ (SD_ACK \/ sdbuf = SD_LBA))'
  BY <1>a, <1>b, <1>c DEF HostOK, TurnOK, Quiet, NothingDue, HostQuiet, HostMove,
     StrobeMove, DriveMove, KeepsPlace, KeepsCommand, SectorCame, Asks, Reads
<1>4. QED
  BY <1>1, <1>2, <1>3 DEF HostOK

(* A byte is written every third clock at most.                            *)
LEMMA PaceStep ==
  ASSUME NEW act, NEW M, PathInv, Moved(act, M)
  PROVE  PaceOK'
<1> USE DEF PathInv, Moved
<1>a. ~WFULL /\ ~FIFO_WR_REQ => ~WFULL'
  BY FullOnlyByWrite DEF FifoMove
<1>b. /\ rq1_wptr' = wbin /\ rq2_wptr' = rq1_wptr
      /\ wbin' = IF FIFO_WR_REQ /\ ~WFULL THEN After(wbin) ELSE wbin
  BY DEF FifoMove, FifoClock, wbinnext
<1>c. ~REMPTY /\ strobe # "FIFO_RD_REQ" => ~REMPTY'
  BY StillThere
<1>1. (FIFO_WR_REQ <=> cd_wr_d)'
  BY <1>a, <1>b DEF PaceOK, StrobeMove, DriveMove
<1>2. (CD_WR_OLD <=> cd_wr_d)'
  BY <1>a, <1>b DEF PaceOK, StrobeMove, DriveMove
<1>3. (CD_WR => ~cd_wr_d /\ ~WFULL)'
  BY <1>a, <1>b DEF PaceOK, StrobeMove, DriveMove
<1>4. (FIFO_WR_REQ => ~WFULL)'
  BY <1>a, <1>b DEF PaceOK, StrobeMove, DriveMove
<1>5. (CD_WR => rq1_wptr = wbin)'
  BY <1>a, <1>b DEF PaceOK, StrobeMove, DriveMove
<1>6. (FIFO_WR_REQ => rq1_wptr = wbin /\ rq2_wptr = wbin)'
  BY <1>a, <1>b DEF PaceOK, StrobeMove, DriveMove
<1>7. (rq1_wptr # wbin => rq2_wptr = rq1_wptr /\ wbin = After(rq1_wptr))'
  BY <1>a, <1>b DEF PaceOK, StrobeMove, DriveMove
<1>8. (CD_WR => \/ tst = "DATA_IN"
                \/ /\ tst = "MSG_OUT" /\ ~REMPTY
                   /\ (SP = "DATAIN_START" /\ ~reqn_d) \/ (SP = "DATAIN_END" /\ ACK))'
  BY <1>c DEF PaceOK, StrobeMove, DriveMove, TurnOK, BusOK, HandOK, ACK, HandMove,
     ProgMove, ProgGuard, ProgLines, ProgSoft, ProgOK, TargetMove, FreeMove,
     StartMove, EndMove, PauseMove, Moves, Starts, Ends
<1>9. QED
  BY <1>1, <1>2, <1>3, <1>4, <1>5, <1>6, <1>7, <1>8 DEF PaceOK

(* The writer knows the read pointer by the time of the next read.         *)
LEMMA SpreadStep ==
  ASSUME NEW act, NEW M, PathInv, Moved(act, M)
  PROVE  SpreadOK'
<1> USE DEF PathInv, Moved
<1>a. wq1_rptr' = rbin /\ wq2_rptr' = wq1_rptr
      /\ rbin' = (IF strobe = "FIFO_RD_REQ" THEN After(rbin) ELSE rbin)
  BY FrontMoves DEF FifoMove, FifoClock, front
<1>b. ~REMPTY /\ strobe # "FIFO_RD_REQ" => ~REMPTY'
  BY StillThere
<1>c. SP = "DATAIN_START" /\ reqn_d => ~ACK
  BY DEF HandOK, BusOK, Starts
<1>1. (strobe = "FIFO_RD_REQ" => wq2_rptr = rbin /\ wq1_rptr = rbin /\ ~REMPTY)'
  BY <1>a, <1>b, <1>c DEF SpreadOK, BusOK, HandOK, HandMove, ACK, NoRecentRead,
     TargetMove, FreeMove, StartMove, EndMove, PauseMove, Moves, Starts, Ends
<1>2. (SP = "DATAIN_START" /\ reqn_d /\ strobe # "FIFO_RD_REQ"
         => ce /\ wq1_rptr = wq2_rptr /\ rbin \in {wq2_rptr, After(wq2_rptr)})'
  BY <1>a, <1>b, <1>c DEF SpreadOK, BusOK, HandOK, HandMove, ACK, NoRecentRead,
     TargetMove, FreeMove, StartMove, EndMove, PauseMove, Moves, Starts, Ends
<1>3. (SP = "DATAIN_START" /\ req_posedge_d /\ ~ce =>
           (wq1_rptr = wq2_rptr \/ wq1_rptr = rbin)
           /\ rbin \in {wq2_rptr, After(wq2_rptr)})'
  BY <1>a, <1>b, <1>c DEF SpreadOK, BusOK, HandOK, HandMove, ACK, NoRecentRead,
     TargetMove, FreeMove, StartMove, EndMove, PauseMove, Moves, Starts, Ends
<1>4. (SP = "DATAIN_START" /\ req_posedge_d /\ ce
         => wq1_rptr = rbin /\ rbin \in {wq2_rptr, After(wq2_rptr)})'
  BY <1>a, <1>b, <1>c DEF SpreadOK, BusOK, HandOK, HandMove, ACK, NoRecentRead,
     TargetMove, FreeMove, StartMove, EndMove, PauseMove, Moves, Starts, Ends
<1>5. (~(SP = "DATAIN_START" /\ (reqn_d \/ req_posedge_d))
         => wq1_rptr = rbin /\ wq2_rptr = rbin)'
  BY <1>a, <1>b, <1>c DEF SpreadOK, BusOK, HandOK, HandMove, ACK, NoRecentRead,
     TargetMove, FreeMove, StartMove, EndMove, PauseMove, Moves, Starts, Ends
<1>6. QED
  BY <1>1, <1>2, <1>3, <1>4, <1>5 DEF SpreadOK

(* How old the writing side's knowledge of the reader is.                  *)
LEMMA Behind ==
  ASSUME PathInv
  PROVE  /\ front \in {wq2_rptr, After(wq2_rptr)}
         /\ ~(SP = "DATAIN_START" /\ (reqn_d \/ req_posedge_d)) => front = wq2_rptr
BY DEF PathInv, SpreadOK, BusOK, front, NoRecentRead

(* Distances in the ring that the steps below need.                        *)
LEMMA RingFacts ==
  ASSUME NEW p \in Pointer, NEW q \in Pointer
  PROVE  /\ Distance(p, q) \in 0 .. 2 * DEPTH - 1
         /\ Distance(p, q) = 0 <=> p = q
         /\ Distance(p, q) >= 1 => Distance(After(p), q) = Distance(p, q) - 1
         /\ Distance(p, q) < 2 * DEPTH - 1 => Distance(p, After(q)) = Distance(p, q) + 1
         /\ q = Opposite(p) => Distance(p, q) = DEPTH
BY FifoAssumption DEF Pointer, Distance, After, Opposite

(* The front is a pointer.                                                 *)
LEMMA FrontType ==
  ASSUME PathInv
  PROVE  /\ front \in Pointer /\ rbin \in Pointer /\ wbin \in Pointer
         /\ rq1_wptr \in Pointer
         /\ rq2_wptr \in Pointer /\ wq2_rptr \in Pointer
BY AfterType DEF PathInv, PInv, PointersOK, front

(* A pointer moves when it steps.                                          *)
LEMMA AfterDiffers == \A p \in Pointer : After(p) # p
BY FifoAssumption DEF Pointer, After

(* What the reader sees is there, and what it does not see yet too.        *)
LEMMA Seen ==
  ASSUME PathInv, ~REMPTY, strobe # "FIFO_RD_REQ"
  PROVE  /\ front = rbin /\ Distance(front, rq2_wptr) >= 1
         /\ Distance(front, rq1_wptr) =
              Distance(front, rq2_wptr) + Distance(rq2_wptr, rq1_wptr)
         /\ Distance(front, wbin) = Distance(front, rq1_wptr) + Distance(rq1_wptr, wbin)
<1>1. front = rbin
  BY DEF front
<1>2. QED
  BY <1>1, FrontType, FifoAssumption DEF PathInv, PInv, InOrder, Pointer, Distance

(* There are never more bytes in the FIFO than it has cells.               *)
LEMMA FrontRoom ==
  ASSUME PathInv
  PROVE  Distance(front, wbin) <= DEPTH
<1>1. CASE strobe = "FIFO_RD_REQ"
  <2>1. front = After(rbin) /\ Distance(rbin, wbin) \in 1 .. DEPTH
    BY <1>1, OrderGivesFlags, FrontType, RingFacts DEF front, PathInv, BusOK,
       FlagsSafe
  <2>2. QED
    BY <2>1, FrontType, RingFacts, FifoAssumption
<1>2. CASE strobe # "FIFO_RD_REQ"
  BY <1>2, OrderGivesFlags DEF front, PathInv
<1>3. QED
  BY <1>1, <1>2

(* While a sector comes the FIFO is kept all but full.                     *)
LEMMA FillStep ==
  ASSUME NEW act, NEW M, PathInv, Moved(act, M), PInv', BusOK', HandOK'
  PROVE  FillOK'
<1> USE DEF PathInv, Moved
<1> DEFINE d == Distance(front, wbin)
           w == FIFO_WR_REQ
           r == strobe' = "FIFO_RD_REQ"
<1>1. DEPTH \in Nat /\ DEPTH >= 4 /\ d \in 0 .. DEPTH
  BY FrontRoom, FrontType, RingFacts, FifoAssumption, PlansAssumption
<1>2. /\ rq1_wptr' = wbin /\ rq2_wptr' = rq1_wptr
      /\ wbin' = (IF w THEN After(wbin) ELSE wbin)
      /\ front' = (IF r THEN After(front) ELSE front)
      /\ WFULL' <=> (IF w THEN After(wbin) ELSE wbin) = Opposite(wq2_rptr)
  BY FrontMoves DEF FifoMove, FifoClock, wbinnext, PaceOK
<1>3. r => ~REMPTY /\ strobe # "FIFO_RD_REQ" /\ front = wq2_rptr
  BY Behind DEF BusOK, TargetMove, FreeMove, StartMove, EndMove, PauseMove, Moves,
     Starts, Ends
<1>4. r => d >= 1
  BY <1>3, Seen, FrontType, RingFacts
<1>5. /\ front \in Pointer /\ wbin \in Pointer /\ rq1_wptr \in Pointer
      /\ rq2_wptr \in Pointer /\ wq2_rptr \in Pointer
      /\ After(front) \in Pointer /\ After(wbin) \in Pointer /\ front' \in Pointer
      /\ wbin' \in Pointer
  BY <1>2, FrontType, AfterType
<1>6. Distance(front', wbin') = d - (IF r THEN 1 ELSE 0) + (IF w THEN 1 ELSE 0)
  <2>1. Distance(front, wbin') = d + (IF w THEN 1 ELSE 0)
    BY <1>1, <1>2, <1>5, RingFacts
  <2>2. Distance(front', wbin') = Distance(front, wbin') - (IF r THEN 1 ELSE 0)
    BY <1>1, <1>2, <1>4, <1>5, <2>1, RingFacts
  <2>3. QED
    BY <1>1, <2>1, <2>2
<1>7. (front' = wbin') <=> Distance(front', wbin') = 0
  BY <1>5, RingFacts
<1>8. CD_WR => rq1_wptr = wbin /\ ~cd_wr_d
  BY DEF PaceOK
<1>9. rq1_wptr # wbin => Distance(rq1_wptr, wbin) = 1 /\ rq2_wptr = rq1_wptr
  BY <1>1, <1>5, RingFacts DEF PaceOK
<1>10. tst' = "DATA_IN" /\ datapos' >= 1
         => tst = "DATA_IN" /\ (datapos >= 1 \/ (CD_WR /\ datapos' = 1 /\ datapos = 0))
  BY DEF TurnOK, DriveMove, KeepsPlace, DriveOK
<1>11. (WFULL => Distance(front, wbin) >= DEPTH - 1)'
  <2> SUFFICES ASSUME WFULL' PROVE Distance(front', wbin') >= DEPTH - 1
    OBVIOUS
  <2>1. wbin' = Opposite(wq2_rptr)
    BY <1>2
  <2>2. Distance(wq2_rptr, wbin') = DEPTH
    BY <1>5, <2>1, RingFacts
  <2>3. front' \in {wq2_rptr, After(wq2_rptr)}
    BY <1>2, <1>3, Behind
  <2>4. QED
    BY <1>1, <1>5, <2>2, <2>3, RingFacts
<1>12. (tst = "DATA_IN" /\ datapos >= 1 /\ ~CD_WR /\ ~cd_wr_d /\ rq1_wptr = wbin
       => Distance(front, wbin) >= IF strobe = "FIFO_RD_REQ" THEN DEPTH - 2
                                      ELSE DEPTH - 1)'
  <2> SUFFICES ASSUME tst' = "DATA_IN", datapos' >= 1, ~CD_WR', ~cd_wr_d',
                      rq1_wptr' = wbin'
               PROVE  Distance(front', wbin') >= IF r THEN DEPTH - 2 ELSE DEPTH - 1
    OBVIOUS
  <2>1. ~w
    BY <1>2, <1>5, AfterDiffers
  <2>2. WFULL
    BY <1>10, <2>1 DEF StrobeMove, PaceOK
  <2>3. d >= DEPTH - 1
    BY <2>2 DEF FillOK
  <2>4. QED
    BY <1>1, <1>6, <2>1, <2>3
<1>13. (tst = "DATA_IN" /\ datapos >= 1 /\ CD_WR /\ rq2_wptr = wbin
          => Distance(front, wbin) >= DEPTH - 2)'
  <2> SUFFICES ASSUME tst' = "DATA_IN", datapos' >= 1, CD_WR', rq2_wptr' = wbin'
               PROVE  Distance(front', wbin') >= DEPTH - 2
    OBVIOUS
  <2>1. ~CD_WR /\ ~cd_wr_d /\ ~w
    BY DEF StrobeMove, PaceOK
  <2>2. tst = "DATA_IN" /\ datapos >= 1 /\ rq1_wptr = wbin
    BY <1>2, <1>10, <2>1
  <2>3. d >= IF strobe = "FIFO_RD_REQ" THEN DEPTH - 2 ELSE DEPTH - 1
    BY <2>1, <2>2 DEF FillOK
  <2>4. QED
    BY <1>1, <1>3, <1>6, <2>1, <2>3
<1>14. (tst = "DATA_IN" /\ datapos >= 1 /\ ~(datapos = 1 /\ cd_wr_d) => front # wbin)'
  <2> SUFFICES ASSUME tst' = "DATA_IN", datapos' >= 1, ~(datapos' = 1 /\ cd_wr_d')
               PROVE  Distance(front', wbin') # 0
    BY <1>7
  <2>1. tst = "DATA_IN" /\ datapos >= 1
    BY <1>10 DEF StrobeMove
  <2>2. CASE w
    BY <1>1, <1>4, <1>6, <2>2
  <2>3. CASE ~w
    <3>1. d >= 1
      BY <1>5, <2>1, <2>3, RingFacts, <1>1 DEF FillOK, PaceOK
    <3>2. ASSUME r PROVE d >= 2
      <4>1. CASE rq1_wptr # wbin
        BY <1>1, <1>3, <1>5, <1>9, <3>2, <4>1, Seen, RingFacts
      <4>2. CASE rq1_wptr = wbin /\ CD_WR /\ rq2_wptr # wbin
        BY <1>1, <1>3, <1>5, <3>2, <4>2, Seen, RingFacts
      <4>3. CASE CD_WR /\ rq2_wptr = wbin
        BY <1>1, <2>1, <4>3 DEF FillOK
      <4>4. CASE ~CD_WR /\ rq1_wptr = wbin
        BY <1>1, <2>1, <2>3, <4>4 DEF FillOK, PaceOK
      <4>5. QED
        BY <1>8, <4>1, <4>2, <4>3, <4>4
    <3>3. QED
      BY <1>1, <1>6, <2>3, <3>1, <3>2
  <2>4. QED
    BY <2>2, <2>3
<1>15. QED
  BY <1>11, <1>12, <1>13, <1>14 DEF FillOK

-----------------------------------------------------------------------------
(* Counting: where a byte goes in a clock.                                 *)

(* When the engine takes a byte, nobody has taken it yet.                  *)
LEMMA TakesWhen ==
  ASSUME PathInv, Takes
  PROVE  /\ SP = "DATAIN_START" /\ ~reqn_d /\ ~Taken /\ rf.dma_mode /\ ~dma_end
         /\ pc = "BUSY" /\ cmd.how = "DMA" /\ ce /\ ~dma_next_word
<1>1. rf.dma_mode /\ ~dma_end /\ pc = "BUSY" /\ cmd.how = "DMA" /\ ce /\ ~rf.assert_ack
  BY DEF PathInv, Takes, ProgOK
<1>2. SP = "DATAIN_START" /\ ~reqn_d /\ ~dma_rxbuf_rd /\ ~m_req /\ ~assert_ack_cnt
  BY DEF PathInv, Takes, HandOK, BusOK, Starts, Ends
<1>3. ~assert_ack_dma
  BY <1>2 DEF PathInv, HandOK, BusOK, Starts
<1>4. ~dma_next_word
  BY <1>2 DEF PathInv, HandOK
<1>5. QED
  BY <1>1, <1>2, <1>3, <1>4 DEF Taken

(* The program reads a data byte only when the engine does not.            *)
LEMMA GetWhen ==
  ASSUME PathInv, NEW act, act = "Get", ProgMove(act), phase = "DATAIN"
  PROVE  /\ SP = "DATAIN_START" /\ ~reqn_d /\ ~Taken /\ pc = "BUSY" /\ cmd.how = "PIO"
         /\ ~rf.dma_mode
<1>1. /\ pc = "BUSY" /\ REQ /\ ~rf.assert_ack /\ ~rf.dma_mode /\ ~dma_rxbuf_rd
      /\ ~assert_ack_dma
      /\ ~reqn_d /\ cmd.how = "PIO"
  BY DEF ProgMove, ProgGuard
<1>2. SP = "DATAIN_START" /\ ~m_req
  BY <1>1 DEF PathInv, BusOK, HandOK, Starts
<1>3. QED
  BY <1>1, <1>2 DEF Taken

(* A byte is in the target's hand from the read to the moment that the     *)
(* initiator takes it.                                                     *)
Holds == SP = "DATAIN_START" /\ ~Taken
Grabs(act) == Takes \/ (act = "Get" /\ phase = "DATAIN")
Fetches == strobe' = "FIFO_RD_REQ"

(* How a byte comes to the hand of the target, and leaves it.              *)
LEMMA HandMoves ==
  ASSUME PathInv, NEW act, NEW M, Moved(act, M)
  PROVE  /\ Grabs(act) => Holds
         /\ Fetches => ~Holds /\ SP # "DATAIN_START"
         /\ Holds' <=> Fetches \/ (Holds /\ ~Grabs(act))
<1> USE DEF PathInv, Moved
<1>1. Grabs(act) => Holds
  BY TakesWhen, GetWhen DEF Grabs, Holds
<1>2. Fetches => SP \in {"FREE", "DATAIN_END"} /\ SP' = "DATAIN_START"
      /\ (SP = "DATAIN_END" => ~ACK)
  BY DEF Fetches, TargetMove, FreeMove, StartMove, EndMove, PauseMove, Moves, Starts,
     Ends
<1>3. Takes => SP = "DATAIN_START"
  BY TakesWhen
<1>4. CASE Fetches
  <2>1. ~Taken
    BY <1>2, <1>4 DEF Taken, HandOK, ACK, Starts, Ends
  <2>2. ~REQ
    BY <1>2, <1>4 DEF BusOK, Starts
  <2>3. ~rf'.assert_ack
    BY <2>1, <2>2 DEF Taken, ProgMove, ProgGuard, ProgLines
  <2>4. ~m_req' /\ ~dma_rxbuf_rd'
    BY <1>2, <1>3, <1>4, <2>1 DEF Taken, WordMove
  <2>5. ~assert_ack_dma'
    BY <2>1 DEF Taken, HandMove
  <2>6. ~Taken'
    BY <2>3, <2>4, <2>5 DEF Taken
  <2>7. QED
    BY <1>1, <1>2, <1>4, <2>6 DEF Holds
<1>5. CASE ~Fetches /\ SP # "DATAIN_START"
  <2>1. SP' # "DATAIN_START"
    BY <1>5 DEF Fetches, TargetMove, FreeMove, StartMove, EndMove, PauseMove, Moves,
       Starts, Ends
  <2>2. QED
    BY <1>1, <1>5, <2>1 DEF Holds
<1>6. CASE ~Fetches /\ SP = "DATAIN_START" /\ Taken
  <2>1. CASE ACK
    <3>1. SP' = "DATAIN_END"
      BY <1>6, <2>1 DEF TargetMove, FreeMove, StartMove, EndMove, PauseMove, Moves,
         Starts, Ends
    <3>2. QED
      BY <1>1, <1>6, <3>1 DEF Holds
  <2>2. CASE ~ACK
    <3>1. dma_rxbuf_rd \/ m_req
      BY <1>6, <2>2 DEF Taken, ACK
    <3>2. dma_rxbuf_rd' \/ m_req' \/ assert_ack_dma'
      BY <3>1 DEF HandOK, WordMove, HandMove
    <3>3. QED
      BY <1>1, <1>6, <3>2 DEF Holds, Taken
  <2>3. QED
    BY <2>1, <2>2
<1>7. CASE ~Fetches /\ SP = "DATAIN_START" /\ ~Taken
  <2>1. SP' = "DATAIN_START"
    BY <1>7 DEF Taken, ACK, TargetMove, FreeMove, StartMove, EndMove, PauseMove,
       Moves, Starts, Ends
  <2>2. phase = "DATAIN"
    BY <1>7 DEF BusOK
  <2>3. rf'.assert_ack <=> act = "Get"
    BY <1>7, <2>2 DEF Taken, ProgMove, ProgGuard, ProgLines
  <2>4. dma_rxbuf_rd' \/ m_req' <=> Takes
    BY <1>7 DEF Taken, WordMove
  <2>5. ~assert_ack_dma'
    BY <1>7 DEF Taken, HandMove
  <2>6. QED
    BY <1>7, <2>1, <2>2, <2>3, <2>4, <2>5 DEF Holds, Taken, Grabs
<1>8. QED
  BY <1>2, <1>4, <1>5, <1>6, <1>7 DEF Holds

(* Half a word that no DMA is there to complete is lost.                   *)
Loses == ce /\ dma_a0 /\ ~rf.dma_mode

(* The counts are natural numbers, and the FIFO holds at most its DEPTH.   *)
LEMMA Sizes ==
  ASSUME PathInv
  PROVE  /\ rf.dma_ka \in Nat /\ brought \in Nat /\ Len(pio) \in Nat
         /\ Got \in Nat /\ Hand \in 0 .. 1 /\ Distance(front, wbin) \in 0 .. DEPTH
         /\ Passed = Got + Hand + Distance(front, wbin) + Bit(FIFO_WR_REQ)
         /\ Passed \in Nat
<1>1. rf.dma_ka \in Nat /\ brought \in Nat
  BY DEF PathInv, CountOK, brought, Bit
<1>2. Len(pio) \in Nat
  BY LenProperties DEF PathInv, ByteOK
<1>3. Distance(front, wbin) \in 0 .. DEPTH
  BY FrontRoom, FrontType, RingFacts, FifoAssumption
<1>4. Hand \in 0 .. 1
  BY DEF Hand, Bit
<1>5. Got \in Nat
  BY <1>1, <1>2 DEF Got, Bit
<1>6. QED
  BY <1>1, <1>2, <1>3, <1>4, <1>5 DEF Passed, Bit

(* What has come to the program or the engine.                             *)
LEMMA GotMoves ==
  ASSUME PathInv, NEW act, NEW M, Moved(act, M), act \notin {"Select", "Freed"}
  PROVE  /\ brought' = brought + Bit(M)
         /\ M => /\ pc = "BUSY" /\ m_req /\ cmd.how = "DMA" /\ brought = rf.dma_ka
                 /\ ~dma_a0 /\ ~Takes
                 /\ SP = "DATAIN_START"
         /\ pio' = IF act = "Get" /\ phase = "DATAIN" THEN Append(pio, DBO) ELSE pio
         /\ Len(pio)' = Len(pio) + Bit(act = "Get" /\ phase = "DATAIN")
         /\ Got' = Got + Bit(Grabs(act)) - Bit(Loses)
<1> USE DEF PathInv, Moved
<1>1. M => m_req /\ ~dma_rxbuf_rd /\ ~dma_next_word /\ ~dma_a0 /\ ~Takes /\ rf.dma_mode
      /\ SP = "DATAIN_START"
  BY TakesWhen DEF WordMove, HandOK, EngineOK, Taken
<1>2. M => pc = "BUSY" /\ cmd.how = "DMA" /\ brought = rf.dma_ka
  BY <1>1, Sizes DEF ProgOK, brought, Bit
<1>3. brought' = brought + Bit(M)
  <2>1. rf'.dma_ka = rf.dma_ka + Bit(ce /\ dma_next_word)
    BY DEF ProgMove, ProgCounts, Bit
  <2>2. dma_next_word' <=> M \/ (~ce /\ dma_next_word)
    BY DEF WordMove
  <2>3. QED
    BY <1>1, <2>1, <2>2, Sizes DEF brought, Bit
<1>4. /\ pio' = IF act = "Get" /\ phase = "DATAIN" THEN Append(pio, DBO) ELSE pio
      /\ Len(pio)' = Len(pio) + Bit(act = "Get" /\ phase = "DATAIN")
  <2>1. pio' = IF act = "Get" /\ phase = "DATAIN" THEN Append(pio, DBO) ELSE pio
    BY DEF ProgMove, ProgSoft
  <2>2. pio \in Seq(Byte)
    BY DEF ByteOK
  <2>3. act = "Get" /\ phase = "DATAIN" => Len(Append(pio, DBO)) = Len(pio) + 1
    <3>1. ASSUME act = "Get", phase = "DATAIN" PROVE DBO \in Byte
      BY <3>1, GetWhen DEF ByteOK
    <3>2. QED
      BY <2>2, <3>1, AppendProperties
  <2>4. QED
    BY <2>1, <2>3, Sizes DEF Bit
<1>5. act = "Get" /\ phase = "DATAIN" => ~Takes
  BY GetWhen, TakesWhen
<1>6. m_req' <=> (m_req /\ ~M) \/ (Takes /\ dma_a0)
  BY <1>1 DEF WordMove
<1>7. dma_a0' <=> IF Takes THEN ~dma_a0 ELSE dma_a0 /\ ~Loses
  <2>1. dma_a0 /\ rf.dma_mode => ~dma_end /\ rf.dma_en
    BY DEF EngineOK, ProgOK
  <2>2. ~rf.dma_mode => ~rf.dma_en
    BY DEF ProgOK
  <2>3. QED
    BY <2>1, <2>2, TakesWhen DEF WordMove, Loses
<1>8. Takes => ~m_req /\ ~Loses
  BY TakesWhen DEF Taken, Loses
<1>9. Got' = Got + Bit(Grabs(act)) - Bit(Loses)
  <2>1. /\ Got = Len(pio) + 2 * brought + 2 * Bit(m_req) + Bit(dma_a0)
        /\ Got' = Len(pio)' + 2 * brought' + 2 * Bit(m_req') + Bit(dma_a0')
    BY DEF Got, Bit
  <2>2. CASE Takes
    BY <1>1, <1>3, <1>4, <1>5, <1>6, <1>7, <1>8, <2>1, <2>2, Sizes DEF Bit, Grabs
  <2>3. CASE ~Takes
    <3>1. Bit(dma_a0') = Bit(dma_a0) - Bit(Loses)
      BY <1>7, <2>3 DEF Bit, Loses
    <3>2. 2 * brought' + 2 * Bit(m_req') = 2 * brought + 2 * Bit(m_req)
      BY <1>1, <1>3, <1>6, <2>3, Sizes DEF Bit
    <3>3. Bit(Grabs(act)) = Bit(act = "Get" /\ phase = "DATAIN")
      BY <2>3 DEF Grabs, Bit
    <3>4. Len(pio)' = Len(pio) + Bit(Grabs(act))
      BY <1>4, <3>3
    <3>5. Bit(m_req) \in Nat /\ Bit(m_req') \in Nat /\ Bit(Loses) \in Nat
          /\ Bit(Grabs(act)) \in Nat /\ Bit(dma_a0) \in Nat
      BY DEF Bit
    <3>6. brought' \in Nat
      BY <1>3, Sizes DEF Bit
    <3>7. brought \in Nat /\ Len(pio) \in Nat
      BY Sizes
    <3>a. 2 * brought \in Nat
      BY <3>7
    <3>b. 2 * brought' \in Nat
      BY <1>3, Sizes DEF Bit
    <3>c. 2 * Bit(m_req) \in Nat
      BY DEF Bit
    <3>d. 2 * Bit(m_req') \in Nat
      BY DEF Bit
    <3>8. 2 * brought \in Nat /\ 2 * Bit(m_req) \in Nat /\ 2 * brought' \in Nat
          /\ 2 * Bit(m_req') \in Nat
      BY <3>a, <3>b, <3>c, <3>d
    <3> DEFINE u == 2 * brought + 2 * Bit(m_req)
               uu == 2 * brought' + 2 * Bit(m_req')
               x == Bit(dma_a0')
               y == Bit(dma_a0)
               l == Bit(Loses)
               g == Bit(Grabs(act))
               p == Len(pio)'
    <3>9. /\ Got = Len(pio) + u + y
          /\ Got' = p + uu + x
          /\ u \in Nat /\ uu = u /\ x \in Nat /\ y \in Nat /\ l \in Nat /\ g \in Nat
          /\ Len(pio) \in Nat /\ x = y - l /\ p = Len(pio) + g
      <4>1. /\ Got = Len(pio) + u + y
            /\ Got' = p + uu + x
        BY <2>1, <3>8, Sizes DEF Bit
      <4>2. u \in Nat /\ uu = u
        BY <3>2, <3>8
      <4>3. x \in Nat /\ y \in Nat /\ l \in Nat /\ g \in Nat
        BY DEF Bit
      <4>4. QED
        BY <3>1, <3>4, <3>7, <4>1, <4>2, <4>3
    <3>10. Got' = Got + g - l
      <4> HIDE DEF u, uu, x, y, l, g, p
      <4>1. QED
        BY <3>9
    <3>11. QED
      BY <3>10
  <2>4. QED
    BY <2>2, <2>3
<1>10. QED
  BY <1>1, <1>2, <1>3, <1>4, <1>9

(* The bytes between the two pointers, as the reader has it.               *)
LEMMA DistanceMoves ==
  ASSUME PathInv, NEW act, NEW M, Moved(act, M)
  PROVE  /\ Distance(front, wbin)' =
              Distance(front, wbin) - Bit(Fetches) + Bit(FIFO_WR_REQ)
         /\ Fetches => front = rbin /\ Distance(front, wbin) >= 1 /\ ~REMPTY
         /\ FIFO_WR_REQ => Distance(front, wbin) < DEPTH
         /\ front' = IF Fetches THEN After(front) ELSE front
         /\ wbin' = IF FIFO_WR_REQ THEN After(wbin) ELSE wbin
<1> USE DEF PathInv, Moved
<1>1. /\ wbin' = (IF FIFO_WR_REQ THEN After(wbin) ELSE wbin)
      /\ front' = (IF Fetches THEN After(front) ELSE front)
  BY FrontMoves DEF FifoMove, FifoClock, wbinnext, PaceOK, Fetches
<1>2. Fetches => ~REMPTY /\ strobe # "FIFO_RD_REQ"
  BY DEF Fetches, BusOK, TargetMove, FreeMove, StartMove, EndMove, PauseMove, Moves,
     Starts, Ends
<1>3. Fetches => front = rbin /\ Distance(front, wbin) >= 1
  BY <1>2, OrderGivesFlags, FrontType, RingFacts, FifoAssumption DEF front, FlagsSafe
<1>4. FIFO_WR_REQ => Distance(rbin, wbin) < DEPTH
  BY OrderGivesFlags DEF PaceOK, FlagsSafe
<1>5. FIFO_WR_REQ => Distance(front, wbin) < DEPTH
  <2>1. CASE strobe = "FIFO_RD_REQ"
    <3>1. front = After(rbin) /\ Distance(rbin, wbin) >= 1
      BY <2>1, OrderGivesFlags, FrontType, RingFacts, FifoAssumption DEF front, BusOK,
         FlagsSafe
    <3>2. Distance(rbin, wbin) \in Nat
      BY FrontType, RingFacts, FifoAssumption
    <3>3. QED
      BY <1>4, <3>1, <3>2, FrontType, RingFacts, FifoAssumption
  <2>2. CASE strobe # "FIFO_RD_REQ"
    BY <1>4, <2>2 DEF front
  <2>3. QED
    BY <2>1, <2>2
<1>6. Distance(front, wbin)' = Distance(front, wbin) - Bit(Fetches) + Bit(FIFO_WR_REQ)
  <2>1. /\ front \in Pointer /\ wbin \in Pointer /\ front' \in Pointer
        /\ wbin' \in Pointer
        /\ After(wbin) \in Pointer /\ After(front) \in Pointer
        /\ Distance(front, wbin) \in 0 .. DEPTH /\ DEPTH \in Nat /\ DEPTH >= 4
    BY <1>1, FrontType, AfterType, Sizes, FifoAssumption, PlansAssumption
  <2>2. Distance(front, wbin') = Distance(front, wbin) + Bit(FIFO_WR_REQ)
    BY <1>1, <1>5, <2>1, RingFacts DEF Bit
  <2>3. Distance(front', wbin') = Distance(front, wbin') - Bit(Fetches)
    <3>1. CASE Fetches
      <4>1. Distance(front, wbin') >= 1
        BY <1>3, <2>1, <2>2, <3>1 DEF Bit
      <4>2. QED
        BY <1>1, <2>1, <3>1, <4>1, RingFacts DEF Bit
    <3>2. CASE ~Fetches
      <4>1. Distance(front, wbin') \in Nat
        BY <2>1, RingFacts, FifoAssumption
      <4>2. QED
        BY <1>1, <3>2, <4>1 DEF Bit
    <3>3. QED
      BY <3>1, <3>2
  <2>4. Distance(front, wbin)' = Distance(front', wbin')
    BY DEF Distance
  <2>5. Bit(Fetches) \in Nat /\ Bit(FIFO_WR_REQ) \in Nat
    BY DEF Bit
  <2>6. QED
    BY <2>1, <2>2, <2>3, <2>4, <2>5
<1>7. QED
  BY <1>1, <1>2, <1>3, <1>5, <1>6

(* All the bytes: only the drive adds to them.                             *)
LEMMA BytesMove ==
  ASSUME PathInv, NEW act, NEW M, Moved(act, M), act \notin {"Select", "Freed"}
  PROVE  /\ Passed' = Passed + Bit(CD_WR) - Bit(Loses)
         /\ FIFO_WR_REQ' <=> CD_WR
         /\ Got' + Hand' = Got + Hand + Bit(Fetches) - Bit(Loses)
<1> USE DEF PathInv, Moved
<1>1. FIFO_WR_REQ' <=> CD_WR
  BY DEF StrobeMove, PaceOK
<1>2. Got' + Hand' = Got + Hand + Bit(Fetches) - Bit(Loses)
  <2>1. Hand = Bit(Holds) /\ Hand' = Bit(Holds')
    BY DEF Hand, Holds, Bit
  <2>2. Bit(Holds') = Bit(Holds) - Bit(Grabs(act)) + Bit(Fetches)
    BY HandMoves DEF Bit
  <2>3. Got' = Got + Bit(Grabs(act)) - Bit(Loses)
    BY GotMoves
  <2>4. Bit(Holds) \in Nat /\ Bit(Grabs(act)) \in Nat /\ Bit(Fetches) \in Nat
        /\ Bit(Loses) \in Nat /\ Got \in Nat
    BY Sizes DEF Bit
  <2>5. QED
    BY <2>1, <2>2, <2>3, <2>4
<1>3. Passed' = Got' + Hand' + Distance(front, wbin)' + Bit(FIFO_WR_REQ')
  BY DEF Passed, Bit
<1>4. Distance(front, wbin)' = Distance(front, wbin) - Bit(Fetches) + Bit(FIFO_WR_REQ)
  BY DistanceMoves
<1>5. /\ Got \in Nat /\ Hand \in Nat /\ Distance(front, wbin) \in Nat
      /\ Bit(Fetches) \in Nat /\ Bit(FIFO_WR_REQ) \in Nat /\ Bit(Loses) \in Nat
      /\ Bit(CD_WR) \in Nat
      /\ Bit(FIFO_WR_REQ') = Bit(CD_WR)
  BY <1>1, Sizes, FifoAssumption DEF Bit
<1>6. Passed' = (Got + Hand + Bit(Fetches) - Bit(Loses))
                + (Distance(front, wbin) - Bit(Fetches) + Bit(FIFO_WR_REQ))
                + Bit(CD_WR)
  BY <1>2, <1>3, <1>4, <1>5
<1>7. QED
  BY <1>1, <1>2, <1>5, <1>6, Sizes

(* A byte is lost in the engine only after an abort.                       *)
LEMMA LosesWhen ==
  ASSUME PathInv, Loses
  PROVE  pc = "BUSY" /\ aborted /\ REQ /\ phase # "DATAIN" /\ tst = "MSG_OUT"
<1> USE DEF PathInv
<1>1. pc = "BUSY" /\ aborted /\ REQ /\ phase # "DATAIN"
  BY DEF Loses, CountOK, EngineOK
<1>2. QED
  BY <1>1 DEF TurnOK, BusOK, DataSP, Starts

-----------------------------------------------------------------------------
(* Counting: how much there is to come.                                    *)

(* The length of an answer, for every command.                             *)
LEMMA Totals ==
  ASSUME NEW c \in Askable
  PROVE  /\ ExpectedLength(c) \in Nat
         /\ c.op \in Nat /\ c.len \in Nat /\ c.lba \in Int /\ c.how \in {"PIO", "DMA"}
         /\ c.op = READ_10 => ExpectedLength(c) = c.len * BLOCK /\ c.len > 0
         /\ c.op \in {READ_TOC, READ_HEADER, REQUEST_SENSE} => ExpectedLength(c) = c.len
         /\ c.op \notin Reads \cup {REQUEST_SENSE} => ExpectedLength(c) = 0
         /\ c.how = "DMA" => \E n \in 0 .. MaxWords : ExpectedLength(c) = 2 * n
<1>1. c.op \in Nat /\ c.len \in Nat /\ c.lba \in Int /\ c.how \in {"PIO", "DMA"}
      /\ Fits(c)
  BY DEF Askable, Commands
<1>2. /\ c.op = READ_10 => ExpectedLength(c) = c.len * BLOCK
      /\ c.op \in {READ_TOC, READ_HEADER, REQUEST_SENSE} => ExpectedLength(c) = c.len
      /\ c.op \notin Reads \cup {REQUEST_SENSE} => ExpectedLength(c) = 0
  BY DEF ExpectedLength, Reads, READ_10, READ_TOC, READ_HEADER, REQUEST_SENSE
<1>3. c.len * BLOCK \in Nat
  BY <1>1, DriveAssumption
<1>4. ExpectedLength(c) \in Nat
  BY <1>1, <1>2, <1>3 DEF Reads
<1>5. QED
  BY <1>1, <1>2, <1>4 DEF Fits

(* Products over a sum.                                                    *)
LEMMA Distributes == \A x, y, z \in Int : (x + y) * z = x * z + y * z
OBVIOUS

(* What the drive has written, by sector and place.                        *)
WroteAt(c, b, p) == IF c.op = READ_10 THEN (c.len - 1 - b) * BLOCK + p ELSE p

(* Whole sectors of a read.                                                *)
LEMMA Sectors ==
  ASSUME NEW c \in Askable, NEW b \in Nat, b <= c.len - 1
  PROVE  /\ (c.len - 1 - b) * BLOCK \in Nat
         /\ (c.len - 1 - b) * BLOCK + BLOCK <= c.len * BLOCK
         /\ b = 0 => (c.len - 1 - b) * BLOCK + BLOCK = c.len * BLOCK
         /\ (c.len - 1 - (b - 1)) * BLOCK = (c.len - 1 - b) * BLOCK + BLOCK
         /\ b = c.len - 1 => (c.len - 1 - b) * BLOCK = 0
<1>1. c.len \in Nat /\ BLOCK \in Nat
  BY Totals, DriveAssumption
<1> DEFINE k == c.len - 1 - b
<1>2. k \in Nat /\ k + 1 \in Nat /\ c.len - 1 - (b - 1) = k + 1 /\ c.len = (k + 1) + b
  BY <1>1
<1>3. (k + 1) * BLOCK = k * BLOCK + BLOCK
  BY <1>1, <1>2, Distributes
<1>4. c.len * BLOCK = (k + 1) * BLOCK + b * BLOCK
  BY <1>1, <1>2, Distributes
<1>5. b * BLOCK \in Nat /\ k * BLOCK \in Nat /\ (b = 0 => b * BLOCK = 0)
      /\ (k = 0 => k * BLOCK = 0)
  BY <1>1, <1>2
<1>6. b = c.len - 1 => k = 0
  BY <1>1
<1>7. QED
  <2> HIDE DEF k
  <2>1. /\ k * BLOCK \in Nat
        /\ k * BLOCK + BLOCK <= c.len * BLOCK
        /\ b = 0 => k * BLOCK + BLOCK = c.len * BLOCK
        /\ (c.len - 1 - (b - 1)) * BLOCK = k * BLOCK + BLOCK
        /\ b = c.len - 1 => k * BLOCK = 0
    BY <1>1, <1>2, <1>3, <1>4, <1>5, <1>6
  <2>2. QED
    BY <2>1 DEF k

(* What is written, with the rest of its sector, fits the answer.          *)
LEMMA WroteFits ==
  ASSUME NEW c \in Askable, NEW b \in Nat, NEW p \in Nat, NEW n \in Nat,
         c.op = READ_10 => n = BLOCK /\ b <= c.len - 1,
         c.op \in {READ_TOC, READ_HEADER, REQUEST_SENSE} => n = c.len /\ b = 0,
         c.op \notin Reads \cup {REQUEST_SENSE} => n = 0
  PROVE  /\ WroteAt(c, b, p) \in Nat
         /\ p < n => WroteAt(c, b, p) + 1 <= ExpectedLength(c)
         /\ p = 0 => WroteAt(c, b, p) + n <= ExpectedLength(c)
         /\ p = n /\ b = 0 => WroteAt(c, b, p) = ExpectedLength(c)
<1>1. c.len \in Nat /\ ExpectedLength(c) \in Nat /\ BLOCK \in Nat
  BY Totals, DriveAssumption
<1>2. CASE c.op = READ_10
  <2>1. ExpectedLength(c) = c.len * BLOCK /\ n = BLOCK
    BY <1>2, Totals
  <2> DEFINE q == (c.len - 1 - b) * BLOCK
  <2>2. q \in Nat /\ q + BLOCK <= ExpectedLength(c)
        /\ (b = 0 => q + BLOCK = ExpectedLength(c))
    BY <1>2, <2>1, Sectors
  <2>3. WroteAt(c, b, p) = q + p
    BY <1>2 DEF WroteAt
  <2> HIDE DEF q
  <2>4. /\ q + p \in Nat
        /\ p < BLOCK => q + p + 1 <= ExpectedLength(c)
        /\ p = 0 => q + p + BLOCK <= ExpectedLength(c)
        /\ p = BLOCK /\ b = 0 => q + p = ExpectedLength(c)
    BY <1>1, <2>2
  <2>5. QED
    BY <2>1, <2>3, <2>4
<1>3. CASE c.op # READ_10
  <2>1. WroteAt(c, b, p) = p
    BY <1>3 DEF WroteAt
  <2>2. n = ExpectedLength(c)
    BY <1>3, Totals DEF Reads
  <2>3. QED
    BY <1>1, <2>1, <2>2
<1>4. QED
  BY <1>2, <1>3

(* What is written, by block and place.                                    *)
LEMMA WroteIs == Wrote = WroteAt(cmd, blkcnt, datapos)
BY DEF Wrote, WroteAt, Blocks

(* Nothing comes that was not asked for.                                   *)
LEMMA WithinTotal ==
  ASSUME PathInv, SP = "DATAIN_START", pc = "BUSY"
  PROVE  Passed <= Total /\ cmd \in Askable /\ Total \in Nat
<1> USE DEF PathInv
<1>1. cmd \in Askable /\ Total \in Nat
  BY Totals DEF CommandOK, Total
<1>2. tst \in {"CMD", "DATA_IN", "DATA_IN_END", "MSG_OUT"}
  BY DEF TurnOK
<1>3. CASE tst = "CMD"
  <2>1. cmd.op = READ_10 /\ cmd.op # MODE_SELECT
    BY <1>3 DEF TurnOK, READ_10, MODE_SELECT
  <2>2. CASE pulse = "cmd_start"
    BY <1>1, <1>3, <2>2 DEF CountOK
  <2>3. CASE pulse # "cmd_start"
    <3>1. Passed = Wrote /\ Wrote + datalen <= Total /\ datalen \in Nat /\ Passed \in Nat
      BY <1>3, <2>1, <2>3, Sizes DEF CountOK, Under, DriveOK
    <3>2. QED
      BY <1>1, <3>1
  <2>4. QED
    BY <1>1, <2>2, <2>3
<1>4. CASE tst = "DATA_IN"
  BY <1>1, <1>4, Sizes DEF CountOK, Under
<1>5. CASE tst = "DATA_IN_END"
  BY <1>1, <1>5, Sizes DEF CountOK, Under
<1>6. CASE tst = "MSG_OUT"
  BY <1>1, <1>6, Sizes DEF CountOK, Bit
<1>7. QED
  BY <1>1, <1>2, <1>3, <1>4, <1>5, <1>6

(* Outside the data, a command that is not given up has whole words.       *)
LEMMA WholeWords ==
  ASSUME PathInv, pc = "BUSY", REQ, phase # "DATAIN", ~aborted
  PROVE  ~dma_a0
<1> USE DEF PathInv
<1>1. SUFFICES ASSUME dma_a0 PROVE FALSE
  OBVIOUS
<1>2. cmd \in Askable /\ cmd.how = "DMA" /\ Total \in Nat
  <2>1. cmd \in Askable /\ cmd.how # "PIO"
    BY <1>1 DEF CommandOK, CountOK
  <2>2. QED
    BY <2>1, Totals DEF Total
<1>3. Len(pio) = 0
  BY <1>2, Sizes DEF CountOK
<1>4. SP \in {"COMM_START", "DATAOUT_START", "STAT_START", "MSGIN_START"}
  BY DEF BusOK, ProgOK, Starts
<1>5. Drained /\ Hand = 0 /\ ~m_req
  BY <1>4 DEF TurnOK, Quiet, Hand, HandOK, Bit
<1>6. Distance(front, wbin) = 0 /\ ~FIFO_WR_REQ
  BY <1>5, FrontType, RingFacts DEF Drained
<1>7. Passed = 2 * brought + 1 /\ brought \in Nat
  BY <1>1, <1>3, <1>5, <1>6, Sizes DEF Passed, Got, Bit
<1>8. Passed = 0 \/ Passed = Total
  BY <1>4 DEF CountOK, CommSP, ReportSP, TurnOK
<1>9. \E n \in Nat : Total = 2 * n
  BY <1>2, Totals DEF Total
<1>10. QED
  BY <1>7, <1>8, <1>9

-----------------------------------------------------------------------------
(* Counting: the sum stays.                                                *)

(* What is written and not arrived is on its way.                          *)
LEMMA CountStep ==
  ASSUME NEW act, NEW M, PathInv, Moved(act, M), DriveOK', TurnOK'
  PROVE  CountOK'
<1> USE DEF PathInv, Moved
<1>a. pc = "BUSY" => cmd' = cmd
  BY DEF ProgMove, ProgGuard, ProgSoft
<1>b. act \notin {"Select", "Freed"} => Passed' = Passed + Bit(CD_WR) - Bit(Loses)
  BY BytesMove
<1>c. pc' = "BUSY" => /\ act \notin {"Select", "Freed"}
                      /\ \/ pc = "BUSY" \/ (pc = "SELECT" /\ SP \in CommSP)
  <2>1. pc' = "BUSY" => /\ act \notin {"Select", "Freed"}
                        /\ pc = "BUSY" \/ (pc = "SELECT" /\ phase = "COMMAND")
    BY DEF ProgMove, ProgGuard, ProgSoft
  <2>2. pc = "SELECT" /\ phase = "COMMAND" => SP \in CommSP
    BY DEF ProgOK, CommSP
  <2>3. QED
    BY <2>1, <2>2
<1>d. Loses => aborted /\ tst = "MSG_OUT"
  BY LosesWhen
<1>e. CD_WR => tst \in {"DATA_IN", "MSG_OUT"}
  BY DEF PaceOK
<1>f. pc = "SELECT" /\ SP \in CommSP => Passed = 0
  <2> SUFFICES ASSUME pc = "SELECT", SP \in CommSP PROVE Passed = 0
    OBVIOUS
  <2>1. pio = <<>> /\ rf.dma_ka = 0 /\ ~dma_next_word /\ ~m_req /\ ~dma_a0
    BY DEF CountOK, HandOK, ProgOK
  <2>2. Len(pio) = 0
    BY <2>1, EmptySeq
  <2>3. Drained /\ Hand = 0
    BY DEF TurnOK, Quiet, CommSP, Hand, Bit
  <2>4. Distance(front, wbin) = 0
    BY <2>3, FrontType, RingFacts DEF Drained
  <2>5. QED
    BY <2>1, <2>2, <2>3, <2>4 DEF Passed, Got, brought, Drained, Bit
<1>g. CmdTaken => pulse' \in {"cmd_done", "NONE"}
  BY DEF CmdTaken, Ops, Reads
<1>h. pulse' \in {"NONE", "cmd_start", "cmd_cont", "cmd_done", "DOUT_REQ", "STAT_GET"}
  BY PulseNow DEF OneAtOnce
<1>i. cmd \in Askable => cmd.op \in Nat
  BY Totals
<1>1. (rf.dma_ka \in 0 .. MaxWords /\ brought <= MaxWords)'
  <2>1. CASE act = "Select"
    <3>1. pc = "IDLE" /\ ~dma_next_word /\ ~M
      BY <2>1 DEF ProgMove, ProgGuard, HandOK, ProgOK, WordMove
    <3>2. rf'.dma_ka = 0 /\ ~dma_next_word'
      BY <2>1, <3>1 DEF ProgMove, ProgCounts, WordMove
    <3>3. QED
      BY <3>2, CdDriveAssumption DEF brought, Bit
  <2>2. CASE act # "Select"
    <3>1. brought' = brought + Bit(M)
          /\ (M => pc = "BUSY" /\ m_req /\ cmd.how = "DMA" /\ SP = "DATAIN_START")
      <4>1. CASE act # "Freed"
        BY <2>2, <4>1, GotMoves
      <4>2. CASE act = "Freed"
        <5>1. pc = "FREEING" /\ ~dma_next_word /\ ~M
          BY <4>2 DEF ProgMove, ProgGuard, HandOK, ProgOK, WordMove
        <5>2. rf'.dma_ka = rf.dma_ka /\ ~dma_next_word'
          BY <4>2, <5>1, Sizes DEF ProgMove, ProgCounts, WordMove
        <5>3. QED
          BY <5>1, <5>2, Sizes DEF brought, Bit
      <4>3. QED
        BY <4>1, <4>2
    <3>2. brought + Bit(M) <= MaxWords
      <4>1. CASE M
        <5>1. 2 * brought + 2 <= Passed
          <6>1. m_req
            BY <3>1, <4>1
          <6>2. 2 * brought + 2 <= Got
            <7>1. Len(pio) \in Nat /\ brought \in Nat
              BY Sizes
            <7>2. Bit(m_req) = 1 /\ Bit(dma_a0) \in 0 .. 1
              BY <6>1 DEF Bit
            <7>3. QED
              BY <7>1, <7>2 DEF Got
          <6>3. Hand \in Nat /\ Distance(front, wbin) \in Nat /\ Bit(FIFO_WR_REQ) \in Nat
                /\ Got \in Nat
            BY Sizes, FifoAssumption DEF Bit
          <6>4. Passed = Got + Hand + Distance(front, wbin) + Bit(FIFO_WR_REQ)
            BY Sizes
          <6>5. brought \in Nat
            BY Sizes
          <6>6. QED
            BY <6>2, <6>3, <6>4, <6>5
        <5>2. Passed <= Total /\ cmd \in Askable
          BY <3>1, <4>1, WithinTotal
        <5>3. \E n \in 0 .. MaxWords : Total = 2 * n
          BY <3>1, <4>1, <5>2, Totals DEF Total
        <5>4. QED
          BY <4>1, <5>1, <5>2, <5>3, Sizes, CdDriveAssumption DEF Bit
      <4>2. CASE ~M
        BY <4>2, Sizes DEF CountOK, Bit
      <4>3. QED
        BY <4>1, <4>2
    <3>3. brought' \in 0 .. MaxWords
      BY <3>1, <3>2, Sizes, CdDriveAssumption DEF Bit
    <3>4. rf'.dma_ka \in Nat /\ rf'.dma_ka <= brought'
      <4>1. rf'.dma_ka = rf.dma_ka + (IF ce /\ dma_next_word THEN 1 ELSE 0)
        BY <2>2 DEF ProgMove, ProgCounts
      <4>2. rf'.dma_ka \in Nat
        BY <4>1, Sizes
      <4>3. brought' = rf'.dma_ka + Bit(dma_next_word')
        BY DEF brought, Bit
      <4>4. QED
        BY <4>2, <4>3 DEF Bit
    <3>5. QED
      BY <3>3, <3>4, CdDriveAssumption
  <2>3. QED
    BY <2>1, <2>2
<1>2. (pc = "BUSY"
       /\ (SP \in CommSP \/ strobe = "COMM_OUT" \/ (tst = "CMD" /\ pulse = "cmd_start"))
            => Passed = 0)'
  <2> SUFFICES ASSUME pc' = "BUSY",
                      SP' \in CommSP \/ strobe' = "COMM_OUT"
                      \/ (tst' = "CMD" /\ pulse' = "cmd_start")
               PROVE  Passed' = 0
    OBVIOUS
  <2>1. Passed = 0 /\ Drained
    <3>1. CASE pc = "SELECT"
      BY <1>c, <1>f, <3>1 DEF TurnOK, Quiet, CommSP
    <3>2. CASE pc = "BUSY"
      <4>1. SP \in CommSP \/ strobe = "COMM_OUT"
        <5>1. SP' \in CommSP => SP \in CommSP
          BY <3>2 DEF ProgOK, CommSP, TargetMove, FreeMove, StartMove, EndMove,
             PauseMove, Moves, Starts, Ends
        <5>2. strobe' = "COMM_OUT" => SP \in CommSP
          BY DEF CommSP, TargetMove, FreeMove, StartMove, EndMove, PauseMove, Moves,
             Starts, Ends
        <5>3. tst' = "CMD" /\ pulse' = "cmd_start" => strobe = "COMM_OUT"
          BY <1>g DEF DriveMove
        <5>4. QED
          BY <5>1, <5>2, <5>3
      <4>2. QED
        BY <3>2, <4>1 DEF CountOK, TurnOK, Quiet, CommSP
    <3>3. QED
      BY <1>c, <3>1, <3>2
  <2>2. ~CD_WR /\ ~Loses
    <3>1. ~CD_WR
      BY <2>1 DEF Drained
    <3>2. Loses => Got >= 1
      BY Sizes DEF Loses, Got, Bit
    <3>3. QED
      BY <2>1, <3>1, <3>2, Sizes DEF Bit
  <2>3. QED
    BY <1>b, <1>c, <2>1, <2>2, Sizes DEF Bit
<1>3. (pc = "BUSY" /\ Under => Passed = Wrote)'
  <2> SUFFICES ASSUME pc' = "BUSY", Under' PROVE Passed' = Wrote'
    OBVIOUS
  <2>1. tst \in {"CMD", "DATA_IN", "DATA_IN_END"} /\ pc = "BUSY" /\ cmd' = cmd
    <3>1. tst \in {"CMD", "DATA_IN", "DATA_IN_END"}
      BY <1>g DEF Under, DriveMove
    <3>2. QED
      BY <1>a, <3>1, CommandIs
  <2>2. Passed' = Passed + Bit(CD_WR)
    BY <1>b, <1>c, <1>d, <2>1, Sizes DEF Bit
  <2>3. Wrote' = WroteAt(cmd, blkcnt', datapos') /\ Wrote = WroteAt(cmd, blkcnt, datapos)
    BY <2>1, WroteIs DEF Wrote, WroteAt, Blocks
  <2>4. /\ cmd \in Askable /\ cmd.len \in Nat /\ blkcnt \in Nat /\ datapos \in Nat
        /\ op = cmd.op
        /\ (cmd.op \in Reads => COMM[2] = cmd.len) /\ (cmd.op = READ_10 => cmd.len > 0)
    BY <2>1, CommandIs DEF DriveOK
  <2>5. CASE tst = "CMD" /\ pulse = "cmd_start"
    <3>1. Passed' = 0 /\ datapos = 0 /\ datapos' = 0 /\ CmdTaken
      <4>1. datapos = 0 /\ ~CD_WR /\ Passed = 0
        BY <2>1, <2>5 DEF TurnOK, CountOK
      <4>2. datapos' = datapos /\ CmdTaken
        BY <2>5 DEF DriveMove
      <4>3. QED
        BY <2>2, <4>1, <4>2 DEF Bit
    <3>2. cmd.op = READ_10 => blkcnt' = cmd.len - 1
      BY <2>4, <3>1 DEF CmdTaken, Ops, Reads, READ_10, TEST_UNIT_READY
    <3>3. cmd.op = READ_10 => (cmd.len - 1 - blkcnt') * BLOCK = 0
      <4>1. ASSUME cmd.op = READ_10 PROVE (cmd.len - 1 - blkcnt') * BLOCK = 0
        <5>1. blkcnt' \in Nat /\ blkcnt' <= cmd.len - 1 /\ blkcnt' = cmd.len - 1
          BY <2>4, <3>2, <4>1
        <5>2. QED
          BY <2>4, <5>1, Sectors
      <4>2. QED
        BY <4>1
    <3>4. QED
      BY <2>3, <3>1, <3>3 DEF WroteAt
  <2>6. CASE Under
    <3>1. Passed = Wrote
      BY <2>1, <2>6 DEF CountOK
    <3>2. CASE ~(tst = "DATA_IN" /\ CD_WR)
      <4>1. ~CD_WR
        BY <1>e, <2>1, <3>2
      <4>2. datapos' = datapos /\ blkcnt' = blkcnt
        BY <2>6, <4>1 DEF DriveMove, KeepsPlace, KeepsCommand, Under
      <4>3. QED
        BY <2>2, <2>3, <3>1, <4>1, <4>2, Sizes DEF Bit
    <3>3. CASE tst = "DATA_IN" /\ CD_WR
      <4>1. \/ blkcnt' = blkcnt /\ datapos' = datapos + 1
            \/ datapos + 1 = datalen /\ blkcnt # 0 /\ blkcnt' = blkcnt - 1 /\ datapos' = 0
        BY <3>3 DEF DriveMove, Under
      <4>2. CASE blkcnt' = blkcnt /\ datapos' = datapos + 1
        <5>1. cmd.op = READ_10 => (cmd.len - 1 - blkcnt) * BLOCK \in Nat
          BY <2>4, <2>6, Sectors DEF DriveOK
        <5>2. WroteAt(cmd, blkcnt', datapos') = WroteAt(cmd, blkcnt, datapos) + 1
          BY <2>4, <4>2, <5>1 DEF WroteAt
        <5>3. QED
          BY <2>2, <2>3, <3>1, <3>3, <5>2 DEF Bit
      <4>3. CASE datapos + 1 = datalen /\ blkcnt # 0 /\ blkcnt' = blkcnt - 1
                 /\ datapos' = 0
        <5>1. cmd.op = READ_10 /\ datalen = BLOCK /\ blkcnt <= cmd.len - 1
          BY <2>6, <4>3 DEF DriveOK
        <5>2. (cmd.len - 1 - (blkcnt - 1)) * BLOCK =
                (cmd.len - 1 - blkcnt) * BLOCK + BLOCK
              /\ (cmd.len - 1 - blkcnt) * BLOCK \in Nat
          BY <2>4, <5>1, Sectors
        <5> DEFINE q == (cmd.len - 1 - blkcnt) * BLOCK
        <5>3. WroteAt(cmd, blkcnt, datapos) = q + datapos
              /\ WroteAt(cmd, blkcnt', datapos') = q + BLOCK + 0 /\ q \in Nat
          BY <4>3, <5>1, <5>2 DEF WroteAt
        <5> HIDE DEF q
        <5>4. q + BLOCK + 0 = q + datapos + 1
          BY <2>4, <4>3, <5>1, <5>3
        <5>5. QED
          BY <2>2, <2>3, <3>1, <3>3, <5>3, <5>4 DEF Bit
      <4>4. QED
        BY <4>1, <4>2, <4>3
    <3>4. QED
      BY <3>2, <3>3
  <2>7. QED
    BY <2>1, <2>5, <2>6 DEF Under
<1>4. (pc = "BUSY" /\ tst = "DATA_IN" => Wrote + 1 <= Total)'
  <2> SUFFICES ASSUME pc' = "BUSY", tst' = "DATA_IN"
               PROVE  Wrote' + 1 <= Total'
    OBVIOUS
  <2>1. pc = "BUSY" /\ cmd' = cmd /\ cmd \in Askable
    <3>1. tst \in {"CMD", "DATA_IN", "DATA_IN_END"}
      BY <1>g, <1>h DEF DriveMove
    <3>2. QED
      BY <1>a, <3>1, CommandIs
  <2>2. /\ blkcnt' \in Nat /\ datapos' \in Nat /\ datalen' \in Nat
        /\ cmd.op = READ_10 => datalen' = BLOCK /\ blkcnt' <= cmd.len - 1
        /\ cmd.op \in {READ_TOC, READ_HEADER, REQUEST_SENSE}
             => datalen' = cmd.len /\ blkcnt' = 0
        /\ cmd.op \notin Reads \cup {REQUEST_SENSE} => datalen' = 0
    BY <2>1, <1>i DEF DriveOK, Under, Reads, READ_10, READ_TOC, READ_HEADER,
       REQUEST_SENSE
  <2>3. Wrote' = WroteAt(cmd, blkcnt', datapos') /\ Total' = ExpectedLength(cmd)
    BY <2>1 DEF Wrote, WroteAt, Blocks, Total, ExpectedLength
  <2>4. datapos' < datalen'
    BY DEF TurnOK
  <2>5. QED
    BY <2>1, <2>2, <2>3, <2>4, WroteFits
<1>5. (pc = "BUSY" /\ tst = "CMD" /\ pulse # "cmd_start" /\ cmd.op # MODE_SELECT
         => Wrote + datalen <= Total)'
  <2> SUFFICES ASSUME pc' = "BUSY", tst' = "CMD", pulse' # "cmd_start",
                      cmd'.op # MODE_SELECT
               PROVE  Wrote' + datalen' <= Total'
    OBVIOUS
  <2>1. pc = "BUSY" /\ cmd' = cmd /\ cmd \in Askable
    <3>1. tst \in {"CMD", "DATA_IN", "DATA_IN_END"}
      BY <1>g, <1>h DEF DriveMove
    <3>2. QED
      BY <1>a, <3>1, CommandIs
  <2>2. /\ blkcnt' \in Nat /\ datapos' \in Nat /\ datalen' \in Nat
        /\ cmd.op = READ_10 => datalen' = BLOCK /\ blkcnt' <= cmd.len - 1
        /\ cmd.op \in {READ_TOC, READ_HEADER, REQUEST_SENSE}
             => datalen' = cmd.len /\ blkcnt' = 0
        /\ cmd.op \notin Reads \cup {REQUEST_SENSE} => datalen' = 0
    BY <2>1, <1>i DEF DriveOK, Under, Reads, READ_10, READ_TOC, READ_HEADER,
       REQUEST_SENSE
  <2>3. Wrote' = WroteAt(cmd, blkcnt', datapos') /\ Total' = ExpectedLength(cmd)
    BY <2>1 DEF Wrote, WroteAt, Blocks, Total, ExpectedLength
  <2>4. datapos' = 0
    BY DEF TurnOK
  <2>5. QED
    BY <2>1, <2>2, <2>3, <2>4, WroteFits
<1>6. (pc = "BUSY" /\ tst = "DATA_IN_END" => Wrote = Total)'
  <2> SUFFICES ASSUME pc' = "BUSY", tst' = "DATA_IN_END"
               PROVE  Wrote' = Total'
    OBVIOUS
  <2>1. pc = "BUSY" /\ cmd' = cmd /\ cmd \in Askable
    <3>1. tst \in {"CMD", "DATA_IN", "DATA_IN_END"}
      BY <1>g, <1>h DEF DriveMove
    <3>2. QED
      BY <1>a, <3>1, CommandIs
  <2>2. /\ blkcnt' \in Nat /\ datapos' \in Nat /\ datalen' \in Nat
        /\ cmd.op = READ_10 => datalen' = BLOCK /\ blkcnt' <= cmd.len - 1
        /\ cmd.op \in {READ_TOC, READ_HEADER, REQUEST_SENSE}
             => datalen' = cmd.len /\ blkcnt' = 0
        /\ cmd.op \notin Reads \cup {REQUEST_SENSE} => datalen' = 0
    BY <2>1, <1>i DEF DriveOK, Under, Reads, READ_10, READ_TOC, READ_HEADER,
       REQUEST_SENSE
  <2>3. Wrote' = WroteAt(cmd, blkcnt', datapos') /\ Total' = ExpectedLength(cmd)
    BY <2>1 DEF Wrote, WroteAt, Blocks, Total, ExpectedLength
  <2>4. datapos' = datalen' /\ blkcnt' = 0
    BY DEF TurnOK
  <2>5. QED
    BY <2>1, <2>2, <2>3, <2>4, WroteFits
<1>7. (pc = "BUSY" /\ tst = "MSG_OUT" => Passed + Bit(CD_WR) <= Total)'
  <2> SUFFICES ASSUME pc' = "BUSY", tst' = "MSG_OUT" PROVE Passed' + Bit(CD_WR') <= Total'
    BY DEF Bit
  <2>1. tst \in {"DATA_IN", "DATA_IN_END", "MSG_OUT"}
    BY <1>g DEF DriveMove
  <2>2. pc = "BUSY" /\ cmd' = cmd
    <3>1. tst \in {"DATA_IN", "DATA_IN_END"} => pc = "BUSY"
      BY CommandIs
    <3>2. tst = "MSG_OUT" => pc = "BUSY"
      BY DEF TurnOK, ProgMove, ProgGuard, ProgSoft, ProgOK
    <3>3. QED
      BY <1>a, <2>1, <3>1, <3>2
  <2>3. Total' = Total /\ Total \in Nat
    BY <2>2, Totals DEF Total, ExpectedLength, CommandOK
  <2>4. Passed' = Passed + Bit(CD_WR) - Bit(Loses)
    BY <1>b, <1>c
  <2>5. CD_WR' => ~CD_WR /\ tst = "DATA_IN"
    BY DEF StrobeMove
  <2>6. CASE tst = "DATA_IN"
    BY <1>d, <2>2, <2>3, <2>4, <2>5, <2>6, Sizes DEF CountOK, Under, Bit
  <2>7. CASE tst = "DATA_IN_END"
    BY <1>d, <1>e, <2>2, <2>3, <2>4, <2>5, <2>7, Sizes DEF CountOK, Under, Bit
  <2>8. CASE tst = "MSG_OUT"
    BY <2>2, <2>3, <2>4, <2>5, <2>8, Sizes DEF CountOK, Bit
  <2>9. QED
    BY <2>1, <2>6, <2>7, <2>8
<1>8. (pc = "BUSY"
       /\ (tst \in {"DATA_OUT", "STAT"} \/ pulse = "STAT_GET" \/ STAT_PEND
           \/ SP \in ReportSP) => Passed = Total)'
  <2> SUFFICES ASSUME pc' = "BUSY",
                      tst' \in {"DATA_OUT", "STAT"} \/ pulse' = "STAT_GET" \/ STAT_PEND'
                      \/ SP' \in ReportSP
               PROVE  Passed' = Total'
    OBVIOUS
  <2>1. /\ pc = "BUSY" /\ cmd' = cmd
        /\ \/ tst \in {"DATA_OUT", "STAT", "DATA_IN_END"} \/ pulse = "STAT_GET"
           \/ STAT_PEND \/ SP \in ReportSP
           \/ (tst = "CMD" /\ pulse = "cmd_done"
               /\ (datalen = 0 \/ (datalen # 0 /\ data_out)))
    <3>1. \/ tst \in {"DATA_OUT", "STAT", "DATA_IN_END"} \/ pulse = "STAT_GET"
          \/ STAT_PEND \/ SP \in ReportSP
          \/ (tst = "CMD" /\ pulse = "cmd_done"
              /\ (datalen = 0 \/ (datalen # 0 /\ data_out)))
      <4>1. SP' \in ReportSP => SP \in ReportSP \/ STAT_PEND
        BY DEF ReportSP, TargetMove, FreeMove, StartMove, EndMove, PauseMove, Moves,
           Starts, Ends
      <4>2. STAT_PEND' => STAT_PEND \/ pulse = "STAT_GET"
        BY DEF TargetMove, FreeMove, StartMove, EndMove, PauseMove, Moves, Starts,
           Ends
      <4>3. tst' \in {"DATA_OUT", "STAT"} \/ pulse' = "STAT_GET" =>
              \/ tst \in {"DATA_OUT", "STAT", "DATA_IN_END"}
              \/ (tst = "CMD" /\ pulse = "cmd_done"
                  /\ (datalen = 0 \/ (datalen # 0 /\ data_out)))
        BY <1>g, <1>h DEF DriveMove
      <4>4. QED
        BY <4>1, <4>2, <4>3
    <3>2. pc = "BUSY"
      <4>1. tst \in {"CMD", "DATA_IN_END", "DATA_OUT"} => pc = "BUSY"
        BY CommandIs
      <4>2. tst = "STAT" \/ pulse = "STAT_GET" \/ STAT_PEND
              => SP = "FREE" /\ phase # "FREE"
        BY DEF TurnOK
      <4>3. SP = "FREE" /\ phase # "FREE" => pc = "BUSY"
        BY DEF ProgOK
      <4>4. SP \in ReportSP /\ pc # "BUSY" => pc' # "BUSY"
        BY <1>c DEF ReportSP, CommSP
      <4>5. QED
        BY <3>1, <4>1, <4>2, <4>3, <4>4
    <3>3. QED
      BY <1>a, <3>1, <3>2
  <2>2. Total' = Total /\ cmd \in Askable /\ Total \in Nat
    BY <2>1, Totals DEF Total, ExpectedLength, CommandOK
  <2>3. ~CD_WR /\ ~Loses
    <3>1. SP \in ReportSP \/ STAT_PEND \/ pulse = "STAT_GET" => tst = "IDLE"
      BY DEF TurnOK, Quiet, ReportSP
    <3>2. QED
      BY <1>d, <1>e, <2>1, <3>1
  <2>4. Passed' = Passed
    BY <1>b, <1>c, <2>1, <2>3, Sizes DEF Bit
  <2>5. CASE tst \in {"DATA_OUT", "STAT"} \/ pulse = "STAT_GET" \/ STAT_PEND
             \/ SP \in ReportSP
    BY <2>1, <2>2, <2>4, <2>5 DEF CountOK
  <2>6. CASE tst = "DATA_IN_END"
    BY <2>1, <2>2, <2>4, <2>6 DEF CountOK, Under
  <2>7. CASE tst = "CMD" /\ pulse = "cmd_done"
             /\ (datalen = 0 \/ (datalen # 0 /\ data_out))
    <3>1. Under /\ Passed = Wrote /\ datapos = 0
      BY <2>1, <2>7 DEF Under, CountOK, TurnOK
    <3>2. /\ cmd.op # READ_10 /\ blkcnt = 0
          /\ cmd.op \in {READ_TOC, READ_HEADER, REQUEST_SENSE} => cmd.len = 0
      BY <2>7, <3>1, PlansAssumption DEF DriveOK, MODE_SELECT, READ_10, READ_TOC,
         READ_HEADER, REQUEST_SENSE
    <3>3. Total = 0 /\ Wrote = 0
      BY <2>2, <3>1, <3>2, Totals DEF Total, Wrote, Reads
    <3>4. QED
      BY <2>2, <2>4, <3>1, <3>3
  <2>8. QED
    BY <2>1, <2>5, <2>6, <2>7
<1>9. (dma_a0 /\ ~rf.dma_mode => pc = "BUSY" /\ aborted)'
  <2> SUFFICES ASSUME dma_a0', ~rf'.dma_mode PROVE pc' = "BUSY" /\ aborted'
    OBVIOUS
  <2>1. rf.dma_mode => act = "DmaStopped" /\ ce /\ ~dma_end /\ block_int
    <3>1. rf.dma_mode => act \in {"DmaDone", "DmaStopped"}
      BY DEF ProgMove, ProgLines
    <3>2. act = "DmaDone" => dma_end /\ ~dma_a0 /\ ~Takes
      BY TakesWhen DEF ProgMove, ProgGuard, EngineOK
    <3>3. dma_a0' => Takes \/ dma_a0
      BY DEF WordMove
    <3>4. QED
      BY <3>1, <3>2, <3>3 DEF ProgMove, ProgGuard
  <2>2. CASE rf.dma_mode
    <3>1. pc = "BUSY" /\ phase # "DATAIN" /\ REQ
      BY <2>1, <2>2 DEF ProgOK
    <3>2. dma_a0
      BY <3>1, TakesWhen DEF WordMove, BusOK
    <3>3. aborted
      BY <3>1, <3>2, WholeWords
    <3>4. QED
      BY <2>1, <2>2, <3>1, <3>3 DEF ProgMove, ProgSoft
  <2>3. CASE ~rf.dma_mode
    <3>1. dma_a0 /\ ~Takes
      BY <2>3, TakesWhen DEF WordMove
    <3>2. pc = "BUSY" /\ aborted /\ REQ
      BY <2>3, <3>1 DEF CountOK, EngineOK
    <3>3. QED
      BY <3>2 DEF ProgMove, ProgGuard, ProgSoft
  <2>4. QED
    BY <2>2, <2>3
<1>10. (Len(pio) > 0 => cmd.how = "PIO")'
  <2>1. CASE act \in {"Select", "Freed"}
    <3>1. act = "Select" => pio = <<>>
      BY DEF ProgMove, ProgGuard, CountOK
    <3>2. pio' = <<>>
      BY <2>1, <3>1 DEF ProgMove, ProgSoft
    <3>3. Len(pio') = 0
      BY <3>2, EmptySeq
    <3>4. QED
      BY <3>3
  <2>2. CASE act \notin {"Select", "Freed"}
    <3>1. cmd' = cmd /\ Len(pio)' = Len(pio) + Bit(act = "Get" /\ phase = "DATAIN")
      BY <2>2, GotMoves DEF ProgMove, ProgSoft
    <3>2. act = "Get" /\ phase = "DATAIN" => cmd.how = "PIO"
      BY GetWhen
    <3>3. QED
      BY <3>1, <3>2, Sizes DEF CountOK, Bit
  <2>3. QED
    BY <2>1, <2>2
<1>11. (cmd.how = "PIO" => brought = 0 /\ ~dma_a0 /\ ~m_req)'
  <2> SUFFICES ASSUME cmd'.how = "PIO" PROVE brought' = 0 /\ ~dma_a0' /\ ~m_req'
    OBVIOUS
  <2>1. act # "Freed"
    BY DEF ProgMove, ProgSoft, NoCommand
  <2>2. CASE act = "Select"
    <3>1. pc = "IDLE" /\ ~dma_next_word /\ ~M /\ ~m_req /\ ~dma_a0 /\ ~Takes
      BY <2>2, TakesWhen DEF ProgMove, ProgGuard, HandOK, ProgOK, WordMove, CountOK
    <3>2. rf'.dma_ka = 0 /\ ~dma_next_word' /\ ~dma_a0' /\ ~m_req'
      BY <2>2, <3>1 DEF ProgMove, ProgCounts, WordMove
    <3>3. QED
      BY <3>2 DEF brought, Bit
  <2>3. CASE act # "Select"
    <3>1. cmd.how = "PIO"
      BY <2>1, <2>3 DEF ProgMove, ProgSoft
    <3>2. brought = 0 /\ ~dma_a0 /\ ~m_req
      BY <3>1 DEF CountOK
    <3>3. ~Takes /\ ~M
      BY <3>1, <3>2, TakesWhen DEF WordMove
    <3>4. brought' = brought + Bit(M)
      BY <2>1, <2>3, GotMoves
    <3>5. QED
      BY <3>2, <3>3, <3>4 DEF WordMove, Bit
  <2>4. QED
    BY <2>2, <2>3
<1>12. (pc \in {"IDLE", "RESET", "SELECT"} => pio = <<>> /\ kram = EmptyKram)'
  <2> SUFFICES ASSUME pc' \in {"IDLE", "RESET", "SELECT"}
               PROVE  pio' = <<>> /\ kram' = EmptyKram
    BY DEF EmptyKram
  <2>1. pc \in {"IDLE", "RESET", "SELECT"} \/ act = "Freed"
    <3>1. pc' \in {"IDLE", "RESET", "SELECT"}
      OBVIOUS
    <3>2. act \in {"Select", "Freed", "BusResetOn", "BusResetOff"} \/ pc' = pc
          \/ pc' \in {"BUSY", "FREEING"}
      BY DEF ProgMove, ProgSoft
    <3>3. act = "Select" \/ act = "BusResetOn" => pc = "IDLE"
      BY DEF ProgMove, ProgGuard
    <3>4. act = "BusResetOff" => pc = "RESET"
      BY DEF ProgMove, ProgGuard
    <3>5. QED
      BY <3>1, <3>2, <3>3, <3>4
  <2>2. CASE act = "Freed"
    BY <2>2 DEF ProgMove, ProgSoft, WordMove
  <2>3. CASE act # "Freed"
    <3>1. pio = <<>> /\ kram = EmptyKram /\ ~M
      BY <2>1, <2>3 DEF CountOK, WordMove, HandOK, ProgOK
    <3>2. act # "Get"
      BY <2>1, <2>3 DEF ProgMove, ProgGuard
    <3>3. QED
      BY <2>3, <3>1, <3>2 DEF ProgMove, ProgSoft, WordMove
  <2>4. QED
    BY <2>2, <2>3
<1>13. (pc = "SELECT" => rf.dma_ka = 0)'
  <2> SUFFICES ASSUME pc' = "SELECT" PROVE rf'.dma_ka = 0
    OBVIOUS
  <2>1. pc # "BUSY" /\ ~dma_next_word
    BY DEF ProgMove, ProgSoft, ProgGuard, HandOK, ProgOK
  <2>2. act = "Select" \/ pc = "SELECT"
    BY DEF ProgMove, ProgSoft
  <2>3. QED
    BY <2>1, <2>2 DEF ProgMove, ProgCounts, CountOK
<1>14. (pc \in {"BUSY", "FREEING"}
          => \A a \in 0 .. MaxWords - 1 : (kram[a] # NoWord <=> a < brought))'
  <2> SUFFICES ASSUME pc' \in {"BUSY", "FREEING"}, NEW a \in 0 .. MaxWords - 1
               PROVE  kram'[a] # NoWord <=> a < brought'
    BY DEF brought, Bit
  <2>1. act \notin {"Select", "Freed"} /\ (pc \in {"BUSY", "FREEING"} \/ pc = "SELECT")
    BY DEF ProgMove, ProgSoft, ProgGuard
  <2>2. kram[a] # NoWord <=> a < brought
    <3>1. CASE pc \in {"BUSY", "FREEING"}
      BY <3>1 DEF CountOK
    <3>2. CASE pc = "SELECT"
      <4>1. kram = EmptyKram /\ rf.dma_ka = 0 /\ ~dma_next_word
        BY <3>2 DEF CountOK, HandOK, ProgOK
      <4>2. kram[a] = NoWord /\ brought = 0
        BY <4>1 DEF EmptyKram, brought, Bit
      <4>3. QED
        BY <4>2
    <3>3. QED
      BY <2>1, <3>1, <3>2
  <2>3. brought' = brought + Bit(M)
    BY <2>1, GotMoves
  <2>4. CASE M
    <3>1. rf.dma_ka = brought /\ kram' = [kram EXCEPT ![brought] = m_do] /\ m_req
      BY <2>1, <2>4, GotMoves DEF WordMove
    <3>2. m_do # NoWord /\ kram \in [0 .. MaxWords - 1 -> {NoWord} \cup Byte \X Byte]
      <4>1. m_do \in Byte \X Byte
        BY <3>1 DEF ByteOK
      <4>2. \A x \in Byte \X Byte : x # NoWord
        <5>1. ASSUME NEW u \in Byte, NEW v \in Byte PROVE Len(<<u, v>>) = 2
          OBVIOUS
        <5>2. Len(NoWord) = 0
          BY DEF NoWord
        <5>3. \A x \in Byte \X Byte : \E u, v \in Byte : x = <<u, v>>
          OBVIOUS
        <5>4. QED
          BY <5>1, <5>2, <5>3
      <4>3. kram \in [0 .. MaxWords - 1 -> {NoWord} \cup Byte \X Byte]
        BY DEF CountOK
      <4>4. QED
        BY <4>1, <4>2, <4>3
    <3>3. CASE a = brought
      BY <2>3, <2>4, <3>1, <3>2, <3>3, Sizes DEF Bit
    <3>4. CASE a # brought
      BY <2>2, <2>3, <2>4, <3>1, <3>2, <3>4, Sizes DEF Bit
    <3>5. QED
      BY <3>3, <3>4
  <2>5. CASE ~M
    <3>1. kram' = kram
      BY <2>5 DEF WordMove
    <3>2. QED
      BY <2>2, <2>3, <2>5, <3>1, Sizes DEF Bit
  <2>6. QED
    BY <2>4, <2>5
<1>15. (kram \in [0 .. MaxWords - 1 -> {NoWord} \cup Byte \X Byte])'
  <2>1. kram \in [0 .. MaxWords - 1 -> {NoWord} \cup Byte \X Byte]
    BY DEF CountOK
  <2>2. EmptyKram \in [0 .. MaxWords - 1 -> {NoWord} \cup Byte \X Byte]
    BY DEF EmptyKram
  <2>3. M => m_do \in Byte \X Byte
    BY DEF WordMove, ByteOK
  <2>4. QED
    BY <2>1, <2>2, <2>3 DEF WordMove
<1>16. (pc = "FREEING" => 2 * brought + Len(pio) <= Total)'
  <2> SUFFICES ASSUME pc' = "FREEING" PROVE 2 * brought' + Len(pio)' <= Total'
    OBVIOUS
  <2>1. /\ act \notin {"Select", "Freed", "Get"} /\ pc \in {"BUSY", "FREEING"}
        /\ pc = "BUSY" => act = "Release" /\ phase \in {"MSGIN", "MSGOUT"} /\ ~REQ
    BY DEF ProgMove, ProgSoft, ProgGuard
  <2>2. cmd' = cmd /\ Len(pio)' = Len(pio) /\ Total' = Total /\ Total \in Nat
    <3>1. cmd' = cmd
      BY <2>1 DEF ProgMove, ProgSoft
    <3>2. QED
      BY <2>1, <3>1, GotMoves, Sizes, Totals DEF Total, ExpectedLength, CommandOK, Bit
  <2>3. ~M
    BY <2>1, GotMoves DEF BusOK
  <2>4. brought' = brought
    BY <2>1, <2>3, GotMoves, Sizes DEF Bit
  <2>5. CASE pc = "FREEING"
    BY <2>2, <2>4, <2>5 DEF CountOK
  <2>6. CASE pc = "BUSY"
    <3>1. SP \in {"MSGIN_END", "MSGIN_HOLD", "MSGOUT_END"}
      BY <2>1, <2>6 DEF BusOK, Starts, Ends
    <3>2. Passed <= Total
      <4>1. CASE SP \in ReportSP
        BY <2>2, <2>6, <4>1 DEF CountOK
      <4>2. CASE SP = "MSGOUT_END"
        BY <2>2, <2>6, <4>2, Sizes DEF CountOK, TurnOK, Bit
      <4>3. QED
        BY <3>1, <4>1, <4>2 DEF ReportSP
    <3>3. 2 * brought + Len(pio) <= Passed
      BY Sizes, FifoAssumption DEF Got, Bit
    <3>4. QED
      BY <2>2, <2>4, <3>2, <3>3, Sizes
  <2>7. QED
    BY <2>1, <2>5, <2>6
<1>17. QED
  BY <1>1, <1>2, <1>3, <1>4, <1>5, <1>6, <1>7, <1>8, <1>9, <1>10, <1>11, <1>12, <1>13,
     <1>14, <1>15, <1>16 DEF CountOK

-----------------------------------------------------------------------------
(* The target finds a byte, or there is none to come.                      *)

(* A byte just asked for is still in the target's hand.                    *)
LEMMA FreshHeld ==
  ASSUME PathInv, SP = "DATAIN_START", reqn_d
  PROVE  ~Taken /\ Hand = 1 /\ REQ /\ ~ACK
<1>1. REQ /\ ~ACK
  BY DEF PathInv, BusOK, HandOK, Starts
<1>2. ~Taken
  BY <1>1 DEF PathInv, HandOK, Taken, ACK
<1>3. QED
  BY <1>1, <1>2 DEF Hand, Bit

(* The target finds a byte whenever one is still to come.                  *)
LEMMA SupplyStep ==
  ASSUME NEW act, NEW M, PathInv, Moved(act, M), BusOK', PaceOK'
  PROVE  SupplyOK'
<1> USE DEF PathInv, Moved
<1> DEFINE InData == SP \in {"DATAIN_START", "DATAIN_END"}
           Last == tst = "DATA_IN" /\ datapos = 2 /\ cd_wr_d /\ front # wbin
                   /\ rq1_wptr = wbin /\ rq2_wptr = wbin
           Given == ~REMPTY /\ SP = "DATAIN_START" /\ ~reqn_d /\ ~ce
<1>1. /\ rq1_wptr' = wbin /\ rq2_wptr' = rq1_wptr
      /\ front' = (IF Fetches THEN After(front) ELSE front)
      /\ wbin' = (IF FIFO_WR_REQ THEN After(wbin) ELSE wbin)
      /\ REMPTY' <=> front = rq2_wptr
      /\ FIFO_WR_REQ' <=> CD_WR
  <2>1. rbin' = front
    BY FrontMoves
  <2>2. REMPTY' <=> rbin' = rq2_wptr
    BY DEF FifoMove, FifoClock
  <2>3. rq1_wptr' = wbin /\ rq2_wptr' = rq1_wptr
    BY DEF FifoMove, FifoClock
  <2>4. QED
    BY <2>1, <2>2, <2>3, DistanceMoves DEF StrobeMove, PaceOK
<1>2. InData => pc = "BUSY" /\ cmd' = cmd
  <2>1. InData => pc = "BUSY"
    BY DEF ProgOK
  <2>2. QED
    BY <2>1 DEF ProgMove, ProgGuard, ProgSoft
<1>3. Finished /\ InData => Finished' \/ Fresh'
  <2> SUFFICES ASSUME Finished, InData PROVE Finished' \/ Fresh'
    OBVIOUS
  <2>1. Drained'
    BY DrainedKeeps DEF Finished
  <2>2. CASE tst' = "DATA_IN"
    <3>1. tst = "CMD" /\ datapos' = datapos /\ datapos = 0
      BY <2>2 DEF Finished, DriveMove, KeepsPlace, TurnOK
    <3>2. cmd.op = READ_10
      BY <3>1 DEF TurnOK
    <3>3. QED
      BY <1>2, <2>2, <3>1, <3>2 DEF Fresh
  <2>3. CASE tst' # "DATA_IN"
    BY <2>1, <2>3 DEF Finished
  <2>4. QED
    BY <2>2, <2>3
<1>4. Fresh /\ InData => Fresh' \/ Last \/ Given
  <2> SUFFICES ASSUME Fresh, InData PROVE Fresh' \/ Last \/ Given
    OBVIOUS
  <2>1. tst = "DATA_IN" /\ cmd.op = READ_10 /\ datapos \in Nat /\ datalen = BLOCK
        /\ BLOCK \in Nat /\ BLOCK >= 3
    BY DriveAssumption, PlansAssumption DEF Fresh, DriveOK, Under
  <2>2. CD_WR => ~cd_wr_d
    BY DEF PaceOK
  <2>3. CASE rf.assert_atn
    BY <1>2, <2>1, <2>3 DEF TurnOK, ProgOK
  <2>4. CASE ~rf.assert_atn /\ datapos = 2 /\ cd_wr_d
    <3>1. rq1_wptr = wbin /\ rq2_wptr = wbin
      BY <2>4 DEF PaceOK
    <3>2. front # wbin
      BY <2>1, <2>4 DEF FillOK
    <3>3. QED
      BY <2>1, <2>4, <3>1, <3>2
  <2>5. CASE ~rf.assert_atn /\ datapos <= 1
    <3>1. tst' = "DATA_IN" /\ datapos' = datapos + (IF CD_WR THEN 1 ELSE 0)
      BY <2>1, <2>5 DEF DriveMove, KeepsPlace
    <3>2. cd_wr_d' <=> CD_WR
      BY DEF StrobeMove
    <3>3. cmd'.op = READ_10
      BY <1>2, <2>1
    <3>4. datapos' <= 1 \/ (datapos' = 2 /\ cd_wr_d')
      BY <2>1, <2>5, <3>1, <3>2
    <3>5. QED
      BY <3>1, <3>3, <3>4 DEF Fresh
  <2>6. QED
    BY <2>3, <2>4, <2>5 DEF Fresh
<1>5. ~Fetches /\ SP' \in {"DATAIN_START", "DATAIN_END"}
        => InData /\ (SP = "DATAIN_END" => SP' = "DATAIN_END")
  BY DEF TargetMove, FreeMove, StartMove, EndMove, PauseMove, Moves, Starts, Ends,
     BusOK, Fetches
<1>6. Fetches => reqn_d' /\ ~REQ
  <2>1. Fetches => reqn_d'
    BY DEF BusOK, Fetches
  <2>2. Fetches => SP \notin Starts
    BY DEF TargetMove, FreeMove, StartMove, EndMove, PauseMove, Moves, Starts, Ends,
       BusOK, Fetches
  <2>3. QED
    BY <2>1, <2>2 DEF BusOK
<1>7. ~REMPTY /\ strobe # "FIFO_RD_REQ" => front # rq2_wptr /\ front # rq1_wptr
  <2> SUFFICES ASSUME ~REMPTY, strobe # "FIFO_RD_REQ"
               PROVE  front # rq2_wptr /\ front # rq1_wptr
    OBVIOUS
  <2>1. /\ Distance(front, rq2_wptr) >= 1
        /\ Distance(front, rq1_wptr) =
             Distance(front, rq2_wptr) + Distance(rq2_wptr, rq1_wptr)
    BY Seen
  <2>2. /\ Distance(front, rq2_wptr) \in Nat /\ Distance(rq2_wptr, rq1_wptr) \in Nat
        /\ (front = rq2_wptr => Distance(front, rq2_wptr) = 0)
        /\ (front = rq1_wptr => Distance(front, rq1_wptr) = 0)
    BY FrontType, RingFacts
  <2>3. QED
    BY <2>1, <2>2
<1>8. (SP = "DATAIN_START" /\ reqn_d
         => (tst # "DATA_IN" /\ front = wbin => ~FIFO_WR_REQ /\ ~CD_WR))'
  <2> SUFFICES ASSUME SP' = "DATAIN_START", reqn_d', tst' # "DATA_IN", front' = wbin'
               PROVE  ~FIFO_WR_REQ' /\ ~CD_WR'
    OBVIOUS
  <2>1. ~CD_WR'
    BY DEF PaceOK
  <2>2. SUFFICES ASSUME CD_WR PROVE FALSE
    BY <1>1, <2>1
  <2>3. SP = "DATAIN_START" => reqn_d /\ ~ce
    BY DEF HandMove, BusOK, Starts
  <2>4. SP # "DATAIN_END" \/ ~ACK
    BY DEF TargetMove, FreeMove, StartMove, EndMove, PauseMove, Moves, Starts, Ends
  <2>5. tst = "DATA_IN" /\ ~cd_wr_d /\ ~FIFO_WR_REQ
    BY <2>2, <2>3, <2>4 DEF PaceOK
  <2>6. ~rf.assert_atn
    BY <2>3, <2>5 DEF TurnOK, ProgOK
  <2>7. datapos + 1 = datalen /\ datapos \in Nat
    BY <2>2, <2>5, <2>6 DEF DriveMove, DriveOK
  <2>8. Distance(front, wbin)' = 0
    BY <1>1, FrontType, AfterType, RingFacts
  <2>9. Distance(front, wbin) = Bit(Fetches)
    BY <2>5, <2>8, DistanceMoves, Sizes DEF Bit
  <2>10. CASE datapos >= 1
    <3>1. front # wbin
      BY <2>5, <2>10 DEF FillOK
    <3>2. Distance(front, wbin) >= 1
      BY <3>1, FrontType, RingFacts
    <3>3. Fetches /\ Distance(front, wbin) = 1
      BY <2>9, <3>2 DEF Bit
    <3>4. ~REMPTY /\ strobe # "FIFO_RD_REQ"
      BY <3>3, DistanceMoves, HandMoves DEF BusOK
    <3>5. rq1_wptr = wbin
      BY <2>2 DEF PaceOK
    <3>6. rq2_wptr # wbin
      BY <2>2, <2>5, <2>10, <3>3, FifoAssumption, PlansAssumption DEF FillOK
    <3>7. Distance(rq2_wptr, rq1_wptr) >= 1 /\ Distance(rq1_wptr, wbin) = 0
      BY <3>5, <3>6, FrontType, RingFacts
    <3>8. Distance(front, wbin) >= 2
      <4>1. Distance(front, rq2_wptr) \in Nat /\ Distance(rq2_wptr, rq1_wptr) \in Nat
        BY FrontType, RingFacts
      <4>2. QED
        BY <3>4, <3>7, <4>1, Seen
    <3>9. QED
      BY <3>3, <3>8
  <2>11. CASE datapos = 0
    <3>1. cmd.op # READ_10 /\ pc = "BUSY"
      BY <2>5, <2>7, <2>11, CommandIs, PlansAssumption DEF DriveOK, Under
    <3>2. Passed = 0
      BY <2>5, <2>11, <3>1 DEF CountOK, Under, Wrote
    <3>3. Distance(front, wbin) = 0 /\ Hand = 0
      BY <2>5, <3>2, Sizes DEF Bit
    <3>4. ~Fetches
      BY <2>9, <3>3 DEF Bit
    <3>5. SP = "DATAIN_START"
      BY <1>5, <3>4
    <3>6. QED
      BY <2>3, <3>3, <3>5, FreshHeld
  <2>12. QED
    BY <2>7, <2>10, <2>11
<1>9. (SP = "DATAIN_START" /\ req_posedge_d /\ ~ce
         => Finished \/ Fresh \/ front # rq1_wptr)'
  <2> SUFFICES ASSUME SP' = "DATAIN_START", req_posedge_d', ~ce', front' = rq1_wptr'
               PROVE  Finished' \/ Fresh'
    OBVIOUS
  <2>1. ce /\ REQ /\ reqn_d
    BY DEF HandMove
  <2>2. ~Fetches /\ SP = "DATAIN_START"
    BY <1>5, <1>6, <2>1
  <2>3. front = wbin
    BY <1>1, <2>2
  <2>4. CASE tst # "DATA_IN"
    <3>1. Finished
      BY <2>1, <2>2, <2>3, <2>4 DEF SupplyOK, Finished, Drained
    <3>2. QED
      BY <1>3, <2>2, <3>1
  <2>5. CASE tst = "DATA_IN"
    <3>1. datapos \in Nat /\ (datapos = 0 \/ (datapos = 1 /\ cd_wr_d))
      BY <2>3, <2>5 DEF FillOK, DriveOK
    <3>2. CASE cmd.op = READ_10
      <4>1. Fresh
        BY <2>5, <3>1, <3>2 DEF Fresh
      <4>2. ~Last /\ ~Given
        BY <2>1, <3>1
      <4>3. QED
        BY <1>4, <2>2, <4>1, <4>2
    <3>3. CASE cmd.op # READ_10
      <4>1. Passed = datapos /\ Hand = 1
        BY <1>2, <2>1, <2>2, <2>5, <3>3, FreshHeld DEF CountOK, Under, Wrote
      <4>2. datapos >= 1 + Bit(FIFO_WR_REQ)
        BY <4>1, Sizes DEF Bit
      <4>3. cd_wr_d => FIFO_WR_REQ
        BY DEF PaceOK
      <4>4. QED
        BY <3>1, <4>2, <4>3 DEF Bit
    <3>4. QED
      BY <3>2, <3>3
  <2>6. QED
    BY <2>4, <2>5
<1>10. (SP = "DATAIN_START" /\ req_posedge_d /\ ce
          => Finished \/ Fresh \/ front # rq2_wptr)'
  <2> SUFFICES ASSUME SP' = "DATAIN_START", req_posedge_d', ce'
               PROVE  Finished' \/ Fresh' \/ front' # rq2_wptr'
    OBVIOUS
  <2>1. ~ce /\ req_posedge_d
    BY DEF HandMove
  <2>2. ~Fetches /\ SP = "DATAIN_START" /\ ~reqn_d
    BY <1>5, <1>6, <2>1 DEF HandOK
  <2>3. front' = front /\ rq2_wptr' = rq1_wptr /\ strobe # "FIFO_RD_REQ"
    BY <1>1, <2>2 DEF BusOK
  <2>4. Finished \/ Fresh \/ front # rq1_wptr
    BY <2>1, <2>2 DEF SupplyOK
  <2>5. Last \/ Given => front # rq1_wptr
    BY <1>7, <2>3
  <2>6. QED
    BY <1>3, <1>4, <2>2, <2>3, <2>4, <2>5
<1>11. (SP = "DATAIN_END" \/ (SP = "DATAIN_START" /\ NoRecentRead)
          => Finished \/ Fresh \/ ~REMPTY)'
  <2> SUFFICES ASSUME SP' = "DATAIN_END"
                      \/ (SP' = "DATAIN_START" /\ ~reqn_d' /\ ~req_posedge_d')
               PROVE  Finished' \/ Fresh' \/ ~REMPTY'
    BY DEF NoRecentRead
  <2>1. ~Fetches
    <3>1. Fetches => SP' = "DATAIN_START"
      BY DEF TargetMove, FreeMove, StartMove, EndMove, PauseMove, Moves, Starts, Ends,
         BusOK, Fetches
    <3>2. QED
      BY <1>6, <3>1
  <2>2. InData
    BY <1>5, <2>1
  <2>3. Last \/ Given => ~REMPTY'
    <3>1. Given => strobe # "FIFO_RD_REQ"
      BY DEF BusOK
    <3>2. QED
      BY <1>1, <1>7, <3>1
  <2>4. Finished \/ Fresh \/ ~REMPTY'
    <3>1. CASE SP = "DATAIN_END" \/ NoRecentRead
      <4>1. strobe # "FIFO_RD_REQ"
        BY <3>1 DEF BusOK, NoRecentRead
      <4>2. Finished \/ Fresh \/ ~REMPTY
        BY <2>2, <3>1 DEF SupplyOK
      <4>3. QED
        BY <4>1, <4>2, StillThere
    <3>2. CASE SP = "DATAIN_START" /\ (reqn_d \/ req_posedge_d)
      <4>1. REQ /\ ~ACK
        BY <3>2 DEF HandOK, BusOK, Starts
      <4>2. SP' = "DATAIN_START"
        BY <3>2, <4>1 DEF TargetMove, FreeMove, StartMove, EndMove, PauseMove, Moves,
           Starts, Ends
      <4>3. ce /\ req_posedge_d
        BY <3>2, <4>1, <4>2 DEF HandMove
      <4>4. Finished \/ Fresh \/ front # rq2_wptr
        BY <3>2, <4>3 DEF SupplyOK
      <4>5. QED
        BY <1>1, <4>4
    <3>3. QED
      BY <2>2, <3>1, <3>2 DEF NoRecentRead
  <2>5. QED
    BY <1>3, <1>4, <2>2, <2>3, <2>4
<1>12. QED
  BY <1>8, <1>9, <1>10, <1>11 DEF SupplyOK

-----------------------------------------------------------------------------
(* Status and sense key.                                                   *)

(* What belongs to the command stays while the drive works on it.          *)
LEMMA SameCommand ==
  ASSUME PathInv, NEW act, NEW M, Moved(act, M), pc \in {"BUSY", "FREEING"}, act # "Freed"
  PROVE  /\ cmd' = cmd /\ expected_key' = expected_key /\ medium_empty' = medium_empty
         /\ pc' \in {"BUSY", "FREEING"} /\ (pc = "FREEING" => pc' = "FREEING")
         /\ (aborted' <=> act = "Abort" \/ aborted)
<1> USE DEF PathInv, Moved
<1>1. act \notin {"Select", "BusResetOn", "BusResetOff", "Selected"}
  BY DEF ProgMove, ProgGuard
<1>2. medium_empty' = medium_empty
  BY DEF HostMove
<1>3. QED
  BY <1>1, <1>2 DEF ProgMove, ProgGuard, ProgSoft

(* While a command is carried out the program waits for it.                *)
LEMMA BegunIsBusy ==
  ASSUME PathInv, Begun \/ tst = "CMD"
  PROVE  pc = "BUSY"
<1> USE DEF PathInv
<1>1. CASE tst \in {"CMD", "DATA_IN", "DATA_IN_END", "DATA_OUT"}
  BY <1>1, CommandIs
<1>2. CASE tst = "STAT" \/ pulse = "STAT_GET" \/ STAT_PEND
  BY <1>2 DEF TurnOK, ProgOK
<1>3. QED
  BY <1>1, <1>2 DEF Begun, Under

(* The status a command gets.                                              *)
Verdict == IF Fails(cmd) THEN CHECK_CONDITION ELSE GOOD

(* Its verdict stays.                                                      *)
LEMMA VerdictKeeps ==
  ASSUME PathInv, NEW act, NEW M, Moved(act, M), pc \in {"BUSY", "FREEING"}, act # "Freed"
  PROVE  Verdict' = Verdict /\ (Fails(cmd)' <=> Fails(cmd))
BY SameCommand DEF Verdict, Fails

(* The status is that of the command, all the way.                         *)
LEMMA StatusStep ==
  ASSUME NEW act, NEW M, PathInv, Moved(act, M)
  PROVE  StatusOK'
<1> USE DEF PathInv, Moved
<1>0. act = "Freed" => pc = "FREEING"
  BY DEF ProgMove, ProgGuard
<1>1. (Begun => STATUS = Verdict)'
  <2> SUFFICES ASSUME Begun' PROVE STATUS' = Verdict'
    OBVIOUS
  <2>1. Begun \/ (tst = "CMD" /\ pulse = "cmd_start")
    <3>1. CASE tst' = "CMD" /\ pulse' # "cmd_start"
      BY <3>1 DEF DriveMove, Begun, Under
    <3>2. CASE tst' \in {"DATA_IN", "DATA_IN_END", "DATA_OUT", "STAT"}
      BY <3>2 DEF DriveMove, Begun, Under
    <3>3. CASE pulse' = "STAT_GET"
      <4>1. tst = "STAT" \/ (tst = "CMD" /\ pulse = "cmd_start")
        BY <3>3 DEF DriveMove
      <4>2. QED
        BY <4>1 DEF Begun
    <3>4. CASE STAT_PEND'
      BY <3>4 DEF TargetMove, FreeMove, StartMove, EndMove, PauseMove, Moves, Starts,
         Ends, Begun
    <3>5. QED
      BY <3>1, <3>2, <3>3, <3>4 DEF Begun, Under
  <2>2. pc = "BUSY" /\ act # "Freed"
    BY <1>0, <2>1, BegunIsBusy
  <2>3. Verdict' = Verdict
    BY <2>2, VerdictKeeps
  <2>4. CASE tst = "CMD" /\ pulse = "cmd_start"
    <3>1. CmdTaken /\ op = cmd.op
      BY <2>4, CommandIs DEF DriveMove
    <3>2. STATUS' = Verdict
      BY <3>1 DEF CmdTaken, Verdict, Fails
    <3>3. QED
      BY <2>3, <3>2
  <2>5. CASE ~(tst = "CMD" /\ pulse = "cmd_start")
    <3>1. STATUS' = STATUS
      BY <2>5 DEF DriveMove, KeepsCommand
    <3>2. STATUS = Verdict
      BY <2>1, <2>5 DEF StatusOK, Verdict
    <3>3. QED
      BY <2>3, <3>1, <3>2
  <2>6. QED
    BY <2>4, <2>5
<1>2. (SP = "STAT_START" => DBO = StatusByte(Verdict))'
  <2> SUFFICES ASSUME SP' = "STAT_START" PROVE DBO' = StatusByte(Verdict')
    BY DEF StatusByte
  <2>1. \/ SP = "FREE" /\ STAT_PEND /\ DBO' = StatusByte(STATUS)
        \/ SP = "STAT_START" /\ DBO' = DBO
    BY DEF TargetMove, FreeMove, StartMove, EndMove, PauseMove, Moves, Starts, Ends
  <2>2. pc = "BUSY" /\ act # "Freed"
    <3>1. CASE STAT_PEND
      BY <1>0, <3>1, BegunIsBusy DEF Begun
    <3>2. CASE SP = "STAT_START"
      BY <1>0, <3>2 DEF ProgOK, CommSP
    <3>3. QED
      BY <2>1, <3>1, <3>2
  <2>3. Verdict' = Verdict
    BY <2>2, VerdictKeeps
  <2>4. DBO' = StatusByte(Verdict)
    BY <2>1 DEF StatusOK, Verdict, Begun
  <2>5. QED
    BY <2>3, <2>4
<1>3. act # "Freed" /\ result' # NoResult =>
        \/ result' = result /\ result # NoResult
        \/ result' = DBO /\ SP = "STAT_START" /\ pc = "BUSY"
  <2>1. act = "Get" /\ phase = "STATUS" => SP = "STAT_START" /\ pc = "BUSY"
    BY DEF ProgMove, ProgGuard, BusOK, Starts
  <2>2. QED
    BY <2>1 DEF ProgMove, ProgSoft
<1>4. act # "Freed" /\ result' # NoResult => pc \in {"BUSY", "FREEING"}
  BY <1>3 DEF StatusOK
<1>5. act = "Freed" => result' = NoResult
  BY DEF ProgMove, ProgSoft
<1>6. (result # NoResult => result = StatusByte(Verdict))'
  <2> SUFFICES ASSUME result' # NoResult, act # "Freed"
               PROVE  result' = StatusByte(Verdict')
    BY <1>5 DEF StatusByte, NoResult
  <2>1. Verdict' = Verdict
    BY <1>4, VerdictKeeps
  <2>2. result' = StatusByte(Verdict)
    BY <1>3 DEF StatusOK, Verdict
  <2>3. QED
    BY <2>1, <2>2
<1>7. (result # NoResult => (pc = "BUSY" /\ SP \in ReportSP) \/ pc = "FREEING")'
  <2> SUFFICES ASSUME result' # NoResult, act # "Freed"
               PROVE  (pc' = "BUSY" /\ SP' \in ReportSP) \/ pc' = "FREEING"
    BY <1>5 DEF NoResult, ReportSP
  <2>1. pc' \in {"BUSY", "FREEING"} /\ (pc = "FREEING" => pc' = "FREEING")
    BY <1>4, SameCommand
  <2>2. SUFFICES ASSUME pc = "BUSY", SP \in ReportSP PROVE SP' \in ReportSP
    BY <1>3, <1>4, <2>1 DEF StatusOK, ReportSP
  <2>3. SP # "MSGIN_HOLD" /\ (SP = "MSGIN_END" => rf.assert_ack)
    BY <2>2 DEF ProgOK
  <2>4. QED
    BY <2>2, <2>3 DEF TargetMove, FreeMove, StartMove, EndMove, PauseMove, Moves,
       Starts, Ends, ReportSP, ACK
<1>8. QED
  BY <1>1, <1>2, <1>6, <1>7 DEF StatusOK, Verdict

-----------------------------------------------------------------------------
(* Its sense key stays.                                                    *)
LEMMA KeyKeeps ==
  ASSUME PathInv, NEW act, NEW M, Moved(act, M), pc \in {"BUSY", "FREEING"}, act # "Freed"
  PROVE  KeyAfter' = KeyAfter
<1>1. cmd' = cmd /\ expected_key' = expected_key /\ (Fails(cmd)' <=> Fails(cmd))
  BY SameCommand, VerdictKeeps
<1>2. QED
  BY <1>1 DEF KeyAfter

(* A read that does not fail leaves the key as expected.                   *)
LEMMA ReadsKeepKey ==
  cmd.op \in Reads => KeyAfter = expected_key /\ cmd.op # REQUEST_SENSE
BY DEF KeyAfter, Fails, Ops, Reads, READ_10, READ_TOC, READ_HEADER, TEST_UNIT_READY,
   REQUEST_SENSE

(* The sense key, from command to command.                                 *)
LEMMA SenseStep ==
  ASSUME NEW act, NEW M, PathInv, Moved(act, M)
  PROVE  SenseOK'
<1> USE DEF PathInv, Moved
<1> DEFINE Taking == tst = "CMD" /\ pulse = "cmd_start"
           Telling == tst = "DATA_IN" /\ cmd.op = REQUEST_SENSE /\ CD_WR
                      /\ datapos + 1 = datalen
<1>1. tst \in {"CMD", "DATA_IN", "DATA_IN_END", "DATA_OUT"} => pc = "BUSY" /\ op = cmd.op
  BY CommandIs
<1>2. ~Taking /\ ~Telling => sense_key' = sense_key
  BY <1>1 DEF DriveMove
<1>3. Taking \/ Telling => pc = "BUSY" /\ ~aborted
  <2>1. Taking \/ Telling => pc = "BUSY"
    BY <1>1
  <2>2. Telling => cmd.op \notin Reads
    BY ReadsKeepKey
  <2>3. QED
    BY <2>1, <2>2 DEF TurnOK
<1>4. act = "Freed" => pc = "FREEING" /\ SP = "FREE" /\ phase = "FREE"
  BY DEF ProgMove, ProgGuard, ProgOK, BusOK
<1>5. act # "Freed" => expected_key' = expected_key
  BY DEF ProgMove, ProgSoft
<1>6. act = "Freed" => expected_key' = (IF aborted THEN expected_key ELSE KeyAfter)
  BY DEF ProgMove, ProgSoft, KeyAfter
<1>7. act = "Abort"
        => tst \in {"DATA_IN", "DATA_IN_END"} /\ cmd.op \in Reads /\ ~aborted
           /\ pc = "BUSY"
  BY DEF ProgMove, ProgGuard
<1>8. aborted' <=> act = "Abort" \/ (aborted /\ act # "Freed")
  BY DEF ProgMove, ProgSoft
<1>9. (expected_key \in Keys)'
  <2>1. expected_key \in Keys /\ KeyAfter \in Keys
    BY DEF SenseOK, KeyAfter, Keys
  <2>2. QED
    BY <1>5, <1>6, <2>1 DEF Keys
<1>10. (pc \in {"IDLE", "RESET", "SELECT"} \/ aborted \/ SP \in CommSP
        \/ strobe = "COMM_OUT" \/ (tst = "CMD" /\ pulse = "cmd_start")
             => sense_key = expected_key)'
  <2>1. CASE act = "Freed"
    <3>1. sense_key' = sense_key
      BY <1>2, <1>3, <1>4, <2>1
    <3>2. sense_key = IF aborted THEN expected_key ELSE KeyAfter
      BY <1>4, <2>1 DEF SenseOK
    <3>3. QED
      BY <1>6, <2>1, <3>1, <3>2
  <2>2. CASE act = "Abort"
    <3>1. KeyAfter = expected_key /\ cmd.op # REQUEST_SENSE
      BY <1>7, <2>2, ReadsKeepKey
    <3>2. sense_key = expected_key
      BY <1>7, <2>2, <3>1 DEF SenseOK
    <3>3. ~Taking /\ ~Telling
      BY <1>7, <2>2, <3>1
    <3>4. QED
      BY <1>2, <1>5, <2>2, <3>2, <3>3
  <2>3. CASE act \notin {"Freed", "Abort"}
    <3> SUFFICES ASSUME pc' \in {"IDLE", "RESET", "SELECT"} \/ aborted' \/ SP' \in CommSP
                          \/ strobe' = "COMM_OUT"
                          \/ (tst' = "CMD" /\ pulse' = "cmd_start")
                 PROVE  sense_key' = expected_key'
      BY DEF CommSP
    <3>1. pc' \in {"IDLE", "RESET", "SELECT"} => pc \in {"IDLE", "RESET", "SELECT"}
      <4>1. act \in {"Select", "BusResetOn", "BusResetOff"} \/ pc' = pc
            \/ pc' \in {"BUSY", "FREEING"}
        BY <2>3 DEF ProgMove, ProgSoft
      <4>2. act \in {"Select", "BusResetOn"} => pc = "IDLE"
        BY DEF ProgMove, ProgGuard
      <4>3. act = "BusResetOff" => pc = "RESET"
        BY DEF ProgMove, ProgGuard
      <4>4. QED
        BY <4>1, <4>2, <4>3
    <3>2. SP' \in CommSP => SP \in CommSP \/ pc = "SELECT"
      BY DEF TargetMove, FreeMove, StartMove, EndMove, PauseMove, Moves, Starts, Ends,
         CommSP, ProgOK
    <3>3. strobe' = "COMM_OUT" => SP \in CommSP
      BY DEF TargetMove, FreeMove, StartMove, EndMove, PauseMove, Moves, Starts, Ends,
         CommSP
    <3>4. tst' = "CMD" /\ pulse' = "cmd_start" => strobe = "COMM_OUT"
      BY DEF DriveMove, CmdTaken, Ops, Reads
    <3>5. pc \in {"IDLE", "RESET", "SELECT"} \/ aborted \/ SP \in CommSP
          \/ strobe = "COMM_OUT"
      BY <1>8, <2>3, <3>1, <3>2, <3>3, <3>4
    <3>6. sense_key = expected_key
      BY <3>5 DEF SenseOK
    <3>7. ~Taking /\ ~Telling
      <4>1. SP \in CommSP \/ strobe = "COMM_OUT" => tst = "IDLE"
        BY DEF TurnOK, Quiet, CommSP
      <4>2. QED
        BY <1>3, <3>5, <4>1
    <3>8. QED
      BY <1>2, <1>5, <2>3, <3>6, <3>7
  <2>4. QED
    BY <2>1, <2>2, <2>3
<1>11. ASSUME pc = "BUSY"
       PROVE  KeyAfter' = KeyAfter /\ expected_key' = expected_key /\ cmd' = cmd
              /\ act # "Freed"
  BY <1>4, <1>11, KeyKeeps, SameCommand
<1>12. (((tst = "CMD" /\ pulse # "cmd_start") \/ tst = "DATA_IN") =>
        sense_key = IF cmd.op = REQUEST_SENSE /\ cmd.len > 0 THEN expected_key
                       ELSE KeyAfter)'
  <2> SUFFICES ASSUME (tst' = "CMD" /\ pulse' # "cmd_start") \/ tst' = "DATA_IN"
               PROVE  sense_key' = IF cmd'.op = REQUEST_SENSE /\ cmd'.len > 0
                      THEN expected_key' ELSE KeyAfter'
    OBVIOUS
  <2>1. tst = "CMD" \/ tst = "DATA_IN"
    BY DEF DriveMove
  <2>2. pc = "BUSY" /\ op = cmd.op
    BY <1>1, <2>1
  <2>3. CASE Taking
    <3>1. CmdTaken /\ sense_key = expected_key
      BY <2>3 DEF DriveMove, SenseOK
    <3>2. sense_key' = IF cmd.op = REQUEST_SENSE /\ cmd.len > 0 THEN expected_key
                          ELSE KeyAfter
      BY <2>2, <3>1 DEF CmdTaken, KeyAfter, Fails, Ops, Reads, READ_10, READ_TOC,
         READ_HEADER, TEST_UNIT_READY, REQUEST_SENSE, MODE_SELECT,
         PREVENT_ALLOW_MEDIUM_REMOVAL
    <3>3. QED
      BY <1>11, <2>2, <3>2
  <2>4. CASE ~Taking
    <3>1. sense_key = IF cmd.op = REQUEST_SENSE /\ cmd.len > 0 THEN expected_key
                         ELSE KeyAfter
      BY <2>1, <2>4 DEF SenseOK
    <3>2. ~Telling
      <4> SUFFICES ASSUME Telling PROVE FALSE
        OBVIOUS
      <4>1. blkcnt = 0
        BY DEF DriveOK, Under, REQUEST_SENSE, READ_10
      <4>2. tst' \in {"MSG_OUT", "DATA_IN_END"}
        BY <4>1 DEF DriveMove
      <4>3. QED
        BY <4>2
    <3>3. QED
      BY <1>2, <1>11, <2>2, <2>4, <3>1, <3>2
  <2>5. QED
    BY <2>3, <2>4
<1>13. (tst \in {"DATA_IN_END", "DATA_OUT", "STAT"} \/ pulse = "STAT_GET" \/ STAT_PEND
          => sense_key = IF aborted THEN expected_key ELSE KeyAfter)'
  <2> SUFFICES ASSUME tst' \in {"DATA_IN_END", "DATA_OUT", "STAT"}
                      \/ pulse' = "STAT_GET" \/ STAT_PEND'
               PROVE  sense_key' = IF aborted' THEN expected_key' ELSE KeyAfter'
    OBVIOUS
  <2>1. CASE aborted'
    BY <1>10, <2>1
  <2>2. CASE ~aborted'
    <3>1. CASE \/ tst \in {"DATA_IN_END", "DATA_OUT", "STAT"} \/ pulse = "STAT_GET"
               \/ STAT_PEND
      <4>1. pc = "BUSY" /\ ~Taking /\ ~Telling
        <5>1. pc = "BUSY"
          BY <3>1, BegunIsBusy DEF Begun, Under
        <5>2. tst \notin {"CMD", "DATA_IN"}
          BY <3>1 DEF TurnOK, NothingDue
        <5>3. QED
          BY <5>1, <5>2
      <4>2. ~aborted
        BY <1>8, <1>11, <2>2, <4>1
      <4>3. sense_key = KeyAfter
        BY <3>1, <4>2 DEF SenseOK
      <4>4. QED
        BY <1>2, <1>11, <2>2, <4>1, <4>3
    <3>2. CASE ~(\/ tst \in {"DATA_IN_END", "DATA_OUT", "STAT"} \/ pulse = "STAT_GET"
                 \/ STAT_PEND)
      <4>1. \/ tst = "CMD" /\ pulse = "cmd_done" /\ datalen = 0
            \/ tst = "CMD" /\ pulse = "cmd_done" /\ data_out
            \/ tst = "DATA_IN" /\ tst' = "DATA_IN_END" /\ CD_WR /\ datapos + 1 = datalen
        <5>1. ~STAT_PEND'
          BY <3>2 DEF TargetMove, FreeMove, StartMove, EndMove, PauseMove, Moves,
             Starts, Ends
        <5>2. tst' \in {"DATA_IN_END", "DATA_OUT", "STAT"}
          <6>1. pulse' = "STAT_GET"
                  => tst = "STAT" \/ (tst = "CMD" /\ pulse = "cmd_start")
            BY DEF DriveMove
          <6>2. pulse' = "STAT_GET" /\ tst = "CMD" /\ pulse = "cmd_start" => FALSE
            BY DEF DriveMove, CmdTaken, Ops, Reads
          <6>3. QED
            BY <3>2, <5>1, <6>1, <6>2
        <5>3. QED
          BY <3>2, <5>2 DEF DriveMove
      <4>2. pc = "BUSY"
        BY <1>1, <4>1
      <4>3. sense_key = IF cmd.op = REQUEST_SENSE /\ cmd.len > 0 THEN expected_key
                           ELSE KeyAfter
        BY <4>1 DEF SenseOK
      <4>4. CASE tst = "CMD" /\ pulse = "cmd_done"
        <5>1. ~(cmd.op = REQUEST_SENSE /\ cmd.len > 0)
          BY <4>1, <4>4 DEF DriveOK, Under, REQUEST_SENSE, MODE_SELECT, READ_10
        <5>2. QED
          BY <1>2, <1>11, <2>2, <4>2, <4>3, <4>4, <5>1
      <4>5. CASE tst = "DATA_IN" /\ tst' = "DATA_IN_END" /\ CD_WR /\ datapos + 1 = datalen
        <5>1. CASE Telling
          <6>1. sense_key' = NO_SENSE
            BY <1>1, <5>1 DEF DriveMove
          <6>2. cmd.len > 0
            <7>1. datalen = cmd.len /\ datapos \in Nat
              BY <5>1 DEF DriveOK, Under, REQUEST_SENSE, READ_10
            <7>2. QED
              BY <5>1, <7>1
          <6>3. KeyAfter = NO_SENSE
            BY <5>1, <6>2 DEF KeyAfter, Fails, Ops, REQUEST_SENSE, TEST_UNIT_READY
          <6>4. QED
            BY <1>11, <2>2, <4>2, <6>1, <6>3
        <5>2. CASE ~Telling
          BY <1>2, <1>11, <2>2, <4>2, <4>3, <4>5, <5>2
        <5>3. QED
          BY <5>1, <5>2
      <4>6. QED
        BY <4>1, <4>4, <4>5
    <3>3. QED
      BY <3>1, <3>2
  <2>3. QED
    BY <2>1, <2>2
<1>14. (SP \in ReportSP \/ (pc = "FREEING" /\ ~aborted) => sense_key = KeyAfter)'
  <2> SUFFICES ASSUME SP' \in ReportSP \/ (pc' = "FREEING" /\ ~aborted')
               PROVE  sense_key' = KeyAfter'
    BY DEF ReportSP
  <2>1. act # "Freed" /\ pc \in {"BUSY", "FREEING"} /\ ~Taking /\ ~Telling
        /\ sense_key = KeyAfter
    <3>1. CASE SP' \in ReportSP
      <4>1. SP \in ReportSP \/ STAT_PEND
        BY <3>1 DEF TargetMove, FreeMove, StartMove, EndMove, PauseMove, Moves,
           Starts, Ends, ReportSP
      <4>2. CASE STAT_PEND
        <5>1. pc = "BUSY" /\ tst = "IDLE" /\ ~aborted
          BY <4>2, BegunIsBusy DEF Begun, TurnOK
        <5>2. QED
          BY <1>4, <4>2, <5>1 DEF SenseOK
      <4>3. CASE SP \in ReportSP
        <5>1. pc \in {"BUSY", "FREEING"} /\ tst = "IDLE"
          BY <4>3 DEF TurnOK, Quiet, ProgOK, ReportSP
        <5>2. QED
          BY <1>4, <4>3, <5>1 DEF SenseOK, ReportSP
      <4>4. QED
        BY <4>1, <4>2, <4>3
    <3>2. CASE pc' = "FREEING" /\ ~aborted'
      <4>1. (pc = "FREEING" /\ act # "Freed")
            \/ (act = "Release" /\ pc = "BUSY" /\ phase \in {"MSGIN", "MSGOUT"})
        BY <3>2 DEF ProgMove, ProgGuard, ProgSoft
      <4>2. ~aborted
        BY <1>8, <3>2, <4>1
      <4>3. CASE pc = "FREEING" /\ act # "Freed"
        BY <1>3, <4>2, <4>3 DEF SenseOK
      <4>4. CASE act = "Release" /\ pc = "BUSY" /\ phase \in {"MSGIN", "MSGOUT"}
        <5>1. phase = "MSGIN"
          BY <4>2, <4>4 DEF ProgOK
        <5>2. SP \in ReportSP
          BY <5>1 DEF BusOK, ReportSP, Starts, Ends
        <5>3. tst = "IDLE"
          BY <5>1, <5>2, <4>4 DEF TurnOK, Quiet, ReportSP, BusOK
        <5>4. QED
          BY <4>4, <5>2, <5>3 DEF SenseOK
      <4>5. QED
        BY <4>1, <4>3, <4>4
    <3>3. QED
      BY <3>1, <3>2
  <2>2. QED
    BY <1>2, <2>1, KeyKeeps
<1>15. QED
  BY <1>9, <1>10, <1>12, <1>13, <1>14 DEF SenseOK

-----------------------------------------------------------------------------
(* The byte that is written, and the bytes as such.                        *)

(* Quotient and remainder of a place in a sector.                          *)
LEMMA DivMod ==
  ASSUME NEW b \in Nat, b > 0, NEW q \in Nat, NEW r \in 0 .. b - 1
  PROVE  (q * b + r) \div b = q /\ (q * b + r) % b = r
<1> DEFINE x == q * b + r
           d == x \div b
           m == x % b
<1>1. q * b \in Nat /\ x \in Nat
  OBVIOUS
<1>2. d \in Int /\ m \in 0 .. b - 1 /\ x = b * d + m
  BY <1>1
<1>3. b * d = d * b /\ d * b \in Int
  BY <1>2
<1>4. ~(d >= q + 1)
  <2> SUFFICES ASSUME d >= q + 1 PROVE FALSE
    OBVIOUS
  <2>1. d * b = (q + 1) * b + (d - q - 1) * b
    BY <1>2, Distributes
  <2>2. (q + 1) * b = q * b + b
    BY Distributes
  <2>3. d - q - 1 \in Nat
    BY <1>2
  <2>4. (d - q - 1) * b \in Nat
    BY <2>3
  <2>5. q * b + r = q * b + b + (d - q - 1) * b + m
    BY <1>1, <1>2, <1>3, <2>1, <2>2, <2>4
  <2>6. QED
    <3> HIDE DEF d, m, x
    <3>1. r = b + (d - q - 1) * b + m
      BY <1>1, <1>2, <2>4, <2>5
    <3>2. QED
      BY <1>2, <2>4, <3>1
<1>5. ~(d <= q - 1)
  <2> SUFFICES ASSUME d <= q - 1 PROVE FALSE
    OBVIOUS
  <2>1. q * b = (d + 1) * b + (q - d - 1) * b
    BY <1>2, Distributes
  <2>2. (d + 1) * b = d * b + b
    BY <1>2, Distributes
  <2>3. q - d - 1 \in Nat
    BY <1>2
  <2>4. (q - d - 1) * b \in Nat
    BY <2>3
  <2>5. QED
    <3> HIDE DEF d, m
    <3>1. q * b + r = d * b + m
      BY <1>2, <1>3
    <3>2. b + (q - d - 1) * b + r = m
      BY <1>1, <1>2, <1>3, <2>1, <2>2, <2>4, <3>1
    <3>3. QED
      BY <1>2, <2>4, <3>2
<1>6. d = q
  BY <1>2, <1>4, <1>5
<1>7. m = r
  BY <1>1, <1>2, <1>3, <1>6
<1>8. QED
  BY <1>6, <1>7

(* The byte the drive writes is the one that is due.                       *)
LEMMA DataIs ==
  ASSUME PathInv, tst = "DATA_IN", CD_WR
  PROVE  /\ CD_DATA(COMM) = Due(Wrote) /\ Due(Wrote) \in Byte
         /\ Wrote = Passed /\ pc = "BUSY"
<1> USE DEF PathInv
<1>1. /\ pc = "BUSY" /\ op = cmd.op /\ cmd \in Askable
      /\ cmd.op \in Nat /\ cmd.lba \in Int /\ cmd.len \in Nat
  BY CommandIs
<1>2. Wrote = Passed /\ Wrote + 1 <= Total /\ Passed \in Nat /\ Total \in Nat
  BY <1>1, Sizes, Totals DEF CountOK, Under, Total
<1>3. CD_DATA(COMM) = Answer(cmd.op, sense_key, datapos, sdbuf_q)
  BY <1>1 DEF CD_DATA, op, Op
<1>4. datapos \in Nat /\ datapos < datalen
  BY DEF DriveOK, TurnOK
<1>5. cmd.op \in Reads \cup {REQUEST_SENSE}
  BY DEF DriveOK
<1>6. Due(Wrote) \in Byte
  <2>1. Wrote \in 0 .. Total - 1
    BY <1>2
  <2>2. expected_key \in Keys
    BY DEF SenseOK
  <2>3. AnswerByte(cmd, expected_key, Wrote) \in Byte
    BY <1>1, <2>1, <2>2 DEF Askable, Fits, Total
  <2>4. QED
    BY <2>3 DEF Due, ExpectedByte
<1>7. CASE cmd.op = REQUEST_SENSE
  <2>1. datalen = cmd.len /\ Wrote = datapos
    BY <1>7 DEF DriveOK, Under, Wrote, READ_10, REQUEST_SENSE
  <2>2. sense_key = expected_key /\ expected_key \in Keys
    BY <1>1, <1>4, <1>7, <2>1 DEF SenseOK
  <2>3. Due(Wrote) = SenseByte(expected_key, datapos)
    BY <1>7, <2>1 DEF Due, ExpectedByte, AnswerByte, READ_10, READ_TOC, READ_HEADER,
       REQUEST_SENSE
  <2>4. Due(Wrote) \in Byte
    BY <1>6
  <2>5. CD_DATA(COMM) = SenseByte(sense_key, datapos)
    BY <1>3, <1>7 DEF Answer, READ_HEADER, REQUEST_SENSE
  <2>6. QED
    BY <1>1, <1>2, <2>2, <2>3, <2>4, <2>5
<1>8. CASE cmd.op \in Reads
  <2>1. sdbuf_q = DiscByte(SD_LBA, datapos + sdbuf_off(cmd.op, datapos))
    BY <1>8 DEF DriveOK
  <2>2. Due(Wrote) = AnswerByte(cmd, expected_key, Wrote)
    BY <1>8 DEF Due, ExpectedByte
  <2>3. Due(Wrote) \in Byte
    BY <1>6
  <2>4. CD_DATA(COMM) = Due(Wrote)
    <3>1. CASE cmd.op = READ_10
      <4>1. datalen = BLOCK /\ SD_LBA = cmd.lba + Blocks /\ blkcnt \in Nat
            /\ blkcnt <= cmd.len - 1
        <5>1. pulse = "NONE"
          BY DEF TurnOK, NothingDue
        <5>2. /\ datalen = BLOCK /\ blkcnt \in Nat /\ blkcnt <= cmd.len - 1
              /\ SD_LBA = cmd.lba + Blocks - Bit(pulse = "cmd_cont")
          BY <3>1 DEF DriveOK, Under
        <5>3. Bit(pulse = "cmd_cont") = 0
          BY <5>1 DEF Bit
        <5>4. Blocks \in Int
          BY <1>1, <5>2 DEF Blocks
        <5>5. QED
          BY <1>1, <5>2, <5>3, <5>4
      <4>2. Blocks \in Nat /\ Wrote = Blocks * BLOCK + datapos
        BY <1>1, <3>1, <4>1 DEF Blocks, Wrote
      <4>3. Wrote \div BLOCK = Blocks /\ Wrote % BLOCK = datapos
        <5> HIDE DEF PathInv
        <5>1. datapos \in 0 .. BLOCK - 1 /\ BLOCK \in Nat /\ BLOCK > 0
          BY <1>4, <4>1, DriveAssumption
        <5>2. QED
          BY <4>2, <5>1, DivMod
      <4>4. Due(Wrote) = DiscByte(cmd.lba + Blocks, 16 + datapos)
        BY <2>2, <3>1, <4>3 DEF AnswerByte, READ_10, READ_TOC, READ_HEADER,
           REQUEST_SENSE
      <4>5. CD_DATA(COMM) = sdbuf_q /\ sdbuf_off(cmd.op, datapos) = 16
        BY <1>3, <3>1 DEF Answer, sdbuf_off, READ_10, READ_HEADER, REQUEST_SENSE
      <4>6. datapos + 16 = 16 + datapos
        BY <1>4
      <4>7. QED
        BY <2>1, <4>1, <4>4, <4>5, <4>6
    <3>2. CASE cmd.op = READ_TOC
      <4>1. SD_LBA = TOC_LBA + cmd.lba /\ Wrote = datapos
        BY <3>2 DEF DriveOK, Under, Wrote, READ_10, READ_TOC
      <4>2. CD_DATA(COMM) = sdbuf_q /\ sdbuf_off(cmd.op, datapos) = 0
        BY <1>3, <3>2 DEF Answer, sdbuf_off, READ_10, READ_TOC, READ_HEADER,
           REQUEST_SENSE
      <4>3. datapos + 0 = datapos
        BY <1>4
      <4>4. Due(Wrote) = DiscByte(TOC_LBA + cmd.lba, datapos)
        BY <2>2, <3>2, <4>1 DEF AnswerByte, READ_10, READ_TOC, READ_HEADER,
           REQUEST_SENSE
      <4>5. QED
        BY <2>1, <4>1, <4>2, <4>3, <4>4
    <3>3. CASE cmd.op = READ_HEADER
      <4>1. SD_LBA = cmd.lba /\ Wrote = datapos
        BY <3>3 DEF DriveOK, Under, Wrote, READ_10, READ_HEADER
      <4>2. CASE datapos = 0
        <5>1. CD_DATA(COMM) = sdbuf_q /\ sdbuf_off(cmd.op, datapos) = 15
          BY <1>3, <3>3, <4>2 DEF Answer, sdbuf_off, READ_10, READ_HEADER,
             REQUEST_SENSE
        <5>2. Due(Wrote) = DiscByte(cmd.lba, 15)
          BY <2>2, <3>3, <4>1, <4>2 DEF AnswerByte, READ_10, READ_TOC, READ_HEADER,
             REQUEST_SENSE
        <5>3. datapos + 15 = 15
          BY <4>2
        <5>4. QED
          BY <2>1, <4>1, <5>1, <5>2, <5>3
      <4>3. CASE datapos \in 1 .. 4
        <5>1. CD_DATA(COMM) = ZeroByte
          BY <1>3, <3>3, <4>3 DEF Answer, READ_HEADER, REQUEST_SENSE
        <5>2. Due(Wrote) = ZeroByte
          BY <2>2, <3>3, <4>1, <4>3 DEF AnswerByte, READ_10, READ_TOC, READ_HEADER,
             REQUEST_SENSE
        <5>3. QED
          BY <5>1, <5>2
      <4>4. CASE datapos >= 5
        <5>1. CD_DATA(COMM) = sdbuf_q /\ sdbuf_off(cmd.op, datapos) = 7
          BY <1>3, <1>4, <3>3, <4>4 DEF Answer, sdbuf_off, READ_10, READ_HEADER,
             REQUEST_SENSE
        <5>2. Due(Wrote) = DiscByte(cmd.lba, datapos + 7)
          BY <1>4, <2>2, <3>3, <4>1, <4>4 DEF AnswerByte, READ_10, READ_TOC,
             READ_HEADER, REQUEST_SENSE
        <5>3. QED
          BY <2>1, <4>1, <5>1, <5>2
      <4>5. QED
        BY <1>4, <4>2, <4>3, <4>4
    <3>4. QED
      BY <1>8, <3>1, <3>2, <3>3 DEF Reads
  <2>5. QED
    BY <1>1, <1>2, <2>3, <2>4
<1>9. QED
  BY <1>5, <1>7, <1>8

(* The byte on the bus comes from the FIFO with the read, and stays.       *)
LEMMA DboMoves ==
  ASSUME PathInv, NEW act, NEW M, Moved(act, M), SP' = "DATAIN_START"
  PROVE  /\ Fetches => DBO' = RDATA
         /\ ~Fetches => SP = "DATAIN_START" /\ phase = "DATAIN" /\ REQ /\ DBO' = DBO
<1> USE DEF PathInv, Moved
<1>1. Fetches => DBO' = RDATA
  BY DEF TargetMove, FreeMove, StartMove, EndMove, PauseMove, Moves, Starts, Ends,
     Fetches
<1>2. ~Fetches => SP = "DATAIN_START" /\ DBO' = DBO
  BY DEF TargetMove, FreeMove, StartMove, EndMove, PauseMove, Moves, Starts, Ends,
     Fetches
<1>3. QED
  BY <1>1, <1>2 DEF BusOK, Starts

(* The engine latches what the target drives.                              *)
LEMMA RxMoves ==
  ASSUME PathInv, NEW act, NEW M, Moved(act, M), SP' = "DATAIN_START", ~reqn_d', BusOK'
  PROVE  /\ ~Fetches /\ SP = "DATAIN_START" /\ DBO' = DBO
         /\ rxbuf' = IF ce /\ reqn_d THEN DBO ELSE rxbuf
         /\ ~(ce /\ reqn_d) => ~reqn_d
<1> USE DEF PathInv, Moved
<1>1. ~Fetches
  BY DEF BusOK, Fetches
<1>2. SP = "DATAIN_START" /\ phase = "DATAIN" /\ REQ /\ DBO' = DBO
  BY <1>1, DboMoves
<1>3. SCSI_DI = DBO
  BY <1>2 DEF SCSI_DI
<1>4. QED
  BY <1>1, <1>2, <1>3 DEF HandMove

(* What is on its way are bytes.                                           *)
LEMMA ByteStep ==
  ASSUME NEW act, NEW M, PathInv, Moved(act, M), BusOK'
  PROVE  ByteOK'
<1> USE DEF PathInv, Moved
<1>1. (FIFO_D \in Byte)'
  <2>1. CD_WR => CD_DATA(COMM) \in Byte
    <3>1. CASE tst = "DATA_IN"
      BY <3>1, DataIs
    <3>2. CASE tst # "DATA_IN"
      BY <3>2, PlansAssumption DEF CD_DATA
    <3>3. QED
      BY <3>1, <3>2
  <2>2. QED
    BY <2>1 DEF StrobeMove, ByteOK
<1>2. (mem \in [0 .. DEPTH - 1 -> Byte])'
  BY CellType, FrontType DEF FifoMove, FifoClock, WrittenMem, ByteOK
<1>3. (pio \in Seq(Byte))'
  <2>1. act = "Get" /\ phase = "DATAIN" => DBO \in Byte
    BY GetWhen DEF ByteOK
  <2>2. QED
    BY <2>1 DEF ProgMove, ProgSoft, ByteOK
<1>4. (SP = "DATAIN_START" => DBO \in Byte)'
  <2> SUFFICES ASSUME SP' = "DATAIN_START" PROVE DBO' \in Byte
    OBVIOUS
  <2>1. RDATA \in Byte
    BY CellType, FrontType DEF RDATA, ByteOK
  <2>2. QED
    BY <2>1, DboMoves DEF ByteOK
<1>5. (SP = "DATAIN_START" /\ ~reqn_d => rxbuf \in Byte)'
  BY RxMoves DEF ByteOK
<1>6. Takes => rxbuf \in Byte
  BY TakesWhen DEF ByteOK
<1>7. (dma_a0 => dma_rxbuf \in Byte)'
  BY <1>6 DEF WordMove, ByteOK
<1>8. (m_req => m_do \in Byte \X Byte)'
  BY <1>6 DEF WordMove, ByteOK
<1>9. QED
  BY <1>1, <1>2, <1>3, <1>4, <1>5, <1>7, <1>8 DEF ByteOK

-----------------------------------------------------------------------------
(* The bytes on their way are those due.                                   *)

(* Before a command the engine has nothing.                                *)
LEMMA NothingYet ==
  ASSUME PathInv, pc = "SELECT"
  PROVE  /\ rf.dma_ka = 0 /\ ~dma_next_word /\ ~m_req /\ ~dma_a0 /\ ~dma_rxbuf_rd
         /\ Len(pio) = 0 /\ brought = 0 /\ ~rf.dma_mode
         /\ (SP \in CommSP
               => Distance(front, wbin) = 0 /\ ~FIFO_WR_REQ /\ SP # "DATAIN_START")
<1> USE DEF PathInv
<1>1. pio = <<>> /\ rf.dma_ka = 0 /\ ~dma_next_word /\ ~m_req /\ ~dma_a0
      /\ ~dma_rxbuf_rd /\ ~rf.dma_mode
  BY DEF CountOK, HandOK, ProgOK
<1>2. Len(pio) = 0
  BY <1>1, EmptySeq
<1>3. SP \in CommSP => Drained /\ SP # "DATAIN_START"
  BY DEF TurnOK, Quiet, CommSP
<1>4. SP \in CommSP => Distance(front, wbin) = 0 /\ ~FIFO_WR_REQ
  BY <1>3, FrontType, RingFacts DEF Drained
<1>5. QED
  BY <1>1, <1>2, <1>3, <1>4 DEF brought, Bit

(* What the initiator has before it takes a byte, by the way it takes it.  *)
LEMMA GotIs ==
  ASSUME PathInv, pc = "BUSY"
  PROVE  /\ cmd.how = "DMA" /\ ~m_req /\ ~dma_a0 => Got = 2 * brought
         /\ cmd.how = "DMA" /\ ~m_req /\ dma_a0 => Got = 2 * brought + 1
         /\ cmd.how = "PIO" => Got = Len(pio)
<1>1. Len(pio) > 0 => cmd.how = "PIO"
  BY DEF PathInv, CountOK
<1>2. cmd.how = "PIO" => brought = 0 /\ ~dma_a0 /\ ~m_req
  BY DEF PathInv, CountOK
<1>3. Len(pio) \in Nat /\ brought \in Nat
  BY Sizes
<1>4. QED
  BY <1>1, <1>2, <1>3 DEF Got, Bit

(* And each is the one due at its place.                                   *)
LEMMA ValueStep ==
  ASSUME NEW act, NEW M, PathInv, Moved(act, M), BusOK'
  PROVE  ValueOK'
<1> USE DEF PathInv, Moved
<1>a. pc' \in {"BUSY", "FREEING"} =>
        /\ act \notin {"Select", "Freed"}
        /\ \/ pc \in {"BUSY", "FREEING"} /\ cmd' = cmd /\ expected_key' = expected_key
           \/ pc' = "BUSY" /\ pc = "SELECT" /\ SP \in CommSP
  <2>1. pc' \in {"BUSY", "FREEING"} =>
          /\ act \notin {"Select", "Freed"}
          /\ pc \in {"BUSY", "FREEING"}
               \/ (pc' = "BUSY" /\ pc = "SELECT" /\ phase = "COMMAND")
    BY DEF ProgMove, ProgGuard, ProgSoft
  <2>2. pc = "SELECT" /\ phase = "COMMAND" => SP \in CommSP
    BY DEF ProgOK, CommSP
  <2>3. QED
    BY <2>1, <2>2, SameCommand
<1>b. ASSUME cmd' = cmd, expected_key' = expected_key
      PROVE  \A k \in Int : ExpectedByte(cmd, k)' = Due(k)
  BY <1>b DEF Due, ExpectedByte
<1>c. act # "Freed" /\ ~aborted' => ~aborted
  BY DEF ProgMove, ProgSoft
<1>d. ~aborted => ~Loses /\ tst # "MSG_OUT"
  BY LosesWhen DEF TurnOK
<1>e. Takes => /\ rxbuf = DBO /\ pc = "BUSY" /\ ~m_req /\ cmd.how = "DMA"
               /\ SP = "DATAIN_START" /\ ~Taken
  BY TakesWhen DEF ValueOK, Taken
<1>f. ~aborted /\ pc = "BUSY" /\ SP = "DATAIN_START" /\ ~Taken => DBO = Due(Got)
  BY DEF ValueOK
<1>g. brought \in Nat /\ Got \in Nat /\ Hand \in Nat /\ Len(pio) \in Nat /\ Passed \in Nat
  BY Sizes
<1>1. (FIFO_WR_REQ /\ tst # "MSG_OUT" => FIFO_D = ExpectedByte(cmd, Passed - 1))'
  <2> SUFFICES ASSUME FIFO_WR_REQ', tst' # "MSG_OUT"
               PROVE  FIFO_D' = ExpectedByte(cmd, Passed - 1)'
    OBVIOUS
  <2>1. CD_WR /\ ~CD_WR_OLD
    BY DEF StrobeMove, PaceOK
  <2>2. tst = "DATA_IN"
    <3>1. tst = "MSG_OUT" => SP # "FREE"
      BY <2>1 DEF PaceOK
    <3>2. tst = "MSG_OUT" => strobe = "MSGOUT_OUT"
      BY DEF DriveMove
    <3>3. QED
      BY <2>1, <3>1, <3>2 DEF PaceOK, BusOK
  <2>3. CD_DATA(COMM) = Due(Passed) /\ pc = "BUSY"
    BY <2>1, <2>2, DataIs
  <2>4. act \notin {"Select", "Freed"} /\ cmd' = cmd /\ expected_key' = expected_key
    <3>1. act \notin {"Select", "Freed"}
      BY <2>3 DEF ProgMove, ProgGuard
    <3>2. QED
      BY <2>3, <3>1, SameCommand
  <2>5. ~Loses
    BY <2>2, LosesWhen
  <2>6. Passed' = Passed + Bit(CD_WR) - Bit(Loses)
    BY <2>4, BytesMove
  <2>7. Passed' - 1 = Passed
    BY <1>g, <2>1, <2>5, <2>6 DEF Bit
  <2>8. ExpectedByte(cmd, Passed - 1)' = Due(Passed)
    BY <2>4, <2>7 DEF Due, ExpectedByte
  <2>9. QED
    BY <2>1, <2>3, <2>8 DEF StrobeMove
<1>2. (~aborted /\ pc = "BUSY" => \A n \in 0 .. DEPTH - 1 : n < Distance(front, wbin) =>
          mem[Cell(Ahead(front, n))] = ExpectedByte(cmd, Got + Hand + n))'
  <2> SUFFICES ASSUME ~aborted', pc' = "BUSY", NEW n \in 0 .. DEPTH - 1,
                      n < Distance(front, wbin)'
               PROVE  mem'[Cell(Ahead(front', n))] = ExpectedByte(cmd, Got + Hand + n)'
    BY DEF front, Distance
  <2> DEFINE D == Distance(front, wbin)
             g == Got + Hand
  <2>1. /\ Distance(front, wbin)' = D - Bit(Fetches) + Bit(FIFO_WR_REQ)
        /\ Fetches => D >= 1 /\ ~Holds
        /\ FIFO_WR_REQ => D < DEPTH
        /\ front' = IF Fetches THEN After(front) ELSE front
        /\ D \in 0 .. DEPTH /\ DEPTH \in Nat
    BY DistanceMoves, HandMoves, Sizes, FifoAssumption
  <2>2. pc = "BUSY" /\ cmd' = cmd /\ expected_key' = expected_key
        /\ act \notin {"Select", "Freed"} /\ ~aborted
    <3>1. CASE pc = "SELECT" /\ SP \in CommSP
      <4>1. D = 0 /\ ~FIFO_WR_REQ
        BY <3>1, NothingYet
      <4>2. Distance(front, wbin)' <= 0
        BY <2>1, <4>1 DEF Bit
      <4>3. QED
        BY <2>1, <4>1, <4>2 DEF Bit
    <3>2. CASE pc \in {"BUSY", "FREEING"} /\ cmd' = cmd /\ expected_key' = expected_key
      <4>1. pc = "BUSY"
        BY <1>a, <3>2, SameCommand
      <4>2. QED
        BY <1>a, <1>c, <3>2, <4>1
    <3>3. QED
      BY <1>a, <3>1, <3>2
  <2>3. ~Loses /\ tst # "MSG_OUT"
    BY <1>d, <2>2
  <2>4. (Got + Hand)' = g + Bit(Fetches)
    <3>1. (Got + Hand)' = g + Bit(Fetches) - Bit(Loses)
      BY <2>2, BytesMove
    <3>2. Bit(Loses) = 0
      BY <2>3 DEF Bit
    <3>3. Bit(Fetches) \in Nat
      BY DEF Bit
    <3>4. QED
      BY <1>g, <3>1, <3>2, <3>3
  <2>5. front \in Pointer /\ wbin \in Pointer
    BY FrontType
  <2>6. \A i \in 0 .. DEPTH - 1 : i < D + Bit(FIFO_WR_REQ)
          => mem'[Cell(Ahead(front, i))] = Due(g + i)
    <3> SUFFICES ASSUME NEW i \in 0 .. DEPTH - 1, i < D + Bit(FIFO_WR_REQ)
                 PROVE  mem'[Cell(Ahead(front, i))] = Due(g + i)
      OBVIOUS
    <3>1. i < D => mem[Cell(Ahead(front, i))] = Due(g + i)
      BY <2>2 DEF ValueOK
    <3>2. CASE ~FIFO_WR_REQ
      <4>1. mem' = mem
        BY <3>2 DEF FifoMove, FifoClock, WrittenMem
      <4>2. i < D
        BY <2>1, <3>2 DEF Bit
      <4>3. QED
        BY <3>1, <4>1, <4>2
    <3>3. CASE FIFO_WR_REQ
      <4>1. mem' = [mem EXCEPT ![Cell(wbin)] = FIFO_D] /\ D < DEPTH
        BY <2>1, <3>3 DEF FifoMove, FifoClock, WrittenMem, PaceOK
      <4>2. mem \in [0 .. DEPTH - 1 -> Byte] /\ Cell(wbin) \in 0 .. DEPTH - 1
        BY <2>5, CellType DEF ByteOK
      <4>3. FIFO_D = Due(g + D)
        <5>1. Passed = g + D + 1
          BY <3>3, Sizes DEF Bit
        <5>2. Passed - 1 = g + D
          BY <1>g, <2>1, <5>1
        <5>3. FIFO_D = Due(Passed - 1)
          BY <2>3, <3>3 DEF ValueOK
        <5>4. QED
          BY <5>2, <5>3
      <4>4. Cell(Ahead(front, i)) \in 0 .. DEPTH - 1
        <5>1. Ahead(front, i) \in Pointer
          BY <2>1, <2>5, AheadType
        <5>2. QED
          BY <5>1, CellType
      <4>5. CASE i < D
        <5>1. Cell(Ahead(front, i)) # Cell(wbin)
          BY <2>5, <4>1, <4>5, OtherCell
        <5>2. QED
          BY <3>1, <4>1, <4>2, <4>4, <4>5, <5>1
      <4>6. CASE i = D
        <5>1. Ahead(front, i) = wbin
          BY <2>5, <4>1, <4>6, LastCell
        <5>2. QED
          BY <4>1, <4>2, <4>3, <4>6, <5>1
      <4>7. QED
        BY <2>1, <3>3, <4>5, <4>6 DEF Bit
    <3>4. QED
      BY <3>2, <3>3
  <2>7. \A k \in Int : ExpectedByte(cmd, k)' = Due(k)
    BY <1>b, <2>2
  <2>8. ExpectedByte(cmd, Got + Hand + n)' = Due(g + Bit(Fetches) + n)
    BY <2>2, <2>4 DEF Due, ExpectedByte
  <2>9. CASE Fetches
    <3>1. n + 1 \in 0 .. DEPTH - 1 /\ n + 1 < D + Bit(FIFO_WR_REQ)
      <4>1. n + 1 < D + Bit(FIFO_WR_REQ)
        BY <2>1, <2>9 DEF Bit
      <4>2. D + Bit(FIFO_WR_REQ) <= DEPTH
        BY <2>1 DEF Bit
      <4>3. D + Bit(FIFO_WR_REQ) \in Nat
        BY <2>1 DEF Bit
      <4>4. QED
        BY <2>1, <4>1, <4>2, <4>3
    <3>2. Ahead(front', n) = Ahead(front, n + 1)
      BY <2>1, <2>5, <2>9, AheadAfter
    <3>3. g + Bit(Fetches) + n = g + (n + 1)
      BY <1>g, <2>9 DEF Bit
    <3>4. mem'[Cell(Ahead(front, n + 1))] = Due(g + (n + 1))
      BY <2>6, <3>1
    <3>5. QED
      BY <2>8, <3>2, <3>3, <3>4
  <2>10. CASE ~Fetches
    <3>1. n < D + Bit(FIFO_WR_REQ)
      BY <2>1, <2>10 DEF Bit
    <3>2. front' = front
      BY <2>1, <2>10
    <3>3. g + Bit(Fetches) + n = g + n
      BY <1>g, <2>10 DEF Bit
    <3>4. QED
      BY <2>6, <2>8, <3>1, <3>2, <3>3
  <2>11. QED
    BY <2>9, <2>10
<1>3. (~aborted /\ pc = "BUSY" /\ SP = "DATAIN_START" /\ ~Taken
         => DBO = ExpectedByte(cmd, Got))'
  <2> SUFFICES ASSUME ~aborted', pc' = "BUSY", SP' = "DATAIN_START", ~Taken'
               PROVE  DBO' = ExpectedByte(cmd, Got)'
    OBVIOUS
  <2>1. Fetches \/ (Holds /\ ~Grabs(act))
    BY HandMoves DEF Holds
  <2>2. pc = "BUSY" /\ cmd' = cmd /\ expected_key' = expected_key
        /\ act \notin {"Select", "Freed"} /\ ~aborted
    <3>1. CASE pc = "SELECT" /\ SP \in CommSP
      <4>1. Distance(front, wbin) = 0 /\ SP # "DATAIN_START"
        BY <3>1, NothingYet
      <4>2. QED
        BY <2>1, <4>1, DistanceMoves DEF Holds
    <3>2. CASE pc \in {"BUSY", "FREEING"} /\ cmd' = cmd /\ expected_key' = expected_key
      <4>1. pc = "BUSY"
        BY <1>a, <3>2, SameCommand
      <4>2. QED
        BY <1>a, <1>c, <3>2, <4>1
    <3>3. QED
      BY <1>a, <3>1, <3>2
  <2>3. ~Grabs(act)
    BY <2>1, HandMoves
  <2>4. Got' = Got
    <3>1. Got' = Got + Bit(Grabs(act)) - Bit(Loses)
      BY <2>2, GotMoves
    <3>2. Bit(Grabs(act)) = 0 /\ Bit(Loses) = 0
      BY <1>d, <2>2, <2>3 DEF Bit
    <3>3. QED
      BY <1>g, <3>1, <3>2
  <2>5. ExpectedByte(cmd, Got)' = Due(Got)
    BY <2>2, <2>4 DEF Due, ExpectedByte
  <2>6. CASE Fetches
    <3>1. DBO' = mem[Cell(front)] /\ Distance(front, wbin) >= 1 /\ ~Holds
      BY <2>6, DboMoves, DistanceMoves, HandMoves DEF RDATA
    <3>2. Hand = 0
      BY <3>1 DEF Hand, Holds, Bit
    <3>3. Ahead(front, 0) = front
      BY FrontType, FifoAssumption DEF Ahead, Pointer
    <3>4. mem[Cell(Ahead(front, 0))] = Due(Got + Hand + 0)
      <4>1. 0 \in 0 .. DEPTH - 1 /\ 0 < Distance(front, wbin)
        BY <3>1, Sizes, FifoAssumption
      <4>2. QED
        BY <2>2, <4>1 DEF ValueOK
    <3>5. Got + Hand + 0 = Got
      BY <1>g, <3>2
    <3>6. QED
      BY <2>5, <3>1, <3>3, <3>4, <3>5
  <2>7. CASE ~Fetches
    <3>1. DBO' = DBO /\ Holds
      BY <2>1, <2>7, DboMoves
    <3>2. QED
      BY <1>f, <2>2, <2>5, <3>1 DEF Holds
  <2>8. QED
    BY <2>6, <2>7
<1>4. (SP = "DATAIN_START" /\ ~Taken /\ ~reqn_d => rxbuf = DBO)'
  <2> SUFFICES ASSUME SP' = "DATAIN_START", ~Taken', ~reqn_d' PROVE rxbuf' = DBO'
    OBVIOUS
  <2>1. /\ ~Fetches /\ SP = "DATAIN_START" /\ DBO' = DBO
        /\ rxbuf' = IF ce /\ reqn_d THEN DBO ELSE rxbuf
        /\ ~(ce /\ reqn_d) => ~reqn_d
    BY RxMoves
  <2>2. ~Taken
    BY <2>1, HandMoves DEF Holds
  <2>3. ~reqn_d => rxbuf = DBO
    BY <2>1, <2>2 DEF ValueOK
  <2>4. QED
    BY <2>1, <2>3
<1>5. (~aborted /\ pc = "BUSY" /\ dma_a0 => dma_rxbuf = ExpectedByte(cmd, 2 * brought))'
  <2> SUFFICES ASSUME ~aborted', pc' = "BUSY", dma_a0'
               PROVE  dma_rxbuf' = ExpectedByte(cmd, 2 * brought)'
    OBVIOUS
  <2>1. (Takes /\ ~dma_a0) \/ (dma_a0 /\ ~Takes)
    BY DEF WordMove, Takes
  <2>2. pc = "BUSY" /\ cmd' = cmd /\ expected_key' = expected_key
        /\ act \notin {"Select", "Freed"} /\ ~aborted
    <3>1. pc # "SELECT"
      BY <1>e, <2>1, NothingYet
    <3>2. pc = "BUSY"
      BY <1>a, <3>1, SameCommand
    <3>3. QED
      BY <1>a, <1>c, <3>1, <3>2
  <2>3. brought' = brought
    <3>1. brought' = brought + Bit(M) /\ (M => ~dma_a0 /\ ~Takes)
      BY <2>2, GotMoves
    <3>2. QED
      BY <1>g, <2>1, <3>1 DEF Bit
  <2>4. ExpectedByte(cmd, 2 * brought)' = Due(2 * brought)
    BY <2>2, <2>3 DEF Due, ExpectedByte
  <2>5. CASE Takes /\ ~dma_a0
    <3>1. dma_rxbuf' = rxbuf /\ rxbuf = DBO /\ DBO = Due(Got)
      BY <1>e, <1>f, <2>2, <2>5 DEF WordMove
    <3>2. Got = 2 * brought
      BY <1>e, <2>5, GotIs
    <3>3. QED
      BY <2>4, <3>1, <3>2
  <2>6. CASE dma_a0 /\ ~Takes
    <3>1. dma_rxbuf' = dma_rxbuf
      BY <2>6 DEF WordMove
    <3>2. QED
      BY <2>2, <2>4, <2>6, <3>1 DEF ValueOK
  <2>7. QED
    BY <2>1, <2>5, <2>6
<1>6. (~aborted /\ pc = "BUSY" /\ m_req
         => m_do = <<ExpectedByte(cmd, 2 * brought),
                     ExpectedByte(cmd, 2 * brought + 1)>>)'
  <2> SUFFICES ASSUME ~aborted', pc' = "BUSY", m_req'
               PROVE  m_do' =
                      <<ExpectedByte(cmd, 2 * brought)',
                        ExpectedByte(cmd, 2 * brought + 1)'>>
    OBVIOUS
  <2>1. ~M /\ ((Takes /\ dma_a0) \/ (m_req /\ ~(Takes /\ dma_a0)))
    BY DEF WordMove
  <2>2. pc = "BUSY" /\ cmd' = cmd /\ expected_key' = expected_key
        /\ act \notin {"Select", "Freed"} /\ ~aborted
    <3>1. pc # "SELECT"
      BY <1>e, <2>1, NothingYet
    <3>2. pc = "BUSY"
      BY <1>a, <3>1, SameCommand
    <3>3. QED
      BY <1>a, <1>c, <3>1, <3>2
  <2>3. brought' = brought
    <3>1. brought' = brought + Bit(M)
      BY <2>2, GotMoves
    <3>2. QED
      BY <1>g, <2>1, <3>1 DEF Bit
  <2>4. ExpectedByte(cmd, 2 * brought)' = Due(2 * brought)
        /\ ExpectedByte(cmd, 2 * brought + 1)' = Due(2 * brought + 1)
    BY <2>2, <2>3 DEF Due, ExpectedByte
  <2>5. CASE Takes /\ dma_a0
    <3>1. m_do' = <<dma_rxbuf, rxbuf>> /\ rxbuf = DBO /\ DBO = Due(Got)
      BY <1>e, <1>f, <2>2, <2>5 DEF WordMove
    <3>2. Got = 2 * brought + 1
      BY <1>e, <2>5, GotIs
    <3>3. dma_rxbuf = Due(2 * brought)
      BY <2>2, <2>5 DEF ValueOK
    <3>4. QED
      BY <2>4, <3>1, <3>2, <3>3
  <2>6. CASE m_req /\ ~(Takes /\ dma_a0)
    <3>1. m_do' = m_do
      BY <2>6 DEF WordMove
    <3>2. QED
      BY <2>2, <2>4, <2>6, <3>1 DEF ValueOK
  <2>7. QED
    BY <2>1, <2>5, <2>6
<1>h. pc' \in {"BUSY", "FREEING"} /\ pc = "SELECT" => brought' = 0 /\ pio' = pio
  <2> SUFFICES ASSUME pc' \in {"BUSY", "FREEING"}, pc = "SELECT"
               PROVE  brought' = 0 /\ pio' = pio
    OBVIOUS
  <2>1. act \notin {"Select", "Freed"} /\ brought = 0
    BY <1>a, NothingYet
  <2>2. brought' = brought + Bit(M) /\ ~M
    BY <2>1, GotMoves
  <2>3. pio' = pio
    BY <2>1, GotMoves DEF ProgMove, ProgGuard
  <2>4. QED
    BY <2>1, <2>2, <2>3 DEF Bit
<1>7. (~aborted /\ pc \in {"BUSY", "FREEING"}
         => \A a \in 0 .. MaxWords - 1 : a < brought =>
         kram[a] = <<ExpectedByte(cmd, 2 * a), ExpectedByte(cmd, 2 * a + 1)>>)'
  <2> SUFFICES ASSUME ~aborted', pc' \in {"BUSY", "FREEING"},
                      NEW a \in 0 .. MaxWords - 1, a < brought'
               PROVE  kram'[a] =
                      <<ExpectedByte(cmd, 2 * a)', ExpectedByte(cmd, 2 * a + 1)'>>
    BY DEF brought, Bit
  <2>1. pc \in {"BUSY", "FREEING"} /\ cmd' = cmd /\ expected_key' = expected_key
    BY <1>a, <1>h
  <2>2. act \notin {"Select", "Freed"} /\ ~aborted
    BY <1>a, <1>c
  <2>3. ExpectedByte(cmd, 2 * a)' = Due(2 * a)
        /\ ExpectedByte(cmd, 2 * a + 1)' = Due(2 * a + 1)
    BY <2>1 DEF Due, ExpectedByte
  <2>4. brought' = brought + Bit(M) /\ (M => pc = "BUSY" /\ m_req /\ brought = rf.dma_ka)
    BY <2>2, GotMoves
  <2>5. a < brought => kram[a] = <<Due(2 * a), Due(2 * a + 1)>>
    BY <2>1, <2>2 DEF ValueOK
  <2>6. CASE M
    <3>1. kram' = [kram EXCEPT ![brought] = m_do]
      BY <2>4, <2>6 DEF WordMove
    <3>2. m_do = <<Due(2 * brought), Due(2 * brought + 1)>>
      BY <2>2, <2>4, <2>6 DEF ValueOK
    <3>3. kram \in [0 .. MaxWords - 1 -> {NoWord} \cup Byte \X Byte]
      BY DEF CountOK
    <3>4. CASE a = brought
      BY <2>3, <3>1, <3>2, <3>3, <3>4
    <3>5. CASE a # brought
      <4>1. a < brought
        BY <1>g, <2>4, <2>6, <3>5 DEF Bit
      <4>2. QED
        BY <2>3, <2>5, <3>1, <3>3, <3>5, <4>1
    <3>6. QED
      BY <3>4, <3>5
  <2>7. CASE ~M
    <3>1. kram' = kram
      BY <2>7 DEF WordMove
    <3>2. a < brought
      BY <1>g, <2>4, <2>7 DEF Bit
    <3>3. QED
      BY <2>3, <2>5, <3>1, <3>2
  <2>8. QED
    BY <2>6, <2>7
<1>8. (~aborted /\ pc \in {"BUSY", "FREEING"}
         => \A k \in 1 .. Len(pio) : pio[k] = ExpectedByte(cmd, k - 1))'
  <2> SUFFICES ASSUME ~aborted', pc' \in {"BUSY", "FREEING"}, NEW k \in 1 .. Len(pio')
               PROVE  pio'[k] = ExpectedByte(cmd, k - 1)'
    OBVIOUS
  <2>1. pc \in {"BUSY", "FREEING"} /\ cmd' = cmd /\ expected_key' = expected_key
    <3>1. pc # "SELECT"
      <4> SUFFICES ASSUME pc = "SELECT" PROVE FALSE
        OBVIOUS
      <4>1. pio' = pio /\ Len(pio) = 0
        BY <1>h, NothingYet
      <4>2. QED
        BY <4>1
    <3>2. QED
      BY <1>a, <3>1
  <2>2. act \notin {"Select", "Freed"} /\ ~aborted
    BY <1>a, <1>c
  <2>3. ExpectedByte(cmd, k - 1)' = Due(k - 1)
    BY <2>1 DEF Due, ExpectedByte
  <2>4. \A i \in 1 .. Len(pio) : pio[i] = Due(i - 1)
    BY <2>1, <2>2 DEF ValueOK
  <2>5. CASE act = "Get" /\ phase = "DATAIN"
    <3>1. pio' = Append(pio, DBO) /\ pio \in Seq(Byte)
      BY <2>2, <2>5, GotMoves DEF ByteOK
    <3>2. SP = "DATAIN_START" /\ ~Taken /\ pc = "BUSY" /\ cmd.how = "PIO"
      BY <2>5, GetWhen
    <3>3. DBO = Due(Len(pio)) /\ DBO \in Byte
      BY <1>f, <2>2, <3>2, GotIs DEF ByteOK
    <3>4. Len(pio') = Len(pio) + 1
      BY <3>1, <3>3
    <3>5. CASE k = Len(pio) + 1
      <4>1. pio'[k] = DBO
        BY <3>1, <3>3, <3>5
      <4>2. k - 1 = Len(pio)
        BY <1>g, <3>5
      <4>3. QED
        BY <2>3, <3>3, <4>1, <4>2
    <3>6. CASE k # Len(pio) + 1
      <4>1. k \in 1 .. Len(pio)
        BY <1>g, <3>4, <3>6
      <4>2. pio'[k] = pio[k]
        BY <3>1, <3>3, <4>1
      <4>3. QED
        BY <2>3, <2>4, <4>1, <4>2
    <3>7. QED
      BY <3>5, <3>6
  <2>6. CASE ~(act = "Get" /\ phase = "DATAIN")
    <3>1. pio' = pio
      BY <2>2, <2>6, GotMoves
    <3>2. QED
      BY <2>3, <2>4, <3>1
  <2>7. QED
    BY <2>5, <2>6
<1>9. QED
  BY <1>1, <1>2, <1>3, <1>4, <1>5, <1>6, <1>7, <1>8 DEF ValueOK, Due

-----------------------------------------------------------------------------
(* The program and its registers.                                          *)

(* What the program has set goes with what it does.                        *)
LEMMA ProgStep ==
  ASSUME NEW act, NEW M, PInv, StatesOK, BusOK, ProgOK, HandOK, EngineOK, TurnOK,
         TargetMove, ProgMove(act), HandMove, WordMove(M)
  PROVE  ProgOK'
<1>1. (pc \in {"IDLE", "SELECT", "BUSY", "FREEING", "RESET"})'
  BY DEF StatesOK, BusOK, ProgOK, HandOK, EngineOK, TurnOK, TargetMove, FreeMove,
     StartMove, EndMove, PauseMove, Moves, Starts, Ends, ProgMove, ProgGuard,
     ProgLines, ProgSoft, HandMove, WordMove, Takes, ACK
<1>2. (rf.assert_rst <=> pc = "RESET")'
  BY DEF StatesOK, BusOK, ProgOK, HandOK, EngineOK, TurnOK, TargetMove, FreeMove,
     StartMove, EndMove, PauseMove, Moves, Starts, Ends, ProgMove, ProgGuard,
     ProgLines, ProgSoft, HandMove, WordMove, Takes, ACK
<1>3. (rf.assert_sel <=> pc = "SELECT")'
  BY DEF StatesOK, BusOK, ProgOK, HandOK, EngineOK, TurnOK, TargetMove, FreeMove,
     StartMove, EndMove, PauseMove, Moves, Starts, Ends, ProgMove, ProgGuard,
     ProgLines, ProgSoft, HandMove, WordMove, Takes, ACK
<1>4. (rf.assert_atn => aborted)'
  BY DEF StatesOK, BusOK, ProgOK, HandOK, EngineOK, TurnOK, TargetMove, FreeMove,
     StartMove, EndMove, PauseMove, Moves, Starts, Ends, ProgMove, ProgGuard,
     ProgLines, ProgSoft, HandMove, WordMove, Takes, ACK
<1>5. (aborted => pc \in {"BUSY", "FREEING"})'
  BY DEF StatesOK, BusOK, ProgOK, HandOK, EngineOK, TurnOK, TargetMove, FreeMove,
     StartMove, EndMove, PauseMove, Moves, Starts, Ends, ProgMove, ProgGuard,
     ProgLines, ProgSoft, HandMove, WordMove, Takes, ACK
<1>6. (rf.assert_ack => pc = "BUSY" /\ ~rf.dma_mode)'
  BY DEF StatesOK, BusOK, ProgOK, HandOK, EngineOK, TurnOK, TargetMove, FreeMove,
     StartMove, EndMove, PauseMove, Moves, Starts, Ends, ProgMove, ProgGuard,
     ProgLines, ProgSoft, HandMove, WordMove, Takes, ACK
<1>7. (rf.dma_mode
         => pc = "BUSY" /\ cmd.how = "DMA" /\ rf.assert_lines = Lines("DATAIN"))'
  BY DEF StatesOK, BusOK, ProgOK, HandOK, EngineOK, TurnOK, TargetMove, FreeMove,
     StartMove, EndMove, PauseMove, Moves, Starts, Ends, ProgMove, ProgGuard,
     ProgLines, ProgSoft, HandMove, WordMove, Takes, ACK
<1>8. (rf.dma_en => rf.dma_mode)'
  BY DEF StatesOK, BusOK, ProgOK, HandOK, EngineOK, TurnOK, TargetMove, FreeMove,
     StartMove, EndMove, PauseMove, Moves, Starts, Ends, ProgMove, ProgGuard,
     ProgLines, ProgSoft, HandMove, WordMove, Takes, ACK
<1>9. (rf.dma_mode => rf.dma_en \/ dma_end)'
  BY DEF StatesOK, BusOK, ProgOK, HandOK, EngineOK, TurnOK, TargetMove, FreeMove,
     StartMove, EndMove, PauseMove, Moves, Starts, Ends, ProgMove, ProgGuard,
     ProgLines, ProgSoft, HandMove, WordMove, Takes, ACK
<1>10. (arms = "NONE" \/ given = "NONE")'
  BY DEF StatesOK, BusOK, ProgOK, HandOK, EngineOK, TurnOK, TargetMove, FreeMove,
     StartMove, EndMove, PauseMove, Moves, Starts, Ends, ProgMove, ProgGuard,
     ProgLines, ProgSoft, HandMove, WordMove, Takes, ACK
<1>11. (pc \in {"IDLE", "RESET"} => SP = "FREE" /\ phase = "FREE")'
  BY FreeEmpty DEF StatesOK, BusOK, ProgOK, HandOK, EngineOK, TurnOK, TargetMove,
     FreeMove, StartMove, EndMove, PauseMove, Moves, Starts, Ends, ProgMove,
     ProgGuard, ProgLines, ProgSoft, HandMove, WordMove, Takes, ACK, NothingDue
<1>12. (pc = "SELECT"
          => (SP = "FREE" /\ phase = "FREE") \/ SP = "COMM_BEFOREREQ"
             \/ SP = "COMM_START")'
  BY FreeEmpty DEF StatesOK, BusOK, ProgOK, HandOK, EngineOK, TurnOK, TargetMove,
     FreeMove, StartMove, EndMove, PauseMove, Moves, Starts, Ends, ProgMove,
     ProgGuard, ProgLines, ProgSoft, HandMove, WordMove, Takes, ACK, NothingDue
<1>13. (pc = "BUSY" => ~(SP = "FREE" /\ phase = "FREE") /\ SP # "MSGIN_HOLD")'
  BY DEF StatesOK, BusOK, ProgOK, HandOK, EngineOK, TurnOK, TargetMove, FreeMove,
     StartMove, EndMove, PauseMove, Moves, Starts, Ends, ProgMove, ProgGuard,
     ProgLines, ProgSoft, HandMove, WordMove, Takes, ACK
<1>14. (pc = "BUSY" /\ SP \in {"MSGIN_END", "MSGOUT_END"} => rf.assert_ack)'
  BY DEF StatesOK, BusOK, ProgOK, HandOK, EngineOK, TurnOK, TargetMove, FreeMove,
     StartMove, EndMove, PauseMove, Moves, Starts, Ends, ProgMove, ProgGuard,
     ProgLines, ProgSoft, HandMove, WordMove, Takes, ACK
<1>15. (pc = "FREEING"
          => SP \in {"MSGIN_END", "MSGIN_HOLD", "MSGOUT_END"}
             \/ (SP = "FREE" /\ phase = "FREE"))'
  BY FreeEmpty DEF StatesOK, BusOK, ProgOK, HandOK, EngineOK, TurnOK, TargetMove,
     FreeMove, StartMove, EndMove, PauseMove, Moves, Starts, Ends, ProgMove,
     ProgGuard, ProgLines, ProgSoft, HandMove, WordMove, Takes, ACK, NothingDue
<1>16. (aborted /\ pc = "BUSY" => phase \in {"DATAIN", "MSGOUT"})'
  BY DEF StatesOK, BusOK, ProgOK, HandOK, EngineOK, TurnOK, TargetMove, FreeMove,
     StartMove, EndMove, PauseMove, Moves, Starts, Ends, ProgMove, ProgGuard,
     ProgLines, ProgSoft, HandMove, WordMove, Takes, ACK
<1>17. (rf.assert_atn => pc = "BUSY" /\ SP # "MSGOUT_END")'
  BY DEF StatesOK, BusOK, ProgOK, HandOK, EngineOK, TurnOK, TargetMove, FreeMove,
     StartMove, EndMove, PauseMove, Moves, Starts, Ends, ProgMove, ProgGuard,
     ProgLines, ProgSoft, HandMove, WordMove, Takes, ACK
<1>18. (SP \in {"FREE", "DATAIN_START", "DATAIN_END"} /\ aborted /\ pc = "BUSY"
          => rf.assert_atn)'
  BY DEF StatesOK, BusOK, ProgOK, HandOK, EngineOK, TurnOK, TargetMove, FreeMove,
     StartMove, EndMove, PauseMove, Moves, Starts, Ends, ProgMove, ProgGuard,
     ProgLines, ProgSoft, HandMove, WordMove, Takes, ACK
<1>19. (phase = "MSGOUT" => aborted)'
  BY DEF StatesOK, BusOK, ProgOK, HandOK, EngineOK, TurnOK, TargetMove, FreeMove,
     StartMove, EndMove, PauseMove, Moves, Starts, Ends, ProgMove, ProgGuard,
     ProgLines, ProgSoft, HandMove, WordMove, Takes, ACK
<1>20. (SP = "MSGOUT_START" => (rf.assert_atn <=> ~rf.assert_ack))'
  BY DEF StatesOK, BusOK, ProgOK, HandOK, EngineOK, TurnOK, TargetMove, FreeMove,
     StartMove, EndMove, PauseMove, Moves, Starts, Ends, ProgMove, ProgGuard,
     ProgLines, ProgSoft, HandMove, WordMove, Takes, ACK
<1>21. (rf.dma_mode /\ ~dma_end /\ block_int => phase # "DATAIN" /\ REQ /\ ~reqn_d)'
  BY EngineMatch DEF StatesOK, BusOK, ProgOK, HandOK, EngineOK, TurnOK, TargetMove,
     FreeMove, StartMove, EndMove, PauseMove, Moves, Starts, Ends, ProgMove,
     ProgGuard, ProgLines, ProgSoft, HandMove, WordMove, Takes, ACK
<1>22. QED
  BY <1>1, <1>2, <1>3, <1>4, <1>5, <1>6, <1>7, <1>8, <1>9, <1>10, <1>11, <1>12, <1>13,
     <1>14, <1>15, <1>16, <1>17, <1>18, <1>19, <1>20, <1>21 DEF ProgOK

-----------------------------------------------------------------------------
(* The invariant holds in every clock.                                     *)

(* The first state, by the names.                                          *)
LEMMA InitIs ==
  ASSUME Init
  PROVE  /\ OneAtOnce /\ RegTypes
         /\ strobe = "NONE" /\ pulse = "NONE" /\ given = "NONE" /\ arms = "NONE"
         /\ ~rf.assert_rst /\ ~rf.assert_ack /\ ~rf.assert_sel /\ ~rf.assert_atn
         /\ ~rf.dma_mode /\ ~rf.dma_en /\ rf.dma_ka = 0 /\ rf.dma_byte_cnt = 0
         /\ brought = 0 /\ front = 0 /\ Drained
<1>1. rf = [assert_rst |-> FALSE, assert_ack |-> FALSE, assert_sel |-> FALSE,
           assert_atn |-> FALSE, assert_lines |-> <<FALSE, FALSE, FALSE>>,
           dma_mode |-> FALSE, dma_en |-> FALSE, dma_ka |-> 0, dma_byte_cnt |-> 0,
           pulses |-> {}] /\ armed = {}
  BY DEF Init, KingInit
<1>2. strobes = {} /\ pulses = {}
  BY DEF Init, TargetInit, DriveInit
<1>3. <<FALSE, FALSE, FALSE>> = Lines("FREE")
  BY DEF Lines
<1>4. OneAtOnce
  BY <1>2 DEF OneAtOnce
<1>5. strobe = "NONE" /\ pulse = "NONE" /\ given = "NONE" /\ arms = "NONE"
  BY <1>1, <1>2, TheOne DEF strobe, pulse, given, arms
<1>6. RegTypes
  <2>1. rf \in RegisterFile
    <3> DEFINE free == Lines("FREE")
    <3>1. /\ free \in {Lines("DATAIN"), Lines("FREE")} /\ {} \in RegPulses
          /\ 0 \in Int /\ FALSE \in BOOLEAN
      BY DEF RegPulses
    <3>2. rf = [assert_rst |-> FALSE, assert_ack |-> FALSE, assert_sel |-> FALSE,
           assert_atn |-> FALSE, assert_lines |-> free,
           dma_mode |-> FALSE, dma_en |-> FALSE, dma_ka |-> 0, dma_byte_cnt |-> 0,
           pulses |-> {}]
      BY <1>1, <1>3
    <3> HIDE DEF free
    <3>3. QED
      BY <3>1, <3>2 DEF RegisterFile
  <2>2. QED
    BY <1>1, <2>1 DEF RegTypes, RegPulses
<1>7. brought = 0
  BY <1>1 DEF brought, Bit, Init, KingInit
<1>8. front = 0 /\ Drained
  BY <1>5 DEF front, Drained, Init, FifoInit, TargetInit, DriveInit
<1>9. QED
  BY <1>1, <1>4, <1>5, <1>6, <1>7, <1>8

(* The invariant holds in it, ...                                          *)
LEMMA PathInit ==
  ASSUME Init
  PROVE  PathInv
<1> USE InitIs
<1>a. /\ SP = "FREE" /\ phase = "FREE" /\ REQ = FALSE /\ COMM_POS = 0 /\ DATA_POS = 0
      /\ STAT_PEND = FALSE /\ DOUT_PEND = FALSE /\ FIFO_WR_REQ = FALSE
      /\ CD_WR_OLD = FALSE
      /\ FIFO_D = Unread /\ DBO = ZeroByte /\ rxbuf = ZeroByte /\ dma_rxbuf = ZeroByte
      /\ COMM = [i \in 0 .. 3 |-> 0]
  BY DEF Init, TargetInit
<1>b. /\ tst = "IDLE" /\ STATUS = GOOD /\ sense_key = NO_SENSE /\ CD_WR = FALSE
      /\ cd_wr_d = FALSE
      /\ SD_LBA = 0 /\ SD_RD = FALSE /\ sd_ack_d = FALSE
      /\ datalen = 0 /\ datapos = 0 /\ blkcnt = 0 /\ data_out = FALSE
  BY DEF Init, DriveInit
<1>c. /\ reqn_d = TRUE /\ req_posedge_d = FALSE
      /\ dma_a0 = FALSE /\ dma_rxbuf_rd = FALSE /\ dma_next_word = FALSE
      /\ dma_end = FALSE /\ m_req = FALSE /\ assert_ack_dma = FALSE
      /\ assert_ack_cnt = FALSE
      /\ block_int = FALSE
  BY DEF Init, KingInit
<1>d. /\ wbin = 0 /\ rbin = 0 /\ wq1_rptr = 0 /\ wq2_rptr = 0 /\ rq1_wptr = 0
      /\ rq2_wptr = 0
      /\ WFULL = FALSE /\ REMPTY = TRUE /\ mem = [c \in 0 .. DEPTH - 1 |-> Unread]
  BY DEF Init, FifoInit
<1>e. /\ ce = FALSE /\ SD_ACK = FALSE /\ kram = EmptyKram
      /\ plan \in Plans /\ pc = "IDLE" /\ cmd = NoCommand /\ sent = 0 /\ dout = 0
      /\ pio = <<>>
      /\ result = NoResult /\ expected_key = NO_SENSE /\ aborted = FALSE
  BY DEF Init
<1>1. PInv
  BY PInvInit DEF Init
<1>2. StatesOK
  BY <1>b DEF StatesOK
<1>3. BusOK
  BY <1>a DEF BusOK, Starts, Ends
<1>4. ProgOK
  BY <1>a, <1>b, <1>c, <1>e DEF ProgOK
<1>5. HandOK
  BY <1>a, <1>c, <1>e DEF HandOK, ACK, Starts, Ends
<1>6. EngineOK
  BY <1>c, ChunksFit DEF EngineOK
<1>7. TurnOK
  BY <1>a, <1>b, <1>e DEF TurnOK, Quiet, NothingDue, HostQuiet, DataSP
<1>8. HostOK
  BY <1>b DEF HostOK
<1>9. PaceOK
  BY <1>a, <1>b, <1>d DEF PaceOK
<1>10. SpreadOK
  BY <1>a, <1>d DEF SpreadOK
<1>11. FillOK
  BY <1>b, <1>d DEF FillOK
<1>12. SupplyOK
  BY <1>a, <1>b DEF SupplyOK, Finished
<1>13. CommandOK
  <2>1. plan \in Seq(Askable)
    BY <1>e, PlansAssumption DEF Askable
  <2>2. QED
    BY <1>a, <1>e, <2>1 DEF CommandOK, CommSP
<1>14. DriveOK
  BY <1>b DEF DriveOK, Under
<1>15. StatusOK
  BY <1>a, <1>b, <1>e DEF StatusOK, Begun, Under
<1>16. SenseOK
  BY <1>a, <1>b, <1>e DEF SenseOK, Keys, ReportSP
<1>17. CountOK
  <2>1. kram \in [0 .. MaxWords - 1 -> {NoWord} \cup Byte \X Byte] /\ MaxWords \in Nat
    BY <1>e, CdDriveAssumption DEF EmptyKram
  <2>2. Len(pio) = 0
    BY <1>e
  <2>3. cmd.how = "NONE"
    BY <1>e DEF NoCommand
  <2>4. QED
    BY <1>c, <1>e, <2>1, <2>2, <2>3 DEF CountOK
<1>18. ByteOK
  <2>1. <<>> \in Seq(Byte)
    OBVIOUS
  <2>2. QED
    BY <1>a, <1>c, <1>d, <1>e, <2>1, FifoAssumption DEF ByteOK
<1>19. ValueOK
  BY <1>a, <1>c, <1>e DEF ValueOK
<1>20. QED
  BY <1>1, <1>2, <1>3, <1>4, <1>5, <1>6, <1>7, <1>8, <1>9, <1>10, <1>11, <1>12, <1>13,
     <1>14, <1>15, <1>16, <1>17, <1>18, <1>19 DEF PathInv

(* Each clock, by the parts of the invariant in the order in which they    *)
(* need each other.                                                        *)
LEMMA ClockMoves ==
  ASSUME AbortsAt # "ANY", PathInv, Next
  PROVE  \E act \in Acts, M \in BOOLEAN : Moved(act, M)
<1> USE DEF PathInv
<1>1. OneAtOnce /\ RegTypes /\ AbortsAt # "ANY"
  BY PlansAssumption DEF StatesOK
<1>2. rf.assert_rst => SP = "FREE"
  BY DEF ProgOK
<1>3. tst = "CMD" /\ pulse = "cmd_done" => ~sd_ack_d
  BY DEF HostOK, HostQuiet
<1>4. rf.dma_mode => rf.assert_lines = Lines("DATAIN")
  BY DEF ProgOK
<1>5. TargetMove
  BY <1>1, <1>2, TargetMoves
<1>6. CommMove
  BY <1>1, <1>2, CommMoves
<1>7. DriveMove /\ OneAtOnce'
  BY <1>1, <1>3, DriveMoves
<1>8. StrobeMove
  BY <1>1, StrobeMoves
<1>9. RegTypes' /\ \E act \in Acts : ProgMove(act)
  BY <1>1, ProgMoves
<1>10. HandMove /\ HostMove /\ FifoMove /\ \E M \in BOOLEAN : WordMove(M)
  BY <1>1, <1>4, OtherMoves
<1>11. QED
  BY <1>5, <1>6, <1>7, <1>8, <1>9, <1>10 DEF Moved

(* ... and a clock keeps it.                                               *)
LEMMA PathStep ==
  ASSUME PathInv, NEW act, NEW M, Moved(act, M)
  PROVE  PathInv'
<1>1. /\ PInv /\ StatesOK /\ BusOK /\ ProgOK /\ HandOK /\ EngineOK /\ TurnOK
      /\ TargetMove /\ ProgMove(act) /\ HandMove /\ WordMove(M) /\ FifoMove
  BY DEF PathInv, Moved
<1>2. PInv'
  BY <1>1, OrderStep DEF FifoMove
<1>3. StatesOK'
  BY StatesStep
<1>4. BusOK'
  BY <1>1, BusStep
<1>5. ProgOK'
  BY <1>1, ProgStep
<1>6. HandOK'
  BY <1>1, HandStep
<1>7. EngineOK'
  BY <1>1, EngineStep
<1>8. DriveOK' /\ CommandOK'
  BY DriveStep, CommandStep
<1>9. TurnOK'
  BY <1>8, TurnStep
<1>10. HostOK' /\ PaceOK' /\ SpreadOK'
  BY HostStep, PaceStep, SpreadStep
<1>11. FillOK'
  BY <1>2, <1>4, <1>6, FillStep
<1>12. SupplyOK'
  BY <1>4, <1>10, SupplyStep
<1>13. StatusOK' /\ SenseOK'
  BY StatusStep, SenseStep
<1>14. CountOK'
  BY <1>8, <1>9, CountStep
<1>15. ByteOK' /\ ValueOK'
  BY <1>4, ByteStep, ValueStep
<1>16. QED
  BY <1>2, <1>3, <1>4, <1>5, <1>6, <1>7, <1>8, <1>9, <1>10, <1>11, <1>12, <1>13,
     <1>14, <1>15 DEF PathInv

(* A step in which nothing changes.                                        *)
LEMMA PathStutter ==
  ASSUME PathInv, UNCHANGED vars
  PROVE  PathInv'
<1>a. /\ UNCHANGED <<mem, wbin, rbin, wq1_rptr, wq2_rptr, rq1_wptr, rq2_wptr, WFULL,
                     REMPTY>>
      /\ UNCHANGED <<SP, phase, REQ, COMM, COMM_POS, STAT_PEND, DOUT_PEND, DBO, DATA_POS,
                     strobes, FIFO_D, FIFO_WR_REQ, CD_WR_OLD>>
      /\ UNCHANGED <<tst, pulses, STATUS, sense_key, CD_WR, cd_wr_d, SD_LBA, SD_RD,
                     sd_ack_d, datalen, datapos, blkcnt, data_out, sdbuf_q>>
      /\ UNCHANGED <<rf, armed, reqn_d, req_posedge_d, rxbuf, block_int, assert_ack_dma,
                     assert_ack_cnt>>
      /\ UNCHANGED <<dma_a0, dma_rxbuf, dma_rxbuf_rd, dma_next_word, dma_end, m_req,
                     m_do>>
      /\ UNCHANGED <<ce, SD_ACK, sdbuf, medium_empty, kram>>
      /\ UNCHANGED <<plan, pc, cmd, sent, dout, pio, result, expected_key, aborted>>
  BY DEF vars, fifovars, targetvars, busvars, commvars, pendvars, drivevars, kingvars,
     handvars, ackvars, wordvars, hostvars, softvars
<1>b. strobe' = strobe /\ pulse' = pulse /\ given' = given /\ arms' = arms
  BY <1>a DEF strobe, pulse, given, arms
<1>c. front' = front /\ (Drained' <=> Drained) /\ (HostQuiet' <=> HostQuiet)
      /\ (ACK' <=> ACK)
  BY <1>a, <1>b DEF front, Drained, HostQuiet, ACK
<1>d. (NothingDue' <=> NothingDue) /\ (Quiet' <=> Quiet)
  BY <1>a, <1>b, <1>c DEF NothingDue, Quiet
<1>e. brought' = brought /\ (Taken' <=> Taken)
  BY <1>a DEF brought, Bit, Taken
<1>f. Hand' = Hand /\ Got' = Got
  BY <1>a, <1>e DEF Hand, Got, Bit
<1>g. Distance(front, wbin)' = Distance(front, wbin)
  BY <1>a, <1>c DEF Distance
<1>h. Passed' = Passed
  BY <1>a, <1>f, <1>g DEF Passed, Bit
<1>i. Wrote' = Wrote /\ Total' = Total /\ (Under' <=> Under) /\ Blocks' = Blocks
  BY <1>a, <1>b DEF Wrote, Blocks, Total, ExpectedLength, Under
<1>j. (Fails(cmd)' <=> Fails(cmd)) /\ KeyAfter' = KeyAfter /\ (Begun' <=> Begun)
  BY <1>a, <1>b, <1>i DEF Fails, KeyAfter, Begun
<1>k. \A k : Due(k)' = Due(k)
  BY <1>a DEF Due, ExpectedByte
<1>1. PInv' /\ StatesOK'
  BY <1>a DEF PathInv, PInv, PointersOK, InOrder, Distance, StatesOK, RegTypes,
     OneAtOnce
<1>2. BusOK' /\ ProgOK'
  BY <1>a, <1>b DEF PathInv, BusOK, ProgOK
<1>3. HandOK' /\ EngineOK'
  BY <1>a, <1>b, <1>c DEF PathInv, HandOK, EngineOK
<1>4. TurnOK' /\ HostOK'
  BY <1>a, <1>b, <1>c, <1>d DEF PathInv, TurnOK, HostOK
<1>5. PaceOK' /\ SpreadOK'
  <2>1. After(rq1_wptr)' = After(rq1_wptr) /\ After(wq2_rptr)' = After(wq2_rptr)
    BY <1>a DEF After
  <2>2. PaceOK /\ SpreadOK
    BY DEF PathInv
  <2>3. PaceOK'
    BY <1>a, <1>c, <2>1, <2>2 DEF PaceOK
  <2>4. SpreadOK'
    BY <1>a, <1>b, <2>1, <2>2 DEF SpreadOK
  <2>5. QED
    BY <2>3, <2>4
<1>6. FillOK' /\ SupplyOK'
  BY <1>a, <1>b, <1>c, <1>g DEF PathInv, FillOK, SupplyOK, NoRecentRead, Finished,
     Fresh
<1>7. CommandOK'
  BY <1>a DEF PathInv, CommandOK, Bit, CmdSize, CmdBytes
<1>8. DriveOK'
  BY <1>a, <1>b, <1>i DEF PathInv, DriveOK, Bit
<1>9. StatusOK' /\ SenseOK'
  BY <1>a, <1>b, <1>j DEF PathInv, StatusOK, SenseOK
<1>10. CountOK'
  BY <1>a, <1>b, <1>e, <1>h, <1>i DEF PathInv, CountOK, Bit
<1>11. ByteOK'
  BY <1>a DEF PathInv, ByteOK
<1>12. ValueOK'
  <2>1. ValueOK
    BY DEF PathInv
  <2>2. QED
    BY <1>a, <1>c, <1>e, <1>f, <1>g, <1>h, <1>k, <2>1 DEF ValueOK
<1>13. QED
  BY <1>1, <1>2, <1>3, <1>4, <1>5, <1>6, <1>7, <1>8, <1>9, <1>10, <1>11, <1>12
     DEF PathInv

(* The invariant holds always.                                             *)
LEMMA PathInductive == AbortsAt # "ANY" /\ Spec => []PathInv
<1>1. Init => PathInv
  BY PathInit
<1>2. AbortsAt # "ANY" /\ PathInv /\ [Next]_vars => PathInv'
  <2> SUFFICES ASSUME AbortsAt # "ANY", PathInv, [Next]_vars PROVE PathInv'
    OBVIOUS
  <2>1. CASE Next
    <3>1. PICK act \in Acts, M \in BOOLEAN : Moved(act, M)
      BY <2>1, ClockMoves
    <3>2. QED
      BY <3>1, PathStep
  <2>2. CASE UNCHANGED vars
    BY <2>2, PathStutter
  <2>3. QED
    BY <2>1, <2>2
<1>3. SUFFICES ASSUME AbortsAt # "ANY" PROVE Spec => []PathInv
  OBVIOUS
<1>4. Init => PathInv
  BY <1>1, <1>3
<1>5. PathInv /\ [Next]_vars => PathInv'
  BY <1>2, <1>3
<1>6. QED
  BY <1>4, <1>5, PTL DEF Spec

-----------------------------------------------------------------------------
(* What follows.                                                           *)

(* Nothing comes that was not asked for, in any state of a command.        *)
LEMMA NeverMore ==
  ASSUME PathInv, pc = "BUSY"
  PROVE  Passed <= Total /\ cmd \in Askable /\ Total \in Nat
<1> USE DEF PathInv
<1>1. cmd \in Askable /\ Total \in Nat
  BY Totals DEF CommandOK, Total
<1>2. Passed \in Nat
  BY Sizes
<1>3. CASE tst = "CMD"
  <2>1. CASE pulse = "cmd_start"
    BY <1>1, <1>3, <2>1 DEF CountOK
  <2>2. CASE pulse # "cmd_start" /\ cmd.op # MODE_SELECT
    <3>1. Passed = Wrote /\ Wrote + datalen <= Total /\ datalen \in Nat
      BY <1>3, <2>2 DEF CountOK, Under, DriveOK
    <3>2. QED
      BY <1>1, <1>2, <3>1
  <2>3. CASE pulse # "cmd_start" /\ cmd.op = MODE_SELECT
    <3>1. Passed = datapos /\ datapos = 0
      BY <1>3, <2>3 DEF CountOK, Under, Wrote, TurnOK, MODE_SELECT, READ_10
    <3>2. QED
      BY <1>1, <3>1
  <2>4. QED
    BY <2>1, <2>2, <2>3
<1>4. CASE tst = "DATA_IN"
  BY <1>1, <1>2, <1>4 DEF CountOK, Under
<1>5. CASE tst = "DATA_IN_END"
  BY <1>1, <1>2, <1>5 DEF CountOK, Under
<1>6. CASE tst = "MSG_OUT"
  BY <1>1, <1>2, <1>6 DEF CountOK, Bit
<1>7. CASE tst \in {"DATA_OUT", "STAT"}
  BY <1>1, <1>2, <1>7 DEF CountOK
<1>8. CASE tst = "IDLE"
  <2>1. SP \in CommSP \cup ReportSP \/ SP = "FREE"
    BY <1>8 DEF TurnOK, BusOK, Starts, Ends, CommSP, ReportSP
  <2>2. CASE SP \in CommSP
    BY <1>1, <2>2 DEF CountOK
  <2>3. CASE SP \in ReportSP
    BY <1>1, <1>2, <2>3 DEF CountOK
  <2>4. CASE SP = "FREE"
    <3>1. strobe = "COMM_OUT" \/ pulse = "STAT_GET" \/ STAT_PEND
      BY <1>8, <2>4 DEF TurnOK, ProgOK
    <3>2. QED
      BY <1>1, <1>2, <3>1 DEF CountOK
  <2>5. QED
    BY <2>1, <2>2, <2>3, <2>4
<1>9. QED
  BY <1>3, <1>4, <1>5, <1>6, <1>7, <1>8 DEF StatesOK

(* What has arrived fits the answer.                                       *)
LEMMA ArrivedFits ==
  ASSUME PathInv, pc \in {"BUSY", "FREEING"}
  PROVE  /\ brought \in Nat /\ Len(pio) \in Nat /\ Total \in Nat
         /\ 2 * brought + Len(pio) <= Total
<1>1. brought \in Nat /\ Len(pio) \in Nat
  BY Sizes
<1>2. Total \in Nat
  BY Totals DEF PathInv, CommandOK, Total
<1>3. CASE pc = "BUSY"
  <2>1. Passed <= Total
    BY <1>3, NeverMore
  <2>2. 2 * brought + Len(pio) <= Got
    BY <1>1 DEF Got, Bit
  <2>3. Got <= Passed /\ Got \in Nat /\ Passed \in Nat
    BY Sizes DEF Bit
  <2>4. QED
    BY <1>1, <1>2, <2>1, <2>2, <2>3
<1>4. CASE pc = "FREEING"
  BY <1>1, <1>2, <1>4 DEF PathInv, CountOK
<1>5. QED
  BY <1>1, <1>2, <1>3, <1>4

(* The words in KRAM are those brought.                                    *)
LEMMA WordsAre ==
  ASSUME PathInv
  PROVE  /\ pc \in {"BUSY", "FREEING"} => Words = 0 .. brought - 1
         /\ pc \in {"IDLE", "RESET", "SELECT"} => Words = {} /\ pio = <<>>
<1>1. /\ kram \in [0 .. MaxWords - 1 -> {NoWord} \cup Byte \X Byte]
      /\ brought \in Nat /\ brought <= MaxWords /\ MaxWords \in Nat
  BY Sizes, CdDriveAssumption DEF PathInv, CountOK
<1>2. DOMAIN kram = 0 .. MaxWords - 1
  BY <1>1
<1>3. CASE pc \in {"BUSY", "FREEING"}
  <2>1. \A a \in 0 .. MaxWords - 1 : (kram[a] # NoWord <=> a < brought)
    BY <1>3 DEF PathInv, CountOK
  <2>2. Words = {a \in 0 .. MaxWords - 1 : a < brought}
    BY <1>2, <2>1 DEF Words
  <2>3. QED
    BY <1>1, <1>3, <2>2
<1>4. CASE pc \in {"IDLE", "RESET", "SELECT"}
  <2>1. kram = EmptyKram /\ pio = <<>>
    BY <1>4 DEF PathInv, CountOK
  <2>2. \A a \in DOMAIN kram : kram[a] = NoWord
    BY <2>1 DEF EmptyKram
  <2>3. QED
    BY <1>4, <2>1, <2>2 DEF Words
<1>5. QED
  BY <1>3, <1>4 DEF PathInv, ProgOK

(* What the properties say, from the invariant.                            *)
LEMMA TypesFollow ==
  ASSUME PathInv
  PROVE  TypeOK
<1> USE DEF PathInv
<1>1. FifoTypeOK /\ FIFO_D \in Byte
  BY TypeSplit DEF PInv, ByteOK
<1>2. phase \in {"FREE", "COMMAND", "DATAIN", "DATAOUT", "STATUS", "MSGIN", "MSGOUT"}
  BY DEF BusOK, Starts, Ends
<1>3. strobes \in {{}, {"COMM_OUT"}, {"DATA_OUT"}, {"MSGOUT_OUT"}, {"CD_DATA_END"},
                  {"FIFO_RD_REQ"}}
  BY DEF StatesOK, OneAtOnce
<1>4. COMM_POS \in 0 .. 4
  <2>1. CASE SP \in CommSP
    <3>1. pc \in {"SELECT", "BUSY"} /\ cmd \in Askable
      BY <2>1 DEF ProgOK, CommandOK, CommSP
    <3>2. CmdSize \in 2 .. 4
      BY <3>1, CommandLength DEF CmdSize, CmdBytes
    <3>3. COMM_POS \in Nat /\ (COMM_POS < CmdSize \/ COMM_POS = CmdSize)
      BY <2>1 DEF CommandOK
    <3>4. QED
      BY <3>2, <3>3
  <2>2. CASE SP \notin CommSP
    BY <2>2 DEF CommandOK
  <2>3. QED
    BY <2>1, <2>2
<1>5. DATA_POS \in 0 .. DATA_LEN
  <2>1. DATA_LEN \in Nat
    BY TargetAssumption
  <2>2. QED
    BY <2>1 DEF CommandOK
<1>6. datapos <= datalen
  <2>1. datapos <= datalen \/ pulse = "cmd_start"
    BY DEF TurnOK
  <2>2. pulse = "cmd_start" => tst = "CMD"
    BY DEF TurnOK, NothingDue, StatesOK
  <2>3. tst = "CMD" => datapos = 0
    BY DEF TurnOK
  <2>4. datalen \in Nat
    BY DEF DriveOK
  <2>5. QED
    BY <2>1, <2>2, <2>3, <2>4
<1>7. rf.dma_ka \in 0 .. MaxWords
  BY DEF CountOK
<1>8. rf.dma_byte_cnt \in 0 .. MaxWords
  <2>1. rf.dma_byte_cnt \in Int
    BY DEF StatesOK, RegTypes, RegisterFile
  <2>2. rf.dma_byte_cnt <= MaxWords /\ rf.dma_byte_cnt >= 0
    BY <2>1 DEF EngineOK
  <2>3. QED
    BY <2>1, <2>2, CdDriveAssumption
<1>9. QED
  BY <1>1, <1>2, <1>3, <1>4, <1>5, <1>6, <1>7, <1>8 DEF TypeOK, StatesOK, ProgOK

(* Between two commands all is at rest.                                    *)
LEMMA RestFollows ==
  ASSUME PathInv
  PROVE  AtRest
<1> USE DEF PathInv
<1> SUFFICES ASSUME pc = "IDLE" PROVE AtRest
  BY DEF AtRest
<1>1. SP = "FREE" /\ phase = "FREE" /\ ~rf.dma_mode
  BY DEF ProgOK
<1>2. NothingDue /\ Drained /\ tst = "IDLE"
  BY <1>1 DEF TurnOK
<1>3. strobe # "FIFO_RD_REQ"
  BY <1>1 DEF BusOK
<1>4. REMPTY /\ rbin = wbin /\ ~FIFO_WR_REQ
  BY <1>2, <1>3, DrainedEmpty DEF Drained, front
<1>5. COMM_POS = 0 /\ DATA_POS = 0
  BY <1>1 DEF CommandOK, CommSP
<1>6. ~m_req /\ ~dma_end
  BY <1>1 DEF HandOK, EngineOK
<1>7. QED
  BY <1>1, <1>2, <1>4, <1>5, <1>6 DEF AtRest, NothingDue, HostQuiet

(* What has come is what was asked for, byte by byte.                      *)
LEMMA ExactFollows ==
  ASSUME PathInv
  PROVE  DataExact
<1> USE DEF PathInv
<1> SUFFICES ASSUME ~aborted PROVE DataExact
  BY DEF DataExact
<1>1. CASE pc \in {"BUSY", "FREEING"}
  <2>1. /\ brought \in Nat /\ Len(pio) \in Nat /\ Total \in Nat
        /\ 2 * brought + Len(pio) <= Total
    BY <1>1, ArrivedFits
  <2>2. Words = 0 .. brought - 1
    BY <1>1, WordsAre
  <2>3. \A a \in Words : kram[a] = <<Due(2 * a), Due(2 * a + 1)>>
    <3>1. \A a \in 0 .. MaxWords - 1 : a < brought
            => kram[a] = <<Due(2 * a), Due(2 * a + 1)>>
      BY <1>1 DEF ValueOK
    <3>2. brought <= MaxWords /\ MaxWords \in Nat
      BY CdDriveAssumption DEF CountOK
    <3>3. \A a \in Words : a \in 0 .. MaxWords - 1 /\ a < brought
      BY <2>1, <2>2, <3>2
    <3>4. QED
      BY <3>1, <3>3
  <2>4. \A a \in Words : 2 * a + 1 < Total
    BY <2>1, <2>2
  <2>5. Len(pio) <= Total
    BY <2>1
  <2>6. \A k \in 1 .. Len(pio) : pio[k] = Due(k - 1)
    BY <1>1 DEF ValueOK
  <2>7. QED
    BY <2>3, <2>4, <2>5, <2>6 DEF DataExact, Due, Total
<1>2. CASE pc \in {"IDLE", "RESET", "SELECT"}
  <2>1. Words = {} /\ pio = <<>>
    BY <1>2, WordsAre
  <2>2. ExpectedLength(cmd) \in Nat
    <3>1. CASE pc = "SELECT"
      BY <3>1, Totals DEF CommandOK
    <3>2. CASE pc \in {"IDLE", "RESET"}
      <4>1. cmd.op = -1
        BY <3>2 DEF CommandOK, NoCommand
      <4>2. QED
        BY <4>1 DEF ExpectedLength, READ_10, READ_TOC, READ_HEADER, REQUEST_SENSE
    <3>3. QED
      BY <1>2, <3>1, <3>2
  <2>3. Len(pio) = 0
    BY <2>1
  <2>4. QED
    BY <2>1, <2>2, <2>3 DEF DataExact
<1>3. QED
  BY <1>1, <1>2 DEF ProgOK

(* By the time of the status all of it has come.                           *)
LEMMA StatusFollows ==
  ASSUME PathInv
  PROVE  DataBeforeStatus
<1> USE DEF PathInv
<1>1. result # NoResult
        => result = StatusByte(IF Fails(cmd) THEN CHECK_CONDITION ELSE GOOD)
  BY DEF StatusOK
<1>2. ASSUME REQ, phase = "STATUS", ~aborted, pc = "BUSY"
      PROVE  Received = (IF Fails(cmd) THEN 0 ELSE ExpectedLength(cmd))
  <2>1. SP = "STAT_START"
    BY <1>2 DEF BusOK, Starts
  <2>2. Passed = Total
    BY <1>2, <2>1 DEF CountOK, ReportSP
  <2>3. Drained /\ Hand = 0 /\ ~m_req
    BY <2>1 DEF TurnOK, Quiet, Hand, HandOK, Bit
  <2>4. Distance(front, wbin) = 0 /\ ~FIFO_WR_REQ
    BY <2>3, FrontType, RingFacts DEF Drained
  <2>5. ~dma_a0
    BY <1>2, WholeWords
  <2>6. brought \in Nat /\ Len(pio) \in Nat
    BY Sizes
  <2>7. Total = Len(pio) + 2 * brought
    BY <2>2, <2>3, <2>4, <2>5, <2>6, Sizes DEF Got, Bit
  <2>8. Words = 0 .. brought - 1
    BY <1>2, WordsAre
  <2>9. Cardinality(0 .. brought - 1) = brought
    <3>1. 0 \in Int /\ brought - 1 \in Int
      BY <2>6
    <3>2. Cardinality(0 .. brought - 1) = IF 0 > brought - 1 THEN 0
                                             ELSE brought - 1 - 0 + 1
      BY <3>1, FS_Interval
    <3>3. QED
      BY <2>6, <3>2
  <2>10. Received = ExpectedLength(cmd)
    BY <2>6, <2>7, <2>8, <2>9 DEF Received, Total
  <2>11. Fails(cmd) => ExpectedLength(cmd) = 0
    BY DEF Fails, ExpectedLength, Ops, Reads, READ_10, READ_TOC, READ_HEADER,
       REQUEST_SENSE, TEST_UNIT_READY
  <2>12. QED
    BY <2>10, <2>11
<1>3. QED
  BY <1>1, <1>2 DEF DataBeforeStatus

-----------------------------------------------------------------------------
(* The properties, for a program that aborts a command only while its last *)
(* sector drains (MayAbort), or that never does.  With aborts anywhere     *)
(* AtRest and DataExact are false, and PathInv with them: a byte on its    *)
(* way into the FIFO outlives the abort.                                   *)

(* TypeOK: every register of the path keeps to its values. COMM_POS and    *)
(* the word counter of the DMA never run past their ends, and datapos      *)
(* never past datalen (scsi.v, fake_cd.sv, huc6272_scsi.sv), whatever is   *)
(* asked for.                                                              *)
THEOREM PathTypes == AbortsAt # "ANY" /\ Spec => []TypeOK
<1> SUFFICES ASSUME AbortsAt # "ANY" PROVE Spec => []TypeOK
  OBVIOUS
<1>1. PathInv => TypeOK
  BY TypesFollow
<1>2. Spec => []PathInv
  BY PathInductive
<1>3. QED
  BY <1>1, <1>2, PTL

(* AtRest: when the program is back at IDLE nothing of the command is left *)
(* on the bus, in the FIFO, in the drive or in the engine.                 *)
THEOREM RestBetween == AbortsAt # "ANY" /\ Spec => []AtRest
<1> SUFFICES ASSUME AbortsAt # "ANY" PROVE Spec => []AtRest
  OBVIOUS
<1>1. PathInv => AtRest
  BY RestFollows
<1>2. Spec => []PathInv
  BY PathInductive
<1>3. QED
  BY <1>1, <1>2, PTL

(* DataExact: without an abort, every word that DMA has put into KRAM and  *)
(* every byte that the program has read is the byte of the answer that is  *)
(* due at its place. None is lost, doubled or exchanged on the way from    *)
(* the drive through the FIFO and over the bus.                            *)
THEOREM EveryByteRight == AbortsAt # "ANY" /\ Spec => []DataExact
<1> SUFFICES ASSUME AbortsAt # "ANY" PROVE Spec => []DataExact
  OBVIOUS
<1>1. PathInv => DataExact
  BY ExactFollows
<1>2. Spec => []PathInv
  BY PathInductive
<1>3. QED
  BY <1>1, <1>2, PTL

(* DataBeforeStatus: the status, when it comes, is that of the command,    *)
(* and by the time the target asks to send it the whole answer has         *)
(* arrived.                                                                *)
THEOREM StatusComesLast == AbortsAt # "ANY" /\ Spec => []DataBeforeStatus
<1> SUFFICES ASSUME AbortsAt # "ANY" PROVE Spec => []DataBeforeStatus
  OBVIOUS
<1>1. PathInv => DataBeforeStatus
  BY StatusFollows
<1>2. Spec => []PathInv
  BY PathInductive
<1>3. QED
  BY <1>1, <1>2, PTL

(* The FIFO of the target (fifo1.v) implements a queue of at most DEPTH    *)
(* bytes in the whole path, aborts anywhere included, if what the target   *)
(* writes into it are bytes.                                               *)
THEOREM QueueOfBytes == Spec /\ []TypeOK => FifoIsQueue
<1>1. Init => Queue!Init
  BY QueueInit DEF Init
<1>2. WriteInv /\ TypeOK /\ [Next]_vars => [Queue!Next]_Stored
  <2> SUFFICES ASSUME PInv, Paced, TypeOK, [Next]_vars PROVE [Queue!Next]_Stored
    BY DEF WriteInv
  <2>1. CASE Next
    <3>1. PICK RINC \in BOOLEAN : FifoClock(FIFO_WR_REQ, FIFO_D, RINC)
      BY <2>1, TickWrites
    <3>2. FIFO_WR_REQ \in BOOLEAN /\ FIFO_D \in Byte /\ FifoTypeOK /\ InOrder
      BY DEF Paced, TypeOK, PInv
    <3>3. QED
      BY <3>1, <3>2, QueueStep
  <2>2. CASE UNCHANGED vars
    BY <2>2, QueueStutter DEF vars
  <2>3. QED
    BY <2>1, <2>2
<1>3. QED
  BY <1>1, <1>2, WriteInductive, PTL DEF Spec, FifoIsQueue, Queue!Spec

(* And bytes they are, if aborts come only while the last sector drains:   *)
(* the FIFO between drive and initiator is a queue.                        *)
THEOREM DriveFifoIsQueue == AbortsAt # "ANY" /\ Spec => FifoIsQueue
BY QueueOfBytes, PathTypes, PTL
=============================================================================
