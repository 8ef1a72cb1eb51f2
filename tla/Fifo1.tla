------------------------------- MODULE Fifo1 -------------------------------
(***************************************************************************)
(* The FIFO of the SCSI target (fifo1.v).  It is built for two clocks:     *)
(* each side has a pointer, and sees the other side's pointer through two  *)
(* registers, so that its FULL or EMPTY flag is old.  Here both sides have *)
(* the same clock (scsi.v), and a step is one edge of it.                  *)
(*                                                                         *)
(* Pointers count modulo 2 * DEPTH.  The code keeps each in binary and in  *)
(* Gray code; the two say the same, and a pointer here is the number.      *)
(*                                                                         *)
(* A definition named X_Y is X with a plausible mistake Y; it is not part  *)
(* of the specification, and shows that a property would notice.           *)
(***************************************************************************)
EXTENDS Integers, Sequences

CONSTANTS
  Byte,     \* what the FIFO stores
  Unread,   \* what a cell holds before it is first written
  DEPTH     \* number of cells; 64 in the code

ASSUME FifoAssumption == DEPTH \in Nat /\ DEPTH >= 1 /\ Unread \in Byte

VARIABLES
  mem,                  \* the cells
  wbin, rbin,           \* next cell to write and to read
  wq1_rptr, wq2_rptr,   \* rbin, on its way to the writing side
  rq1_wptr, rq2_wptr,   \* wbin, on its way to the reading side
  WFULL, REMPTY

fifovars == <<mem, wbin, rbin, wq1_rptr, wq2_rptr, rq1_wptr, rq2_wptr, WFULL, REMPTY>>

Pointer == 0 .. 2 * DEPTH - 1

After(p) == IF p = 2 * DEPTH - 1 THEN 0 ELSE p + 1
Cell(p) == IF p < DEPTH THEN p ELSE p - DEPTH

(* With the top bit alone compared, the place is mirrored.                 *)
Opposite_TopBitOnly(p) == 2 * DEPTH - 1 - p

(* The pointer DEPTH ahead: its Gray code differs in the top two bits.     *)
Opposite(p) == IF p < DEPTH THEN p + DEPTH ELSE p - DEPTH

RDATA == mem[Cell(rbin)]

wbinnext(WINC) == IF WINC /\ ~WFULL THEN After(wbin) ELSE wbin
rbinnext(RINC) == IF RINC /\ ~REMPTY THEN After(rbin) ELSE rbin

WrittenMem(WINC, WDATA) ==
  IF WINC /\ ~WFULL THEN [mem EXCEPT ![Cell(wbin)] = WDATA] ELSE mem

FifoInit ==
  /\ mem = [c \in 0 .. DEPTH - 1 |-> Unread]
  /\ wbin = 0 /\ rbin = 0
  /\ wq1_rptr = 0 /\ wq2_rptr = 0 /\ rq1_wptr = 0 /\ rq2_wptr = 0
  /\ WFULL = FALSE /\ REMPTY = TRUE

FifoClock(WINC, WDATA, RINC) ==
  /\ mem' = WrittenMem(WINC, WDATA)
  /\ wbin' = wbinnext(WINC)
  /\ rbin' = rbinnext(RINC)
  /\ wq1_rptr' = rbin /\ wq2_rptr' = wq1_rptr
  /\ rq1_wptr' = wbin /\ rq2_wptr' = rq1_wptr
  /\ WFULL' = (wbinnext(WINC) = Opposite(wq2_rptr))
  /\ REMPTY' = (rbinnext(RINC) = rq2_wptr)

(* The bytes written and not yet read, oldest first.                       *)
Distance(p, q) == IF q >= p THEN q - p ELSE q - p + 2 * DEPTH
Ahead(p, n) == IF p + n < 2 * DEPTH THEN p + n ELSE p + n - 2 * DEPTH
Stored == [i \in 1 .. Distance(rbin, wbin) |-> mem[Cell(Ahead(rbin, i - 1))]]

-----------------------------------------------------------------------------
(* The FIFO by itself, with any writer and any reader.                     *)

FifoNext == \E WINC, RINC \in BOOLEAN, WDATA \in Byte : FifoClock(WINC, WDATA, RINC)

FifoSpec == FifoInit /\ [][FifoNext]_fifovars

FifoTypeOK ==
  /\ mem \in [0 .. DEPTH - 1 -> Byte]
  /\ {wbin, rbin, wq1_rptr, wq2_rptr, rq1_wptr, rq2_wptr} \subseteq Pointer
  /\ {WFULL, REMPTY} \subseteq BOOLEAN

(* The pointers in the order in which they trail each other around the     *)
(* ring, with the flags that keep them in order.                           *)
InOrder ==
  LET from(p) == Distance(wq2_rptr, p)
  IN /\ from(wq1_rptr) <= from(rbin)
     /\ from(rbin) <= from(rq2_wptr)
     /\ from(rq2_wptr) <= from(rq1_wptr)
     /\ from(rq1_wptr) <= from(wbin)
     /\ from(wbin) <= DEPTH
     /\ ~REMPTY => from(rbin) < from(rq2_wptr)
     /\ ~WFULL => from(wbin) < DEPTH

(* A flag that is down tells the truth, old as it may be: there is a byte  *)
(* to read when REMPTY is low, and a free cell when WFULL is low.          *)
FlagsSafe ==
  /\ ~REMPTY => Distance(rbin, wbin) > 0
  /\ ~WFULL => Distance(rbin, wbin) < DEPTH

Queue == INSTANCE ByteQueue WITH queue <- Stored

(* The FIFO is a queue of at most DEPTH bytes (ByteQueue), for the         *)
(* pointers, flags and synchronizers of fifo1.v.                           *)
FifoIsQueue == Queue!Spec
=============================================================================
