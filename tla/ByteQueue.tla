----------------------------- MODULE ByteQueue -----------------------------
(***************************************************************************)
(* What the FIFO between the CD drive and the SCSI target promises: a      *)
(* queue of at most DEPTH bytes.  In one clock cycle a byte may be taken   *)
(* at its head, one appended at its tail, or both; what comes out is what  *)
(* went in, once each and in order.                                        *)
(***************************************************************************)
EXTENDS Naturals, Sequences

CONSTANTS Byte, DEPTH

VARIABLE queue

Init == queue = <<>>

Rest(take) == IF take THEN Tail(queue) ELSE queue

Clock(take, put, byte) ==
  /\ take => queue # <<>>
  /\ put => Len(queue) < DEPTH
  /\ queue' = IF put THEN Append(Rest(take), byte) ELSE Rest(take)

Next == \E take, put \in BOOLEAN, byte \in Byte : Clock(take, put, byte)

Spec == Init /\ [][Next]_queue
=============================================================================
