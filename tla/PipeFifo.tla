------------------------------ MODULE PipeFifo ------------------------------
(***************************************************************************)
(* What a pipe promises its readers and writers: one queue of at most      *)
(* Capacity bytes.  A write adds bytes at the end, in pieces when they do  *)
(* not fit; a read takes bytes from the front and delivers them in order.  *)
(* A read whose buffer faults loses the byte it could not store.           *)
(***************************************************************************)
EXTENDS Naturals, Sequences

CONSTANTS Bytes, Capacity

VARIABLES
    q,      \* the bytes in the pipe, oldest first
    got,    \* what the read that just ended delivered, if a read did
    live    \* whether the pipe still exists

fifoVars == <<q, got, live>>

FifoInit == q = <<>> /\ got = <<>> /\ live = TRUE

Put ==
    /\ live
    /\ \E k \in 1..(Capacity - Len(q)) : \E s \in [1..k -> Bytes] : q' = q \o s
    /\ got' = <<>> /\ UNCHANGED live

Take ==
    /\ live
    /\ \E k \in 0..Len(q), lost \in {0, 1} :
         /\ k + lost <= Len(q)
         /\ got' = SubSeq(q, 1, k)
         /\ q' = SubSeq(q, k + lost + 1, Len(q))
    /\ UNCHANGED live

Free == live /\ live' = FALSE /\ got' = <<>> /\ UNCHANGED q

Quiet == got' = <<>> /\ UNCHANGED <<q, live>>

FifoNext == Put \/ Take \/ Free \/ Quiet

FifoSpec == FifoInit /\ [][FifoNext]_fifoVars
=============================================================================
