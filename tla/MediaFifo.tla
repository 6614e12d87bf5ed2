------------------------------ MODULE MediaFifo ------------------------------
(***************************************************************************)
(* What one media of a PacketQueue promises, without slots, indices, locks *)
(* or threads (output-queue.md section 2 and output-queue-contract.md,     *)
(* "Acceptance"): packets leave in the order they were accepted; at most   *)
(* Capacity wait; only kLatest loses any, and then always the oldest; none *)
(* is accepted once the media is closed.                                   *)
(*                                                                         *)
(* Packets are numbered in the order they are accepted, so the queue is    *)
(* the interval oldest+1 .. newest.                                        *)
(***************************************************************************)
EXTENDS Integers

CONSTANT Capacity     \* how many packets may wait

VARIABLES oldest,     \* the last packet that left the queue
          newest,     \* the last packet accepted
          taken,      \* the last packet the consumer got
          closed,     \* end of stream was marked
          lossy       \* a full queue gives up its oldest packet (fixed)

vars == <<oldest, newest, taken, closed, lossy>>

Init == lossy \in BOOLEAN /\ oldest = 0 /\ newest = 0 /\ taken = 0 /\ closed = FALSE

Put ==
    /\ ~closed
    /\ newest - oldest < Capacity
    /\ newest' = newest + 1
    /\ UNCHANGED <<oldest, taken, closed>>

PutOverOldest ==
    /\ lossy
    /\ ~closed
    /\ newest - oldest = Capacity
    /\ oldest' = oldest + 1
    /\ newest' = newest + 1
    /\ UNCHANGED <<taken, closed>>

Take ==
    /\ oldest < newest
    /\ taken' = oldest + 1
    /\ oldest' = oldest + 1
    /\ UNCHANGED <<newest, closed>>

Close ==
    /\ closed' = TRUE
    /\ UNCHANGED <<oldest, newest, taken>>

Next == UNCHANGED lossy /\ (Put \/ PutOverOldest \/ Take \/ Close)

Spec == Init /\ [][Next]_vars
=============================================================================
