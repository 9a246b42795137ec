---------------------------- MODULE ClosableFifo ----------------------------
(***************************************************************************)
(* What the two blocking queues promise, without mutexes, condition        *)
(* variables or threads: a FIFO that takes values until it is closed, never *)
(* holds more than Bound of them, can be drained after it is closed, and is *)
(* drained as long as its consumers keep asking.                            *)
(***************************************************************************)
EXTENDS Naturals, Sequences

CONSTANTS Values, Bound

VARIABLES contents, closed, delivered

Init == contents = <<>> /\ closed = FALSE /\ delivered = <<>>

Put(v) ==
    /\ ~closed /\ Len(contents) < Bound
    /\ contents' = Append(contents, v)
    /\ UNCHANGED <<closed, delivered>>

Take ==
    /\ contents # <<>>
    /\ delivered' = Append(delivered, Head(contents))
    /\ contents' = Tail(contents)
    /\ UNCHANGED closed

Close == closed' = TRUE /\ UNCHANGED <<contents, delivered>>

Next == Take \/ Close \/ \E v \in Values : Put(v)

Spec == Init /\ [][Next]_<<contents, closed, delivered>>

FairSpec == Spec /\ WF_<<contents, closed, delivered>>(Take)
=============================================================================
