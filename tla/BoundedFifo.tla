---------------------------- MODULE BoundedFifo ----------------------------
(***************************************************************************)
(* What spsc_ring_queue promises: a FIFO of at most Bound values.           *)
(***************************************************************************)
EXTENDS Naturals, Sequences

CONSTANTS Values, Bound

VARIABLE contents

Init == contents = <<>>

Put == \E v \in Values : /\ Len(contents) < Bound
                         /\ contents' = Append(contents, v)

Take == contents # <<>> /\ contents' = Tail(contents)

Next == Put \/ Take

Spec == Init /\ [][Next]_contents
=============================================================================
