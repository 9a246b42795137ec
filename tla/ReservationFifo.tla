-------------------------- MODULE ReservationFifo --------------------------
(***************************************************************************)
(* What mpsc_ring_queue promises, without cells, indices or sequence       *)
(* numbers: a bounded FIFO whose order is the order of reservations.  A    *)
(* producer reserves a place at the back, completes it later, and the      *)
(* consumer takes the front place once it is complete.                     *)
(***************************************************************************)
EXTENDS Naturals, Sequences

CONSTANTS Values, Capacity

VARIABLES
    places,     \* reserved places, oldest first: [value, complete]
    delivered   \* values taken, in order

Init == places = <<>> /\ delivered = <<>>

Reserve(v) ==
    /\ Len(places) < Capacity
    /\ places' = Append(places, [value |-> v, complete |-> FALSE])
    /\ UNCHANGED delivered

Complete(i) ==
    /\ ~places[i].complete
    /\ places' = [places EXCEPT ![i].complete = TRUE]
    /\ UNCHANGED delivered

Take ==
    /\ places # <<>> /\ Head(places).complete
    /\ delivered' = Append(delivered, Head(places).value)
    /\ places' = Tail(places)

Next ==
    \/ \E v \in Values : Reserve(v)
    \/ \E i \in 1 .. Len(places) : Complete(i)
    \/ Take

Spec == Init /\ [][Next]_<<places, delivered>>
=============================================================================
