----------------------------- MODULE ViewMemory -----------------------------
(***************************************************************************)
(* The C++ memory model as the queues need it: relaxed, acquire and release *)
(* accesses and atomic read-modify-writes.  Every location keeps the        *)
(* messages written to it in modification order.  A thread has a view: the  *)
(* newest message of each location that happens before its next step.  It   *)
(* may read that message or any later one; a release store hands its view   *)
(* on to the acquire loads that read it.                                   *)
(***************************************************************************)
EXTENDS Naturals, Sequences

CONSTANTS
    Threads,
    Locations

VARIABLES
    memory,   \* memory[l]: the messages of l, each a value with a view
    view      \* view[t][l]: position in memory[l]

Nothing == [l \in Locations |-> 1]   \* the view of the initial messages

\* What the constructor writes happens before everything.
StartWith(initial) ==
    /\ memory = [l \in Locations |->
                   <<[value |-> initial[l], view |-> Nothing]>>]
    /\ view = [t \in Threads |-> Nothing]

Newest(l) == Len(memory[l])
Value(l) == memory[l][Newest(l)].value
UpToDate(t, l) == view[t][l] = Newest(l)
Visible(t, l) == view[t][l] .. Newest(l)

Join(a, b) == [l \in Locations |-> IF a[l] >= b[l] THEN a[l] ELSE b[l]]

\* Thread t reads the i-th message of l.
Load(t, l, i, order) ==
    LET own == [view[t] EXCEPT ![l] = i]
    IN  /\ view' = [view EXCEPT ![t] =
                      IF order = "acquire" THEN Join(own, memory[l][i].view)
                                           ELSE own]
        /\ UNCHANGED memory

\* Thread t writes v to l, after everything that was written to it.
Store(t, l, v, order) ==
    LET own == [view[t] EXCEPT ![l] = Newest(l) + 1]
    IN  /\ view' = [view EXCEPT ![t] = own]
        /\ memory' = [memory EXCEPT ![l] =
              Append(@, [value |-> v,
                         view |-> IF order = "release" THEN own ELSE Nothing])]
=============================================================================
