--------------------------- MODULE MpscRingQueue ---------------------------
(***************************************************************************)
(* obz::mpsc_ring_queue: a bounded ring shared by several producers and    *)
(* one consumer.  A step is one access to an atomic (write_index_,         *)
(* read_index_ or the sequence of a cell) or one access to the raw storage *)
(* of a cell; steps of different threads interleave in one total order.    *)
(* Positions are unbounded naturals: the README of the queue makes it a    *)
(* part of the contract that the counters do not wrap around.              *)
(***************************************************************************)
EXTENDS Naturals, Sequences

CONSTANTS
    Producers,   \* threads that call try_push / try_emplace
    Capacity,    \* the template parameter Capacity
    MaxPushes,   \* bound: values each producer manages to push
    Raw,         \* content of storage in which no object lives
    Moved        \* content of storage whose object has been moved from

Values == Producers \X (1 .. MaxPushes)   \* <<p, k>> is the k-th value p pushes

ASSUME CapacityAssumption == Capacity \in Nat \ {0}
ASSUME MaxPushesAssumption == MaxPushes \in Nat
ASSUME StorageAssumption ==
    Raw \notin Values /\ Moved \notin Values /\ Raw # Moved

VARIABLES
    write_index, read_index,  \* the two shared indices
    sequence,                 \* sequence[c]: the atomic sequence of cell c
    storage,                  \* storage[c]: what lives in cell c
    pc, write,                \* producers: next step, local `write`
    cpc, read, clearing,      \* consumer: next step, local `read`, in clear()
    pushed,                   \* pushed[p]: pushes of p that returned true
    reserved,                 \* history: values in the order of their claims
    retired                   \* history: values moved out or destroyed

producerVars == <<pc, write, pushed>>
consumerVars == <<cpc, read, clearing>>
shared == <<write_index, read_index, sequence, storage>>
history == <<reserved, retired>>
vars == <<producerVars, consumerVars, shared, history>>

Cells == 0 .. Capacity - 1
SlotOf(n) == n % Capacity
ValueOf(p) == <<p, pushed[p] + 1>>

ProducerSteps ==
    {"idle", "reload", "loadSequence", "cas", "construct", "publish"}
ConsumerSteps ==
    {"idle", "loadSequence", "move", "destroy", "storeRead", "release"}

Init ==
    /\ write_index = 0 /\ read_index = 0
    /\ sequence = [c \in Cells |-> c]
    /\ storage = [c \in Cells |-> Raw]
    /\ pc = [p \in Producers |-> "idle"]
    /\ write = [p \in Producers |-> 0]
    /\ cpc = "idle" /\ read = 0 /\ clearing = FALSE
    /\ pushed = [p \in Producers |-> 0]
    /\ reserved = <<>> /\ retired = <<>>

-----------------------------------------------------------------------------
(* Producers: try_emplace. *)

GoTo(p, step) == pc' = [pc EXCEPT ![p] = step]

\* The call begins by loading write_index_.  clear() and the destructor need
\* external synchronization: no push starts while they run.
Begin(p) ==
    /\ pc[p] = "idle" /\ pushed[p] < MaxPushes /\ ~clearing
    /\ write' = [write EXCEPT ![p] = write_index]
    /\ GoTo(p, "loadSequence")
    /\ UNCHANGED <<consumerVars, shared, pushed, history>>

\* diff > 0: another producer moved write_index_; load it again.
Reload(p) ==
    /\ pc[p] = "reload"
    /\ write' = [write EXCEPT ![p] = write_index]
    /\ GoTo(p, "loadSequence")
    /\ UNCHANGED <<consumerVars, shared, pushed, history>>

\* Faulty: room is computed from the indices, as spsc_ring_queue does.
FreeByIndex(p, seen) == write[p] < read_index + Capacity

\* Faulty: any cell that is not free for this position counts as full.
TakenIsFull(p, seen) == seen # write[p]

\* diff == 0 and diff < 0 at lines 47 and 58.
Free(p, seen) == seen = write[p]
Full(p, seen) == seen < write[p]

\* The cell is free for this position, or the call returns false (full),
\* or the position is taken.
LoadSequence(p) ==
    /\ pc[p] = "loadSequence"
    /\ LET seen == sequence[SlotOf(write[p])]
       IN  \/ Free(p, seen) /\ GoTo(p, "cas")
           \/ Full(p, seen) /\ GoTo(p, "idle")
           \/ seen > write[p] /\ GoTo(p, "reload")
    /\ UNCHANGED <<consumerVars, shared, write, pushed, history>>

\* compare_exchange_weak succeeds: p owns the position.
Claim(p) ==
    /\ pc[p] = "cas" /\ write_index = write[p]
    /\ write_index' = write_index + 1
    /\ reserved' = Append(reserved, ValueOf(p))
    /\ GoTo(p, "construct")
    /\ UNCHANGED <<consumerVars, read_index, sequence, storage, write, pushed,
                   retired>>

\* compare_exchange_weak fails, possibly spuriously, and reloads `write`.
ClaimFails(p) ==
    /\ pc[p] = "cas"
    /\ write' = [write EXCEPT ![p] = write_index]
    /\ GoTo(p, "loadSequence")
    /\ UNCHANGED <<consumerVars, shared, pushed, history>>

\* Faulty: the slot, or the number, is computed from write_index_ again,
\* which other producers may have moved on.
SharedSlot(p) == SlotOf(write_index - 1)
SharedNumber(p) == write_index

Current(p) == SlotOf(write[p])
NextNumber(p) == write[p] + 1

\* std::construct_at, whatever the storage holds.
Construct(p) ==
    /\ pc[p] = "construct"
    /\ storage' = [storage EXCEPT ![Current(p)] = ValueOf(p)]
    /\ GoTo(p, "publish")
    /\ UNCHANGED <<consumerVars, write_index, read_index, sequence, write,
                   pushed, history>>

Publish(p) ==
    /\ pc[p] = "publish"
    /\ sequence' = [sequence EXCEPT ![Current(p)] = NextNumber(p)]
    /\ pushed' = [pushed EXCEPT ![p] = @ + 1]
    /\ GoTo(p, "idle")
    /\ UNCHANGED <<consumerVars, write_index, read_index, storage, write,
                   history>>

Produce(p) ==
    \/ Begin(p) \/ Reload(p) \/ LoadSequence(p)
    \/ Claim(p) \/ ClaimFails(p) \/ Construct(p) \/ Publish(p)

-----------------------------------------------------------------------------
(* The consumer: try_pop, and clear, which is also the destructor. *)

Idle == \A p \in Producers : pc[p] = "idle"

TryPop ==
    /\ cpc = "idle"
    /\ read' = read_index
    /\ cpc' = "loadSequence"
    /\ UNCHANGED <<producerVars, clearing, shared, history>>

Clear ==
    /\ cpc = "idle" /\ Idle
    /\ read' = read_index
    /\ cpc' = "loadSequence" /\ clearing' = TRUE
    /\ UNCHANGED <<producerVars, shared, history>>

\* Faulty: a claimed position counts as available.
AvailableByIndex == read < write_index

Available == sequence[SlotOf(read)] = read + 1

PopLoadSequence ==
    /\ cpc = "loadSequence" /\ Available
    /\ cpc' = IF clearing THEN "destroy" ELSE "move"
    /\ UNCHANGED <<producerVars, read, clearing, shared, history>>

\* try_pop returns false; clear() leaves its loop.
PopStops ==
    /\ cpc = "loadSequence" /\ ~Available
    /\ cpc' = "idle" /\ clearing' = FALSE
    /\ UNCHANGED <<producerVars, read, shared, history>>

MoveOut ==
    /\ cpc = "move"
    /\ retired' = Append(retired, storage[SlotOf(read)])
    /\ storage' = [storage EXCEPT ![SlotOf(read)] = Moved]
    /\ cpc' = "destroy"
    /\ UNCHANGED <<producerVars, read, clearing, write_index, read_index,
                   sequence, reserved>>

Destroy ==
    /\ cpc = "destroy"
    /\ retired' = IF clearing THEN Append(retired, storage[SlotOf(read)])
                              ELSE retired
    /\ storage' = [storage EXCEPT ![SlotOf(read)] = Raw]
    /\ cpc' = "storeRead"
    /\ UNCHANGED <<producerVars, read, clearing, write_index, read_index,
                   sequence, reserved>>

StoreRead ==
    /\ cpc = "storeRead"
    /\ read_index' = read + 1
    /\ cpc' = "release"
    /\ UNCHANGED <<producerVars, read, clearing, write_index, sequence,
                   storage, history>>

\* The cell goes back to the producers; clear() goes on with ++read.
ReleaseCell ==
    /\ cpc = "release"
    /\ sequence' = [sequence EXCEPT ![SlotOf(read)] = read + Capacity]
    /\ IF clearing THEN read' = read + 1 /\ cpc' = "loadSequence"
                   ELSE read' = read /\ cpc' = "idle"
    /\ UNCHANGED <<producerVars, clearing, write_index, read_index, storage,
                   history>>

Consume ==
    \/ TryPop \/ Clear \/ PopLoadSequence \/ PopStops
    \/ MoveOut \/ Destroy \/ StoreRead \/ ReleaseCell

Next == Consume \/ \E p \in Producers : Produce(p)

Spec == Init /\ [][Next]_vars

-----------------------------------------------------------------------------
(* What the queue guarantees. *)

\* Each variable has its type.
TypeOK ==
    /\ write_index \in Nat /\ read_index \in Nat /\ read \in Nat
    /\ sequence \in [Cells -> Nat]
    /\ storage \in [Cells -> Values \cup {Raw, Moved}]
    /\ pc \in [Producers -> ProducerSteps]
    /\ write \in [Producers -> Nat]
    /\ cpc \in ConsumerSteps /\ clearing \in BOOLEAN
    /\ pushed \in [Producers -> Nat]
    /\ reserved \in Seq(Values)
    /\ retired \in Seq(Values)

\* The number of cells the consumer has given back: read_index_ is stored
\* before the cell is released (lines 99 and 100).
Released == IF cpc = "release" THEN read ELSE read_index

\* The sequence numbers protect the storage: a producer constructs only in
\* storage where no object lives, and the consumer moves from, or clear()
\* destroys, only a complete object.
StorageSafe ==
    /\ \A p \in Producers :
         pc[p] = "construct" => storage[SlotOf(write[p])] = Raw
    /\ cpc = "move" \/ (cpc = "destroy" /\ clearing)
         => storage[SlotOf(read)] \in Values

\* No two threads are about to touch the storage of the same cell, so the
\* accesses at lines 65, 96 and 97 never race.
NoStorageRace ==
    LET Touches(p, c) == pc[p] = "construct" /\ SlotOf(write[p]) = c
        ConsumerTouches(c) == cpc \in {"move", "destroy"} /\ SlotOf(read) = c
    IN  \A c \in Cells : \A p \in Producers : Touches(p, c) =>
          /\ ~ConsumerTouches(c)
          /\ \A q \in Producers \ {p} : ~Touches(q, c)

\* Values leave in the order in which producers claimed positions: nothing
\* is skipped, lost, duplicated or overtaken.
Fifo ==
    /\ Len(retired) <= Len(reserved)
    /\ \A i \in 1 .. Len(retired) : retired[i] = reserved[i]

\* Every claimed value that has not left is in its cell, or its producer is
\* just about to construct it there.
NothingLost ==
    \A n \in Len(retired) .. write_index - 1 :
        \/ storage[SlotOf(n)] = reserved[n + 1]
        \/ \E p \in Producers : /\ pc[p] = "construct" /\ write[p] = n
                                /\ ValueOf(p) = reserved[n + 1]

\* A push returns false only at a moment at which all cells are claimed or
\* not yet given back.
RefusedOnlyWhenFull ==
    [][\A p \in Producers :
         pc[p] = "loadSequence" /\ pc'[p] = "idle"
           => write_index = Released + Capacity]_vars

\* A pop returns false only when nothing is claimed, or while the producer
\* that claimed the oldest position is still constructing: a delayed
\* producer is the only thing that hides a later value.
PopFailsOnlyBehindProducer ==
    [][cpc = "loadSequence" /\ cpc' = "idle" =>
         \/ read_index = write_index
         \/ \E p \in Producers : /\ pc[p] \in {"construct", "publish"}
                                 /\ write[p] = read_index]_vars

\* clear() leaves nothing behind: every claimed value has left.
ClearEmpties ==
    [][clearing /\ ~clearing' =>
         read_index = write_index /\ Len(retired) = Len(reserved)]_vars

\* The queue implements ReservationFifo: a claim reserves a place, the store
\* of the sequence completes it, and moving out (or destroying) takes it.
Places ==
    [i \in 1 .. write_index - Len(retired) |->
        LET n == Len(retired) + i - 1
        IN  [value |-> reserved[n + 1],
             complete |-> sequence[SlotOf(n)] = n + 1]]

Promise == INSTANCE ReservationFifo
               WITH places <- Places, delivered <- retired

ImplementsReservationFifo == Promise!Spec

-----------------------------------------------------------------------------
(* Fairness: threads keep running, the consumer keeps polling, a refused    *)
(* push is retried, clear() does not shut a producer out for ever, and a    *)
(* weak compare-exchange does not fail spuriously for ever.                 *)

PopStep ==
    TryPop \/ PopLoadSequence \/ PopStops
    \/ MoveOut \/ Destroy \/ StoreRead \/ ReleaseCell

Fairness ==
    /\ WF_vars(PopStep)
    /\ \A p \in Producers :
         WF_vars(Produce(p)) /\ SF_vars(Begin(p)) /\ SF_vars(Claim(p))

\* Every value a producer has to push leaves the queue in the end, however
\* often the queue is full and however producers contend.
EveryValueLeaves ==
    \A p \in Producers : \A k \in 1 .. MaxPushes :
        <>(\E i \in 1 .. Len(retired) : retired[i] = <<p, k>>)

-----------------------------------------------------------------------------
(* Why it works, for Capacity >= 2: the inductive invariant.  The positions *)
(* in the Window are those a cell can stand for now, one for each cell.     *)

Owns(p, n) == pc[p] \in {"construct", "publish"} /\ write[p] = n
Published(n) == n < write_index /\ \A p \in Producers : ~Owns(p, n)
Window == Released .. Released + Capacity - 1

\* The value at the head is already in `retired`.
TakenOut == cpc = "storeRead" \/ (cpc = "destroy" /\ ~clearing)

Indices ==
    /\ Len(reserved) = write_index
    /\ Released <= write_index /\ write_index <= Released + Capacity

ProducerOK(p) ==
    /\ write[p] <= write_index
    /\ pc[p] # "idle" => pushed[p] < MaxPushes /\ ~clearing
    /\ pc[p] = "cas" => write[p] < Released + Capacity
    /\ pc[p] \in {"construct", "publish"} =>
         /\ Released <= write[p] /\ write[p] < write_index
         /\ reserved[write[p] + 1] = ValueOf(p)
         /\ \A q \in Producers \ {p} : ~Owns(q, write[p])

ProducersOK == \A p \in Producers : ProducerOK(p)

ConsumerOK ==
    /\ cpc \in {"loadSequence", "move", "destroy", "storeRead"} =>
         read = read_index
    /\ cpc = "release" => read_index = read + 1
    /\ cpc \in {"move", "destroy", "storeRead", "release"} => Published(read)
    /\ clearing => cpc \notin {"idle", "move"}
    /\ Len(retired) = IF TakenOut THEN read_index + 1 ELSE read_index

\* What the cell of position n holds while n is in the Window.
CellOK(n) ==
    LET s == sequence[SlotOf(n)]
        content == storage[SlotOf(n)]
    IN  /\ n >= write_index => s = n /\ content = Raw
        /\ \A p \in Producers : Owns(p, n) =>
             /\ s = n
             /\ content = IF pc[p] = "construct" THEN Raw ELSE reserved[n + 1]
        /\ Published(n) =>
             /\ s = n + 1
             /\ content = IF n # read \/ ~(TakenOut \/ cpc = "release")
                            THEN reserved[n + 1]
                          ELSE IF cpc = "destroy" THEN Moved ELSE Raw

CellsOK == \A n \in Window : CellOK(n)

IInv == TypeOK /\ Indices /\ ProducersOK /\ ConsumerOK /\ CellsOK /\ Fifo
=============================================================================
