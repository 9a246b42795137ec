----------------------------- MODULE RingBuffer -----------------------------
(***************************************************************************)
(* obz::ring_buffer: a single-threaded circular buffer over raw storage.    *)
(* Calls are atomic.  A constructor or move assignment of T that throws, a  *)
(* push into a full buffer and a pop or front() of an empty one change      *)
(* nothing.                                                                *)
(* Names carry the component where Sequential_proofs, which extends several *)
(* modules, would otherwise see two definitions of one name.                *)
(***************************************************************************)
EXTENDS Naturals, Sequences

CONSTANTS
    Items,      \* values of T
    Capacity,    \* the constructor's argument; validate_capacity rejects 0
    Raw          \* content of storage in which no object lives

ASSUME CapacityAssumption == Capacity \in Nat \ {0}
ASSUME RawAssumption == Raw \notin Items

VARIABLES
    cells,                \* buffer_, the storage, cell by cell
    head, tail, size,     \* head_, tail_, size_
    popped                \* the value the last pop_front delivered

ringVars == <<cells, head, tail, size, popped>>

Cells == 0 .. Capacity - 1
NextIndex(i) == (i + 1) % Capacity

RingInit ==
    /\ cells = [c \in Cells |-> Raw]
    /\ head = 0 /\ tail = 0 /\ size = 0
    /\ popped = Raw

NeverFull == FALSE        \* faulty
Full == size = Capacity

EmplaceBack(v) ==
    /\ ~Full
    /\ cells' = [cells EXCEPT ![tail] = v]
    /\ tail' = NextIndex(tail)
    /\ size' = size + 1
    /\ UNCHANGED <<head, popped>>

PopFront ==
    /\ size # 0
    /\ popped' = cells[head]
    /\ cells' = [cells EXCEPT ![head] = Raw]
    /\ head' = NextIndex(head)
    /\ size' = size - 1
    /\ UNCHANGED tail

KeptTail == tail          \* faulty
ClearedTail == 0

\* clear() destroys size_ objects starting at head_ and starts over at cell 0;
\* the destructor calls it.
Clear ==
    /\ cells' = [c \in Cells |->
                    IF \E k \in 1 .. size : c = (head + k - 1) % Capacity
                      THEN Raw ELSE cells[c]]
    /\ head' = 0 /\ tail' = ClearedTail /\ size' = 0
    /\ UNCHANGED popped

RingNext == (\E v \in Items : EmplaceBack(v)) \/ PopFront \/ Clear

RingSpec == RingInit /\ [][RingNext]_ringVars

-----------------------------------------------------------------------------

\* Each variable has its type.
RingTypeOK ==
    /\ cells \in [Cells -> Items \cup {Raw}]
    /\ head \in Cells /\ tail \in Cells /\ size \in 0 .. Capacity
    /\ popped \in Items \cup {Raw}

CellOf(k) == (head + k - 1) % Capacity   \* the cell of the k-th oldest value
Occupied == {CellOf(k) : k \in 1 .. size}

\* Exactly the size_ cells from head_ on hold objects, and tail_ is the cell
\* after them: no object is leaked, constructed over or destroyed twice.
LifetimesMatch ==
    /\ RingTypeOK
    /\ \A c \in Cells : cells[c] # Raw <=> c \in Occupied
    /\ tail = (head + size) % Capacity

\* The buffer behaves as a bounded FIFO, or is emptied.
Contents == [k \in 1 .. size |-> cells[CellOf(k)]]

\* A push appends its value and a pop delivers and removes the oldest one,
\* wherever head_ and tail_ stand; clear() is the only other change.
FifoSteps ==
    [][\/ \E v \in Items : Contents' = Append(Contents, v)
       \/ /\ Contents # <<>>
          /\ popped' = Head(Contents) /\ Contents' = Tail(Contents)
       \/ Contents' = <<>> /\ UNCHANGED popped]_ringVars
=============================================================================
