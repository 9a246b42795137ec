--------------------------- MODULE SpscRingQueue ---------------------------
(***************************************************************************)
(* obz::spsc_ring_queue: one producer, one consumer, two atomic indices.    *)
(*                                                                         *)
(* Indices are std::size_t counters of a small width (they wrap at          *)
(* Modulus), so that runs are endless and the wrap-around is exercised.     *)
(* Memory is as weak as C++ allows: a load of the other thread's index may  *)
(* return any value between the one seen last and the current one, and      *)
(* orders storage accesses only when an acquire load meets a release store. *)
(***************************************************************************)
EXTENDS Naturals, Sequences

CONSTANTS
    Values,      \* values of T that are pushed
    Capacity,    \* the template parameter Capacity
    Modulus,     \* 2^w: std::size_t counters wrap here
    Raw,         \* content of storage in which no object lives
    Moved        \* content of storage whose object has been moved from

\* The last conjunct is the contract on wrap-around: slot() is continuous
\* across it only when Capacity divides 2^w.
ASSUME CapacityAssumption ==
    /\ Capacity \in Nat \ {0} /\ Modulus \in Nat
    /\ Modulus > Capacity /\ Modulus % Capacity = 0
ASSUME StorageAssumption ==
    Raw \notin Values /\ Moved \notin Values /\ Raw # Moved

VARIABLES
    write_index, read_index,   \* the shared indices
    storage,                   \* storage[c]: what lives in slot c
    ppc, item,                 \* producer: next step, the value it pushes
    room,                      \* history: full() has answered FALSE to it
    seenRead, orderedRead,     \* producer: read_index last loaded, and the
                               \* one up to which destructions happen before
    cpc, got, clearing,        \* consumer: next step, value taken, in clear()
    some,                      \* history: empty() has answered FALSE to it
    seenWrite, orderedWrite    \* consumer: the same for write_index

producerVars == <<ppc, item, room, seenRead, orderedRead>>
consumerVars == <<cpc, got, clearing, some, seenWrite, orderedWrite>>
vars == <<write_index, read_index, storage, producerVars, consumerVars>>

Index == 0 .. Modulus - 1
Slots == 0 .. Capacity - 1
Succ(i) == (i + 1) % Modulus
Minus(i, j) == (i + Modulus - j) % Modulus   \* unsigned subtraction
SlotOf(i) == i % Capacity

Relaxed == "relaxed"   \* faulty for the store of read_index

\* The memory orders written in the code.
WriteIndexStore == "release"
WriteIndexLoad == "acquire"
ReadIndexStore == "release"
ReadIndexLoad == "acquire"

Synchronizes(store, load) == store = "release" /\ load = "acquire"

\* Values a load may return: not older than what the thread saw last.
Visible(seen, current) ==
    {(seen + k) % Modulus : k \in 0 .. Minus(current, seen)}

Init ==
    /\ write_index = 0 /\ read_index = 0
    /\ storage = [c \in Slots |-> Raw]
    /\ ppc = "idle" /\ item = Raw /\ room = FALSE
    /\ seenRead = 0 /\ orderedRead = 0
    /\ cpc = "idle" /\ got = Raw /\ clearing = FALSE /\ some = FALSE
    /\ seenWrite = 0 /\ orderedWrite = 0

-----------------------------------------------------------------------------
(* The producer: try_emplace.  A constructor of T that throws, or in try_pop  *)
(* a move assignment, leaves both indices and the storage as they were.      *)

OneTooMany(r) == Minus(write_index, r) = Capacity + 1   \* faulty
IsFull(r) == Minus(write_index, r) = Capacity

LoadRead(r) ==
    /\ r \in Visible(seenRead, read_index)
    /\ seenRead' = r
    /\ orderedRead' = IF Synchronizes(ReadIndexStore, ReadIndexLoad)
                        THEN r ELSE orderedRead

\* Loads both indices; full, or go on to construct.
TryEmplace(v, r) ==
    /\ ppc = "idle" /\ ~clearing
    /\ LoadRead(r)
    /\ IF IsFull(r)
         THEN UNCHANGED <<ppc, item>>
         ELSE ppc' = "construct" /\ item' = v
    /\ room' = FALSE
    /\ UNCHANGED <<write_index, read_index, storage, consumerVars>>

\* full(), called by the producer between its pushes.  (size() loads the
\* same two indices.)
AnswersFull(r) == Minus(write_index, r) = Capacity

AskFull(r) ==
    /\ ppc = "idle" /\ ~clearing
    /\ LoadRead(r)
    /\ room' = ~AnswersFull(r)
    /\ UNCHANGED <<write_index, read_index, storage, ppc, item, consumerVars>>

Construct ==
    /\ ppc = "construct"
    /\ storage' = [storage EXCEPT ![SlotOf(write_index)] = item]
    /\ ppc' = "publish"
    /\ UNCHANGED <<write_index, read_index, item, room, seenRead, orderedRead,
                   consumerVars>>

Publish ==
    /\ ppc = "publish"
    /\ write_index' = Succ(write_index)
    /\ ppc' = "idle" /\ item' = Raw
    /\ UNCHANGED <<read_index, storage, room, seenRead, orderedRead,
                   consumerVars>>

-----------------------------------------------------------------------------
(* The consumer: try_pop, and clear, which is also the destructor. *)

LoadWrite(w) ==
    /\ w \in Visible(seenWrite, write_index)
    /\ seenWrite' = w
    /\ orderedWrite' = IF Synchronizes(WriteIndexStore, WriteIndexLoad)
                         THEN w ELSE orderedWrite

TryPop(w) ==
    /\ cpc = "idle"
    /\ LoadWrite(w)
    /\ cpc' = IF read_index = w THEN "idle" ELSE "move"
    /\ some' = FALSE
    /\ UNCHANGED <<write_index, read_index, storage, producerVars, got,
                   clearing>>

\* empty(), called by the consumer between its pops.
AnswersEmpty(w) == read_index = w

AskEmpty(w) ==
    /\ cpc = "idle"
    /\ LoadWrite(w)
    /\ some' = ~AnswersEmpty(w)
    /\ UNCHANGED <<write_index, read_index, storage, producerVars, cpc, got,
                   clearing>>

\* clear() needs external synchronization: the producer is outside its calls
\* and what it wrote happens before.
Clear ==
    /\ cpc = "idle" /\ ppc = "idle"
    /\ clearing' = TRUE /\ cpc' = "clear" /\ some' = FALSE
    /\ seenWrite' = write_index /\ orderedWrite' = write_index
    /\ UNCHANGED <<write_index, read_index, storage, producerVars, got>>

ClearLoop(w) ==
    /\ cpc = "clear"
    /\ LoadWrite(w)
    /\ IF read_index = w THEN cpc' = "idle" /\ clearing' = FALSE
                         ELSE cpc' = "destroy" /\ UNCHANGED clearing
    /\ UNCHANGED <<write_index, read_index, storage, producerVars, got, some>>

MoveOut ==
    /\ cpc = "move"
    /\ got' = storage[SlotOf(read_index)]
    /\ storage' = [storage EXCEPT ![SlotOf(read_index)] = Moved]
    /\ cpc' = "destroy"
    /\ UNCHANGED <<write_index, read_index, producerVars, clearing,
                   some, seenWrite, orderedWrite>>

\* `got` remembers what clear() destroys, for the refinement.
Destroy ==
    /\ cpc = "destroy"
    /\ got' = IF clearing THEN storage[SlotOf(read_index)] ELSE got
    /\ storage' = [storage EXCEPT ![SlotOf(read_index)] = Raw]
    /\ cpc' = "release"
    /\ UNCHANGED <<write_index, read_index, producerVars, clearing,
                   some, seenWrite, orderedWrite>>

KeptCursor == read_index   \* faulty: the consumer keeps its cursor to itself
NextRead == Succ(read_index)

Release ==
    /\ cpc = "release"
    /\ read_index' = NextRead
    /\ cpc' = IF clearing THEN "clear" ELSE "idle"
    /\ got' = Raw
    /\ UNCHANGED <<write_index, storage, producerVars, clearing, some,
                   seenWrite, orderedWrite>>

-----------------------------------------------------------------------------

Produce ==
    \/ \E v \in Values, r \in Index : TryEmplace(v, r)
    \/ Construct \/ Publish

Pop ==
    \/ \E w \in Index : TryPop(w) \/ ClearLoop(w)
    \/ MoveOut \/ Destroy \/ Release

Ask == \E i \in Index : AskFull(i) \/ AskEmpty(i)

Next == Produce \/ Pop \/ Clear \/ Ask

Spec == Init /\ [][Next]_vars

\* Both threads keep running and retrying, clear() leaves the producer a
\* chance, and a store becomes visible in the end.
FairSpec ==
    /\ Spec
    /\ WF_vars(Produce) /\ WF_vars(Pop)
    /\ SF_vars(\E v \in Values : TryEmplace(v, read_index))
    /\ SF_vars(TryPop(write_index))

-----------------------------------------------------------------------------
(* What the queue guarantees. *)

\* Each variable has its type and the indices never drift apart further than
\* the capacity, also across the wrap-around.
TypeOK ==
    /\ write_index \in Index /\ read_index \in Index
    /\ Minus(write_index, read_index) <= Capacity
    /\ storage \in [Slots -> Values \cup {Raw, Moved}]
    /\ ppc \in {"idle", "construct", "publish"}
    /\ item \in Values \cup {Raw}
    /\ cpc \in {"idle", "clear", "move", "destroy", "release"}
    /\ got \in Values \cup {Raw} /\ {clearing, room, some} \subseteq BOOLEAN
    /\ {seenRead, orderedRead, seenWrite, orderedWrite} \subseteq Index

\* The producer constructs only where no object lives; the consumer moves
\* from, and clear() destroys, only complete objects.
StorageSafe ==
    /\ TypeOK
    /\ ppc = "construct" => storage[SlotOf(write_index)] = Raw
    /\ cpc = "move" \/ (cpc = "destroy" /\ clearing)
         => storage[SlotOf(read_index)] \in Values

\* No data race: before the producer constructs in a slot, the destruction of
\* the slot's previous object happens before it; before the consumer touches
\* an object, its construction happens before.
AccessesOrdered ==
    /\ ppc = "construct" => Minus(write_index, orderedRead) < Capacity
    /\ cpc \in {"move", "destroy"} =>
         Minus(orderedWrite, read_index) \in 1 .. Capacity

\* What a thread has seen of the other's index lies between its own index and
\* the other's current one.
SeenIndices ==
    /\ orderedRead = seenRead /\ orderedWrite = seenWrite
    /\ Minus(write_index, read_index) <= Minus(write_index, seenRead)
    /\ Minus(write_index, seenRead) <= Capacity
    /\ Minus(seenWrite, read_index) <= Minus(write_index, read_index)

\* The oldest object has been moved from or destroyed, but not released.
FrontGone == cpc = "release" \/ (cpc = "destroy" /\ ~clearing)

\* What a thread has concluded from it still holds until it acts.
Calls ==
    /\ ppc # "idle" \/ room => Minus(write_index, seenRead) < Capacity
    /\ cpc \in {"move", "destroy", "release"} \/ some => seenWrite # read_index
    /\ ppc # "idle" => item \in Values /\ ~room /\ ~clearing
    /\ cpc # "idle" => ~some
    /\ cpc = "clear" => clearing
    /\ clearing => cpc \in {"clear", "destroy", "release"}
    /\ got # Raw <=> FrontGone

\* Counted from read_index, the first Minus(write_index, read_index) slots hold
\* objects, apart from the one that is on its way out, and the others are raw,
\* apart from the one that is on its way in.
Cell(k) == storage[SlotOf(read_index + k)]
StorageMatches ==
    /\ \A k \in 0 .. Minus(write_index, read_index) - 1 :
         (k = 0 /\ FrontGone) \/ Cell(k) \in Values
    /\ cpc = "release" => Cell(0) = Raw
    /\ \A k \in Minus(write_index, read_index) .. Capacity - 1 :
         Cell(k) = IF ppc = "publish" /\ k = Minus(write_index, read_index)
                     THEN item ELSE Raw

\* The inductive invariant of the safety properties.
IInv == TypeOK /\ SeenIndices /\ Calls /\ StorageMatches

\* A thread can rely on its own observation until it acts: after full() has
\* answered FALSE to the producer, no later call of it finds the queue full
\* before it has pushed, and after empty() has answered FALSE to the consumer,
\* none finds it empty before it has popped, although each load of the other
\* thread's index may return an old value.
AnswerStands ==
    [][/\ room /\ ppc = "idle" /\ ppc' = "idle" => room'
       /\ some /\ cpc = "idle" /\ cpc' = "idle" => some']_vars

\* The queue implements BoundedFifo: its contents are the objects between the
\* two indices, the oldest of which may already be on its way out.
Contents ==
    [i \in 1 .. Minus(write_index, read_index) |->
        IF i = 1 /\ got # Raw THEN got
                              ELSE storage[SlotOf(read_index + i - 1)]]

Promise == INSTANCE BoundedFifo WITH contents <- Contents, Bound <- Capacity

ImplementsBoundedFifo == Promise!Spec

\* Neither thread gets stuck: pushes and pops succeed again and again, so that
\* both indices go round for ever.
KeepsMoving ==
    \A i \in Index : []<>(write_index = i) /\ []<>(read_index = i)
=============================================================================
