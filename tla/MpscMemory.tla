----------------------------- MODULE MpscMemory -----------------------------
(***************************************************************************)
(* obz::mpsc_ring_queue over weak memory: try_emplace and try_pop with the  *)
(* memory orders of the code.  A load may return an old value, and an       *)
(* access to the storage of a cell is ordered after the previous ones only  *)
(* if acquire and release accesses say so.  clear() and the destructor run  *)
(* alone and add nothing to MpscRingQueue.                                 *)
(***************************************************************************)
EXTENDS Naturals, Sequences

CONSTANTS
    Producers, Consumer,   \* the threads
    Capacity,              \* the template parameter Capacity
    MaxPushes,             \* bound: values each producer manages to push
    Raw                    \* content of storage in which no object lives

ASSUME CapacityAssumption == Capacity \in Nat \ {0}
ASSUME ConsumerAssumption == Consumer \notin Producers
ASSUME MaxPushesAssumption == MaxPushes \in Nat
ASSUME RawAssumption == Raw \notin Producers \X (1 .. MaxPushes)

Values == Producers \X (1 .. MaxPushes)
Cells == 0 .. Capacity - 1
SlotOf(n) == n % Capacity

\* The locations; read_index_ is a local of the consumer here, which alone
\* accesses it.
write_index == <<"write_index", 0>>
sequence(n) == <<"sequence", SlotOf(n)>>
storage(n) == <<"storage", SlotOf(n)>>
Locations == {write_index} \cup ({"sequence", "storage"} \X Cells)

VARIABLES
    memory, view,      \* see ViewMemory
    pc, write,         \* producers: next step, local `write`
    pushed,            \* pushed[p]: pushes of p that returned true
    popping, read,     \* consumer: between the load and the end of a pop
    reserved, retired  \* history: values in the order of claims, of pops

producerVars == <<pc, write, pushed>>
consumerVars == <<popping, read>>
history == <<reserved, retired>>
vars == <<memory, view, producerVars, consumerVars, history>>

INSTANCE ViewMemory WITH Threads <- Producers \cup {Consumer}

ValueOf(p) == <<p, pushed[p] + 1>>

\* The memory orders written in the code; Relaxed is faulty for each of them.
Relaxed == "relaxed"
ProducerSequenceLoad == "acquire"
ProducerSequenceStore == "release"
ConsumerSequenceLoad == "acquire"
ConsumerSequenceStore == "release"

Init ==
    /\ StartWith([l \in Locations |->
                    CASE l = write_index -> 0
                      [] l[1] = "sequence" -> l[2]
                      [] OTHER -> Raw])
    /\ pc = [p \in Producers |-> "idle"]
    /\ write = [p \in Producers |-> 0]
    /\ pushed = [p \in Producers |-> 0]
    /\ popping = FALSE /\ read = 0
    /\ reserved = <<>> /\ retired = <<>>

-----------------------------------------------------------------------------
(* Producers: try_emplace. *)

GoTo(p, step) == pc' = [pc EXCEPT ![p] = step]

\* A relaxed load of write_index_: at the start of a call, after diff > 0, and
\* by a compare-exchange that fails, spuriously or not.
LoadWrite(p) ==
    /\ pc[p] \in {"idle", "reload", "cas"} /\ pushed[p] < MaxPushes
    /\ \E i \in Visible(p, write_index) :
         /\ Load(p, write_index, i, Relaxed)
         /\ write' = [write EXCEPT ![p] = memory[write_index][i].value]
    /\ GoTo(p, "loadSequence")
    /\ UNCHANGED <<pushed, consumerVars, history>>

LoadSequence(p) ==
    /\ pc[p] = "loadSequence"
    /\ \E i \in Visible(p, sequence(write[p])) :
         LET seen == memory[sequence(write[p])][i].value
         IN  /\ Load(p, sequence(write[p]), i, ProducerSequenceLoad)
             /\ \/ seen = write[p] /\ GoTo(p, "cas")
                \/ seen < write[p] /\ GoTo(p, "idle")     \* full
                \/ seen > write[p] /\ GoTo(p, "reload")
    /\ UNCHANGED <<write, pushed, consumerVars, history>>

\* Faulty: a load and a store in place of the compare-exchange.
UnchangedSince(p) == memory[write_index][view[p][write_index]].value = write[p]

\* The compare-exchange works on the newest value.
MayClaim(p) == Value(write_index) = write[p]

Claim(p) ==
    /\ pc[p] = "cas" /\ MayClaim(p)
    /\ Store(p, write_index, write[p] + 1, Relaxed)
    /\ reserved' = Append(reserved, ValueOf(p))
    /\ GoTo(p, "construct")
    /\ UNCHANGED <<write, pushed, consumerVars, retired>>

Construct(p) ==
    /\ pc[p] = "construct"
    /\ Store(p, storage(write[p]), ValueOf(p), "plain")
    /\ GoTo(p, "publish")
    /\ UNCHANGED <<write, pushed, consumerVars, history>>

Publish(p) ==
    /\ pc[p] = "publish"
    /\ Store(p, sequence(write[p]), write[p] + 1, ProducerSequenceStore)
    /\ pushed' = [pushed EXCEPT ![p] = @ + 1]
    /\ GoTo(p, "idle")
    /\ UNCHANGED <<write, consumerVars, history>>

-----------------------------------------------------------------------------
(* The consumer: try_pop. *)

\* A pop that fails leaves only what the consumer has seen of the sequence.
TryPop ==
    /\ ~popping
    /\ \E i \in Visible(Consumer, sequence(read)) :
         /\ Load(Consumer, sequence(read), i, ConsumerSequenceLoad)
         /\ popping' = (memory[sequence(read)][i].value = read + 1)
    /\ UNCHANGED <<producerVars, read, history>>

\* Moves from the object and destroys it; nothing is synchronized in between.
Take ==
    /\ popping /\ Len(retired) = read
    /\ Store(Consumer, storage(read), Raw, "plain")
    /\ retired' = Append(retired, Value(storage(read)))
    /\ UNCHANGED <<producerVars, consumerVars, reserved>>

Release ==
    /\ popping /\ Len(retired) = read + 1
    /\ Store(Consumer, sequence(read), read + Capacity, ConsumerSequenceStore)
    /\ read' = read + 1 /\ popping' = FALSE
    /\ UNCHANGED <<producerVars, history>>

-----------------------------------------------------------------------------

Next ==
    \/ \E p \in Producers : LoadWrite(p) \/ LoadSequence(p) \/ Claim(p)
                              \/ Construct(p) \/ Publish(p)
    \/ TryPop \/ Take \/ Release

Spec == Init /\ [][Next]_vars

-----------------------------------------------------------------------------
(* What the memory orders guarantee. *)

\* What is written to a location.
Contents(l) == IF l = write_index \/ l[1] = "sequence" THEN Nat
                                                      ELSE Values \cup {Raw}

\* Each variable has its type.
TypeOK ==
    /\ DOMAIN memory = Locations
    /\ \A l \in Locations : memory[l] \in
         Seq([value : Contents(l), view : [Locations -> Nat]]) \ {<<>>}
    /\ view \in [Producers \cup {Consumer} -> [Locations -> Nat]]
    /\ pc \in [Producers -> {"idle", "reload", "loadSequence", "cas",
                            "construct", "publish"}]
    /\ write \in [Producers -> Nat]
    /\ pushed \in [Producers -> 0 .. MaxPushes]
    /\ popping \in BOOLEAN /\ read \in Nat
    /\ reserved \in Seq(Values) /\ retired \in Seq(Values)

\* No data race: before a thread touches the storage of a cell, every earlier
\* access to that storage happens before; and before it stores a sequence,
\* every earlier store to it does, so that the stores of a cell can have no
\* other modification order than the one of this model.
AccessesOrdered ==
    /\ TypeOK
    /\ \A p \in Producers :
         /\ pc[p] = "construct" => UpToDate(p, storage(write[p]))
         /\ pc[p] = "publish" => UpToDate(p, sequence(write[p]))
    /\ popping => /\ UpToDate(Consumer, storage(read))
                  /\ UpToDate(Consumer, sequence(read))

\* The queue implements ReservationFifo also over weak memory: stale loads
\* make calls fail or retry, but they lose, repeat or reorder no value.
Places ==
    [i \in 1 .. Value(write_index) - Len(retired) |->
        LET n == Len(retired) + i - 1
        IN  [value |-> reserved[n + 1],
             complete |-> Value(sequence(n)) = n + 1]]

Promise == INSTANCE ReservationFifo
               WITH places <- Places, delivered <- retired

ImplementsReservationFifo == Promise!Spec

-----------------------------------------------------------------------------
(* The inductive invariant.  The messages of a cell say how far it has come: *)
(* in round k its sequence gets the messages 2 k + 1 (free for position n)   *)
(* and 2 k + 2 (published), and its storage 2 k + 2 (constructed) and 2 k + 3 *)
(* (destroyed, in time for the next round).                                *)

FreeAt(n) == 2 * (n \div Capacity) + 1
Reached(n, i, j) == Newest(sequence(n)) = FreeAt(n) + i
                      /\ Newest(storage(n)) = FreeAt(n) + j
IsFree(n) == Reached(n, 0, 0)
IsConstructed(n) == Reached(n, 0, 1)
IsPublished(n) == Reached(n, 1, 1)
IsTaken(n) == Reached(n, 1, 2)

Claimed == Value(write_index)        \* positions claimed so far
Window == read .. read + Capacity - 1
Working(p) == pc[p] \in {"construct", "publish"}

\* Nobody knows of a message that does not exist.
Views ==
    /\ \A t \in Producers \cup {Consumer}, x \in Locations :
         view[t][x] \in 1 .. Newest(x)
    /\ \A l \in Locations : \A i \in 1 .. Newest(l) : \A x \in Locations :
         memory[l][i].view[x] \in 1 .. Newest(x)

\* Message i of a sequence has its value, and whoever acquires it is behind no
\* message before the i-th of the cell.
Numbers ==
    /\ \A i \in 1 .. Newest(write_index) : memory[write_index][i].value = i - 1
    /\ \A n \in Nat :
         /\ FreeAt(n) <= Newest(sequence(n)) =>
              memory[sequence(n)][FreeAt(n)].value = n
         /\ FreeAt(n) + 1 <= Newest(sequence(n)) =>
              memory[sequence(n)][FreeAt(n) + 1].value = n + 1
    /\ \A n \in Nat : \A i \in 1 .. Newest(sequence(n)) :
         /\ memory[sequence(n)][i].view[sequence(n)] >= i
         /\ memory[sequence(n)][i].view[storage(n)] >= i

Indices ==
    /\ Len(reserved) = Claimed /\ Len(retired) <= Claimed
    /\ Claimed <= read + Capacity
    /\ Len(retired) = read \/ (popping /\ Len(retired) = read + 1)

\* A thread knows the i-th message of the sequence and the j-th of the storage.
Knows(t, n, i, j) == view[t][sequence(n)] >= FreeAt(n) + i
                       /\ view[t][storage(n)] >= FreeAt(n) + j

ProducerOK(p) ==
    /\ write[p] <= Claimed
    /\ pc[p] # "idle" => pushed[p] < MaxPushes
    /\ pc[p] \in {"cas", "construct"} => Knows(p, write[p], 0, 0)
    /\ pc[p] = "construct" => IsFree(write[p])
    /\ pc[p] = "publish" => /\ IsConstructed(write[p])
                            /\ Knows(p, write[p], 0, 1)
    /\ Working(p) =>
         /\ write[p] \in Len(retired) .. Claimed - 1
         /\ reserved[write[p] + 1] = ValueOf(p)
         /\ \A q \in Producers : Working(q) /\ write[q] = write[p] => q = p

ConsumerOK ==
    /\ popping /\ Len(retired) = read =>
         IsPublished(read) /\ Knows(Consumer, read, 1, 1) /\ read < Claimed
    /\ popping /\ Len(retired) = read + 1 =>
         IsTaken(read) /\ Knows(Consumer, read, 1, 2)

\* Every position of the window is free, claimed by a producer that is at work,
\* published, or taken.
Positions ==
    \A n \in Window :
      \/ n >= Claimed /\ IsFree(n)
      \/ n \in Len(retired) .. Claimed - 1 /\ IsPublished(n)
      \/ n < Len(retired) /\ IsTaken(n)
      \/ \E p \in Producers : Working(p) /\ write[p] = n

\* What is in the storage is what was reserved, and leaves in this order.
Fifo ==
    /\ \A n \in Len(retired) .. Claimed - 1 :
         Newest(storage(n)) = FreeAt(n) + 1 => Value(storage(n)) = reserved[n + 1]
    /\ \A i \in 1 .. Len(retired) : retired[i] = reserved[i]

IInv ==
    /\ TypeOK /\ Views /\ Numbers /\ Indices /\ ConsumerOK /\ Positions /\ Fifo
    /\ \A p \in Producers : ProducerOK(p)
=============================================================================
