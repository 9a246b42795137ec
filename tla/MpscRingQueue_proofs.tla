------------------------ MODULE MpscRingQueue_proofs ------------------------
(***************************************************************************)
(* Proofs that the safety properties of MpscRingQueue hold for every set   *)
(* of producers, every number of pushes and every Capacity >= 2.  The one   *)
(* step that needs Capacity >= 2 is LoadSequence: for Capacity = 1 the      *)
(* number of a published value is that of the next free position.           *)
(*                                                                          *)
(* Observers: the head leaves only while an element is available, and while *)
(* the queue is full no claim moves write_index.  So what full() reports    *)
(* was true at some instant of the call, and so was what empty() reports    *)
(* unless the head left meanwhile.                                          *)
(***************************************************************************)
EXTENDS MpscObservers, SharedLemmas

-----------------------------------------------------------------------------
(* Slots. *)

\* The slot of a position is a cell.
LEMMA SlotIsCell == \A n \in Nat : SlotOf(n) \in Cells
  BY CapacityAssumption, DivMod DEF SlotOf, Cells

\* The positions of the Window are in different cells.
LEMMA WindowSlotsDiffer ==
    ASSUME TypeOK, NEW a \in Window, NEW b \in Window, a # b
    PROVE  SlotOf(a) # SlotOf(b)
  <1>1. /\ a \in Nat /\ b \in Nat /\ a < b + Capacity /\ b < a + Capacity
        /\ a < b \/ b < a
    BY CapacityAssumption DEF TypeOK, Window, Released
  <1> QED
    BY <1>1, CapacityAssumption, NearPositionsDiffer DEF SlotOf

\* Releasing a cell hands it to the position one round later.
LEMMA SlotOfNextRound == \A n \in Nat : SlotOf(n + Capacity) = SlotOf(n)
  BY CapacityAssumption, NextRoundSameCell DEF SlotOf

\* Every cell stands for one position of the Window.
LEMMA WindowCoversCells ==
    ASSUME TypeOK, NEW c \in Cells
    PROVE  \E n \in Window : SlotOf(n) = c
  <1>1. Released \in Nat
    BY DEF TypeOK, Released
  <1> QED
    BY <1>1, CapacityAssumption, EveryCellOnce DEF SlotOf, Cells, Window

\* The value a producer is about to push is one of its values.
LEMMA ValueOfIsValue ==
    ASSUME TypeOK, NEW p \in Producers, pushed[p] < MaxPushes
    PROVE  ValueOf(p) \in Values
  BY MaxPushesAssumption DEF TypeOK, ValueOf, Values

-----------------------------------------------------------------------------
(* The invariant holds initially. *)

LEMMA InitIInv == Init => IInv
  <1> SUFFICES ASSUME Init PROVE IInv
    OBVIOUS
  <1> USE CapacityAssumption DEF Init
  <1>1. TypeOK
    <2>1. reserved \in Seq(Values) /\ retired \in Seq(Values)
      BY SMT
    <2>2. sequence \in [Cells -> Nat]
      BY DEF Cells
    <2> QED
      BY <2>1, <2>2 DEF TypeOK, ProducerSteps, ConsumerSteps
  <1>2. Indices
    BY DEF Indices, Released
  <1>3. ProducersOK
    <2> SUFFICES ASSUME NEW p \in Producers PROVE ProducerOK(p)
      BY DEF ProducersOK
    <2>1. pc[p] = "idle" /\ write[p] = 0
      OBVIOUS
    <2> QED
      BY <2>1 DEF ProducerOK
  <1>4. ConsumerOK
    BY DEF ConsumerOK, TakenOut
  <1>5. CellsOK
    <2> SUFFICES ASSUME NEW n \in Window PROVE CellOK(n)
      BY DEF CellsOK
    <2>1. n \in Nat /\ n \in Cells /\ SlotOf(n) = n
      BY SMT DEF Window, Released, Cells, SlotOf
    <2> QED
      BY <2>1 DEF CellOK, Owns, Published
  <1>6. Fifo
    BY DEF Fifo
  <1> QED
    BY <1>1, <1>2, <1>3, <1>4, <1>5, <1>6 DEF IInv

-----------------------------------------------------------------------------
(* Steps that only look. *)

\* A producer that owns nothing before and after a step that changes only its
\* own pc and `write` keeps the invariant.
LEMMA ProducerLooks ==
    ASSUME IInv, NEW p \in Producers, NEW step \in ProducerSteps,
           pc[p] \notin {"construct", "publish"},
           step \notin {"construct", "publish"},
           step # "idle" => pushed[p] < MaxPushes /\ ~clearing,
           step = "cas" => write'[p] < Released + Capacity,
           GoTo(p, step),
           write' = write \/ write' = [write EXCEPT ![p] = write_index],
           UNCHANGED <<consumerVars, shared, pushed, history>>
    PROVE  IInv'
  <1> USE DEF consumerVars, shared, history, GoTo
  <1>1. TypeOK'
    BY DEF IInv, TypeOK
  <1>2. \A q \in Producers, n \in Nat : Owns(q, n)' <=> Owns(q, n)
    BY DEF IInv, TypeOK, Owns
  <1>3. Released' = Released
    BY DEF Released
  <1>4. Indices'
    BY <1>3 DEF IInv, Indices
  <1>5. ProducersOK'
    <2> SUFFICES ASSUME NEW q \in Producers
                 PROVE  ProducerOK(q)'
      BY DEF ProducersOK
    <2>1. ProducerOK(q)
      BY DEF IInv, ProducersOK
    <2>2. CASE q # p
      BY <1>2, <1>3, <2>1, <2>2 DEF IInv, TypeOK, ProducerOK, ValueOf
    <2>3. CASE q = p
      BY <1>2, <1>3, <2>1, <2>3 DEF IInv, TypeOK, ProducerOK, Indices
    <2> QED
      BY <2>2, <2>3
  <1>6. ConsumerOK'
    BY <1>2 DEF IInv, TypeOK, ConsumerOK, Published, TakenOut
  <1>7. CellsOK'
    <2> SUFFICES ASSUME NEW n \in Window' PROVE CellOK(n)'
      BY DEF CellsOK
    <2>1. n \in Window /\ n \in Nat /\ CellOK(n)
      BY <1>3 DEF IInv, CellsOK, Window, TypeOK, Released
    <2>2. \A q \in Producers : Owns(q, n) => pc'[q] = pc[q]
      BY DEF IInv, TypeOK, Owns
    <2> QED
      BY <1>2, <2>1, <2>2 DEF CellOK, Published, TakenOut
  <1>8. Fifo'
    BY DEF IInv, Fifo
  <1> QED
    BY <1>1, <1>4, <1>5, <1>6, <1>7, <1>8 DEF IInv

LEMMA BeginStep ==
    ASSUME IInv, NEW p \in Producers, Begin(p)
    PROVE  IInv'
  BY ProducerLooks DEF Begin, ProducerSteps

LEMMA ReloadStep ==
    ASSUME IInv, NEW p \in Producers, Reload(p)
    PROVE  IInv'
  <1>1. pushed[p] < MaxPushes /\ ~clearing
    BY DEF Reload, IInv, ProducersOK, ProducerOK
  <1> QED
    BY <1>1, ProducerLooks DEF Reload, ProducerSteps

LEMMA ClaimFailsStep ==
    ASSUME IInv, NEW p \in Producers, ClaimFails(p)
    PROVE  IInv'
  <1>1. pushed[p] < MaxPushes /\ ~clearing
    BY DEF ClaimFails, IInv, ProducersOK, ProducerOK
  <1> QED
    BY <1>1, ProducerLooks DEF ClaimFails, ProducerSteps

\* A cell that is free for position write[p] cannot be the one a whole round
\* earlier: that cell still has one of the numbers R and R + 1, and neither is
\* R + Capacity.
LEMMA LoadSequenceStep ==
    ASSUME IInv, Capacity >= 2, NEW p \in Producers, LoadSequence(p)
    PROVE  IInv'
  <1> DEFINE R == Released
             number == sequence[SlotOf(write[p])]
  <1>1. /\ pushed[p] < MaxPushes /\ ~clearing
        /\ pc[p] = "loadSequence"
        /\ write[p] \in Nat /\ write_index \in Nat /\ R \in Nat
        /\ write[p] <= R + Capacity
    BY CapacityAssumption
       DEF LoadSequence, Free, Full, IInv, TypeOK, Indices, ProducersOK, ProducerOK, Released
  <1>2. ASSUME number = write[p]
        PROVE  write[p] < R + Capacity
    <2>1. SUFFICES ASSUME write[p] = R + Capacity
                   PROVE  FALSE
      BY <1>1, CapacityAssumption
    <2>2. number = sequence[SlotOf(R)]
      BY <1>1, <2>1, SlotOfNextRound
    <2>3. R \in Window /\ CellOK(R)
      BY <1>1, CapacityAssumption DEF Window, IInv, CellsOK
    <2>4. sequence[SlotOf(R)] \in {R, R + 1}
      BY <1>1, <2>3 DEF CellOK, Published
    <2> QED
      BY <1>1, <1>2, <2>1, <2>2, <2>4, CapacityAssumption
  <1>3. PICK step \in {"cas", "idle", "reload"} :
          GoTo(p, step) /\ (step = "cas" => number = write[p])
    BY DEF LoadSequence, Free, Full
  <1> QED
    BY <1>1, <1>2, <1>3, ProducerLooks DEF LoadSequence, Free, Full, ProducerSteps

-----------------------------------------------------------------------------
(* The same for the consumer. *)

LEMMA ConsumerLooks ==
    ASSUME IInv,
           cpc \in {"idle", "loadSequence"},
           cpc' \in {"idle", "loadSequence", "move", "destroy"},
           cpc' \in {"move", "destroy"} => Published(read'),
           cpc' # "idle" => read' = read_index,
           cpc' = "move" => ~clearing', cpc' = "destroy" => clearing',
           read' \in Nat, clearing' \in BOOLEAN,
           clearing' => clearing \/ \A p \in Producers : pc[p] = "idle",
           clearing' => cpc' # "idle",
           UNCHANGED <<producerVars, shared, history>>
    PROVE  IInv'
  <1> USE DEF producerVars, shared, history
  <1>1. TypeOK'
    BY DEF IInv, TypeOK, ConsumerSteps
  <1>2. Released' = Released /\ ~TakenOut /\ ~TakenOut'
    BY DEF Released, TakenOut
  <1>3. Indices'
    BY <1>2 DEF IInv, Indices
  <1>4. ProducersOK'
    BY <1>2 DEF IInv, ProducersOK, ProducerOK, ValueOf, Owns
  <1>5. ConsumerOK'
    BY <1>2 DEF IInv, ConsumerOK, Published, Owns
  <1>6. CellsOK'
    BY <1>2 DEF IInv, CellsOK, CellOK, Window, Published, Owns
  <1>7. Fifo'
    BY DEF IInv, Fifo
  <1> QED
    BY <1>1, <1>3, <1>4, <1>5, <1>6, <1>7 DEF IInv

LEMMA TryPopStep == ASSUME IInv, TryPop PROVE IInv'
  BY ConsumerLooks DEF TryPop, IInv, TypeOK, ConsumerOK

LEMMA ClearStep == ASSUME IInv, Clear PROVE IInv'
  BY ConsumerLooks DEF Clear, Idle, IInv, TypeOK

LEMMA PopStopsStep == ASSUME IInv, PopStops PROVE IInv'
  BY ConsumerLooks DEF PopStops, IInv, TypeOK

\* The head is in the Window, so its number is one more than its position
\* only when it has been published.
LEMMA AvailableIsPublished ==
    ASSUME IInv, cpc = "loadSequence"
    PROVE  /\ read = read_index /\ Released = read /\ read \in Window
           /\ Available <=> Published(read)
  <1>1. read = read_index /\ Released = read /\ read \in Nat
    BY DEF IInv, ConsumerOK, Released, TypeOK
  <1>2. read \in Window /\ CellOK(read)
    BY <1>1, CapacityAssumption DEF IInv, CellsOK, Window
  <1>3. Published(read) => Available
    BY <1>2 DEF CellOK, Available
  <1>4. ~Published(read) => sequence[SlotOf(read)] = read
    BY <1>1, <1>2 DEF CellOK, Published, IInv, TypeOK
  <1> QED
    BY <1>1, <1>2, <1>3, <1>4 DEF Available

LEMMA PopLoadSequenceStep == ASSUME IInv, PopLoadSequence PROVE IInv'
  BY ConsumerLooks, AvailableIsPublished DEF PopLoadSequence, IInv, TypeOK

-----------------------------------------------------------------------------
(* Steps of a producer that change the queue. *)

\* The claimed position was free, so its cell now belongs to p alone.
LEMMA ClaimStep ==
    ASSUME IInv, NEW p \in Producers, Claim(p)
    PROVE  IInv'
  <1> USE DEF consumerVars, shared, history, GoTo
  <1> DEFINE w == write_index
  <1>1. /\ pc[p] = "cas" /\ write[p] = w /\ w \in Nat
        /\ pushed[p] < MaxPushes /\ ~clearing
        /\ Released <= w /\ w < Released + Capacity
        /\ Len(reserved) = w
    BY DEF Claim, IInv, TypeOK, Indices, ProducersOK, ProducerOK
  <1>2. ValueOf(p) \in Values
    BY <1>1, ValueOfIsValue DEF IInv
  <1>3. TypeOK'
    BY <1>1, <1>2 DEF Claim, IInv, TypeOK, ProducerSteps
  <1>4. Released' = Released /\ (TakenOut' <=> TakenOut)
    BY DEF Claim, Released, TakenOut
  <1>5. /\ Len(reserved') = w + 1
        /\ reserved'[w + 1] = ValueOf(p)
        /\ \A i \in 1 .. w : reserved'[i] = reserved[i]
    BY <1>1, <1>2 DEF Claim, IInv, TypeOK
  <1>6. Indices'
    BY <1>1, <1>4, <1>5, CapacityAssumption
       DEF Claim, Indices, IInv, TypeOK, Released
  <1>7. \A q \in Producers, n \in Nat :
          Owns(q, n)' <=> Owns(q, n) \/ (q = p /\ n = w)
    BY <1>1 DEF Claim, Owns, IInv, TypeOK
  <1>8. \A q \in Producers, n \in Nat : Owns(q, n) => n < w /\ q # p
    BY <1>1 DEF Owns, IInv, ProducersOK, ProducerOK
  <1>9. ProducersOK'
    <2> SUFFICES ASSUME NEW q \in Producers PROVE ProducerOK(q)'
      BY DEF ProducersOK
    <2>1. ProducerOK(q) /\ write[q] \in Nat
      BY DEF IInv, ProducersOK, TypeOK
    <2>2. CASE q = p
      <3>1. \A r \in Producers \ {q} : ~Owns(r, write[q])'
        BY <1>1, <1>7, <1>8, <2>2 DEF Claim
      <3>2. pc'[q] = "construct" /\ ValueOf(q)' = ValueOf(q)
        BY <2>2 DEF Claim, ValueOf, IInv, TypeOK
      <3> QED
        BY <1>1, <1>4, <1>5, <2>2, <3>1, <3>2 DEF Claim, ProducerOK
    <2>3. CASE q # p
      <3>1. pc'[q] = pc[q] /\ ValueOf(q)' = ValueOf(q)
        BY <2>3 DEF Claim, ValueOf
      <3>2. pc[q] \in {"construct", "publish"} => Owns(q, write[q])
        BY DEF Owns
      <3>3. pc[q] \in {"construct", "publish"} =>
              \A r \in Producers \ {q} : ~Owns(r, write[q])'
        BY <1>7, <1>8, <2>1, <3>2 DEF Claim, ProducerOK
      <3> QED
        BY <1>1, <1>4, <1>5, <2>1, <3>1, <3>3 DEF Claim, ProducerOK
    <2> QED
      BY <2>2, <2>3
  <1>10. \A n \in Nat : Published(n)' <=> Published(n)
    BY <1>1, <1>7, <1>8 DEF Published, Claim
  <1>11. ConsumerOK'
    BY <1>4, <1>10 DEF Claim, ConsumerOK, IInv, TypeOK
  <1>12. CellsOK'
    <2> SUFFICES ASSUME NEW n \in Window' PROVE CellOK(n)'
      BY DEF CellsOK
    <2>1. n \in Window /\ n \in Nat /\ CellOK(n)
      BY <1>4 DEF IInv, CellsOK, Window, TypeOK, Released
    <2>2. n >= w' => n >= w
      BY <1>1, <2>1 DEF Claim
    <2>3. \A q \in Producers : Owns(q, n) => pc'[q] = pc[q]
      BY <1>8, <2>1 DEF Claim
    <2>4. n < w => reserved'[n + 1] = reserved[n + 1]
      BY <1>1, <1>5, <2>1
    <2>5. pc'[p] = "construct"
      BY DEF Claim, IInv, TypeOK
    <2> QED
      BY <1>1, <1>4, <1>7, <1>8, <1>10, <2>1, <2>2, <2>3, <2>4, <2>5, SMTT(30)
         DEF CellOK, Claim, Published
  <1>13. Fifo'
    BY <1>1, <1>5 DEF Claim, Fifo, IInv, TypeOK
  <1> QED
    BY <1>3, <1>6, <1>9, <1>11, <1>12, <1>13 DEF IInv

\* What an owner knows about its position.
LEMMA OwnedPosition ==
    ASSUME IInv, NEW p \in Producers, pc[p] \in {"construct", "publish"}
    PROVE  /\ write[p] \in Nat /\ write[p] < write_index
           /\ write[p] \in Window /\ SlotOf(write[p]) \in Cells
           /\ pushed[p] < MaxPushes /\ ~clearing
           /\ reserved[write[p] + 1] = ValueOf(p)
           /\ Owns(p, write[p])
           /\ \A q \in Producers : Owns(q, write[p]) => q = p
           /\ CellOK(write[p])
  <1>1. /\ write[p] \in Nat /\ write_index \in Nat /\ Released \in Nat
        /\ ProducerOK(p) /\ write_index <= Released + Capacity
    BY DEF IInv, TypeOK, ProducersOK, Indices, Released
  <1>2. write[p] \in Window
    BY <1>1, CapacityAssumption DEF ProducerOK, Window
  <1>3. CellOK(write[p])
    BY <1>2 DEF IInv, CellsOK
  <1> QED
    BY <1>1, <1>2, <1>3, SlotIsCell DEF ProducerOK, Owns

\* The value goes to the cell of the owned position and to no other one.
LEMMA ConstructStep ==
    ASSUME IInv, NEW p \in Producers, Construct(p)
    PROVE  IInv'
  <1> USE DEF consumerVars, shared, history, GoTo
  <1> DEFINE w == write[p]
  <1>1. /\ pc[p] = "construct" /\ w \in Nat /\ w < write_index
        /\ w \in Window /\ SlotOf(w) \in Cells
        /\ pushed[p] < MaxPushes /\ ~clearing
        /\ reserved[w + 1] = ValueOf(p)
        /\ Owns(p, w) /\ \A q \in Producers : Owns(q, w) => q = p
    BY OwnedPosition DEF Construct, Current
  <1>2. ValueOf(p) \in Values
    BY <1>1, ValueOfIsValue DEF IInv
  <1>3. TypeOK'
    BY <1>1, <1>2 DEF Construct, Current, IInv, TypeOK, ProducerSteps
  <1>4. Released' = Released /\ (TakenOut' <=> TakenOut)
    BY DEF Construct, Current, Released, TakenOut
  <1>5. Indices'
    BY <1>4 DEF Construct, Current, Indices, IInv
  <1>6. \A q \in Producers, n \in Nat : Owns(q, n)' <=> Owns(q, n)
    BY <1>1 DEF Construct, Current, Owns, IInv, TypeOK
  <1>7. \A n \in Nat : Published(n)' <=> Published(n)
    BY <1>6 DEF Published, Construct, Current
  <1>8. ProducersOK'
    <2> SUFFICES ASSUME NEW q \in Producers PROVE ProducerOK(q)'
      BY DEF ProducersOK
    <2>1. ProducerOK(q) /\ write[q] \in Nat
      BY DEF IInv, ProducersOK, TypeOK
    <2>2. pc'[q] = IF q = p THEN "publish" ELSE pc[q]
      BY DEF Construct, Current, IInv, TypeOK
    <2> QED
      BY <1>1, <1>4, <1>6, <2>1, <2>2 DEF Construct, Current, ProducerOK, ValueOf
  <1>9. ConsumerOK'
    BY <1>4, <1>7 DEF Construct, Current, ConsumerOK, IInv, TypeOK
  <1>10. CellsOK'
    <2> SUFFICES ASSUME NEW n \in Window' PROVE CellOK(n)'
      BY DEF CellsOK
    <2>1. n \in Window /\ n \in Nat /\ CellOK(n)
      BY <1>4 DEF IInv, CellsOK, Window, TypeOK, Released
    <2>2. CASE n = w
      <3>1. storage'[SlotOf(n)] = reserved[n + 1]
        BY <1>1, <2>2 DEF Construct, Current, IInv, TypeOK
      <3>2. ~Published(n)
        BY <1>1, <2>2 DEF Published
      <3>3. pc'[p] = "publish"
        BY DEF Construct, Current, IInv, TypeOK
      <3> QED
        BY <1>1, <1>6, <1>7, <2>1, <2>2, <3>1, <3>2, <3>3
           DEF CellOK, Construct, Current, IInv, TypeOK
    <2>3. CASE n # w
      <3>1. SlotOf(n) # SlotOf(w) /\ SlotOf(n) \in Cells
        BY <1>1, <2>1, <2>3, WindowSlotsDiffer, SlotIsCell DEF IInv
      <3>2. storage'[SlotOf(n)] = storage[SlotOf(n)]
        BY <3>1 DEF Construct, Current, IInv, TypeOK
      <3>3. \A q \in Producers : Owns(q, n) => pc'[q] = pc[q]
        BY <2>3 DEF Construct, Current, Owns, IInv, TypeOK
      <3> QED
        BY <1>4, <1>6, <1>7, <2>1, <3>2, <3>3 DEF CellOK, Construct, Current
    <2> QED
      BY <2>2, <2>3
  <1>11. Fifo'
    BY DEF Construct, Current, Fifo, IInv
  <1> QED
    BY <1>3, <1>5, <1>8, <1>9, <1>10, <1>11 DEF IInv

\* The position passes from its owner to the consumer.
LEMMA PublishStep ==
    ASSUME IInv, NEW p \in Producers, Publish(p)
    PROVE  IInv'
  <1> USE DEF consumerVars, shared, history, GoTo
  <1> DEFINE w == write[p]
  <1>1. /\ pc[p] = "publish" /\ w \in Nat /\ w < write_index
        /\ w \in Window /\ SlotOf(w) \in Cells
        /\ pushed[p] < MaxPushes /\ ~clearing
        /\ Owns(p, w) /\ \A q \in Producers : Owns(q, w) => q = p
        /\ CellOK(w)
    BY OwnedPosition DEF Publish, Current, NextNumber
  <1>2. TypeOK'
    BY <1>1 DEF Publish, Current, NextNumber, IInv, TypeOK, ProducerSteps
  <1>3. Released' = Released /\ (TakenOut' <=> TakenOut)
    BY DEF Publish, Current, NextNumber, Released, TakenOut
  <1>4. Indices'
    BY <1>3 DEF Publish, Current, NextNumber, Indices, IInv
  <1>5. \A q \in Producers, n \in Nat : Owns(q, n)' <=> Owns(q, n) /\ q # p
    BY <1>1 DEF Publish, Current, NextNumber, Owns, IInv, TypeOK
  <1>6. \A n \in Nat : Published(n)' <=> Published(n) \/ n = w
    BY <1>1, <1>5 DEF Published, Publish, Current, NextNumber, Owns
  <1>7. ProducersOK'
    <2> SUFFICES ASSUME NEW q \in Producers PROVE ProducerOK(q)'
      BY DEF ProducersOK
    <2>1. ProducerOK(q) /\ write[q] \in Nat
      BY DEF IInv, ProducersOK, TypeOK
    <2>2. CASE q = p
      BY <1>3, <2>1, <2>2 DEF Publish, Current, NextNumber, ProducerOK, IInv, TypeOK
    <2>3. CASE q # p
      <3>1. pc'[q] = pc[q] /\ pushed'[q] = pushed[q]
        BY <2>3 DEF Publish, Current, NextNumber, IInv, TypeOK
      <3> QED
        BY <1>3, <1>5, <2>1, <3>1 DEF Publish, Current, NextNumber, ProducerOK, ValueOf
    <2> QED
      BY <2>2, <2>3
  <1>8. ConsumerOK'
    BY <1>3, <1>6 DEF Publish, Current, NextNumber, ConsumerOK, IInv, TypeOK
  <1>9. read = w => ~(TakenOut \/ cpc = "release")
    BY <1>1 DEF TakenOut, IInv, ConsumerOK, Published
  <1>10. CellsOK'
    <2> SUFFICES ASSUME NEW n \in Window' PROVE CellOK(n)'
      BY DEF CellsOK
    <2>1. n \in Window /\ n \in Nat /\ CellOK(n)
      BY <1>3 DEF IInv, CellsOK, Window, TypeOK, Released
    <2>2. CASE n = w
      <3>1. sequence'[SlotOf(n)] = n + 1
        BY <1>1, <2>2 DEF Publish, Current, NextNumber, IInv, TypeOK
      <3>2. storage[SlotOf(n)] = reserved[n + 1]
        BY <1>1, <2>2 DEF CellOK
      <3>3. \A q \in Producers : ~Owns(q, n)'
        BY <1>1, <1>5, <2>1, <2>2
      <3>4. ~(n >= write_index)
        BY <1>1, <2>1, <2>2 DEF IInv, TypeOK
      <3> QED
        BY <1>1, <1>3, <1>9, <2>1, <2>2, <3>1, <3>2, <3>3, <3>4
           DEF CellOK, Publish, Current, NextNumber
    <2>3. CASE n # w
      <3>1. SlotOf(n) # SlotOf(w) /\ SlotOf(n) \in Cells
        BY <1>1, <2>1, <2>3, WindowSlotsDiffer, SlotIsCell DEF IInv
      <3>2. sequence'[SlotOf(n)] = sequence[SlotOf(n)]
        BY <3>1 DEF Publish, Current, NextNumber, IInv, TypeOK
      <3>3. \A q \in Producers : Owns(q, n) => pc'[q] = pc[q]
        BY <2>3 DEF Publish, Current, NextNumber, Owns, IInv, TypeOK
      <3> QED
        BY <1>3, <1>5, <1>6, <2>1, <2>3, <3>2, <3>3 DEF CellOK, Publish, Current, NextNumber
    <2> QED
      BY <2>2, <2>3
  <1>11. Fifo'
    BY DEF Publish, Current, NextNumber, Fifo, IInv
  <1> QED
    BY <1>2, <1>4, <1>7, <1>8, <1>10, <1>11 DEF IInv

-----------------------------------------------------------------------------
(* Steps of the consumer that change the queue. *)

\* The consumer works on the head only while it is published.
LEMMA HeadPosition ==
    ASSUME IInv, cpc \in {"move", "destroy", "storeRead", "release"}
    PROVE  /\ read \in Nat /\ read \in Window /\ Released = read
           /\ SlotOf(read) \in Cells
           /\ read < write_index /\ Published(read) /\ CellOK(read)
           /\ sequence[SlotOf(read)] = read + 1
           /\ reserved[read + 1] \in Values
           /\ Len(reserved) = write_index
  <1>1. /\ read \in Nat /\ Released = read /\ Published(read)
        /\ Len(reserved) = write_index /\ write_index \in Nat
        /\ reserved \in Seq(Values)
    BY DEF IInv, TypeOK, ConsumerOK, Released, Indices
  <1>2. read \in Window /\ SlotOf(read) \in Cells
    BY <1>1, CapacityAssumption, SlotIsCell DEF Window
  <1>3. CellOK(read) /\ read < write_index
    BY <1>1, <1>2 DEF IInv, CellsOK, Published
  <1>4. reserved[read + 1] \in Values
    BY <1>1, <1>3
  <1> QED
    BY <1>1, <1>2, <1>3, <1>4 DEF CellOK

\* A step that leaves the sequences, the indices and the producers alone and
\* changes the storage of the head only keeps the other parts of IInv.
LEMMA HeadStep ==
    ASSUME IInv, cpc \in {"move", "destroy", "storeRead"},
           NEW x,
           storage' = [storage EXCEPT ![SlotOf(read)] = x],
           Released' = Released, TypeOK',
           UNCHANGED <<producerVars, read, write_index, sequence, reserved,
                       clearing>>,
           (TakenOut \/ cpc = "release")' =>
             x = IF cpc' = "destroy" THEN Moved ELSE Raw,
           ~(TakenOut \/ cpc = "release")' => x = reserved[read + 1]
    PROVE  Indices' /\ ProducersOK' /\ CellsOK'
  <1> USE DEF producerVars
  <1>1. /\ read \in Nat /\ read \in Window /\ SlotOf(read) \in Cells
        /\ Published(read) /\ CellOK(read)
    BY HeadPosition
  <1>2. Indices'
    BY DEF IInv, Indices
  <1>3. ProducersOK'
    BY DEF IInv, ProducersOK, ProducerOK, ValueOf, Owns
  <1>4. \A q \in Producers, n \in Nat : Owns(q, n)' <=> Owns(q, n)
    BY DEF Owns
  <1>5. \A n \in Nat : Published(n)' <=> Published(n)
    BY <1>4 DEF Published
  <1>6. CellsOK'
    <2> SUFFICES ASSUME NEW n \in Window' PROVE CellOK(n)'
      BY DEF CellsOK
    <2>1. n \in Window /\ n \in Nat /\ CellOK(n)
      BY DEF IInv, CellsOK, Window, TypeOK, Released
    <2>2. CASE n = read
      <3>1. storage'[SlotOf(n)] = x
        BY <1>1, <2>2 DEF IInv, TypeOK
      <3>2. n < write_index /\ \A q \in Producers : ~Owns(q, n)
        BY <1>1, <2>2 DEF Published
      <3>3. ~(n >= write_index)
        BY <2>1, <3>2 DEF IInv, TypeOK
      <3> QED
        BY <1>4, <1>5, <2>1, <2>2, <3>1, <3>2, <3>3 DEF CellOK
    <2>3. CASE n # read
      <3>1. SlotOf(n) # SlotOf(read) /\ SlotOf(n) \in Cells
        BY <1>1, <2>1, <2>3, WindowSlotsDiffer, SlotIsCell DEF IInv
      <3>2. storage'[SlotOf(n)] = storage[SlotOf(n)]
        BY <3>1 DEF IInv, TypeOK
      <3> QED
        BY <1>4, <1>5, <2>1, <2>3, <3>2 DEF CellOK
    <2> QED
      BY <2>2, <2>3
  <1> QED
    BY <1>2, <1>3, <1>6

\* Appending the head's value keeps the order of reservations.
LEMMA TakeKeepsFifo ==
    ASSUME IInv, cpc \in {"move", "destroy"}, ~TakenOut,
           retired' = Append(retired, reserved[read + 1]),
           UNCHANGED reserved
    PROVE  Fifo' /\ retired' \in Seq(Values) /\ Len(retired') = read_index + 1
  <1>1. /\ read \in Nat /\ read < write_index /\ Len(reserved) = write_index
        /\ reserved[read + 1] \in Values
    BY HeadPosition
  <1>2. /\ Len(retired) = read /\ read = read_index /\ retired \in Seq(Values)
        /\ \A i \in 1 .. read : retired[i] = reserved[i]
        /\ write_index \in Nat
    BY DEF IInv, ConsumerOK, Fifo, TypeOK
  <1>3. /\ retired' \in Seq(Values) /\ Len(retired') = read + 1
        /\ retired'[read + 1] = reserved[read + 1]
        /\ \A i \in 1 .. read : retired'[i] = retired[i]
    BY <1>1, <1>2
  <1> QED
    BY <1>1, <1>2, <1>3 DEF Fifo

LEMMA MoveOutStep == ASSUME IInv, MoveOut PROVE IInv'
  <1> USE DEF producerVars
  <1>1. /\ cpc = "move" /\ cpc' = "destroy" /\ ~clearing /\ ~clearing'
        /\ ~TakenOut /\ TakenOut'
    BY DEF MoveOut, IInv, ConsumerOK, TakenOut
  <1>2. /\ SlotOf(read) \in Cells
        /\ storage[SlotOf(read)] = reserved[read + 1]
        /\ Published(read)
    BY <1>1, HeadPosition DEF CellOK
  <1>3. Fifo' /\ retired' \in Seq(Values) /\ Len(retired') = read_index + 1
    BY <1>1, <1>2, TakeKeepsFifo DEF MoveOut
  <1>4. TypeOK'
    BY <1>1, <1>2, <1>3 DEF MoveOut, IInv, TypeOK, ConsumerSteps
  <1>5. Released' = Released
    BY <1>1 DEF MoveOut, Released
  <1>6. Indices' /\ ProducersOK' /\ CellsOK'
    BY <1>1, <1>4, <1>5, HeadStep DEF MoveOut
  <1>7. ConsumerOK'
    BY <1>1, <1>2, <1>3
       DEF MoveOut, IInv, ConsumerOK, Published, Owns
  <1> QED
    BY <1>3, <1>4, <1>6, <1>7 DEF IInv

LEMMA DestroyStep == ASSUME IInv, Destroy PROVE IInv'
  <1> USE DEF producerVars
  <1>1. /\ cpc = "destroy" /\ cpc' = "storeRead" /\ TakenOut'
        /\ (TakenOut <=> ~clearing)
    BY DEF Destroy, TakenOut, IInv, TypeOK
  <1>2. /\ SlotOf(read) \in Cells /\ Published(read)
        /\ clearing => storage[SlotOf(read)] = reserved[read + 1]
    BY <1>1, HeadPosition DEF CellOK
  <1>3. Fifo' /\ retired' \in Seq(Values) /\ Len(retired') = read_index + 1
    <2>1. CASE clearing
      BY <1>1, <1>2, <2>1, TakeKeepsFifo DEF Destroy
    <2>2. CASE ~clearing
      BY <1>1, <2>2 DEF Destroy, IInv, Fifo, ConsumerOK, TypeOK
    <2> QED
      BY <2>1, <2>2
  <1>4. TypeOK'
    BY <1>1, <1>2, <1>3 DEF Destroy, IInv, TypeOK, ConsumerSteps
  <1>5. Released' = Released
    BY <1>1 DEF Destroy, Released
  <1>6. Indices' /\ ProducersOK' /\ CellsOK'
    BY <1>1, <1>4, <1>5, HeadStep DEF Destroy
  <1>7. ConsumerOK'
    BY <1>1, <1>2, <1>3
       DEF Destroy, IInv, ConsumerOK, Published, Owns
  <1> QED
    BY <1>3, <1>4, <1>6, <1>7 DEF IInv

\* read_index_ moves ahead of the release: nothing changes for the producers.
LEMMA StoreReadStep == ASSUME IInv, StoreRead PROVE IInv'
  <1> USE DEF producerVars, history
  <1>1. /\ cpc = "storeRead" /\ cpc' = "release" /\ TakenOut /\ ~TakenOut'
        /\ read = read_index /\ read \in Nat /\ Published(read)
    BY DEF StoreRead, TakenOut, IInv, ConsumerOK, TypeOK
  <1>2. TypeOK'
    BY <1>1 DEF StoreRead, IInv, TypeOK, ConsumerSteps
  <1>3. Released' = Released
    BY <1>1 DEF StoreRead, Released
  <1>4. Indices' /\ ProducersOK' /\ Fifo'
    BY <1>3 DEF StoreRead, IInv, Indices, ProducersOK, ProducerOK, ValueOf,
                Owns, Fifo
  <1>5. ConsumerOK'
    BY <1>1 DEF StoreRead, IInv, ConsumerOK, Published, Owns
  <1>6. CellsOK'
    <2> SUFFICES ASSUME NEW n \in Window' PROVE CellOK(n)'
      BY DEF CellsOK
    <2>1. n \in Window /\ CellOK(n)
      BY <1>3 DEF IInv, CellsOK, Window
    <2> QED
      BY <1>1, <2>1 DEF StoreRead, CellOK, Published, Owns
  <1> QED
    BY <1>2, <1>4, <1>5, <1>6 DEF IInv

\* The window moves on by one: its oldest position leaves and its cell turns
\* into the free cell of the newest position.
LEMMA ReleaseCellStep == ASSUME IInv, ReleaseCell PROVE IInv'
  <1> USE DEF producerVars, history
  <1>1. /\ cpc = "release" /\ ~TakenOut /\ ~TakenOut'
        /\ read \in Nat /\ read_index = read + 1
        /\ cpc' \in {"loadSequence", "idle"}
        /\ clearing' = clearing /\ clearing \in BOOLEAN
        /\ read' \in Nat /\ (cpc' = "loadSequence" => read' = read + 1)
        /\ (clearing => cpc' = "loadSequence")
    BY DEF ReleaseCell, TakenOut, IInv, ConsumerOK, TypeOK
  <1>2. /\ read \in Window /\ Released = read /\ SlotOf(read) \in Cells
        /\ read < write_index /\ Published(read) /\ CellOK(read)
        /\ write_index \in Nat
    BY <1>1, HeadPosition DEF IInv, TypeOK
  <1>3. TypeOK'
    BY <1>1, <1>2, CapacityAssumption
       DEF ReleaseCell, IInv, TypeOK, ConsumerSteps
  <1>4. Released' = read + 1
    BY <1>1 DEF ReleaseCell, Released
  <1>5. \A q \in Producers, n \in Nat : Owns(q, n)' <=> Owns(q, n)
    BY DEF ReleaseCell, Owns
  <1>6. \A n \in Nat : Published(n)' <=> Published(n)
    BY <1>5 DEF ReleaseCell, Published
  <1>7. Indices'
    BY <1>1, <1>2, <1>4, CapacityAssumption DEF ReleaseCell, IInv, Indices
  <1>8. ProducersOK'
    <2> SUFFICES ASSUME NEW p \in Producers PROVE ProducerOK(p)'
      BY DEF ProducersOK
    <2>1. ProducerOK(p) /\ write[p] \in Nat
      BY DEF IInv, ProducersOK, TypeOK
    <2>2. pc[p] \in {"construct", "publish"} => write[p] # read
      BY <1>2 DEF Published, Owns
    <2> QED
      BY <1>1, <1>2, <1>4, <1>5, <2>1, <2>2, CapacityAssumption
         DEF ReleaseCell, ProducerOK, ValueOf
  <1>9. ConsumerOK'
    <2>1. Len(retired) = read_index /\ UNCHANGED <<retired, read_index>>
      BY <1>1 DEF ReleaseCell, IInv, ConsumerOK
    <2> QED
      BY <1>1, <2>1 DEF ConsumerOK
  <1>10. CellsOK'
    <2> SUFFICES ASSUME NEW n \in Window' PROVE CellOK(n)'
      BY DEF CellsOK
    <2>1. /\ n \in Nat /\ n # read
          /\ n = read + Capacity \/ n \in Window
      BY <1>1, <1>2, <1>4, CapacityAssumption DEF Window
    <2>2. CASE n = read + Capacity
      <3>1. SlotOf(n) = SlotOf(read)
        BY <1>1, <2>2, SlotOfNextRound
      <3>2. sequence'[SlotOf(n)] = n
        BY <1>2, <2>2, <3>1 DEF ReleaseCell, IInv, TypeOK
      <3>3. storage[SlotOf(n)] = Raw
        BY <1>1, <1>2, <3>1 DEF CellOK
      <3>4. n >= write_index
        BY <1>2, <2>2 DEF IInv, Indices
      <3>5. ~Published(n)
        BY <1>2, <2>1, <3>4 DEF Published
      <3>6. \A q \in Producers : Owns(q, n) => n < write_index
        BY DEF Owns, IInv, ProducersOK, ProducerOK
      <3> QED
        BY <1>2, <1>5, <1>6, <2>1, <3>2, <3>3, <3>4, <3>5, <3>6
           DEF CellOK, ReleaseCell
    <2>3. CASE n \in Window
      <3>1. SlotOf(n) # SlotOf(read) /\ SlotOf(n) \in Cells
        BY <1>2, <2>1, <2>3, WindowSlotsDiffer, SlotIsCell DEF IInv
      <3>2. sequence'[SlotOf(n)] = sequence[SlotOf(n)]
        BY <3>1 DEF ReleaseCell, IInv, TypeOK
      <3>3. CellOK(n)
        BY <2>3 DEF IInv, CellsOK
      <3>4. pc' = pc /\ storage' = storage /\ reserved' = reserved
            /\ write_index' = write_index
        BY DEF ReleaseCell
      <3>5. ~(TakenOut \/ cpc = "release")'
        BY <1>1
      <3> QED
        BY <1>5, <1>6, <2>1, <3>2, <3>3, <3>4, <3>5 DEF CellOK
    <2> QED
      BY <2>1, <2>2, <2>3
  <1>11. Fifo'
    BY DEF ReleaseCell, Fifo, IInv
  <1> QED
    BY <1>3, <1>7, <1>8, <1>9, <1>10, <1>11 DEF IInv

-----------------------------------------------------------------------------
(* The invariant. *)

LEMMA StutterStep == ASSUME IInv, UNCHANGED vars PROVE IInv'
  BY DEF vars, producerVars, consumerVars, shared, history, IInv, TypeOK,
         Indices, ProducersOK, ProducerOK, ConsumerOK, CellsOK, CellOK, Fifo,
         Owns, Published, Window, TakenOut, Released, ValueOf

LEMMA NextKeepsIInv ==
    ASSUME IInv, Capacity >= 2, [Next]_vars
    PROVE  IInv'
  <1>1. ASSUME NEW p \in Producers, Produce(p) PROVE IInv'
    BY <1>1, BeginStep, ReloadStep, LoadSequenceStep, ClaimStep,
       ClaimFailsStep, ConstructStep, PublishStep DEF Produce
  <1>2. CASE Consume
    BY <1>2, TryPopStep, ClearStep, PopLoadSequenceStep, PopStopsStep,
       MoveOutStep, DestroyStep, StoreReadStep, ReleaseCellStep DEF Consume
  <1>3. CASE UNCHANGED vars
    BY <1>3, StutterStep
  <1> QED
    BY <1>1, <1>2, <1>3 DEF Next

\* The inductive invariant holds in every reachable state of a queue with at
\* least two cells, however many producers there are.
THEOREM InvariantHolds ==
    ASSUME Capacity >= 2
    PROVE  Spec => []IInv
  <1>1. IInv /\ [Next]_vars => IInv'
    BY NextKeepsIInv
  <1> QED
    BY <1>1, InitIInv, PTL DEF Spec

-----------------------------------------------------------------------------
(* What follows from the invariant. *)

\* Every variable keeps its type (TypeOK).
THEOREM TypeCorrect ==
    ASSUME Capacity >= 2
    PROVE  Spec => []TypeOK
  <1>1. IInv => TypeOK
    BY DEF IInv
  <1> QED
    BY <1>1, InvariantHolds, PTL

\* Objects are constructed only in empty storage, and only complete objects
\* are moved from or destroyed (StorageSafe, lines 65, 96, 97 and 146).
THEOREM StorageIsSafe ==
    ASSUME Capacity >= 2
    PROVE  Spec => []StorageSafe
  <1>1. ASSUME IInv PROVE StorageSafe
    <2>1. ASSUME NEW p \in Producers, pc[p] = "construct"
          PROVE  storage[SlotOf(write[p])] = Raw
      BY <1>1, <2>1, OwnedPosition DEF CellOK
    <2>2. ASSUME cpc = "move" \/ (cpc = "destroy" /\ clearing)
          PROVE  storage[SlotOf(read)] \in Values
      <3>1. CellOK(read) /\ Published(read) /\ reserved[read + 1] \in Values
        BY <1>1, <2>2, HeadPosition
      <3>2. ~(TakenOut \/ cpc = "release")
        BY <1>1, <2>2 DEF TakenOut, IInv, ConsumerOK
      <3> QED
        BY <3>1, <3>2 DEF CellOK
    <2> QED
      BY <2>1, <2>2 DEF StorageSafe
  <1> QED
    BY <1>1, InvariantHolds, PTL

\* No two threads are about to access the storage of one cell (NoStorageRace).
THEOREM StorageIsNeverShared ==
    ASSUME Capacity >= 2
    PROVE  Spec => []NoStorageRace
  <1>1. ASSUME IInv PROVE NoStorageRace
    <2> SUFFICES ASSUME NEW p \in Producers, pc[p] = "construct"
                 PROVE  /\ cpc \in {"move", "destroy"} =>
                             SlotOf(read) # SlotOf(write[p])
                        /\ \A q \in Producers \ {p} :
                             pc[q] = "construct" =>
                               SlotOf(write[q]) # SlotOf(write[p])
      BY DEF NoStorageRace
    <2>1. write[p] \in Window /\ Owns(p, write[p])
      BY <1>1, OwnedPosition
    <2>2. ASSUME cpc \in {"move", "destroy"}
          PROVE  SlotOf(read) # SlotOf(write[p])
      <3>1. read \in Window /\ Published(read)
        BY <1>1, <2>2, HeadPosition
      <3>2. read # write[p]
        BY <2>1, <3>1 DEF Published
      <3> QED
        BY <1>1, <2>1, <3>1, <3>2, WindowSlotsDiffer DEF IInv
    <2>3. ASSUME NEW q \in Producers \ {p}, pc[q] = "construct"
          PROVE  SlotOf(write[q]) # SlotOf(write[p])
      <3>1. write[q] \in Window /\ Owns(q, write[q])
        BY <1>1, <2>3, OwnedPosition
      <3>2. write[q] # write[p]
        BY <1>1, <3>1, OwnedPosition
      <3> QED
        BY <1>1, <2>1, <3>1, <3>2, WindowSlotsDiffer DEF IInv
    <2> QED
      BY <2>2, <2>3
  <1> QED
    BY <1>1, InvariantHolds, PTL

\* Values leave in the order of the claims, none twice and none skipped (Fifo).
THEOREM LeavesInOrder ==
    ASSUME Capacity >= 2
    PROVE  Spec => []Fifo
  <1>1. IInv => Fifo
    BY DEF IInv
  <1> QED
    BY <1>1, InvariantHolds, PTL

\* A claimed value that has not left is in its cell, or about to be
\* constructed there (NothingLost).
THEOREM NothingIsLost ==
    ASSUME Capacity >= 2
    PROVE  Spec => []NothingLost
  <1>1. ASSUME IInv PROVE NothingLost
    <2> SUFFICES ASSUME NEW n \in Len(retired) .. write_index - 1
                 PROVE  \/ storage[SlotOf(n)] = reserved[n + 1]
                        \/ \E p \in Producers :
                             /\ pc[p] = "construct" /\ write[p] = n
                             /\ ValueOf(p) = reserved[n + 1]
      BY DEF NothingLost
    <2>1. /\ n \in Nat /\ n < write_index /\ n \in Window
          /\ (TakenOut \/ cpc = "release") => n # read
      BY <1>1, CapacityAssumption
         DEF IInv, TypeOK, Indices, ConsumerOK, Window, Released, TakenOut
    <2>2. CellOK(n)
      BY <1>1, <2>1 DEF IInv, CellsOK
    <2>3. CASE Published(n)
      BY <2>1, <2>2, <2>3 DEF CellOK
    <2>4. CASE ~Published(n)
      <3>1. PICK p \in Producers : Owns(p, n)
        BY <2>1, <2>4 DEF Published
      <3>2. pc[p] \in {"construct", "publish"} /\ write[p] = n
        BY <3>1 DEF Owns
      <3>3. reserved[n + 1] = ValueOf(p)
        BY <1>1, <3>2, OwnedPosition
      <3> QED
        BY <2>2, <3>1, <3>2, <3>3 DEF CellOK
    <2> QED
      BY <2>3, <2>4
  <1> QED
    BY <1>1, InvariantHolds, PTL

-----------------------------------------------------------------------------
(* What no step ever does. *)

\* Only LoadSequence ends a call of a producer that reads a sequence.
LEMMA OnlyLoadSequenceRefuses ==
    ASSUME TypeOK, Next, NEW p \in Producers,
           pc[p] = "loadSequence", pc'[p] = "idle"
    PROVE  LoadSequence(p) /\ sequence[SlotOf(write[p])] < write[p]
  <1>1. CASE Consume
    <2>1. pc' = pc
      BY <1>1 DEF Consume, TryPop, Clear, PopLoadSequence, PopStops, MoveOut,
                  Destroy, StoreRead, ReleaseCell, producerVars
    <2> QED
      BY <2>1
  <1>2. ASSUME NEW q \in Producers, Produce(q), q # p
        PROVE  FALSE
    <2>1. pc'[p] = pc[p]
      BY <1>2 DEF Produce, Begin, Reload, LoadSequence, Free, Full, Claim, ClaimFails,
                  Construct, Current, Publish, NextNumber, GoTo, TypeOK
    <2> QED
      BY <2>1
  <1>3. CASE Produce(p)
    <2>1. LoadSequence(p)
      BY <1>3 DEF Produce, Begin, Reload, Claim, ClaimFails, Construct, Current, Publish, NextNumber
    <2>2. GoTo(p, "idle") /\ ~GoTo(p, "cas") /\ ~GoTo(p, "reload")
      BY <2>1 DEF LoadSequence, Free, Full, GoTo, TypeOK
    <2> QED
      BY <2>1, <2>2 DEF LoadSequence, Free, Full
  <1> QED
    BY <1>1, <1>2, <1>3 DEF Next

\* A cell never has a number older than its position in the Window, so a
\* producer finds one only when it looks a whole round ahead
\* (RefusedOnlyWhenFull, line 59).
THEOREM RefusesOnlyWhenFull ==
    ASSUME Capacity >= 2
    PROVE  Spec => RefusedOnlyWhenFull
  <1> DEFINE A == \A p \in Producers :
                    pc[p] = "loadSequence" /\ pc'[p] = "idle"
                      => write_index = Released + Capacity
  <1>1. ASSUME IInv, [Next]_vars PROVE [A]_vars
    <2> SUFFICES ASSUME Next, NEW p \in Producers,
                        pc[p] = "loadSequence", pc'[p] = "idle"
                 PROVE  write_index = Released + Capacity
      BY <1>1
    <2> DEFINE w == write[p]
    <2>1. sequence[SlotOf(w)] < w
      BY <1>1, OnlyLoadSequenceRefuses DEF IInv
    <2>2. /\ w \in Nat /\ Released \in Nat /\ write_index \in Nat
          /\ w <= write_index /\ write_index <= Released + Capacity
      BY <1>1 DEF IInv, TypeOK, Released, ProducersOK, ProducerOK, Indices
    <2>3. PICK n \in Window : SlotOf(n) = SlotOf(w)
      BY <1>1, <2>2, WindowCoversCells, SlotIsCell DEF IInv
    <2>4. /\ n \in Nat /\ Released <= n /\ n < Released + Capacity
      BY <2>2, <2>3, CapacityAssumption DEF Window
    <2>5. sequence[SlotOf(n)] \in {n, n + 1}
      <3>1. CellOK(n)
        BY <1>1, <2>3 DEF IInv, CellsOK
      <3> QED
        BY <2>2, <2>4, <3>1 DEF CellOK, Published
    <2>6. n < w
      BY <2>1, <2>2, <2>3, <2>4, <2>5
    <2>7. w \notin Window
      BY <1>1, <2>2, <2>3, <2>4, <2>6, WindowSlotsDiffer DEF IInv
    <2> QED
      BY <2>2, <2>4, <2>6, <2>7, CapacityAssumption DEF Window
  <1>2. QED
    BY <1>1, InvariantHolds, PTL DEF Spec, RefusedOnlyWhenFull

\* Only PopStops ends the search of the consumer.
LEMMA OnlyPopStopsFails ==
    ASSUME TypeOK, Next, cpc = "loadSequence", cpc' = "idle"
    PROVE  PopStops
  <1>1. ASSUME NEW p \in Producers, Produce(p) PROVE FALSE
    <2>1. cpc' = cpc /\ clearing' = clearing
      BY <1>1 DEF Produce, Begin, Reload, LoadSequence, Free, Full, Claim, ClaimFails,
                  Construct, Current, Publish, NextNumber, consumerVars
    <2> QED
      BY <2>1
  <1>2. Consume
    BY <1>1 DEF Next
  <1> QED
    BY <1>2 DEF Consume, TryPop, Clear, PopLoadSequence, MoveOut, Destroy,
                StoreRead, ReleaseCell

\* The head is in the Window: when it cannot be popped, it is free, and then
\* nothing is claimed, or it belongs to a producer
\* (PopFailsOnlyBehindProducer, line 91).
THEOREM PopFailsBehindProducer ==
    ASSUME Capacity >= 2
    PROVE  Spec => PopFailsOnlyBehindProducer
  <1> DEFINE A == cpc = "loadSequence" /\ cpc' = "idle" =>
                    \/ read_index = write_index
                    \/ \E p \in Producers :
                         /\ pc[p] \in {"construct", "publish"}
                         /\ write[p] = read_index
  <1>1. ASSUME IInv, [Next]_vars PROVE [A]_vars
    <2> SUFFICES ASSUME Next, cpc = "loadSequence", cpc' = "idle"
                 PROVE  \/ read_index = write_index
                        \/ \E p \in Producers :
                             /\ pc[p] \in {"construct", "publish"}
                             /\ write[p] = read_index
      BY <1>1
    <2>1. ~Published(read_index) /\ Released = read_index
      BY <1>1, OnlyPopStopsFails, AvailableIsPublished DEF IInv, PopStops
    <2>2. read_index \in Nat /\ write_index \in Nat /\ read_index <= write_index
      BY <1>1, <2>1 DEF IInv, TypeOK, Indices
    <2> QED
      BY <2>1, <2>2 DEF Published, Owns
  <1>2. QED
    BY <1>1, InvariantHolds, PTL DEF Spec, PopFailsOnlyBehindProducer

\* While clear() runs no producer owns a position, so it stops only at the
\* end of what was claimed (ClearEmpties, lines 132 to 152).
THEOREM ClearLeavesNothing ==
    ASSUME Capacity >= 2
    PROVE  Spec => ClearEmpties
  <1> DEFINE A == clearing /\ ~clearing' =>
                    read_index = write_index /\ Len(retired) = Len(reserved)
  <1>1. ASSUME IInv, [Next]_vars PROVE [A]_vars
    <2> SUFFICES ASSUME Next, clearing, ~clearing'
                 PROVE  read_index = write_index /\ Len(retired) = Len(reserved)
      BY <1>1
    <2>1. PopStops
      <3>1. ASSUME NEW p \in Producers, Produce(p) PROVE FALSE
        BY <3>1 DEF Produce, Begin, Reload, LoadSequence, Free, Full, Claim, ClaimFails,
                    Construct, Current, Publish, NextNumber, consumerVars
      <3> QED
        BY <3>1 DEF Next, Consume, TryPop, Clear, PopLoadSequence, MoveOut,
                    Destroy, StoreRead, ReleaseCell
    <2>2. ~Published(read_index) /\ Released = read_index
      BY <1>1, <2>1, AvailableIsPublished DEF PopStops
    <2>3. \A p \in Producers : pc[p] = "idle"
      BY <1>1 DEF IInv, ProducersOK, ProducerOK
    <2>4. read_index \in Nat /\ write_index \in Nat /\ read_index <= write_index
      BY <1>1, <2>2 DEF IInv, TypeOK, Indices
    <2>5. read_index = write_index
      BY <2>2, <2>3, <2>4 DEF Published, Owns
    <2> QED
      BY <1>1, <2>1, <2>5 DEF IInv, Indices, ConsumerOK, TakenOut, PopStops
  <1>2. QED
    BY <1>1, InvariantHolds, PTL DEF Spec, ClearEmpties

-----------------------------------------------------------------------------
(* MpscRingQueue implements ReservationFifo: a claim reserves a place, the   *)
(* store of the sequence completes it, moving the value out or destroying it *)
(* in clear() takes it, and every other step leaves the places as they are.  *)

PlaceSet == [value : Values, complete : BOOLEAN]

Place(n) == [value |-> reserved[n + 1],
             complete |-> sequence[SlotOf(n)] = n + 1]

\* Positions whose value has not left are in the Window.
LEMMA RemainingPositions ==
    ASSUME IInv
    PROVE  /\ Len(retired) \in Nat /\ write_index \in Nat /\ Released \in Nat
           /\ Released <= Len(retired) /\ Len(retired) <= write_index
           /\ write_index <= Released + Capacity
           /\ Len(reserved) = write_index
           /\ \A n \in Len(retired) .. write_index - 1 :
                n \in Nat /\ n \in Window
  <1>1. /\ Len(retired) \in Nat /\ write_index \in Nat /\ Released \in Nat
        /\ Released <= write_index /\ write_index <= Released + Capacity
        /\ Len(reserved) = write_index
    BY DEF IInv, TypeOK, Indices, Released
  <1>2. Released <= Len(retired)
    BY DEF IInv, TypeOK, ConsumerOK, TakenOut, Released
  <1>3. Len(retired) <= write_index
    BY <1>1 DEF IInv, Fifo
  <1> QED
    BY <1>1, <1>2, <1>3, CapacityAssumption DEF Window

\* What the places are.
PlacesOK ==
    /\ Places \in Seq(PlaceSet)
    /\ Len(Places) \in Nat /\ Len(Places) = write_index - Len(retired)
    /\ \A i \in 1 .. Len(Places) : Places[i] = Place(Len(retired) + i - 1)

LEMMA PlacesAre == ASSUME IInv PROVE PlacesOK
  <1> DEFINE size == write_index - Len(retired)
  <1>1. size \in Nat /\ Len(retired) \in Nat /\ Len(reserved) = write_index
    BY RemainingPositions
  <1>2. Places = [i \in 1 .. size |-> Place(Len(retired) + i - 1)]
    BY DEF Places, Place
  <1>3. \A i \in 1 .. size : Place(Len(retired) + i - 1) \in PlaceSet
    <2> TAKE i \in 1 .. size
    <2>1. Len(retired) + i - 1 + 1 \in 1 .. Len(reserved)
      BY <1>1
    <2>2. reserved[Len(retired) + i - 1 + 1] \in Values
      BY <2>1 DEF IInv, TypeOK
    <2> QED
      BY <2>2 DEF Place, PlaceSet
  <1> HIDE DEF size
  <1>4. Places \in [1 .. size -> PlaceSet]
    BY <1>2, <1>3
  <1>5. Places \in Seq(PlaceSet) /\ Len(Places) = size
    BY <1>1, <1>4
  <1> QED
    BY <1>1, <1>2, <1>5 DEF size, PlacesOK

\* The same after a step.
PlaceNext(n) == [value |-> reserved'[n + 1],
                 complete |-> sequence'[SlotOf(n)] = n + 1]

PlacesOKNext ==
    /\ Places' \in Seq(PlaceSet)
    /\ Len(Places') \in Nat /\ Len(Places') = write_index' - Len(retired')
    /\ \A i \in 1 .. Len(Places') :
         Places'[i] = PlaceNext(Len(retired') + i - 1)

LEMMA PlacesAreNext == IInv' => PlacesOKNext
  <1>1. IInv' => PlacesOK'
    BY PlacesAre, PTL
  <1>2. PlacesOK' => PlacesOKNext
    BY DEF PlacesOK, PlacesOKNext, PlaceSet, Values, Place, PlaceNext, SlotOf
  <1> QED
    BY <1>1, <1>2

-----------------------------------------------------------------------------
(* The initial state, and steps that leave the places alone. *)

LEMMA InitPlaces == Init => Promise!Init
  <1> SUFFICES ASSUME Init PROVE Promise!Init
    OBVIOUS
  <1>1. IInv
    BY InitIInv
  <1>2. Len(Places) = 0 /\ Places \in Seq(PlaceSet)
    BY <1>1, PlacesAre DEF Init, PlacesOK, PlacesOKNext
  <1>3. Places = <<>>
    BY <1>2
  <1> QED
    BY <1>3 DEF Init, Promise!Init

\* A step that changes neither the claims, the values that have left nor a
\* sequence is a stutter of the promise.
LEMMA Stutters ==
    ASSUME UNCHANGED <<write_index, sequence, reserved, retired>>
    PROVE  UNCHANGED <<Places, retired>>
  BY DEF Places, SlotOf

\* The cell that goes back to the producers belongs to no remaining value.
LEMMA ReleaseStutters ==
    ASSUME IInv, IInv', ReleaseCell
    PROVE  UNCHANGED <<Places, retired>>
  <1>1. /\ read \in Nat /\ read \in Window /\ Released = read
        /\ Len(retired) = read + 1
    BY HeadPosition DEF ReleaseCell, IInv, ConsumerOK, TakenOut
  <1>2. UNCHANGED <<write_index, reserved, retired>>
    BY DEF ReleaseCell, history
  <1>3. \A n \in Len(retired) .. write_index - 1 :
          sequence'[SlotOf(n)] = sequence[SlotOf(n)]
    <2> TAKE n \in Len(retired) .. write_index - 1
    <2>1. n \in Nat /\ n \in Window /\ n # read
      BY <1>1, RemainingPositions
    <2>2. SlotOf(n) # SlotOf(read) /\ SlotOf(n) \in Cells
      BY <1>1, <2>1, WindowSlotsDiffer, SlotIsCell DEF IInv
    <2> QED
      BY <2>2 DEF ReleaseCell, IInv, TypeOK
  <1>4. PlacesOK /\ PlacesOKNext
    BY PlacesAre, PlacesAreNext
  <1>5. Len(Places') = Len(Places) /\ DOMAIN Places = DOMAIN Places'
    BY <1>2, <1>4 DEF PlacesOK, PlacesOKNext
  <1>6. \A i \in 1 .. Len(Places) : Places'[i] = Places[i]
    <2> TAKE i \in 1 .. Len(Places)
    <2> DEFINE n == Len(retired) + i - 1
    <2>1. n \in Len(retired) .. write_index - 1
      BY <1>4, RemainingPositions DEF PlacesOK
    <2>2. PlaceNext(n) = Place(n)
      BY <1>2, <1>3, <2>1 DEF Place, PlaceNext, SlotOf
    <2> QED
      BY <1>2, <1>4, <1>5, <2>2 DEF PlacesOK, PlacesOKNext
  <1> QED
    BY <1>2, <1>4, <1>5, <1>6 DEF PlacesOK, PlacesOKNext

-----------------------------------------------------------------------------
(* The steps that the promise sees. *)

\* The claimed position is the next one, and its cell still has the number of
\* a free one.
LEMMA ClaimReserves ==
    ASSUME IInv, IInv', NEW p \in Producers, Claim(p)
    PROVE  Promise!Next
  <1> DEFINE w == write_index
             new == [value |-> ValueOf(p), complete |-> FALSE]
  <1>1. /\ w \in Nat /\ w < Released + Capacity /\ Released <= w
        /\ pushed[p] < MaxPushes /\ Len(reserved) = w
        /\ reserved \in Seq(Values) /\ Released \in Nat
    BY DEF Claim, IInv, TypeOK, Indices, ProducersOK, ProducerOK, Released
  <1>2. ValueOf(p) \in Values
    BY <1>1, ValueOfIsValue DEF IInv
  <1>3. /\ w' = w + 1 /\ UNCHANGED <<sequence, retired>>
        /\ reserved' = Append(reserved, ValueOf(p))
    BY DEF Claim
  <1>4. PlacesOK /\ PlacesOKNext /\ Len(Places') = Len(Places) + 1
    <2>1. PlacesOK /\ PlacesOKNext /\ Len(retired) \in Nat
      BY PlacesAre, PlacesAreNext, RemainingPositions
    <2> QED
      BY <1>1, <1>3, <2>1 DEF PlacesOK, PlacesOKNext
  <1>5. Len(Places) < Capacity
    BY <1>1, <1>4, RemainingPositions, CapacityAssumption DEF PlacesOK
  <1>6. PlaceNext(w) = new
    <2>1. w \in Window /\ CellOK(w)
      BY <1>1, CapacityAssumption DEF Window, IInv, CellsOK
    <2>2. sequence[SlotOf(w)] = w
      BY <1>1, <2>1 DEF CellOK
    <2>3. (sequence'[SlotOf(w)] = w + 1) = FALSE
      BY <1>1, <1>3, <2>2
    <2>4. reserved'[w + 1] = ValueOf(p)
      BY <1>1, <1>2, <1>3
    <2> QED
      BY <2>3, <2>4, Zenon DEF PlaceNext
  <1>7. \A n \in 0 .. w - 1 : PlaceNext(n) = Place(n)
    BY <1>1, <1>2, <1>3 DEF Place, PlaceNext, SlotOf
  <1>8. Places' = Append(Places, new)
    <2>1. ASSUME NEW i \in 1 .. Len(Places)
          PROVE  Places'[i] = Places[i]
      <3>1. Len(retired) + i - 1 \in 0 .. w - 1
        BY <1>4, RemainingPositions DEF PlacesOK
      <3>2. Places[i] = Place(Len(retired) + i - 1)
        BY <1>4 DEF PlacesOK
      <3>3. i \in 1 .. Len(Places')
        BY <1>4 DEF PlacesOK
      <3>4. Places'[i] = PlaceNext(Len(retired') + i - 1)
        BY <1>4, <3>3 DEF PlacesOKNext
      <3> QED
        BY <1>3, <1>7, <3>1, <3>2, <3>4
    <2>2. Places'[Len(Places) + 1] = new
      <3>1. Len(retired) + (Len(Places) + 1) - 1 = w
        BY <1>4, RemainingPositions DEF PlacesOK
      <3>2. Len(Places) + 1 \in 1 .. Len(Places')
        BY <1>4 DEF PlacesOK
      <3>3. Places'[Len(Places) + 1] =
              PlaceNext(Len(retired') + (Len(Places) + 1) - 1)
        BY <1>4, <3>2 DEF PlacesOKNext
      <3> QED
        BY <1>3, <1>6, <3>1, <3>3
    <2>3. new \in PlaceSet
      BY <1>2 DEF PlaceSet
    <2> QED
      BY <1>4, <2>1, <2>2, <2>3 DEF PlacesOKNext, PlaceSet, Values
  <1> QED
    BY <1>2, <1>3, <1>5, <1>8 DEF Promise!Next, Promise!Reserve

\* A place in which one field is replaced.
LEMMA CompletedPlace ==
    ASSUME NEW v, NEW b, NEW t
    PROVE  [[value |-> v, complete |-> b] EXCEPT !.complete = t]
             = [value |-> v, complete |-> t]
  BY SMT

\* The published position is one of those whose value has not left.
LEMMA PublishCompletes ==
    ASSUME IInv, IInv', NEW p \in Producers, Publish(p)
    PROVE  Promise!Next
  <1> DEFINE w == write[p]
             k == w - Len(retired) + 1
  <1>1. /\ w \in Nat /\ w < write_index /\ w \in Window
        /\ SlotOf(w) \in Cells /\ Owns(p, w) /\ CellOK(w)
    BY OwnedPosition DEF Publish
  <1>2. Len(retired) \in Nat /\ Len(retired) <= w
    <2>1. CASE cpc \in {"destroy", "storeRead", "release"}
      <3>1. read # w /\ Released = read
        BY <1>1, <2>1, HeadPosition DEF Published
      <3>2. read <= w /\ Len(retired) <= read + 1 /\ Len(retired) \in Nat
        BY <1>1, <2>1, <3>1, CapacityAssumption, SMTT(30)
           DEF Window, IInv, TypeOK, ConsumerOK, TakenOut
      <3> QED
        BY <1>1, <3>1, <3>2 DEF IInv, TypeOK
    <2>2. CASE cpc \notin {"destroy", "storeRead", "release"}
      BY <1>1, <2>2, CapacityAssumption
         DEF Window, IInv, TypeOK, ConsumerOK, TakenOut, Released
    <2> QED
      BY <2>1, <2>2
  <1>3. /\ UNCHANGED <<write_index, reserved, retired>>
        /\ sequence' = [sequence EXCEPT ![SlotOf(w)] = w + 1]
    BY DEF Publish, Current, NextNumber, history
  <1>4. PlacesOK /\ PlacesOKNext /\ Len(Places') = Len(Places)
    BY <1>3, PlacesAre, PlacesAreNext DEF PlacesOK, PlacesOKNext
  <1>5. k \in 1 .. Len(Places) /\ Len(retired) + k - 1 = w
    <2>1. /\ Len(Places) = write_index - Len(retired)
          /\ write_index \in Nat /\ Len(retired) \in Nat
          /\ w \in Nat /\ w < write_index /\ Len(retired) <= w
      BY <1>1, <1>2, <1>4, RemainingPositions DEF PlacesOK
    <2> HIDE DEF w
    <2> QED
      BY <2>1
  <1>6. Places[k] = Place(w) /\ ~Places[k].complete
    <2>1. sequence[SlotOf(w)] = w
      BY <1>1 DEF CellOK
    <2>2. (sequence[SlotOf(w)] = w + 1) = FALSE
      BY <1>1, <2>1
    <2>3. Places[k] = Place(Len(retired) + k - 1)
      <3> HIDE DEF k
      <3> QED
        BY <1>4, <1>5 DEF PlacesOK
    <2>4. Place(w).complete = (sequence[SlotOf(w)] = w + 1)
      BY DEF Place
    <2> QED
      BY <1>5, <2>2, <2>3, <2>4
  <1>7. Places'[k] = [Places[k] EXCEPT !.complete = TRUE]
    <2>1. Places'[k] = PlaceNext(Len(retired') + k - 1)
      <3> HIDE DEF k
      <3> QED
        BY <1>4, <1>5 DEF PlacesOKNext
    <2>2. (sequence'[SlotOf(w)] = w + 1) = TRUE
      BY <1>1, <1>3 DEF IInv, TypeOK
    <2>3. PlaceNext(w) = [Place(w) EXCEPT !.complete = TRUE]
      <3>1. reserved'[w + 1] = reserved[w + 1]
        BY <1>3
      <3>2. PlaceNext(w) = [value |-> reserved[w + 1], complete |-> TRUE]
        BY <2>2, <3>1, Zenon DEF PlaceNext
      <3>3. [Place(w) EXCEPT !.complete = TRUE]
              = [value |-> reserved[w + 1], complete |-> TRUE]
        BY CompletedPlace, Zenon DEF Place
      <3> QED
        BY <3>2, <3>3
    <2> QED
      BY <1>3, <1>5, <1>6, <2>1, <2>3
  <1>8. ASSUME NEW i \in 1 .. Len(Places), i # k
        PROVE  Places'[i] = Places[i]
    <2> DEFINE n == Len(retired) + i - 1
    <2>1. n \in Len(retired) .. write_index - 1 /\ n # w
      BY <1>4, <1>5, <1>8, RemainingPositions DEF PlacesOK
    <2>2. n \in Nat /\ n \in Window
      BY <2>1, RemainingPositions
    <2>3. SlotOf(n) # SlotOf(w) /\ SlotOf(n) \in Cells
      BY <1>1, <2>1, <2>2, WindowSlotsDiffer, SlotIsCell DEF IInv
    <2>4. sequence'[SlotOf(n)] = sequence[SlotOf(n)]
      BY <1>3, <2>3 DEF IInv, TypeOK
    <2>5. n + 1 = Len(retired') + i /\ reserved'[n + 1] = reserved[n + 1]
      BY <1>3, <2>2
    <2>6. PlaceNext(n) = Place(n)
      BY <2>4, <2>5, Zenon DEF Place, PlaceNext
    <2>7. Places[i] = Place(n) /\ Places'[i] = PlaceNext(Len(retired') + i - 1)
      BY <1>4, <1>8 DEF PlacesOK, PlacesOKNext
    <2> QED
      BY <1>3, <2>6, <2>7
  <1> HIDE DEF k
  <1>9. Places' = [Places EXCEPT ![k].complete = TRUE]
    BY <1>4, <1>5, <1>7, <1>8 DEF PlacesOKNext
  <1> QED
    BY <1>3, <1>5, <1>6, <1>9 DEF Promise!Next, Promise!Complete

\* The value that is moved out, or destroyed by clear(), is the front one and
\* complete.
LEMMA HeadLeaves ==
    ASSUME IInv, IInv', cpc = "move" \/ (cpc = "destroy" /\ clearing),
           retired' = Append(retired, storage[SlotOf(read)]),
           UNCHANGED <<write_index, sequence, reserved>>
    PROVE  Promise!Next
  <1>1. /\ read \in Nat /\ read < write_index /\ Len(retired) = read
        /\ CellOK(read) /\ Published(read) /\ ~(TakenOut \/ cpc = "release")
        /\ write_index \in Nat
    BY HeadPosition DEF IInv, TypeOK, ConsumerOK, TakenOut
  <1>2. /\ sequence[SlotOf(read)] = read + 1
        /\ storage[SlotOf(read)] = reserved[read + 1]
    BY <1>1 DEF CellOK
  <1>3. PlacesOK /\ PlacesOKNext
    BY PlacesAre, PlacesAreNext
  <1>4. Len(retired') = read + 1
    BY <1>1 DEF IInv, TypeOK
  <1>5. Places # <<>> /\ Len(Places') = Len(Places) - 1 /\ Len(Places) >= 1
    BY <1>1, <1>3, <1>4 DEF PlacesOK, PlacesOKNext
  <1>6. Head(Places) = Place(read)
    BY <1>1, <1>3, <1>5 DEF PlacesOK
  <1>7. Head(Places).complete /\ Head(Places).value = storage[SlotOf(read)]
    <2>1. (sequence[SlotOf(read)] = read + 1) = TRUE
      BY <1>2
    <2>2. /\ Place(read).complete = (sequence[SlotOf(read)] = read + 1)
          /\ Place(read).value = reserved[read + 1]
      BY DEF Place
    <2> QED
      BY <1>2, <1>6, <2>1, <2>2
  <1>8. Places' = Tail(Places)
    <2>1. ASSUME NEW i \in 1 .. Len(Places')
          PROVE  Places'[i] = Places[i + 1]
      <3>1. Places'[i] = PlaceNext(Len(retired') + i - 1)
        BY <1>3 DEF PlacesOKNext
      <3>2. i + 1 \in 1 .. Len(Places)
        BY <1>3, <1>5 DEF PlacesOK
      <3>3. Places[i + 1] = Place(Len(retired) + (i + 1) - 1)
        BY <1>3, <3>2 DEF PlacesOK
      <3>4. /\ Len(retired') + i - 1 = read + i
            /\ Len(retired) + (i + 1) - 1 = read + i
        BY <1>1, <1>4
      <3>5. PlaceNext(read + i) = Place(read + i)
        BY DEF Place, PlaceNext
      <3> QED
        BY <3>1, <3>3, <3>4, <3>5
    <2> QED
      BY <1>3, <1>5, <2>1 DEF PlacesOKNext
  <1> QED
    BY <1>5, <1>7, <1>8 DEF Promise!Next, Promise!Take

-----------------------------------------------------------------------------

LEMMA StepRefines ==
    ASSUME IInv, IInv', [Next]_vars
    PROVE  [Promise!Next]_<<Places, retired>>
  <1>1. ASSUME NEW p \in Producers, Produce(p)
        PROVE  Promise!Next \/ UNCHANGED <<Places, retired>>
    <2>1. CASE Claim(p)
      BY <2>1, ClaimReserves
    <2>2. CASE Publish(p)
      BY <2>2, PublishCompletes
    <2>3. CASE Begin(p) \/ Reload(p) \/ LoadSequence(p) \/ ClaimFails(p)
                 \/ Construct(p)
      BY <2>3, Stutters DEF Begin, Reload, LoadSequence, ClaimFails, Construct,
                            shared, history
    <2> QED
      BY <1>1, <2>1, <2>2, <2>3 DEF Produce
  <1>2. ASSUME Consume
        PROVE  Promise!Next \/ UNCHANGED <<Places, retired>>
    <2>1. CASE MoveOut \/ (Destroy /\ clearing)
      BY <2>1, HeadLeaves DEF MoveOut, Destroy
    <2>2. CASE ReleaseCell
      BY <2>2, ReleaseStutters
    <2>3. CASE \/ TryPop \/ Clear \/ PopLoadSequence \/ PopStops \/ StoreRead
               \/ Destroy /\ ~clearing
      BY <2>3, Stutters DEF TryPop, Clear, PopLoadSequence, PopStops, StoreRead,
                            Destroy, shared, history
    <2> QED
      BY <1>2, <2>1, <2>2, <2>3 DEF Consume
  <1>3. CASE UNCHANGED vars
    BY <1>3, Stutters DEF vars, shared, history
  <1> QED
    BY <1>1, <1>2, <1>3 DEF Next

\* The queue keeps the promise of ReservationFifo (README of the queue,
\* "Producer Coordination"): places are reserved in order, completed in any
\* order and taken in order once complete.
THEOREM KeepsThePromise ==
    ASSUME Capacity >= 2
    PROVE  Spec => ImplementsReservationFifo
  <1>1. IInv /\ IInv' /\ [Next]_vars => [Promise!Next]_<<Places, retired>>
    BY StepRefines
  <1> QED
    BY <1>1, InitPlaces, InvariantHolds, PTL
       DEF Spec, ImplementsReservationFifo, Promise!Spec

-----------------------------------------------------------------------------
(* Observers: empty() and full(). *)

IsEmpty == sequence[SlotOf(read_index)] # read_index + 1
IsFull == write_index = Released + Capacity

LEMMA QuantitiesAre ==
    /\ Quantity("empty") = IsEmpty /\ Quantity("full") = IsFull
    /\ IsEmpty \in BOOLEAN /\ IsFull \in BOOLEAN
  <1>1. Quantity("empty") = IsEmpty
    BY Zenon DEF Quantity, IsEmpty
  <1>2. Quantity("full") = IsFull
    BY Zenon DEF Quantity, IsFull
  <1>3. IsEmpty \in BOOLEAN /\ IsFull \in BOOLEAN
    BY Zenon DEF IsEmpty, IsFull
  <1> QED
    BY <1>1, <1>2, <1>3

\* read_index moves only while an element is available, and a claim is not
\* possible between two moments at which the queue is full.
LEMMA QuantitiesMove ==
    ASSUME IInv, Next
    PROVE  /\ read_index' # read_index => ~IsEmpty
           /\ IsFull /\ IsFull' => write_index' = write_index
           /\ write_index <= write_index'
  <1>1. write_index \in Nat /\ Capacity \in Nat /\ Released \in Nat
    BY CapacityAssumption DEF IInv, TypeOK, Released
  <1>2. CASE StoreRead
    <2>1. read = read_index /\ sequence[SlotOf(read)] = read + 1
      BY <1>2, HeadPosition DEF StoreRead, IInv, ConsumerOK
    <2>2. write_index' = write_index
      BY <1>2 DEF StoreRead
    <2> QED
      BY <1>1, <2>1, <2>2 DEF IsEmpty
  <1>3. ASSUME NEW p \in Producers, Claim(p)
        PROVE  /\ read_index' = read_index /\ write_index' = write_index + 1
               /\ Released' = Released
    BY <1>3 DEF Claim, Released, consumerVars
  <1>4. CASE ~StoreRead /\ ~\E p \in Producers : Claim(p)
    <2>1. read_index' = read_index /\ write_index' = write_index
      <3>1. CASE Consume
        BY <1>4, <3>1 DEF Consume, TryPop, Clear, PopLoadSequence, PopStops,
                          MoveOut, Destroy, ReleaseCell, shared
      <3>2. ASSUME NEW p \in Producers, Produce(p)
            PROVE  read_index' = read_index /\ write_index' = write_index
        BY <1>4, <3>2 DEF Produce, Begin, Reload, LoadSequence, ClaimFails,
                          Construct, Publish, shared
      <3> QED
        BY <3>1, <3>2 DEF Next
    <2> QED
      BY <1>1, <2>1
  <1>5. ASSUME NEW p \in Producers, Claim(p)
        PROVE  /\ read_index' = read_index /\ write_index <= write_index'
               /\ ~(IsFull /\ IsFull')
    BY <1>1, <1>3, <1>5 DEF IsFull
  <1> QED
    BY <1>2, <1>4, <1>5

\* CallsOK in these terms.
CallOK(o) ==
    /\ call[o] \in {"none", "empty", "full"}
    /\ loaded[o] \in Nat /\ seen[o] \in SUBSET BOOLEAN
    /\ call[o] = "empty" => IsEmpty \in seen[o]
    /\ call[o] = "full" => IsFull \in seen[o]
    /\ call[o] = "empty" /\ read_index # loaded[o] => FALSE \in seen[o]
    /\ call[o] = "full" =>
         /\ loaded[o] <= write_index
         /\ FALSE \notin seen[o] => write_index = loaded[o]

ObserverFunctions ==
    /\ call = [o \in Observers |-> call[o]]
    /\ loaded = [o \in Observers |-> loaded[o]]
    /\ seen = [o \in Observers |-> seen[o]]

LEMMA CallsAre ==
    CallsOK <=> ObserverFunctions /\ \A o \in Observers : CallOK(o)
  <1>1. ASSUME NEW o, call[o] \in {"none", "empty", "full"}
        PROVE  (call[o] # "none" => Quantity(call[o]) \in seen[o])
               <=> /\ call[o] = "empty" => IsEmpty \in seen[o]
                   /\ call[o] = "full" => IsFull \in seen[o]
    <2>1. /\ "empty" # "none" /\ "full" # "none" /\ "empty" # "full"
          /\ call[o] = "none" \/ call[o] = "empty" \/ call[o] = "full"
      BY <1>1
    <2> QED
      BY <2>1, QuantitiesAre, Zenon
  <1> QED
    <2>1. (/\ call \in [Observers -> {"none", "empty", "full"}]
           /\ loaded \in [Observers -> Nat]
           /\ seen \in [Observers -> SUBSET BOOLEAN])
            <=> /\ ObserverFunctions
                /\ \A o \in Observers :
                     /\ call[o] \in {"none", "empty", "full"}
                     /\ loaded[o] \in Nat /\ seen[o] \in SUBSET BOOLEAN
      BY DEF ObserverFunctions
    <2> QED
      <3>1. ASSUME CallsOK
            PROVE  ObserverFunctions /\ \A o \in Observers : CallOK(o)
        <4>1. ObserverFunctions
          BY <2>1, <3>1 DEF CallsOK
        <4>2. ASSUME NEW o \in Observers PROVE CallOK(o)
          <5>1. /\ call[o] \in {"none", "empty", "full"}
                /\ loaded[o] \in Nat /\ seen[o] \in SUBSET BOOLEAN
            BY <2>1, <3>1 DEF CallsOK
          <5>2. call[o] # "none" => Quantity(call[o]) \in seen[o]
            BY <3>1 DEF CallsOK
          <5>3. /\ call[o] = "empty" => IsEmpty \in seen[o]
                /\ call[o] = "full" => IsFull \in seen[o]
            <6>1. (call[o] # "none" => Quantity(call[o]) \in seen[o])
                    <=> /\ call[o] = "empty" => IsEmpty \in seen[o]
                        /\ call[o] = "full" => IsFull \in seen[o]
              BY <1>1, <5>1
            <6> QED
              BY <5>2, <6>1
          <5> QED
            BY <3>1, <5>1, <5>3, Zenon DEF CallsOK, CallOK
        <4> QED
          BY <4>1, <4>2
      <3>2. ASSUME ObserverFunctions, \A o \in Observers : CallOK(o)
            PROVE  CallsOK
        <4>1. /\ call \in [Observers -> {"none", "empty", "full"}]
              /\ loaded \in [Observers -> Nat]
              /\ seen \in [Observers -> SUBSET BOOLEAN]
          BY <2>1, <3>2 DEF CallOK
        <4>2. ASSUME NEW o \in Observers, call[o] # "none"
              PROVE  Quantity(call[o]) \in seen[o]
          <5>1. /\ call[o] \in {"none", "empty", "full"}
                /\ call[o] = "empty" => IsEmpty \in seen[o]
                /\ call[o] = "full" => IsFull \in seen[o]
            BY <3>2, <4>2, Zenon DEF CallOK
          <5>2. (call[o] # "none" => Quantity(call[o]) \in seen[o])
                  <=> /\ call[o] = "empty" => IsEmpty \in seen[o]
                      /\ call[o] = "full" => IsFull \in seen[o]
            BY <1>1, <5>1
          <5> QED
            BY <4>2, <5>1, <5>2
        <4> QED
          BY <3>2, <4>1, <4>2, Zenon DEF CallsOK, CallOK
      <3> QED
        BY <3>1, <3>2

LEMMA CallsAreNext ==
    ASSUME ObserverFunctions', \A o \in Observers : CallOK(o)'
    PROVE  CallsOK'
  <1>1. CallsOK' <=> (ObserverFunctions /\ \A o \in Observers : CallOK(o))'
    BY CallsAre, PTL
  <1>2. (\A o \in Observers : CallOK(o))'
    OBVIOUS
  <1> QED
    BY <1>1, <1>2

LEMMA InitCallsOK == ObservedInit => CallsOK
  BY DEF ObservedInit, ObserverInit, CallsOK

\* A step of the queue adds the new quantity to the history.
LEMMA QueueKeepsCallsOK ==
    ASSUME IInv, IInv', CallsOK, QueueStep
    PROVE  CallsOK'
  <1>1. call' = call /\ loaded' = loaded /\ Next
    BY DEF QueueStep
  <1>2. /\ IsEmpty' \in BOOLEAN /\ IsFull' \in BOOLEAN
        /\ write_index \in Nat /\ write_index' \in Nat
    <2>1. IsEmpty' \in BOOLEAN /\ IsFull' \in BOOLEAN
      BY Zenon DEF IsEmpty, IsFull
    <2> QED
      BY <2>1 DEF IInv, TypeOK
  <1>3. ASSUME NEW o \in Observers
        PROVE  /\ call[o] = "none" => seen'[o] = {}
               /\ call[o] = "empty" => seen'[o] = seen[o] \cup {IsEmpty'}
               /\ call[o] = "full" => seen'[o] = seen[o] \cup {IsFull'}
    <2>1. call'[o] = call[o]
      BY <1>1
    <2>2. seen'[o] = IF call[o] = "none" THEN {}
                       ELSE seen[o] \cup {Quantity(call[o])'}
      BY DEF QueueStep
    <2>3. CASE call[o] = "empty"
      <3>1. Quantity(call[o])' = IsEmpty'
        BY <2>1, <2>3, Zenon DEF Quantity, IsEmpty
      <3> QED
        BY <2>2, <2>3, <3>1
    <2>4. CASE call[o] = "full"
      <3>1. Quantity(call[o])' = IsFull'
        BY <2>1, <2>4, Zenon DEF Quantity, IsFull
      <3> QED
        BY <2>2, <2>4, <3>1
    <2> QED
      BY <2>2, <2>3, <2>4
  <1>4. ObserverFunctions'
    <2>1. call' = [o \in Observers |-> call'[o]]
          /\ loaded' = [o \in Observers |-> loaded'[o]]
      BY <1>1, CallsAre DEF ObserverFunctions
    <2>2. seen' = [o \in Observers |-> seen'[o]]
      BY DEF QueueStep
    <2> QED
      BY <2>1, <2>2 DEF ObserverFunctions
  <1>5. ASSUME NEW o \in Observers
        PROVE  CallOK(o)'
    <2>1. call'[o] = call[o] /\ loaded'[o] = loaded[o] /\ CallOK(o)
      BY <1>1, CallsAre
    <2>2. CASE call[o] = "none"
      BY <1>3, <2>1, <2>2 DEF CallOK
    <2>3. CASE call[o] = "empty"
      <3>1. read_index' = read_index \/ IsEmpty = FALSE
        BY <1>1, QuantitiesMove, QuantitiesAre
      <3> QED
        BY <1>2, <1>3, <2>1, <2>3, <3>1 DEF CallOK
    <2>4. CASE call[o] = "full"
      <3>1. /\ write_index <= write_index'
            /\ IsFull = FALSE \/ IsFull' = FALSE \/ write_index' = write_index
        BY <1>1, <1>2, QuantitiesMove, QuantitiesAre
      <3>2. write_index \in Nat /\ write_index' \in Nat /\ loaded[o] \in Nat
        BY <1>2, <2>1 DEF CallOK
      <3>3. seen'[o] = seen[o] \cup {IsFull'} /\ IsFull' \in seen'[o]
        BY <1>3, <2>4
      <3>4. ASSUME FALSE \notin seen'[o]
            PROVE  write_index' = loaded[o]
        <4>1. FALSE \notin seen[o] /\ IsFull' # FALSE
          BY <3>3, <3>4
        <4>2. IsFull # FALSE /\ write_index = loaded[o]
          BY <2>1, <2>4, <4>1, Zenon DEF CallOK
        <4> QED
          BY <3>1, <4>1, <4>2
      <3>5. seen'[o] \in SUBSET BOOLEAN /\ loaded[o] <= write_index'
        <4>1. loaded[o] <= write_index /\ seen[o] \in SUBSET BOOLEAN
          BY <2>1, <2>4 DEF CallOK
        <4> QED
          BY <1>2, <3>1, <3>2, <3>3, <4>1
      <3>6. /\ call'[o] = "full" /\ loaded'[o] = loaded[o]
            /\ call'[o] # "empty" /\ loaded'[o] \in Nat
        BY <2>1, <2>4, <3>2
      <3> QED
        BY <3>3, <3>4, <3>5, <3>6, Zenon DEF CallOK
    <2> QED
      BY <2>1, <2>2, <2>3, <2>4 DEF CallOK
  <1> QED
    BY <1>4, <1>5, CallsAreNext

\* An observer's own step only opens or closes its call.
LEMMA ObserverKeepsCallsOK ==
    ASSUME IInv, CallsOK, NEW o \in Observers, ObserverStep(o)
    PROVE  CallsOK'
  <1>1. IsEmpty' = IsEmpty /\ IsFull' = IsFull /\ read_index' = read_index
        /\ write_index' = write_index
    BY Zenon DEF ObserverStep, vars, shared, consumerVars, IsEmpty, IsFull, Released
  <1>2. read_index \in Nat /\ write_index \in Nat
    BY DEF IInv, TypeOK
  <1>3. IsEmpty' \in BOOLEAN /\ IsFull' \in BOOLEAN
    BY Zenon DEF IsEmpty, IsFull
  <1>4. \A q \in Observers : CallOK(q)
    BY CallsAre
  <1>5. CASE Return(o)
    <2>1. ObserverFunctions'
      BY <1>5, CallsAre DEF Return, ObserverFunctions
    <2>2. ASSUME NEW q \in Observers PROVE CallOK(q)'
      <3>1. CASE q = o
        BY <1>5, <3>1, CallsAre DEF Return, CallOK, ObserverFunctions
      <3>2. CASE q # o
        <4>1. call'[q] = call[q] /\ loaded'[q] = loaded[q] /\ seen'[q] = seen[q]
          BY <1>5, <3>2, CallsAre DEF Return, ObserverFunctions
        <4> QED
          BY <1>1, <1>4, <4>1, Zenon DEF CallOK
      <3> QED
        BY <3>1, <3>2
    <2> QED
      BY <2>1, <2>2, CallsAreNext
  <1>6. ASSUME NEW c \in {"empty", "full"}, Enter(o, c)
        PROVE  CallsOK'
    <2>1. ObserverFunctions'
      BY <1>6, CallsAre DEF Enter, ObserverFunctions
    <2>2. ASSUME NEW q \in Observers PROVE CallOK(q)'
      <3>1. CASE q = o /\ c = "empty"
        <4>1. /\ call'[q] = "empty" /\ loaded'[q] = read_index
              /\ seen'[q] = {IsEmpty}
          BY <1>6, <3>1, CallsAre, QuantitiesAre DEF Enter, ObserverFunctions
        <4> QED
          BY <1>1, <1>2, <1>3, <4>1 DEF CallOK
      <3>2. CASE q = o /\ c = "full"
        <4>1. /\ call'[q] = "full" /\ loaded'[q] = write_index
              /\ seen'[q] = {IsFull}
          BY <1>6, <3>2, CallsAre, QuantitiesAre DEF Enter, ObserverFunctions
        <4> QED
          BY <1>1, <1>2, <1>3, <4>1 DEF CallOK
      <3>3. CASE q # o
        <4>1. call'[q] = call[q] /\ loaded'[q] = loaded[q] /\ seen'[q] = seen[q]
          BY <1>6, <3>3, CallsAre DEF Enter, ObserverFunctions
        <4> QED
          BY <1>1, <1>4, <4>1, Zenon DEF CallOK
      <3> QED
        BY <3>1, <3>2, <3>3
    <2> QED
      BY <2>1, <2>2, CallsAreNext
  <1> QED
    BY <1>5, <1>6 DEF ObserverStep

LEMMA ObservedInvariant ==
    ASSUME Capacity >= 2
    PROVE  ObservedSpec => [](IInv /\ CallsOK)
  <1> DEFINE I == IInv /\ CallsOK
  <1>1. ObservedInit => I
    BY InitIInv, InitCallsOK DEF ObservedInit
  <1>2. ASSUME I, [ObservedNext]_<<vars, observerVars>> PROVE I'
    <2>1. IInv'
      BY <1>2, NextKeepsIInv DEF ObservedNext, QueueStep, ObserverStep
    <2>2. CASE UNCHANGED <<vars, observerVars>>
      <3>1. /\ IsEmpty' = IsEmpty /\ IsFull' = IsFull
            /\ read_index' = read_index /\ write_index' = write_index
        BY <2>2, Zenon DEF vars, shared, consumerVars, IsEmpty, IsFull, Released
      <3>2. call' = call /\ loaded' = loaded /\ seen' = seen
        BY <2>2 DEF observerVars
      <3>3. ObserverFunctions'
        BY <1>2, <3>2, CallsAre DEF ObserverFunctions
      <3>4. ASSUME NEW o \in Observers PROVE CallOK(o)'
        <4>1. CallOK(o)
          BY <1>2, CallsAre
        <4> QED
          BY <3>1, <3>2, <4>1 DEF CallOK
      <3> QED
        BY <2>1, <3>3, <3>4, CallsAreNext
    <2> QED
      BY <1>2, <2>1, <2>2, QueueKeepsCallsOK, ObserverKeepsCallsOK
         DEF ObservedNext
  <1> QED
    BY <1>1, <1>2, PTL DEF ObservedSpec

\* The number of a cell in the Window tells whether its position is published.
LEMMA NumberInWindow ==
    ASSUME IInv, NEW n \in Window
    PROVE  n \in Nat /\ sequence[SlotOf(n)] \in {n, n + 1}
  <1>1. n \in Nat /\ CellOK(n) /\ write_index \in Nat
    BY CapacityAssumption DEF IInv, CellsOK, TypeOK, Window, Released
  <1>2. CASE n >= write_index
    BY <1>1, <1>2 DEF CellOK
  <1>3. CASE n < write_index
    <2>1. Published(n) \/ \E p \in Producers : Owns(p, n)
      BY <1>3 DEF Published
    <2> QED
      BY <1>1, <2>1 DEF CellOK
  <1> QED
    BY <1>1, <1>2, <1>3

\* The cell of a position before the end of the Window never has a number
\* below that position.
LEMMA OldNumbersGone ==
    ASSUME IInv, NEW n \in Nat, n < Released + Capacity
    PROVE  ~(sequence[SlotOf(n)] < n)
  <1>1. Released \in Nat /\ Capacity \in Nat
    BY CapacityAssumption DEF IInv, TypeOK, Released
  <1>2. PICK m \in Window : SlotOf(m) = SlotOf(n)
    BY WindowCoversCells, SlotIsCell DEF IInv
  <1>3. m \in Nat /\ sequence[SlotOf(n)] \in {m, m + 1}
    BY <1>2, NumberInWindow
  <1>4. n <= m
    <2>1. CASE n \in Window
      BY <1>1, <1>2, <1>3, <2>1, WindowSlotsDiffer DEF IInv
    <2>2. CASE n \notin Window
      BY <1>1, <1>2, <1>3, <2>2 DEF Window
    <2> QED
      BY <2>1, <2>2
  <1> QED
    BY <1>3, <1>4

\* full() answers with what was true at some instant of the call.
THEOREM FullReportsAnInstant ==
    ASSUME Capacity >= 2
    PROVE  ObservedSpec => FullIsSnapshot
  <1> DEFINE A == \A o \in Observers :
                    Returns(o, "full") => Verdict("full", loaded[o]) \in seen[o]
  <1>1. ASSUME IInv, CallsOK, NEW o \in Observers, call[o] = "full"
        PROVE  Verdict("full", loaded[o]) \in seen[o]
    <2> DEFINE n == loaded[o]
    <2>1. /\ IsFull \in seen[o] /\ n <= write_index /\ n \in Nat
          /\ FALSE \notin seen[o] => write_index = n
      BY <1>1, CallsAre DEF CallOK
    <2>2. Verdict("full", n) = (sequence[SlotOf(n)] < n)
      BY Zenon DEF Verdict
    <2>3. CASE sequence[SlotOf(n)] < n
      <3>1. ~(n < Released + Capacity)
        BY <1>1, <2>1, <2>3, OldNumbersGone
      <3>2. write_index = Released + Capacity
        BY <1>1, <2>1, <3>1, CapacityAssumption
           DEF IInv, Indices, TypeOK, Released
      <3> QED
        BY <2>1, <2>2, <2>3, <3>2, Zenon DEF IsFull
    <2>4. CASE ~(sequence[SlotOf(n)] < n)
      <3>1. FALSE \in seen[o]
        <4> SUFFICES ASSUME FALSE \notin seen[o] PROVE FALSE
          OBVIOUS
        <4>1. IsFull /\ n = write_index
          BY <2>1, Zenon DEF IsFull
        <4>2. n = Released + Capacity
          BY <4>1 DEF IsFull
        <4>3. Released \in Nat /\ Capacity \in Nat
          BY <1>1, CapacityAssumption DEF IInv, TypeOK, Released
        <4>4. Released \in Window /\ SlotOf(n) = SlotOf(Released)
          BY <4>2, <4>3, SlotOfNextRound DEF Window
        <4>5. sequence[SlotOf(Released)] \in {Released, Released + 1}
          BY <1>1, <4>4, NumberInWindow
        <4> QED
          BY <2>4, <4>2, <4>3, <4>4, <4>5
      <3>2. Verdict("full", n) = FALSE
        <4>1. CASE Verdict("full", n)
          BY <2>2, <2>4, <4>1
        <4>2. CASE ~Verdict("full", n)
          <5>1. (sequence[SlotOf(n)] < n) = FALSE
            BY <2>4
          <5> QED
            BY <2>2, <5>1
        <4> QED
          BY <4>1, <4>2
      <3> QED
        BY <3>1, <3>2
    <2> QED
      BY <2>3, <2>4
  <1>2. IInv /\ CallsOK => [A]_<<vars, observerVars>>
    BY <1>1 DEF Returns
  <1> QED
    BY <1>2, ObservedInvariant, PTL DEF FullIsSnapshot

\* An answer of empty() that was true at no instant of the call is a true one,
\* and the consumer popped meanwhile: "not empty" is always a snapshot.
THEOREM EmptyErrsBehindPop ==
    ASSUME Capacity >= 2
    PROVE  ObservedSpec => EmptyErrsOnlyBehindPop
  <1> DEFINE A == \A o \in Observers :
                    Returns(o, "empty")
                      /\ Verdict("empty", loaded[o]) \notin seen[o] =>
                        Verdict("empty", loaded[o]) /\ read_index # loaded[o]
  <1>1. ASSUME CallsOK, NEW o \in Observers, call[o] = "empty"
        PROVE  \/ Verdict("empty", loaded[o]) \in seen[o]
               \/ Verdict("empty", loaded[o]) /\ read_index # loaded[o]
    <2>1. /\ IsEmpty \in seen[o]
          /\ read_index # loaded[o] => FALSE \in seen[o]
      BY <1>1, CallsAre DEF CallOK
    <2>2. Verdict("empty", loaded[o])
            = (sequence[SlotOf(loaded[o])] # loaded[o] + 1)
      BY Zenon DEF Verdict
    <2>3. CASE read_index = loaded[o]
      BY <2>1, <2>2, <2>3, Zenon DEF IsEmpty
    <2>4. CASE read_index # loaded[o]
      <3>1. CASE Verdict("empty", loaded[o])
        BY <2>4, <3>1
      <3>2. CASE ~Verdict("empty", loaded[o])
        <4>1. Verdict("empty", loaded[o]) = FALSE
          BY <2>2, <3>2, Zenon
        <4> QED
          BY <2>1, <2>4, <4>1
      <3> QED
        BY <3>1, <3>2
    <2> QED
      BY <2>3, <2>4
  <1>2. CallsOK => [A]_<<vars, observerVars>>
    BY <1>1 DEF Returns
  <1> QED
    BY <1>2, ObservedInvariant, PTL DEF EmptyErrsOnlyBehindPop
=============================================================================
