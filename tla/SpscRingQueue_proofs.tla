------------------------ MODULE SpscRingQueue_proofs ------------------------
(***************************************************************************)
(* Proofs about SpscRingQueue for every Capacity and every Modulus it       *)
(* divides: storage safety, freedom from data races, the answers of full()  *)
(* and empty(), and that the queue implements BoundedFifo.                  *)
(***************************************************************************)
EXTENDS SpscRingQueue, SharedLemmas

-----------------------------------------------------------------------------
(* Indices that wrap at Modulus, and the slots they stand for. *)

LEMMA MinusIs ==
    ASSUME NEW i \in Index, NEW j \in Index
    PROVE  /\ Minus(i, j) = IF j <= i THEN i - j ELSE i + Modulus - j
           /\ Minus(i, j) \in Index
  <1>1. CASE j <= i
    <2>1. i - j \in 0 .. Modulus - 1 /\ i + Modulus - j = (i - j) + Modulus
      BY <1>1, CapacityAssumption DEF Index
    <2>2. ((i - j) + Modulus) % Modulus = i - j
      BY <2>1, CapacityAssumption, FirstRounds
    <2> QED
      BY <1>1, <2>1, <2>2 DEF Minus, Index
  <1>2. CASE ~(j <= i)
    <2>1. i + Modulus - j \in 0 .. Modulus - 1
      BY <1>2, CapacityAssumption DEF Index
    <2>2. (i + Modulus - j) % Modulus = i + Modulus - j
      BY <2>1, CapacityAssumption, FirstRounds
    <2> QED
      BY <1>2, <2>1, <2>2 DEF Minus, Index
  <1> QED
    BY <1>1, <1>2

\* Going k on from i.
LEMMA AddIs ==
    ASSUME NEW i \in Index, NEW k \in Index
    PROVE  /\ (i + k) % Modulus
                = IF i + k < Modulus THEN i + k ELSE i + k - Modulus
           /\ (i + k) % Modulus \in Index
  <1>1. CASE i + k < Modulus
    <2>1. i + k \in 0 .. Modulus - 1
      BY <1>1, CapacityAssumption DEF Index
    <2>2. (i + k) % Modulus = i + k
      BY <2>1, CapacityAssumption, FirstRounds
    <2> QED
      BY <1>1, <2>1, <2>2 DEF Index
  <1>2. CASE ~(i + k < Modulus)
    <2>1. /\ i + k - Modulus \in 0 .. Modulus - 1
          /\ i + k = (i + k - Modulus) + Modulus
      BY <1>2, CapacityAssumption DEF Index
    <2>2. ((i + k - Modulus) + Modulus) % Modulus = i + k - Modulus
      BY <2>1, CapacityAssumption, FirstRounds
    <2> QED
      BY <1>2, <2>1, <2>2 DEF Index
  <1> QED
    BY <1>1, <1>2

LEMMA SuccIs ==
    ASSUME NEW i \in Index
    PROVE  /\ Succ(i) = IF i + 1 < Modulus THEN i + 1 ELSE 0
           /\ Succ(i) \in Index
  <1>1. 1 \in Index
    BY CapacityAssumption DEF Index
  <1>2. /\ (i + 1) % Modulus
              = IF i + 1 < Modulus THEN i + 1 ELSE i + 1 - Modulus
        /\ (i + 1) % Modulus \in Index
    BY <1>1, AddIs
  <1> QED
    BY <1>2, CapacityAssumption DEF Succ, Index

\* The slot does not depend on whether an index has wrapped.
LEMMA SlotOfWrapped ==
    ASSUME NEW a \in Nat
    PROVE  SlotOf(a + Modulus) = SlotOf(a)
  <1> DEFINE m == Modulus \div Capacity
  <1>1. m \in Nat /\ Modulus = Capacity * m
    <2>1. m \in Nat /\ Modulus = Capacity * m + (Modulus % Capacity)
      BY CapacityAssumption, DivMod
    <2>2. Capacity * m \in Nat
      BY <2>1, CapacityAssumption, SMT
    <2> QED
      BY <2>1, <2>2, CapacityAssumption
  <1> HIDE DEF m
  <1>2. (a + Capacity * m) % Capacity = a % Capacity
    BY <1>1, CapacityAssumption, RoundsSameCell
  <1> QED
    BY <1>1, <1>2, Zenon DEF SlotOf

LEMMA SlotOfAdd ==
    ASSUME NEW i \in Index, NEW k \in Index
    PROVE  SlotOf((i + k) % Modulus) = SlotOf(i + k)
  <1>1. CASE i + k < Modulus
    BY <1>1, AddIs
  <1>2. CASE ~(i + k < Modulus)
    <2>1. /\ i + k - Modulus \in Nat
          /\ i + k = (i + k - Modulus) + Modulus
      BY <1>2, CapacityAssumption DEF Index
    <2>2. SlotOf((i + k - Modulus) + Modulus) = SlotOf(i + k - Modulus)
      BY <2>1, SlotOfWrapped
    <2> QED
      BY <1>2, <2>1, <2>2, AddIs
  <1> QED
    BY <1>1, <1>2

\* The slot of an index is the one its distance says.
LEMMA SlotAtDistance ==
    ASSUME NEW i \in Index, NEW j \in Index
    PROVE  SlotOf(i) = SlotOf(j + Minus(i, j))
  <1>1. CASE j <= i
    <2>1. j + Minus(i, j) = i
      BY <1>1, MinusIs DEF Index
    <2> QED
      BY <2>1
  <1>2. CASE ~(j <= i)
    <2>1. j + Minus(i, j) = i + Modulus
      BY <1>2, MinusIs, CapacityAssumption DEF Index
    <2> QED
      BY <2>1, SlotOfWrapped DEF Index
  <1> QED
    BY <1>1, <1>2

LEMMA SlotsDiffer ==
    ASSUME NEW i \in Index, NEW k \in 0 .. Capacity - 1,
           NEW l \in 0 .. Capacity - 1, k # l
    PROVE  SlotOf(i + k) # SlotOf(i + l)
  <1>1. i + k \in Nat /\ i + l \in Nat
    BY CapacityAssumption DEF Index
  <1>2. CASE k < l
    <2>1. i + k < i + l /\ i + l < (i + k) + Capacity
      BY <1>2, CapacityAssumption DEF Index
    <2> QED
      BY <1>1, <2>1, CapacityAssumption, NearPositionsDiffer DEF SlotOf
  <1>3. CASE l < k
    <2>1. i + l < i + k /\ i + k < (i + l) + Capacity
      BY <1>3, CapacityAssumption DEF Index
    <2> QED
      BY <1>1, <2>1, CapacityAssumption, NearPositionsDiffer DEF SlotOf
  <1> QED
    BY <1>2, <1>3, CapacityAssumption

LEMMA SlotInSlots ==
    ASSUME NEW a \in Nat
    PROVE  SlotOf(a) \in Slots
  BY CapacityAssumption, DivMod DEF SlotOf, Slots

-----------------------------------------------------------------------------
(* What a load of an index may return. *)

\* The producer: s was seen last, c is the current read_index, a write_index.
LEMMA LoadBehind ==
    ASSUME NEW a \in Index, NEW s \in Index, NEW c \in Index,
           Minus(a, c) <= Minus(a, s), NEW r \in Visible(s, c)
    PROVE  r \in Index /\ Minus(a, c) <= Minus(a, r) /\ Minus(a, r) <= Minus(a, s)
  <1>1. PICK k \in 0 .. Minus(c, s) : r = (s + k) % Modulus
    BY DEF Visible
  <1>2. /\ k \in Index /\ k <= Minus(c, s)
        /\ Minus(c, s) = IF s <= c THEN c - s ELSE c + Modulus - s
        /\ Minus(a, s) = IF s <= a THEN a - s ELSE a + Modulus - s
        /\ Minus(a, c) = IF c <= a THEN a - c ELSE a + Modulus - c
    BY <1>1, MinusIs, CapacityAssumption DEF Index
  <1>3. r \in Index /\ r = IF s + k < Modulus THEN s + k ELSE s + k - Modulus
    BY <1>1, <1>2, AddIs
  <1>4. Minus(a, r) = IF r <= a THEN a - r ELSE a + Modulus - r
    BY <1>3, MinusIs
  <1> QED
    BY <1>2, <1>3, <1>4, CapacityAssumption DEF Index

\* The consumer: s was seen last, c is the current write_index, b read_index.
LEMMA LoadAhead ==
    ASSUME NEW b \in Index, NEW s \in Index, NEW c \in Index,
           Minus(s, b) <= Minus(c, b), NEW w \in Visible(s, c)
    PROVE  w \in Index /\ Minus(s, b) <= Minus(w, b) /\ Minus(w, b) <= Minus(c, b)
  <1>1. PICK k \in 0 .. Minus(c, s) : w = (s + k) % Modulus
    BY DEF Visible
  <1>2. /\ k \in Index /\ k <= Minus(c, s)
        /\ Minus(c, s) = IF s <= c THEN c - s ELSE c + Modulus - s
        /\ Minus(s, b) = IF b <= s THEN s - b ELSE s + Modulus - b
        /\ Minus(c, b) = IF b <= c THEN c - b ELSE c + Modulus - b
    BY <1>1, MinusIs, CapacityAssumption DEF Index
  <1>3. w \in Index /\ w = IF s + k < Modulus THEN s + k ELSE s + k - Modulus
    BY <1>1, <1>2, AddIs
  <1>4. Minus(w, b) = IF b <= w THEN w - b ELSE w + Modulus - b
    BY <1>3, MinusIs
  <1> QED
    BY <1>2, <1>3, <1>4, CapacityAssumption DEF Index

\* An index that moves on by one is one further ahead or one less behind.
LEMMA StepAhead ==
    ASSUME NEW i \in Index, NEW j \in Index, Minus(i, j) < Modulus - 1
    PROVE  Minus(Succ(i), j) = Minus(i, j) + 1
  <1>1. /\ Succ(i) \in Index
        /\ Succ(i) = IF i + 1 < Modulus THEN i + 1 ELSE 0
        /\ Minus(i, j) = IF j <= i THEN i - j ELSE i + Modulus - j
    BY SuccIs, MinusIs
  <1>2. Minus(Succ(i), j)
          = IF j <= Succ(i) THEN Succ(i) - j ELSE Succ(i) + Modulus - j
    BY <1>1, MinusIs
  <1> QED
    BY <1>1, <1>2, CapacityAssumption DEF Index

LEMMA StepCloser ==
    ASSUME NEW i \in Index, NEW j \in Index, i # j
    PROVE  Minus(i, Succ(j)) = Minus(i, j) - 1 /\ Minus(i, j) >= 1
  <1>1. /\ Succ(j) \in Index
        /\ Succ(j) = IF j + 1 < Modulus THEN j + 1 ELSE 0
        /\ Minus(i, j) = IF j <= i THEN i - j ELSE i + Modulus - j
    BY SuccIs, MinusIs
  <1>2. Minus(i, Succ(j))
          = IF Succ(j) <= i THEN i - Succ(j) ELSE i + Modulus - Succ(j)
    BY <1>1, MinusIs
  <1> QED
    BY <1>1, <1>2, CapacityAssumption DEF Index

-----------------------------------------------------------------------------
(* The invariant. *)

Used == Minus(write_index, read_index)

LEMMA Distances ==
    ASSUME IInv
    PROVE  /\ write_index \in Index /\ read_index \in Index
           /\ seenRead \in Index /\ seenWrite \in Index
           /\ Used \in 0 .. Capacity /\ Used < Modulus
           /\ Minus(write_index, seenRead) \in Used .. Capacity
           /\ Minus(seenWrite, read_index) \in 0 .. Used
  <1>1. /\ write_index \in Index /\ read_index \in Index
        /\ seenRead \in Index /\ seenWrite \in Index
    BY DEF IInv, TypeOK
  <1>2. /\ Used \in Index /\ Minus(write_index, seenRead) \in Index
        /\ Minus(seenWrite, read_index) \in Index
    BY <1>1, MinusIs DEF Used
  <1>3. Used <= Capacity
    BY DEF IInv, TypeOK, Used
  <1> QED
    BY <1>1, <1>2, <1>3, CapacityAssumption DEF IInv, SeenIndices, Used, Index

\* A consumer that has seen another write_index than read_index has an object
\* to take.
LEMMA SomethingThere ==
    ASSUME IInv, seenWrite # read_index
    PROVE  Used >= 1 /\ Minus(seenWrite, read_index) >= 1
  BY Distances, StepCloser, CapacityAssumption

\* The storage counted from the next read_index.
CellNext(k) == storage'[SlotOf(read_index' + k)]

LEMMA StorageIs ==
    StorageMatches <=>
      /\ \A k \in 0 .. Used - 1 : (k = 0 /\ FrontGone) \/ Cell(k) \in Values
      /\ cpc = "release" => Cell(0) = Raw
      /\ \A k \in Used .. Capacity - 1 :
           Cell(k) = IF ppc = "publish" /\ k = Used THEN item ELSE Raw
  BY DEF StorageMatches, Used

LEMMA StorageIsNext ==
    StorageMatches' <=>
      /\ \A k \in 0 .. Used' - 1 : (k = 0 /\ FrontGone') \/ CellNext(k) \in Values
      /\ cpc' = "release" => CellNext(0) = Raw
      /\ \A k \in Used' .. Capacity - 1 :
           CellNext(k) = IF ppc' = "publish" /\ k = Used' THEN item' ELSE Raw
  BY DEF StorageMatches, Used, Cell, CellNext

\* Steps that touch neither the storage nor the indices.
LEMMA StorageStays ==
    ASSUME IInv, UNCHANGED <<storage, write_index, read_index>>,
           cpc # "release", cpc' # "release", ~FrontGone,
           ppc' = "publish" => ppc = "publish" /\ item' = item,
           ppc = "publish" => ppc' = "publish"
    PROVE  StorageMatches'
  <1>1. Used' = Used /\ \A k : CellNext(k) = Cell(k)
    BY DEF Used, Cell, CellNext
  <1> QED
    BY <1>1, StorageIs, StorageIsNext DEF IInv

\* The same for the producer, while the consumer may be anywhere.
LEMMA StorageStaysForProducer ==
    ASSUME IInv, UNCHANGED <<storage, write_index, read_index, cpc, clearing>>,
           ppc # "publish", ppc' # "publish"
    PROVE  StorageMatches'
  <1>1. Used' = Used /\ (\A k : CellNext(k) = Cell(k)) /\ (FrontGone' <=> FrontGone)
    BY DEF Used, Cell, CellNext, FrontGone
  <1> QED
    BY <1>1, StorageIs, StorageIsNext DEF IInv

\* A write to one slot leaves the others alone.
LEMMA OneCellWritten ==
    ASSUME IInv, NEW k \in 0 .. Capacity - 1, NEW v,
           read_index' = read_index,
           storage' = [storage EXCEPT ![SlotOf(read_index + k)] = v]
    PROVE  /\ CellNext(k) = v
           /\ \A l \in 0 .. Capacity - 1 : l # k => CellNext(l) = Cell(l)
  <1>1. read_index \in Index /\ read_index + k \in Nat
    BY Distances, CapacityAssumption DEF Index
  <1>2. SlotOf(read_index + k) \in Slots
    BY <1>1, SlotInSlots
  <1>3. storage \in [Slots -> Values \cup {Raw, Moved}]
    BY DEF IInv, TypeOK
  <1>4. CellNext(k) = v
    BY <1>2, <1>3 DEF CellNext
  <1>5. ASSUME NEW l \in 0 .. Capacity - 1, l # k
        PROVE  CellNext(l) = Cell(l)
    <2>1. read_index + l \in Nat
      BY <1>1, CapacityAssumption DEF Index
    <2>2. SlotOf(read_index + l) # SlotOf(read_index + k)
      BY <1>1, <1>5, SlotsDiffer
    <2>3. SlotOf(read_index + l) \in Slots
      BY <2>1, SlotInSlots
    <2> QED
      BY <1>2, <1>3, <2>2, <2>3 DEF CellNext, Cell
  <1> QED
    BY <1>4, <1>5

-----------------------------------------------------------------------------
(* The steps of the producer. *)

LEMMA ProducerLoads ==
    ASSUME IInv, NEW r, LoadRead(r)
    PROVE  /\ r \in Index /\ Minus(write_index, r) \in Used .. Capacity
           /\ Minus(write_index, r) <= Minus(write_index, seenRead)
           /\ seenRead' = r /\ orderedRead' = r
  <1>1. /\ write_index \in Index /\ seenRead \in Index /\ read_index \in Index
        /\ Minus(write_index, read_index) <= Minus(write_index, seenRead)
        /\ r \in Visible(seenRead, read_index)
    BY Distances DEF IInv, SeenIndices, LoadRead
  <1>2. /\ r \in Index /\ Used <= Minus(write_index, r)
        /\ Minus(write_index, r) <= Minus(write_index, seenRead)
    BY <1>1, LoadBehind DEF Used
  <1>3. Minus(write_index, r) \in Index
    BY <1>1, <1>2, MinusIs
  <1>4. seenRead' = r /\ orderedRead' = r
    BY DEF LoadRead, Synchronizes, ReadIndexStore, ReadIndexLoad
  <1> QED
    BY <1>2, <1>3, <1>4, Distances, CapacityAssumption DEF Index

LEMMA TryEmplaceKeepsIInv ==
    ASSUME IInv, NEW v \in Values, NEW r \in Index, TryEmplace(v, r)
    PROVE  IInv'
  <1>1. /\ UNCHANGED <<write_index, read_index, storage, consumerVars>>
        /\ seenRead' = r /\ orderedRead' = r /\ ppc = "idle" /\ ~clearing
        /\ ~room'
        /\ \/ ppc' = "idle" /\ item' = item
           \/ ppc' = "construct" /\ item' = v /\ Minus(write_index, r) # Capacity
    BY DEF TryEmplace, LoadRead, IsFull, Synchronizes, ReadIndexStore,
           ReadIndexLoad
  <1>2. r \in Index /\ Minus(write_index, r) \in Used .. Capacity
    BY ProducerLoads DEF TryEmplace
  <1>3. room' \in BOOLEAN
    BY DEF TryEmplace
  <1>4. TypeOK'
    BY <1>1, <1>2, <1>3 DEF IInv, TypeOK, consumerVars
  <1>5. SeenIndices'
    BY <1>1, <1>2, Distances, CapacityAssumption
       DEF IInv, SeenIndices, consumerVars, Used
  <1>6. Calls'
    BY <1>1, <1>2, Distances, CapacityAssumption
       DEF IInv, Calls, FrontGone, consumerVars, Used
  <1>7. StorageMatches'
    BY <1>1, StorageStaysForProducer DEF consumerVars
  <1> QED
    BY <1>4, <1>5, <1>6, <1>7 DEF IInv

LEMMA AskFullKeepsIInv ==
    ASSUME IInv, NEW r \in Index, AskFull(r)
    PROVE  IInv'
  <1>1. /\ UNCHANGED <<write_index, read_index, storage, ppc, item, consumerVars>>
        /\ seenRead' = r /\ orderedRead' = r /\ ppc = "idle" /\ ~clearing
    BY DEF AskFull, LoadRead, Synchronizes, ReadIndexStore, ReadIndexLoad
  <1>2. room' \in BOOLEAN /\ (room' => Minus(write_index, r) # Capacity)
    BY DEF AskFull, AnswersFull
  <1>3. r \in Index /\ Minus(write_index, r) \in Used .. Capacity
    BY ProducerLoads DEF AskFull
  <1>4. TypeOK'
    BY <1>1, <1>2, <1>3 DEF IInv, TypeOK, consumerVars
  <1>5. SeenIndices'
    BY <1>1, <1>3, Distances, CapacityAssumption
       DEF IInv, SeenIndices, consumerVars, Used
  <1>6. Calls'
    BY <1>1, <1>2, <1>3, Distances, CapacityAssumption
       DEF IInv, Calls, FrontGone, consumerVars, Used
  <1>7. StorageMatches'
    BY <1>1, StorageStaysForProducer DEF consumerVars
  <1> QED
    BY <1>4, <1>5, <1>6, <1>7 DEF IInv

LEMMA ConstructKeepsIInv ==
    ASSUME IInv, Construct
    PROVE  IInv'
  <1>1. /\ UNCHANGED <<write_index, read_index, item, room, seenRead,
                       orderedRead, consumerVars>>
        /\ ppc = "construct" /\ ppc' = "publish" /\ item \in Values
    BY DEF Construct, IInv, Calls
  <1>2. Used \in 0 .. Capacity - 1
    BY <1>1, Distances, CapacityAssumption DEF IInv, Calls
  <1>3. SlotOf(write_index) = SlotOf(read_index + Used)
    BY Distances, SlotAtDistance DEF Used
  <1>4. /\ CellNext(Used) = item
        /\ \A l \in 0 .. Capacity - 1 : l # Used => CellNext(l) = Cell(l)
    BY <1>1, <1>2, <1>3, OneCellWritten DEF Construct
  <1>5. TypeOK'
    BY <1>1 DEF Construct, IInv, TypeOK, consumerVars
  <1>6. SeenIndices'
    BY <1>1 DEF IInv, SeenIndices, consumerVars
  <1>7. Calls'
    BY <1>1 DEF IInv, Calls, FrontGone, consumerVars
  <1>8. StorageMatches'
    <2>1. Used' = Used /\ cpc' = cpc /\ (FrontGone' <=> FrontGone)
      BY <1>1 DEF Used, FrontGone, consumerVars
    <2>2. cpc = "release" => Used # 0
      BY SomethingThere, Distances DEF IInv, Calls
    <2>3. cpc' = "release" => CellNext(0) = Raw
      BY <1>2, <1>4, <2>1, <2>2, CapacityAssumption, StorageIs DEF IInv
    <2>4. \A k \in 0 .. Used' - 1 :
            (k = 0 /\ FrontGone') \/ CellNext(k) \in Values
      BY <1>2, <1>4, <2>1, CapacityAssumption, StorageIs DEF IInv
    <2>5. \A k \in Used' .. Capacity - 1 :
            CellNext(k) = IF ppc' = "publish" /\ k = Used' THEN item' ELSE Raw
      BY <1>1, <1>2, <1>4, <2>1, CapacityAssumption, StorageIs DEF IInv
    <2> QED
      BY <2>3, <2>4, <2>5, StorageIsNext
  <1> QED
    BY <1>5, <1>6, <1>7, <1>8 DEF IInv

LEMMA PublishKeepsIInv ==
    ASSUME IInv, Publish
    PROVE  IInv'
  <1>1. /\ UNCHANGED <<read_index, storage, room, seenRead, orderedRead,
                       consumerVars>>
        /\ ppc = "publish" /\ ppc' = "idle" /\ item \in Values /\ item' = Raw
        /\ write_index' = Succ(write_index) /\ ~room
    BY DEF Publish, IInv, Calls
  <1>2. Minus(write_index, seenRead) < Capacity /\ Used \in 0 .. Capacity - 1
    BY <1>1, Distances, CapacityAssumption DEF IInv, Calls
  <1>3. /\ write_index' \in Index
        /\ Minus(write_index', read_index) = Used + 1
        /\ Minus(write_index', seenRead) = Minus(write_index, seenRead) + 1
    BY <1>1, <1>2, Distances, SuccIs, StepAhead, CapacityAssumption DEF Used
  <1>4. TypeOK'
    BY <1>1, <1>2, <1>3, CapacityAssumption DEF IInv, TypeOK, consumerVars
  <1>5. SeenIndices'
    BY <1>1, <1>2, <1>3, Distances, CapacityAssumption
       DEF IInv, SeenIndices, consumerVars
  <1>6. Calls'
    BY <1>1 DEF IInv, Calls, FrontGone, consumerVars
  <1>7. StorageMatches'
    <2>1. /\ Used' = Used + 1 /\ cpc' = cpc /\ (FrontGone' <=> FrontGone)
          /\ \A k : CellNext(k) = Cell(k)
      BY <1>1, <1>3 DEF Used, FrontGone, consumerVars, Cell, CellNext
    <2>2. \A k \in 0 .. Used' - 1 :
            (k = 0 /\ FrontGone') \/ CellNext(k) \in Values
      BY <1>1, <1>2, <2>1, CapacityAssumption, StorageIs DEF IInv
    <2>3. \A k \in Used' .. Capacity - 1 : CellNext(k) = Raw
      BY <1>1, <1>2, <2>1, CapacityAssumption, StorageIs DEF IInv
    <2> QED
      BY <1>1, <2>1, <2>2, <2>3, StorageIs, StorageIsNext DEF IInv
  <1> QED
    BY <1>4, <1>5, <1>6, <1>7 DEF IInv

-----------------------------------------------------------------------------
(* The steps of the consumer. *)

LEMMA ConsumerLoads ==
    ASSUME IInv, NEW w, LoadWrite(w)
    PROVE  /\ w \in Index
           /\ Minus(w, read_index) \in Minus(seenWrite, read_index) .. Used
           /\ seenWrite' = w /\ orderedWrite' = w
  <1>1. /\ write_index \in Index /\ seenWrite \in Index /\ read_index \in Index
        /\ Minus(seenWrite, read_index) <= Minus(write_index, read_index)
        /\ w \in Visible(seenWrite, write_index)
    BY Distances DEF IInv, SeenIndices, LoadWrite
  <1>2. /\ w \in Index /\ Minus(w, read_index) <= Used
        /\ Minus(seenWrite, read_index) <= Minus(w, read_index)
    BY <1>1, LoadAhead DEF Used
  <1>3. Minus(w, read_index) \in Index
    BY <1>1, <1>2, MinusIs
  <1>4. seenWrite' = w /\ orderedWrite' = w
    BY DEF LoadWrite, Synchronizes, WriteIndexStore, WriteIndexLoad
  <1> QED
    BY <1>2, <1>3, <1>4, Distances, CapacityAssumption DEF Index

\* The loads of try_pop, empty() and the loop in clear().
LEMMA LoadKeepsIInv ==
    ASSUME IInv, NEW w, LoadWrite(w),
           UNCHANGED <<write_index, read_index, storage, producerVars, got>>,
           cpc \in {"idle", "clear"}, cpc' \in {"idle", "move", "destroy"},
           clearing' \in BOOLEAN, some' \in BOOLEAN,
           cpc' # "idle" \/ some' => read_index # w,
           cpc' # "idle" => ~some',
           clearing' <=> cpc' = "destroy",
           clearing' => clearing
    PROVE  IInv'
  <1>1. /\ w \in Index /\ seenWrite' = w /\ orderedWrite' = w
        /\ Minus(w, read_index) <= Used
    BY ConsumerLoads, Distances, CapacityAssumption DEF Index
  <1>2. TypeOK'
    BY <1>1 DEF IInv, TypeOK, producerVars
  <1>3. SeenIndices'
    BY <1>1 DEF IInv, SeenIndices, producerVars, Used
  <1>4. Calls'
    BY <1>1 DEF IInv, Calls, FrontGone, producerVars
  <1>5. StorageMatches'
    BY StorageStays DEF producerVars, IInv, Calls, FrontGone
  <1> QED
    BY <1>2, <1>3, <1>4, <1>5 DEF IInv

LEMMA TryPopKeepsIInv ==
    ASSUME IInv, NEW w \in Index, TryPop(w)
    PROVE  IInv'
  <1>1. /\ LoadWrite(w) /\ cpc = "idle" /\ clearing' = clearing
        /\ UNCHANGED <<write_index, read_index, storage, producerVars, got>>
        /\ cpc' = IF read_index = w THEN "idle" ELSE "move"
    BY DEF TryPop
  <1>2. some' \in BOOLEAN /\ ~some'
    BY DEF TryPop
  <1>3. clearing' \in BOOLEAN /\ ~clearing'
    BY <1>1 DEF IInv, TypeOK, Calls
  <1> QED
    BY <1>1, <1>2, <1>3, LoadKeepsIInv

LEMMA AskEmptyKeepsIInv ==
    ASSUME IInv, NEW w \in Index, AskEmpty(w)
    PROVE  IInv'
  <1>1. /\ LoadWrite(w) /\ cpc = "idle" /\ cpc' = "idle" /\ clearing' = clearing
        /\ UNCHANGED <<write_index, read_index, storage, producerVars, got>>
    BY DEF AskEmpty
  <1>2. some' \in BOOLEAN /\ (some' => read_index # w)
    BY DEF AskEmpty, AnswersEmpty
  <1>3. clearing' \in BOOLEAN /\ ~clearing'
    BY <1>1 DEF IInv, TypeOK, Calls
  <1> QED
    BY <1>1, <1>2, <1>3, LoadKeepsIInv

LEMMA ClearLoopKeepsIInv ==
    ASSUME IInv, NEW w \in Index, ClearLoop(w)
    PROVE  IInv'
  <1>1. /\ LoadWrite(w) /\ cpc = "clear" /\ clearing
        /\ UNCHANGED <<write_index, read_index, storage, producerVars, got>>
    BY DEF ClearLoop, IInv, Calls
  <1>2. some' \in BOOLEAN /\ ~some'
    BY DEF ClearLoop, IInv, TypeOK, Calls
  <1>3. \/ read_index = w /\ cpc' = "idle" /\ clearing' = FALSE
        \/ read_index # w /\ cpc' = "destroy" /\ clearing' = clearing
    BY DEF ClearLoop
  <1>4. clearing \in BOOLEAN
    BY DEF IInv, TypeOK
  <1> QED
    BY <1>1, <1>2, <1>3, <1>4, LoadKeepsIInv

LEMMA ClearKeepsIInv ==
    ASSUME IInv, Clear
    PROVE  IInv'
  <1>1. /\ UNCHANGED <<write_index, read_index, storage, producerVars, got>>
        /\ cpc = "idle" /\ ppc = "idle" /\ cpc' = "clear" /\ clearing'
        /\ seenWrite' = write_index /\ orderedWrite' = write_index /\ ~some'
    BY DEF Clear
  <1>2. clearing' \in BOOLEAN /\ some' \in BOOLEAN
    BY DEF Clear
  <1>3. TypeOK'
    BY <1>1, <1>2 DEF IInv, TypeOK, producerVars
  <1>4. SeenIndices'
    BY <1>1, Distances DEF IInv, SeenIndices, producerVars, Used
  <1>5. Calls'
    BY <1>1 DEF IInv, Calls, FrontGone, producerVars
  <1>6. StorageMatches'
    BY <1>1, StorageStays DEF producerVars, IInv, Calls, FrontGone
  <1> QED
    BY <1>3, <1>4, <1>5, <1>6 DEF IInv

LEMMA FrontCell == ASSUME IInv PROVE SlotOf(read_index) = SlotOf(read_index + 0)
  BY Distances DEF Index

\* MoveOut and Destroy: only the front slot changes, and its object is gone.
LEMMA FrontLeaves ==
    ASSUME IInv, NEW v \in {Raw, Moved}, cpc \in {"move", "destroy"},
           UNCHANGED <<write_index, read_index, producerVars, clearing, some,
                       seenWrite, orderedWrite>>,
           storage' = [storage EXCEPT ![SlotOf(read_index)] = v],
           cpc' \in {"destroy", "release"}, FrontGone',
           cpc' = "release" => v = Raw,
           got' \in Values
    PROVE  IInv'
  <1>1. /\ seenWrite # read_index /\ Used \in 1 .. Capacity /\ ~some
    BY SomethingThere, Distances DEF IInv, Calls
  <1>2. /\ CellNext(0) = v
        /\ \A l \in 0 .. Capacity - 1 : l # 0 => CellNext(l) = Cell(l)
    <2>1. 0 \in 0 .. Capacity - 1
      BY CapacityAssumption
    <2> QED
      BY <2>1, FrontCell, OneCellWritten
  <1>3. TypeOK'
    BY DEF IInv, TypeOK, producerVars
  <1>4. SeenIndices'
    BY DEF IInv, SeenIndices, producerVars
  <1>5. clearing' => cpc' \in {"clear", "destroy", "release"}
    BY DEF FrontGone
  <1>6. Calls'
    BY <1>1, <1>5, StorageAssumption DEF IInv, Calls, FrontGone, producerVars
  <1>7. StorageMatches'
    <2>1. Used' = Used /\ ppc' = ppc /\ item' = item
      BY DEF Used, producerVars
    <2>2. \A k \in 0 .. Used' - 1 :
            (k = 0 /\ FrontGone') \/ CellNext(k) \in Values
      BY <1>1, <1>2, <2>1, CapacityAssumption, StorageIs DEF IInv
    <2>3. \A k \in Used' .. Capacity - 1 :
            CellNext(k) = IF ppc' = "publish" /\ k = Used' THEN item' ELSE Raw
      BY <1>1, <1>2, <2>1, CapacityAssumption, StorageIs DEF IInv
    <2> QED
      BY <1>2, <2>2, <2>3, StorageIsNext
  <1> QED
    BY <1>3, <1>4, <1>6, <1>7 DEF IInv

\* The front object is there until it has left.
LEMMA FrontObject ==
    ASSUME IInv, cpc = "move" \/ (cpc = "destroy" /\ clearing)
    PROVE  storage[SlotOf(read_index)] \in Values /\ ~FrontGone
  <1>1. Used >= 1 /\ Used \in Nat
    BY SomethingThere, Distances, CapacityAssumption DEF IInv, Calls
  <1>2. ~FrontGone
    BY DEF FrontGone
  <1>3. Cell(0) \in Values
    BY <1>1, <1>2, StorageIs DEF IInv
  <1> QED
    BY <1>2, <1>3, FrontCell DEF Cell

LEMMA MoveOutKeepsIInv ==
    ASSUME IInv, MoveOut
    PROVE  IInv'
  <1>1. storage[SlotOf(read_index)] \in Values
    BY FrontObject DEF MoveOut
  <1>2. /\ UNCHANGED <<write_index, read_index, producerVars, clearing, some,
                       seenWrite, orderedWrite>>
        /\ cpc = "move" /\ cpc' = "destroy" /\ ~clearing
        /\ storage' = [storage EXCEPT ![SlotOf(read_index)] = Moved]
        /\ got' = storage[SlotOf(read_index)]
    BY DEF MoveOut, IInv, Calls
  <1>3. FrontGone'
    BY <1>2 DEF FrontGone
  <1> QED
    BY <1>1, <1>2, <1>3, FrontLeaves

LEMMA DestroyKeepsIInv ==
    ASSUME IInv, Destroy
    PROVE  IInv'
  <1>1. /\ UNCHANGED <<write_index, read_index, producerVars, clearing, some,
                       seenWrite, orderedWrite>>
        /\ cpc = "destroy" /\ cpc' = "release"
        /\ storage' = [storage EXCEPT ![SlotOf(read_index)] = Raw]
        /\ got' = IF clearing THEN storage[SlotOf(read_index)] ELSE got
    BY DEF Destroy
  <1>2. got' \in Values
    <2>1. CASE clearing
      BY <1>1, <2>1, FrontObject
    <2>2. CASE ~clearing
      BY <1>1, <2>2 DEF IInv, TypeOK, Calls, FrontGone
    <2> QED
      BY <2>1, <2>2
  <1>3. FrontGone'
    BY <1>1 DEF FrontGone
  <1> QED
    BY <1>1, <1>2, <1>3, FrontLeaves

\* When read_index moves on, each slot is one nearer.
LEMMA CellsShift ==
    ASSUME IInv, read_index' = Succ(read_index), storage' = storage,
           NEW k \in 0 .. Capacity - 1
    PROVE  CellNext(k) = IF k = Capacity - 1 THEN Cell(0) ELSE Cell(k + 1)
  <1>1. SlotOf(Succ(read_index) + k) = SlotOf((read_index + 1) + k)
    <2>1. CASE read_index + 1 < Modulus
      BY <2>1, Distances, SuccIs
    <2>2. CASE ~(read_index + 1 < Modulus)
      <3>1. /\ Succ(read_index) = 0 /\ k \in Nat
            /\ (read_index + 1) + k = k + Modulus
        BY <2>2, Distances, SuccIs, CapacityAssumption DEF Index
      <3>2. Succ(read_index) + k = k
        BY <3>1
      <3> QED
        BY <3>1, <3>2, SlotOfWrapped
    <2> QED
      BY <2>1, <2>2
  <1>2. CASE k = Capacity - 1
    <2>1. (read_index + 1) + k = read_index + Capacity /\ read_index \in Nat
      BY <1>2, Distances, CapacityAssumption DEF Index
    <2>2. SlotOf(read_index + Capacity) = SlotOf(read_index)
      BY <2>1, CapacityAssumption, NextRoundSameCell DEF SlotOf
    <2> QED
      BY <1>1, <1>1, <1>2, <2>1, <2>2, FrontCell DEF CellNext, Cell
  <1>3. CASE k # Capacity - 1
    <2>1. (read_index + 1) + k = read_index + (k + 1)
      BY Distances, CapacityAssumption DEF Index
    <2> QED
      BY <1>1, <1>1, <1>3, <2>1 DEF CellNext, Cell
  <1> QED
    BY <1>2, <1>3

LEMMA ReleaseKeepsIInv ==
    ASSUME IInv, Release
    PROVE  IInv'
  <1>1. /\ UNCHANGED <<write_index, storage, producerVars, clearing, some,
                       seenWrite, orderedWrite>>
        /\ cpc = "release" /\ got' = Raw /\ read_index' = Succ(read_index)
        /\ cpc' = IF clearing THEN "clear" ELSE "idle"
    BY DEF Release, NextRead
  <1>2. /\ seenWrite # read_index /\ Used \in 1 .. Capacity /\ ~some
        /\ Minus(seenWrite, read_index) >= 1
    BY <1>1, SomethingThere, Distances DEF IInv, Calls
  <1>3. /\ read_index' \in Index
        /\ Minus(write_index, read_index') = Used - 1
        /\ Minus(seenWrite, read_index') = Minus(seenWrite, read_index) - 1
    <2>1. write_index # read_index
      <3>1. Minus(read_index, read_index) = 0
        BY Distances, MinusIs DEF Index
      <3> QED
        BY <1>2, <3>1 DEF Used
    <2> QED
      BY <1>1, <1>2, <2>1, Distances, SuccIs, StepCloser DEF Used
  <1>4. TypeOK'
    BY <1>1, <1>2, <1>3, CapacityAssumption DEF IInv, TypeOK, producerVars
  <1>5. SeenIndices'
    BY <1>1, <1>2, <1>3, Distances, CapacityAssumption
       DEF IInv, SeenIndices, producerVars, Used
  <1>6. ~FrontGone'
    BY <1>1 DEF FrontGone
  <1>7. Calls'
    BY <1>1, <1>2, <1>6 DEF IInv, Calls, producerVars
  <1>8. StorageMatches'
    <2>1. Used' = Used - 1 /\ ppc' = ppc /\ item' = item
      BY <1>1, <1>3 DEF Used, producerVars
    <2>2. \A k \in 0 .. Capacity - 1 :
            CellNext(k) = IF k = Capacity - 1 THEN Cell(0) ELSE Cell(k + 1)
      BY <1>1, CellsShift
    <2>3. \A k \in 0 .. Used' - 1 : CellNext(k) \in Values
      <3>1. ASSUME NEW k \in 0 .. Used' - 1
            PROVE  CellNext(k) \in Values
        <4>1. /\ k \in 0 .. Capacity - 1 /\ k # Capacity - 1
              /\ k + 1 \in 0 .. Used - 1 /\ k + 1 # 0
          BY <1>2, <2>1, CapacityAssumption
        <4> QED
          BY <2>2, <4>1, StorageIs DEF IInv
      <3> QED
        BY <3>1
    <2>4. ASSUME NEW k \in Used' .. Capacity - 1
          PROVE  CellNext(k) = IF ppc' = "publish" /\ k = Used' THEN item' ELSE Raw
      <3>1. k \in 0 .. Capacity - 1
        BY <1>2, <2>1, CapacityAssumption
      <3>2. CASE k = Capacity - 1
        <4>1. Cell(0) = Raw
          BY <1>1, StorageIs DEF IInv
        <4>2. ~(ppc' = "publish" /\ k = Used')
          BY <1>2, <2>1, <3>2, Distances, CapacityAssumption DEF IInv, Calls
        <4> QED
          BY <2>2, <3>1, <3>2, <4>1, <4>2
      <3>3. CASE k # Capacity - 1
        <4>1. k + 1 \in Used .. Capacity - 1 /\ (k + 1 = Used <=> k = Used')
          BY <1>2, <2>1, <3>1, <3>3, CapacityAssumption
        <4> QED
          BY <2>1, <2>2, <3>1, <3>3, <4>1, StorageIs DEF IInv
      <3> QED
        BY <3>2, <3>3
    <2>5. cpc' # "release"
      BY <1>1
    <2> QED
      BY <2>3, <2>4, <2>5, StorageIsNext
  <1> QED
    BY <1>4, <1>5, <1>7, <1>8 DEF IInv

-----------------------------------------------------------------------------
(* The theorems. *)

LEMMA InitIInv == Init => IInv
  <1> SUFFICES ASSUME Init PROVE IInv
    OBVIOUS
  <1>1. 0 \in Index /\ Minus(0, 0) = 0
    <2>1. 0 \in Index
      BY CapacityAssumption DEF Index
    <2> QED
      BY <2>1, MinusIs
  <1>2. TypeOK
    <2>1. storage \in [Slots -> Values \cup {Raw, Moved}]
      BY DEF Init
    <2>2. {write_index, read_index, seenRead, orderedRead, seenWrite,
           orderedWrite} \subseteq Index
      BY <1>1 DEF Init
    <2>3. {clearing, room, some} \subseteq BOOLEAN
      BY Zenon DEF Init
    <2>4. Minus(write_index, read_index) <= Capacity
      BY <1>1, CapacityAssumption DEF Init
    <2>5. ppc = "idle" /\ item = Raw /\ cpc = "idle" /\ got = Raw
      BY DEF Init
    <2> QED
      BY <2>1, <2>2, <2>3, <2>4, <2>5 DEF TypeOK
  <1>3. SeenIndices
    BY <1>1, CapacityAssumption DEF Init, SeenIndices
  <1>4. Calls
    BY <1>1, CapacityAssumption DEF Init, Calls, FrontGone
  <1>5. StorageMatches
    <2>1. Used = 0 /\ \A k \in 0 .. Capacity - 1 : Cell(k) = Raw
      BY <1>1, SlotInSlots, CapacityAssumption DEF Init, Used, Cell
    <2> QED
      BY <2>1, StorageIs, CapacityAssumption DEF Init
  <1> QED
    BY <1>2, <1>3, <1>4, <1>5 DEF IInv

LEMMA NextKeepsIInv == IInv /\ [Next]_vars => IInv'
  <1> SUFFICES ASSUME IInv, [Next]_vars PROVE IInv'
    OBVIOUS
  <1>1. CASE Produce
    BY <1>1, TryEmplaceKeepsIInv, ConstructKeepsIInv, PublishKeepsIInv
       DEF Produce
  <1>2. CASE Pop
    BY <1>2, TryPopKeepsIInv, ClearLoopKeepsIInv, MoveOutKeepsIInv,
       DestroyKeepsIInv, ReleaseKeepsIInv DEF Pop
  <1>3. CASE Clear
    BY <1>3, ClearKeepsIInv
  <1>4. CASE Ask
    BY <1>4, AskFullKeepsIInv, AskEmptyKeepsIInv DEF Ask
  <1>5. CASE UNCHANGED vars
    BY <1>5 DEF vars, producerVars, consumerVars, IInv, TypeOK, SeenIndices,
                Calls, FrontGone, StorageMatches, Cell
  <1> QED
    BY <1>1, <1>2, <1>3, <1>4, <1>5 DEF Next

\* The inductive invariant holds in every reachable state.
THEOREM InvariantHolds == Spec => []IInv
  BY InitIInv, NextKeepsIInv, PTL DEF Spec

\* Each variable has its type, and the indices are never more than Capacity
\* apart.
THEOREM TypeCorrect == Spec => []TypeOK
  <1>1. IInv => TypeOK
    BY DEF IInv
  <1> QED
    BY <1>1, InvariantHolds, PTL

\* The producer constructs only in raw storage; the consumer moves from, and
\* clear() destroys, only complete objects; also across the wrap-around.
THEOREM StorageIsSafe == Spec => []StorageSafe
  <1>1. IInv => StorageSafe
    <2> SUFFICES ASSUME IInv PROVE StorageSafe
      OBVIOUS
    <2>1. ASSUME ppc = "construct"
          PROVE  storage[SlotOf(write_index)] = Raw
      <3>1. Used \in 0 .. Capacity - 1
        BY <2>1, Distances, CapacityAssumption DEF IInv, Calls
      <3>2. Cell(Used) = Raw
        BY <2>1, <3>1, StorageIs DEF IInv
      <3>3. SlotOf(write_index) = SlotOf(read_index + Used)
        BY Distances, SlotAtDistance DEF Used
      <3> QED
        BY <3>2, <3>3 DEF Cell
    <2> QED
      BY <2>1, FrontObject DEF StorageSafe, IInv
  <1> QED
    BY <1>1, InvariantHolds, PTL

\* Conflicting accesses of the two threads to a slot are ordered by
\* happens-before, whatever old index values their loads return.
THEOREM NoDataRace == Spec => []AccessesOrdered
  <1>1. IInv => AccessesOrdered
    <2> SUFFICES ASSUME IInv PROVE AccessesOrdered
      OBVIOUS
    <2>1. orderedRead = seenRead /\ orderedWrite = seenWrite
      BY DEF IInv, SeenIndices
    <2>2. ppc = "construct" => Minus(write_index, seenRead) < Capacity
      BY DEF IInv, Calls
    <2>3. ASSUME cpc \in {"move", "destroy"}
          PROVE  Minus(seenWrite, read_index) \in 1 .. Capacity
      BY <2>3, SomethingThere, Distances, CapacityAssumption DEF IInv, Calls
    <2> QED
      BY <2>1, <2>2, <2>3 DEF AccessesOrdered
  <1> QED
    BY <1>1, InvariantHolds, PTL

\* After full() has answered FALSE to the producer, or empty() to the consumer,
\* that stays its answer until the thread itself has pushed or popped.
THEOREM AnswersStand == Spec => AnswerStands
  <1> DEFINE A == /\ room /\ ppc = "idle" /\ ppc' = "idle" => room'
                  /\ some /\ cpc = "idle" /\ cpc' = "idle" => some'
  <1>1. IInv /\ [Next]_vars => [A]_vars
    <2> SUFFICES ASSUME IInv, Next PROVE A
      BY DEF vars
    <2>1. ASSUME NEW r, LoadRead(r), room
          PROVE  Minus(write_index, r) # Capacity
      BY <2>1, ProducerLoads, Distances, CapacityAssumption DEF IInv, Calls
    <2>2. ASSUME NEW w, LoadWrite(w), some
          PROVE  read_index # w
      <3>1. Minus(w, read_index) >= 1 /\ read_index \in Index
        BY <2>2, ConsumerLoads, SomethingThere, Distances, CapacityAssumption
           DEF IInv, Calls
      <3>2. Minus(read_index, read_index) = 0
        BY <3>1, MinusIs DEF Index
      <3> QED
        BY <3>1, <3>2
    <2>3. ASSUME NEW v \in Values, NEW r \in Index, TryEmplace(v, r)
          PROVE  A
      BY <2>1, <2>3 DEF TryEmplace, IsFull, consumerVars
    <2>4. ASSUME NEW r \in Index, AskFull(r)
          PROVE  A
      <3>1. room => room'
        BY <2>1, <2>4 DEF AskFull, AnswersFull
      <3> QED
        BY <2>4, <3>1 DEF AskFull, consumerVars
    <2>5. ASSUME NEW w \in Index, TryPop(w)
          PROVE  A
      BY <2>2, <2>5 DEF TryPop, producerVars
    <2>6. ASSUME NEW w \in Index, AskEmpty(w)
          PROVE  A
      <3>1. some => some'
        BY <2>2, <2>6 DEF AskEmpty, AnswersEmpty
      <3> QED
        BY <2>6, <3>1 DEF AskEmpty, producerVars
    <2>7. CASE Construct \/ Publish \/ MoveOut \/ Destroy \/ Release \/ Clear
      BY <2>7 DEF Construct, Publish, MoveOut, Destroy, Release, Clear,
                  consumerVars, producerVars
    <2>8. ASSUME NEW w \in Index, ClearLoop(w)
          PROVE  A
      BY <2>8 DEF ClearLoop, producerVars
    <2> QED
      BY <2>3, <2>4, <2>5, <2>6, <2>7, <2>8 DEF Next, Produce, Pop, Ask
  <1> QED
    BY <1>1, InvariantHolds, PTL DEF Spec, AnswerStands

-----------------------------------------------------------------------------
(* The abstract queue. *)

\* The value at place i, counted from the oldest.
Value(i) == IF i = 1 /\ got # Raw THEN got ELSE Cell(i - 1)
ValueNext(i) == IF i = 1 /\ got' # Raw THEN got' ELSE CellNext(i - 1)

ContentsOK ==
    /\ Contents \in Seq(Values) /\ Len(Contents) = Used
    /\ \A i \in 1 .. Used : Contents[i] = Value(i)

ContentsOKNext ==
    /\ Contents' \in Seq(Values) /\ Len(Contents') = Used'
    /\ \A i \in 1 .. Used' : Contents'[i] = ValueNext(i)

LEMMA ContentsAre == IInv => ContentsOK
  <1> SUFFICES ASSUME IInv PROVE ContentsOK
    OBVIOUS
  <1>1. Used \in Nat /\ read_index \in Nat
    BY Distances, CapacityAssumption DEF Index
  <1>2. Contents = [i \in 1 .. Used |-> Value(i)]
    <2>1. \A i \in 1 .. Used : (read_index + i) - 1 = read_index + (i - 1)
      BY <1>1
    <2> QED
      BY <2>1 DEF Contents, Used, Value, Cell
  <1>3. ASSUME NEW i \in 1 .. Used
        PROVE  Value(i) \in Values
    <2>1. got # Raw => got \in Values
      BY DEF IInv, TypeOK
    <2>2. i - 1 \in 0 .. Used - 1 /\ (i - 1 = 0 <=> i = 1)
      BY <1>1
    <2>3. FrontGone => got # Raw
      BY DEF IInv, Calls
    <2> QED
      BY <2>1, <2>2, <2>3, StorageIs DEF IInv, Value
  <1> QED
    BY <1>1, <1>2, <1>3 DEF ContentsOK

LEMMA ContentsAreNext == IInv' => ContentsOKNext
  <1>1. IInv' => ContentsOK'
    BY ContentsAre, PTL
  <1>2. ContentsOK' => ContentsOKNext
    BY DEF ContentsOK, ContentsOKNext, Value, ValueNext, Cell, CellNext, Used
  <1> QED
    BY <1>1, <1>2

\* Steps at which no value comes or leaves.
LEMMA ContentsStay ==
    ASSUME IInv, IInv', Used' = Used,
           \A i \in 1 .. Used : ValueNext(i) = Value(i)
    PROVE  Contents' = Contents
  <1>1. ContentsOK /\ ContentsOKNext
    BY ContentsAre, ContentsAreNext
  <1>2. Used \in Nat
    BY Distances, CapacityAssumption
  <1> QED
    BY <1>1, <1>2 DEF ContentsOK, ContentsOKNext

LEMMA PublishPuts ==
    ASSUME IInv, IInv', Publish
    PROVE  Promise!Put
  <1>1. ContentsOK /\ ContentsOKNext
    BY ContentsAre, ContentsAreNext
  <1>2. /\ ppc = "publish" /\ item \in Values /\ UNCHANGED got
        /\ \A k : CellNext(k) = Cell(k)
    BY DEF Publish, consumerVars, Cell, CellNext, IInv, Calls
  <1>3. Used \in 0 .. Capacity - 1 /\ Used' = Used + 1
    <2>1. Minus(write_index, seenRead) < Capacity
      BY <1>2 DEF IInv, Calls
    <2>2. Used \in 0 .. Capacity - 1
      BY <2>1, Distances, CapacityAssumption
    <2> QED
      BY <2>2, Distances, StepAhead, CapacityAssumption DEF Publish, Used
  <1>4. got # Raw => Used >= 1
    BY SomethingThere DEF IInv, Calls, FrontGone
  <1>5. Cell(Used) = item
    BY <1>2, <1>3, StorageIs, CapacityAssumption DEF IInv
  <1>6. \A i \in 1 .. Used : Contents'[i] = Contents[i]
    BY <1>1, <1>2, <1>3 DEF ContentsOK, ContentsOKNext, Value, ValueNext
  <1>7. Contents'[Used + 1] = item
    <2>1. Used + 1 \in 1 .. Used' /\ (Used + 1) - 1 = Used
      BY <1>3, CapacityAssumption
    <2>2. ~(Used + 1 = 1 /\ got' # Raw)
      BY <1>2, <1>3, <1>4, CapacityAssumption
    <2> QED
      BY <1>1, <1>2, <1>5, <2>1, <2>2 DEF ContentsOKNext, ValueNext
  <1>8. Contents' = Append(Contents, item)
    BY <1>1, <1>2, <1>3, <1>6, <1>7, CapacityAssumption
       DEF ContentsOK, ContentsOKNext
  <1> QED
    BY <1>1, <1>2, <1>3, <1>8, CapacityAssumption DEF ContentsOK, Promise!Put

LEMMA ReleaseTakes ==
    ASSUME IInv, IInv', Release
    PROVE  Promise!Take
  <1>1. ContentsOK /\ ContentsOKNext
    BY ContentsAre, ContentsAreNext
  <1>2. got' = Raw /\ read_index' = Succ(read_index) /\ storage' = storage
    BY DEF Release, NextRead
  <1>3. Used \in 1 .. Capacity /\ Used' = Used - 1
    <2>1. Used \in 1 .. Capacity
      BY SomethingThere, Distances, CapacityAssumption DEF Release, IInv, Calls
    <2>2. write_index # read_index
      <3>1. Minus(read_index, read_index) = 0
        BY Distances, MinusIs DEF Index
      <3> QED
        BY <2>1, <3>1 DEF Used
    <2> QED
      BY <1>2, <2>1, <2>2, Distances, StepCloser DEF Release, Used
  <1>4. ASSUME NEW i \in 1 .. Used - 1
        PROVE  Contents'[i] = Contents[i + 1]
    <2>1. /\ i \in 1 .. Used' /\ i + 1 \in 1 .. Used /\ i + 1 # 1
          /\ i - 1 \in 0 .. Capacity - 1 /\ i - 1 # Capacity - 1
          /\ (i - 1) + 1 = i /\ (i + 1) - 1 = i
      BY <1>3, CapacityAssumption
    <2>2. CellNext(i - 1) = Cell(i)
      BY <1>2, <2>1, CellsShift
    <2> QED
      BY <1>1, <1>2, <2>1, <2>2 DEF ContentsOK, ContentsOKNext, Value, ValueNext
  <1>5. Contents' = Tail(Contents) /\ Contents # <<>>
    BY <1>1, <1>3, <1>4, CapacityAssumption DEF ContentsOK, ContentsOKNext
  <1> QED
    BY <1>5 DEF Promise!Take

\* The queue is a bounded FIFO: a value enters it when write_index is stored
\* and leaves it when read_index is stored.
THEOREM KeepsThePromise == Spec => ImplementsBoundedFifo
  <1>1. Init => Promise!Init
    <2>1. Init => ContentsOK /\ Used = 0
      <3>1. Minus(0, 0) = 0
        BY MinusIs, CapacityAssumption DEF Index
      <3> QED
        BY <3>1, InitIInv, ContentsAre DEF Init, Used
    <2> QED
      BY <2>1 DEF ContentsOK, Promise!Init
  <1>2. IInv /\ IInv' /\ [Next]_vars => [Promise!Next]_Contents
    <2> SUFFICES ASSUME IInv, IInv', [Next]_vars
                 PROVE  Promise!Next \/ Contents' = Contents
      OBVIOUS
    <2>1. CASE Publish
      BY <2>1, PublishPuts DEF Promise!Next
    <2>2. CASE Release
      BY <2>2, ReleaseTakes DEF Promise!Next
    <2>3. CASE UNCHANGED <<write_index, read_index, storage, got>>
      BY <2>3, ContentsStay DEF Used, Value, ValueNext, Cell, CellNext
    <2>4. CASE Construct
      <3>1. /\ Used \in 0 .. Capacity - 1 /\ Used' = Used /\ got' = got
            /\ SlotOf(write_index) = SlotOf(read_index + Used)
        BY <2>4, Distances, SlotAtDistance, CapacityAssumption
           DEF Construct, IInv, Calls, Used, consumerVars
      <3>2. \A k \in 0 .. Capacity - 1 : k # Used => CellNext(k) = Cell(k)
        BY <2>4, <3>1, OneCellWritten DEF Construct
      <3>3. \A i \in 1 .. Used : i - 1 \in 0 .. Capacity - 1 /\ i - 1 # Used
        BY <3>1, CapacityAssumption
      <3> QED
        BY <3>1, <3>2, <3>3, ContentsStay DEF Value, ValueNext
    <2>5. ASSUME cpc \in {"move", "destroy"}, NEW v,
                 UNCHANGED <<write_index, read_index>>,
                 storage' = [storage EXCEPT ![SlotOf(read_index)] = v],
                 got' = IF FrontGone THEN got ELSE storage[SlotOf(read_index)],
                 got' # Raw
          PROVE  Contents' = Contents
      <3>1. /\ Used' = Used /\ Used \in Nat /\ Used <= Capacity
            /\ 0 \in 0 .. Capacity - 1
        BY <2>5, Distances, CapacityAssumption DEF Used
      <3>2. \A k \in 0 .. Capacity - 1 : k # 0 => CellNext(k) = Cell(k)
        BY <2>5, <3>1, FrontCell, OneCellWritten
      <3>3. Value(1) = got'
        BY <2>5, FrontCell DEF IInv, Calls, Value, Cell
      <3>4. \A i \in 1 .. Used : i # 1 => i - 1 \in 0 .. Capacity - 1 /\ i - 1 # 0
        BY <3>1, CapacityAssumption
      <3> QED
        BY <2>5, <3>1, <3>2, <3>3, <3>4, ContentsStay DEF Value, ValueNext
    <2>6. CASE MoveOut
      BY <2>5, <2>6, FrontObject, StorageAssumption DEF MoveOut
    <2>7. CASE Destroy
      <3>1. FrontGone <=> ~clearing
        BY <2>7 DEF Destroy, FrontGone
      <3>2. got' = IF FrontGone THEN got ELSE storage[SlotOf(read_index)]
        BY <2>7, <3>1 DEF Destroy
      <3>3. got' # Raw
        BY <2>7, <3>1, <3>2, FrontObject, StorageAssumption
           DEF Destroy, IInv, Calls
      <3> QED
        BY <2>5, <2>7, <3>2, <3>3 DEF Destroy
    <2> QED
      BY <2>1, <2>2, <2>3, <2>4, <2>6, <2>7
         DEF Next, Produce, Pop, Ask, TryEmplace, AskFull, TryPop, AskEmpty,
             ClearLoop, Clear, vars, producerVars, consumerVars
  <1> QED
    BY <1>1, <1>2, InvariantHolds, PTL DEF Spec, ImplementsBoundedFifo, Promise!Spec
=============================================================================
